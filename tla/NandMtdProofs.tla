---------------------------- MODULE NandMtdProofs ----------------------------
(***************************************************************************)
(* The MTD layer for a chip of any size and any page contents: its cache,  *)
(* read and chip-select invariants, and then what a call changes and what  *)
(* it reports: nothing but what it was asked for - a spare write past the  *)
(* end apart, which lands on another page - and the truth about it.        *)
(***************************************************************************)
EXTENDS NandMtd, TLAPS

-----------------------------------------------------------------------------
(* Pages and whole blocks *)

\* Multiplying keeps the order.
LEMMA TimesMonotone ==
  ASSUME NEW p \in Nat, NEW n \in Nat, NEW c \in Nat, p >= n
  PROVE  p * c >= n * c
<1>1. PICK k \in Nat : p = n + k
  <2>1. p - n \in Nat /\ p = n + (p - n)
    OBVIOUS
  <2> QED BY <2>1
<1>2. p * c = n * c + k * c
  BY <1>1
<1>3. k * c >= 0 /\ k * c \in Nat /\ n * c \in Nat
  OBVIOUS
<1> QED BY <1>2, <1>3

\* A remainder in range is the remainder, and its quotient the quotient.
LEMMA Remainder ==
  ASSUME NEW x \in Int, NEW b \in Nat \ {0}, NEW q \in Int, NEW r \in 0 .. (b - 1),
         x = b * q + r
  PROVE  x % b = r /\ x \div b = q
<1> DEFINE p == x \div b
           s == x % b
<1>1. x = b * p + s /\ p \in Int /\ s \in 0 .. (b - 1)
  OBVIOUS
<1> HIDE DEF p, s
<1>2. PICK d \in Int : d = q - p
  BY <1>1
<1>3. b * d = s - r
  <2>1. b * d = b * q - b * p
    BY <1>1, <1>2
  <2>2. b * p \in Int /\ b * q \in Int
    BY <1>1
  <2> QED BY <1>1, <2>1, <2>2
<1>4. d = 0
  <2>1. CASE d >= 1
    <3>1. b * d >= b
      BY <2>1
    <3> QED BY <3>1, <1>1, <1>3
  <2>2. CASE d <= -1
    <3>1. b * d <= -b
      BY <2>2
    <3> QED BY <3>1, <1>1, <1>3
  <2> QED BY <2>1, <2>2
<1>5. b * d = 0
  BY <1>4
<1>6. s = r
  BY <1>1, <1>3, <1>5
<1>7. p = q
  BY <1>1, <1>2, <1>4
<1> QED BY <1>6, <1>7 DEF p, s

\* A number without remainder is a multiple.
LEMMA Multiple ==
  ASSUME NEW a \in Int, NEW b \in Nat \ {0}, a % b = 0
  PROVE  \E q \in Int : a = b * q
<1> DEFINE q == a \div b
<1>1. a = b * q + (a % b) /\ q \in Int
  OBVIOUS
<1> HIDE DEF q
<1>2. a = b * q
  BY <1>1
<1> QED BY <1>1, <1>2

\* A block more, and a block less, are whole blocks again.
LEMMA BlockMore ==
  ASSUME NEW a \in Int, NEW b \in Nat \ {0}, a % b = 0
  PROVE  (a + b) % b = 0 /\ (a - b) % b = 0
<1>1. PICK q \in Int : a = b * q
  BY Multiple
<1>2. /\ q + 1 \in Int /\ q - 1 \in Int /\ a + b \in Int /\ a - b \in Int /\ 0 \in 0 .. (b - 1)
      /\ a + b = b * (q + 1) + 0 /\ a - b = b * (q - 1) + 0
  BY <1>1
<1>3. (a + b) % b = 0
  BY <1>2, Remainder
<1>4. (a - b) % b = 0
  BY <1>2, Remainder
<1> QED BY <1>3, <1>4

\* A whole number of blocks that is not none is at least one block, and the rest
\* after a block is whole blocks again.
LEMMA WholeBlocks ==
  ASSUME NEW a \in Nat \ {0}, NEW b \in Nat \ {0}, a % b = 0
  PROVE  a >= b /\ a - b \in Nat /\ (a - b) % b = 0
<1>1. a < b => a % b = a
  OBVIOUS
<1>2. a \in Int /\ b \in Nat \ {0}
  OBVIOUS
<1>3. (a - b) % b = 0
  BY <1>2, BlockMore
<1> QED BY <1>1, <1>3

\* Where the loops are: a read has given out the chunks it stepped over, and what
\* a write has left does not contain the cached page (it was invalidated for the
\* whole request before the first page went out).
ReadLoop ==
  op = "read" =>
    /\ col < COLS
    /\ page * COLS + col + left <= NPages * COLS
    /\ page = req.page + Len(buf)
    /\ col = IF Len(buf) = 0 THEN req.col ELSE 0
    /\ \A k \in 1 .. Len(buf) : left > 0 => buf[k].col + buf[k].n = COLS

WriteLoop ==
  op = "write" =>
    /\ req.page <= page /\ page + left <= NPages
    /\ ~(page <= pagebuf /\ pagebuf < page + left)

EraseLoop ==
  op = "erase" => page + left <= NPages /\ left % PPB = 0

IInv ==
  /\ TypeOK /\ CacheCoherent /\ SelectedOnlyInCalls
  /\ ReadLoop /\ WriteLoop /\ EraseLoop /\ ReadFaithful

-----------------------------------------------------------------------------
(* Arithmetic of page numbers and column addresses *)

\* A read that has columns left, within the device, is at a page of the device.
LEMMA ReadPageInRange ==
  ASSUME NEW p \in Nat, NEW c \in Nat, NEW k \in Nat \ {0},
         p * COLS + c + k <= NPages * COLS
  PROVE  p \in Page
<1>1. COLS \in Nat /\ NPages \in Nat
  BY SizeAssumption
<1>2. p * COLS \in Nat /\ NPages * COLS \in Nat
  BY <1>1
<1>3. p * COLS < NPages * COLS
  BY <1>2
<1>4. ~(p >= NPages)
  BY <1>1, <1>2, <1>3, TimesMonotone
<1> QED BY <1>1, <1>4 DEF Page

-----------------------------------------------------------------------------
\* After the scan the cache is empty and the chip deselected.
LEMMA InitIInv == Init => IInv
<1> SUFFICES ASSUME Init PROVE IInv
  OBVIOUS
<1>1. TypeOK
  BY SizeAssumption DEF Init, TypeOK, Contents, Ops, Results, NoReq
<1> QED
  BY <1>1 DEF IInv, Init, CacheCoherent, SelectedOnlyInCalls, ReadLoop, WriteLoop,
              EraseLoop, ReadFaithful

\* Between calls nothing but the type, the cache and the select line is said.
LEMMA IdleIInv ==
  ASSUME TypeOK', CacheCoherent', SelectedOnlyInCalls', op' \in {"none", "crashed"}
  PROVE  IInv'
BY DEF IInv, ReadLoop, WriteLoop, EraseLoop, ReadFaithful

\* What nand_release_device and the return leave.
LEMMA ReturnType ==
  ASSUME TypeOK, NEW r \in Results, Return(r)
  PROVE  /\ op' = "none" /\ nCE' = "H" /\ ret' \in Results
         /\ req' \in [page : Nat, col : Nat, len : Nat]
         /\ page' \in Nat /\ col' \in Nat /\ left' \in Nat /\ buf' \in Seq(Chunk)
BY DEF Return, NoReq

\* A request turned down changes nothing but the result.
LEMMA RejectIInv ==
  ASSUME IInv, op = "none", Reject
  PROVE  IInv'
<1>1. TypeOK'
  BY DEF IInv, TypeOK, Reject, Result, NoReq, chip, cache, Results
<1>2. CacheCoherent' /\ SelectedOnlyInCalls' /\ op' = "none"
  BY DEF IInv, Reject, Result, chip, cache, CacheCoherent, SelectedOnlyInCalls
<1> QED BY <1>1, <1>2, IdleIInv

\* nand_read_ecc: each turn of its loop gives out a chunk of the right page.
LEMMA ReadIInv == IInv /\ Read => IInv'
<1> SUFFICES ASSUME IInv, Read PROVE IInv'
  OBVIOUS
<1> USE DEF IInv
<1>1. ASSUME NEW p \in 0 .. NPages, NEW c \in 0 .. COLS - 1,
             NEW len \in 0 .. NPages * COLS, ReadCall(p, c, len)
      PROVE  IInv'
  <2>1. CASE Reject
    BY <1>1, <2>1, RejectIInv DEF ReadCall
  <2>2. CASE ~Reject
    <3>1. /\ op = "none" /\ p * COLS + c + len <= NPages * COLS
          /\ Enter("read", p, c, len) /\ ret' = "none" /\ UNCHANGED pagebuf
      BY <1>1, <2>2 DEF ReadCall
    <3>2. p \in Nat /\ c \in Nat /\ len \in Nat /\ c < COLS
      BY SizeAssumption
    <3>3. TypeOK'
      BY <3>1, <3>2 DEF Enter, TypeOK, chip, Results, Ops
    <3>4. CacheCoherent' /\ SelectedOnlyInCalls'
      BY <3>1 DEF Enter, CacheCoherent, SelectedOnlyInCalls, chip
    <3>5. ReadLoop' /\ ReadFaithful'
      BY <3>1, <3>2 DEF Enter, ReadLoop, ReadFaithful
    <3>6. WriteLoop' /\ EraseLoop'
      BY <3>1 DEF Enter, WriteLoop, EraseLoop
    <3> QED BY <3>3, <3>4, <3>5, <3>6
  <2> QED BY <2>1, <2>2
<1>2. CASE ReadPage
  <2> USE DEF ReadPage
  <2>1. page \in Page /\ page \in Nat /\ col \in Nat /\ left \in Nat
    BY <1>2, ReadPageInRange DEF ReadLoop, TypeOK
  <2>2. PICK n \in Nat :
          /\ n = (IF left < COLS - col THEN left ELSE COLS - col)
          /\ n <= left /\ (left - n > 0 => n = COLS - col)
    <3> DEFINE m == IF left < COLS - col THEN left ELSE COLS - col
    <3>1. COLS - col \in Nat
      BY <1>2, <2>1, SizeAssumption DEF ReadLoop
    <3>2. m \in Nat /\ m <= left /\ (left - m > 0 => m = COLS - col)
      BY <2>1, <3>1
    <3> QED BY <3>2
  <2>3. PICK v \in Contents :
          /\ v = data[page]
          /\ buf' = Append(buf, [val |-> v, col |-> col, n |-> n])
          /\ databuf' = (IF page = pagebuf \/ (col = 0 /\ left >= COLS) THEN databuf ELSE v)
    BY <1>2, <2>1, <2>2 DEF TypeOK, CacheCoherent, SelectedOnlyInCalls, ChipOut
  <2>4. /\ pagebuf' = (IF col = 0 /\ left >= COLS THEN pagebuf ELSE page)
        /\ left' = left - n /\ page' = page + 1 /\ col' = 0
        /\ UNCHANGED <<data, mark, nCE, op, req, ret, retlen, failaddr>>
    BY <1>2, <2>2 DEF chip
  <2>5. TypeOK'
    <3>1. buf' \in Seq(Chunk)
      BY <2>1, <2>2, <2>3 DEF TypeOK, Chunk
    <3>2. left' \in Nat /\ page' \in Nat /\ col' \in Nat
      BY <2>1, <2>2, <2>4
    <3>3. pagebuf' \in Page \cup {-1} /\ databuf' \in Contents
      BY <2>1, <2>3, <2>4 DEF TypeOK
    <3> QED BY <2>4, <3>1, <3>2, <3>3 DEF TypeOK
  <2>6. CacheCoherent' /\ SelectedOnlyInCalls'
    BY <2>1, <2>3, <2>4 DEF CacheCoherent, SelectedOnlyInCalls
  <2>7. /\ Len(buf') = Len(buf) + 1 /\ Len(buf) \in Nat
        /\ \A k \in 1 .. Len(buf) : buf'[k] = buf[k]
        /\ buf'[Len(buf) + 1] = [val |-> v, col |-> col, n |-> n]
    BY <2>3 DEF TypeOK
  <2>8. \A k \in 1 .. Len(buf') : k \in 1 .. Len(buf) \/ k = Len(buf) + 1
    BY <2>7
  <2>9. ReadLoop'
    <3>1. (page + 1) * COLS <= NPages * COLS
      <4>1. page + 1 <= NPages /\ page + 1 \in Nat /\ NPages \in Nat /\ COLS \in Nat
        BY <2>1, SizeAssumption DEF Page
      <4> QED BY <4>1, TimesMonotone
    <3>2. page' * COLS + col' + left' <= NPages * COLS
      <4>1. CASE left' = 0
        BY <2>1, <2>4, <3>1, <4>1, SizeAssumption
      <4>2. CASE left' # 0
        <5>1. n = COLS - col
          BY <2>1, <2>2, <2>4, <4>2
        <5>2. page' * COLS + col' + left' = page * COLS + col + left
          BY <2>1, <2>4, <5>1, SizeAssumption
        <5> QED BY <1>2, <5>2 DEF ReadLoop
      <4> QED BY <4>1, <4>2
    <3>3. page' = req'.page + Len(buf')
      BY <1>2, <2>1, <2>4, <2>7 DEF ReadLoop, TypeOK
    <3>4. \A k \in 1 .. Len(buf') : left' > 0 => buf'[k].col + buf'[k].n = COLS
      <4> SUFFICES ASSUME NEW k \in 1 .. Len(buf'), left' > 0
                   PROVE  buf'[k].col + buf'[k].n = COLS
        OBVIOUS
      <4>1. CASE k \in 1 .. Len(buf)
        BY <1>2, <2>1, <2>2, <2>4, <2>7, <4>1 DEF ReadLoop
      <4>2. CASE k = Len(buf) + 1
        BY <2>1, <2>2, <2>4, <2>7, <4>2, SizeAssumption
      <4> QED BY <2>8, <4>1, <4>2
    <3>5. col' < COLS /\ Len(buf') # 0
      BY <2>4, <2>7, SizeAssumption
    <3> QED BY <2>4, <3>2, <3>3, <3>4, <3>5 DEF ReadLoop
  <2>10. ReadFaithful'
    <3> SUFFICES ASSUME NEW k \in 1 .. Len(buf')
                 PROVE  /\ req.page + k - 1 \in Page
                        /\ buf'[k].val = data[req.page + k - 1]
                        /\ buf'[k].col = (IF k = 1 THEN req.col ELSE 0)
                        /\ k < Len(buf') => buf'[k].col + buf'[k].n = COLS
      BY <2>4 DEF ReadFaithful
    <3>1. CASE k \in 1 .. Len(buf)
      BY <1>2, <2>7, <3>1 DEF ReadFaithful, ReadLoop
    <3>2. CASE k = Len(buf) + 1
      <4>1. req.page + k - 1 = page
        BY <1>2, <2>1, <2>7, <3>2 DEF ReadLoop, TypeOK
      <4>2. col = (IF k = 1 THEN req.col ELSE 0)
        BY <1>2, <2>7, <3>2 DEF ReadLoop
      <4> QED BY <2>1, <2>3, <2>7, <3>2, <4>1, <4>2
    <3> QED BY <2>8, <3>1, <3>2
  <2>11. WriteLoop' /\ EraseLoop'
    BY <1>2, <2>4 DEF WriteLoop, EraseLoop
  <2> QED BY <2>5, <2>6, <2>9, <2>10, <2>11
<1>3. CASE ReadDone
  <2>1. Return("OK") /\ retlen' = req.len /\ UNCHANGED <<data, mark, pagebuf, databuf, failaddr>>
    BY <1>3 DEF ReadDone, chip, cache
  <2>2. TypeOK'
    BY <2>1, ReturnType DEF TypeOK, Results, Ops
  <2>3. CacheCoherent' /\ SelectedOnlyInCalls' /\ op' = "none"
    BY <2>1 DEF CacheCoherent, SelectedOnlyInCalls, Return
  <2> QED BY <2>2, <2>3, IdleIInv
<1> QED BY <1>1, <1>2, <1>3 DEF Read

\* nand_write_ecc: the cache was dropped for the whole request before.
LEMMA WriteIInv == IInv /\ Write => IInv'
<1> SUFFICES ASSUME IInv, Write PROVE IInv'
  OBVIOUS
<1> USE DEF IInv
<1>1. CASE WriteUnaligned
  BY <1>1, RejectIInv DEF WriteUnaligned
<1>2. ASSUME NEW p \in 0 .. NPages, NEW n \in 0 .. NPages, WriteCall(p, n)
      PROVE  IInv'
  <2>1. CASE Reject
    BY <1>2, <2>1, RejectIInv DEF WriteCall
  <2>2. CASE ~Reject
    <3>1. /\ op = "none" /\ p + n <= NPages /\ Enter("write", p, 0, n) /\ ret' = "EIO"
          /\ pagebuf' = IF p <= pagebuf /\ pagebuf < p + n THEN -1 ELSE pagebuf
          /\ p \in Nat /\ n \in Nat
      BY <1>2, <2>2, SizeAssumption DEF WriteCall, Invalidate
    <3>2. TypeOK'
      BY <3>1 DEF Enter, TypeOK, chip, Results, Ops
    <3>3. CacheCoherent' /\ SelectedOnlyInCalls'
      BY <3>1 DEF Enter, CacheCoherent, SelectedOnlyInCalls, chip
    <3>4. WriteLoop'
      BY <3>1 DEF Enter, WriteLoop, TypeOK, Page
    <3>5. ReadLoop' /\ ReadFaithful' /\ EraseLoop'
      BY <3>1 DEF Enter, ReadLoop, ReadFaithful, EraseLoop
    <3> QED BY <3>2, <3>3, <3>4, <3>5
  <2> QED BY <2>1, <2>2
<1>3. ASSUME op = "write", left > 0
      PROVE  /\ page \in Page /\ page + 1 \in Nat /\ left - 1 \in Nat
             /\ pagebuf # page
  BY <1>3, SizeAssumption DEF TypeOK, WriteLoop, Page
<1>4. ASSUME NEW d \in Data, WritePage(d)
      PROVE  IInv'
  <2>1. /\ op = "write" /\ left > 0 /\ ret' = "OK"
        /\ data' = [data EXCEPT ![page] = Programmed(data[page], d)]
        /\ page' = page + 1 /\ left' = left - 1
        /\ UNCHANGED <<mark, nCE, pagebuf, databuf, op, req, col, buf, failaddr>>
    BY <1>4 DEF WritePage, cache
  <2>2. TypeOK'
    <3>1. Programmed(data[page], d) \in Contents
      BY DEF Programmed, Contents
    <3>2. data' \in [Page -> Contents]
      BY <2>1, <3>1 DEF TypeOK
    <3>3. retlen' \in Nat
      <4>1. req.page \in Nat /\ req.page <= page
        BY <1>4, <2>1 DEF WriteLoop, TypeOK
      <4> QED BY <1>3, <1>4, <2>1, <4>1 DEF WritePage, Retlen, TypeOK
    <3> QED BY <1>3, <2>1, <3>2, <3>3 DEF TypeOK, Results
  <2>3. CacheCoherent' /\ SelectedOnlyInCalls'
    BY <1>3, <2>1 DEF CacheCoherent, SelectedOnlyInCalls, TypeOK
  <2>4. WriteLoop'
    BY <1>3, <2>1 DEF WriteLoop, TypeOK, Page
  <2>5. ReadLoop' /\ ReadFaithful' /\ EraseLoop'
    BY <2>1 DEF ReadLoop, ReadFaithful, EraseLoop
  <2> QED BY <2>2, <2>3, <2>4, <2>5
<1>5. ASSUME NEW spoilt \in BOOLEAN, WriteFails(spoilt)
      PROVE  IInv'
  <2>1. /\ op = "write" /\ left > 0 /\ Return("EIO")
        /\ data' = [data EXCEPT ![page] = IF spoilt THEN Mixed ELSE data[page]]
        /\ UNCHANGED <<mark, pagebuf, databuf, retlen, failaddr>>
    BY <1>5 DEF WriteFails, cache
  <2>2. TypeOK'
    BY <1>3, <2>1, ReturnType DEF TypeOK, Results, Ops, Contents
  <2>3. CacheCoherent' /\ SelectedOnlyInCalls' /\ op' = "none"
    BY <1>3, <2>1 DEF CacheCoherent, SelectedOnlyInCalls, Return, TypeOK
  <2> QED BY <2>2, <2>3, IdleIInv
<1>6. CASE WriteDone
  <2>1. Return(ret) /\ UNCHANGED <<data, mark, pagebuf, databuf, retlen, failaddr>>
    BY <1>6 DEF WriteDone, chip, cache
  <2>2. TypeOK'
    BY <2>1, ReturnType DEF TypeOK, Ops
  <2>3. CacheCoherent' /\ SelectedOnlyInCalls' /\ op' = "none"
    BY <2>1 DEF CacheCoherent, SelectedOnlyInCalls, Return
  <2> QED BY <2>2, <2>3, IdleIInv
<1> QED BY <1>1, <1>2, <1>4, <1>5, <1>6 DEF Write

\* nand_erase_nand: the cache is dropped block by block, before each erase.
LEMMA EraseIInv == IInv /\ Erase => IInv'
<1> SUFFICES ASSUME IInv, Erase PROVE IInv'
  OBVIOUS
<1> USE DEF IInv
<1>1. ASSUME NEW p \in 0 .. NPages, NEW n \in 0 .. NPages, EraseCall(p, n)
      PROVE  IInv'
  <2>1. CASE Reject
    BY <1>1, <2>1, RejectIInv DEF EraseCall
  <2>2. CASE ~Reject
    <3>1. /\ op = "none" /\ p + n <= NPages /\ n % PPB = 0
          /\ Enter("erase", p, 0, n) /\ ret' = "none" /\ UNCHANGED pagebuf
          /\ p \in Nat /\ n \in Nat
      BY <1>1, <2>2, SizeAssumption DEF EraseCall
    <3>2. TypeOK'
      BY <3>1 DEF Enter, TypeOK, chip, Results, Ops
    <3>3. CacheCoherent' /\ SelectedOnlyInCalls'
      BY <3>1 DEF Enter, CacheCoherent, SelectedOnlyInCalls, chip
    <3>4. ReadLoop' /\ ReadFaithful' /\ WriteLoop' /\ EraseLoop'
      BY <3>1 DEF Enter, ReadLoop, ReadFaithful, WriteLoop, EraseLoop
    <3> QED BY <3>2, <3>3, <3>4
  <2> QED BY <2>1, <2>2
<1>2. ASSUME op = "erase", left > 0, Invalidate(page, PPB)
      PROVE  /\ page \in Page /\ PPB \in Nat
             /\ pagebuf' \in Page \cup {-1}
             /\ pagebuf' # -1 => pagebuf' = pagebuf /\ pagebuf \notin BlockOf(page)
             /\ left >= PPB /\ left - PPB \in Nat /\ (left - PPB) % PPB = 0
  <2>1. left \in Nat \ {0} /\ PPB \in Nat \ {0} /\ left % PPB = 0
    BY <1>2, SizeAssumption DEF TypeOK, EraseLoop
  <2>2. left >= PPB /\ left - PPB \in Nat /\ (left - PPB) % PPB = 0
    BY <2>1, WholeBlocks
  <2>3. page \in Page
    BY <1>2, <2>1, SizeAssumption DEF TypeOK, EraseLoop, Page
  <2>4. /\ pagebuf' \in Page \cup {-1}
        /\ pagebuf' # -1 => pagebuf' = pagebuf /\ pagebuf \notin BlockOf(page)
    BY <1>2, <2>1, <2>3 DEF Invalidate, TypeOK, BlockOf
  <2> QED BY <2>1, <2>2, <2>3, <2>4
<1>3. CASE EraseBlock
  <2>1. /\ op = "erase" /\ left > 0 /\ Invalidate(page, PPB)
        /\ data' = [q \in Page |-> IF q \in BlockOf(page) THEN Erased ELSE data[q]]
        /\ mark' = [q \in Page |-> q \notin BlockOf(page) /\ mark[q]]
        /\ page' = page + PPB /\ left' = left - PPB
        /\ UNCHANGED <<nCE, databuf, op, req, col, buf, ret, retlen, failaddr>>
    BY <1>3 DEF EraseBlock
  <2>2. TypeOK'
    <3>1. data' \in [Page -> Contents]
      BY <2>1 DEF TypeOK, Contents
    <3>2. mark' \in [Page -> BOOLEAN]
      BY <2>1 DEF TypeOK
    <3>3. page' \in Nat /\ left' \in Nat
      BY <1>2, <2>1 DEF TypeOK
    <3> QED BY <1>2, <2>1, <3>1, <3>2, <3>3 DEF TypeOK
  <2>3. CacheCoherent' /\ SelectedOnlyInCalls'
    BY <1>2, <2>1 DEF CacheCoherent, SelectedOnlyInCalls, TypeOK
  <2>4. EraseLoop'
    BY <1>2, <2>1 DEF EraseLoop, TypeOK
  <2>5. ReadLoop' /\ ReadFaithful' /\ WriteLoop'
    BY <2>1 DEF ReadLoop, ReadFaithful, WriteLoop
  <2> QED BY <2>2, <2>3, <2>4, <2>5
<1>4. ASSUME NEW spoilt \in BOOLEAN, EraseFails(spoilt)
      PROVE  IInv'
  <2>1. /\ op = "erase" /\ left > 0 /\ Invalidate(page, PPB) /\ Return("EIO")
        /\ data' = [q \in Page |-> IF spoilt /\ q \in BlockOf(page) THEN Mixed ELSE data[q]]
        /\ failaddr' = page
        /\ UNCHANGED <<mark, databuf, retlen>>
    BY <1>4 DEF EraseFails
  <2>2. TypeOK'
    <3>1. data' \in [Page -> Contents]
      BY <2>1 DEF TypeOK, Contents
    <3> QED BY <1>2, <2>1, <3>1, ReturnType DEF TypeOK, Results, Ops
  <2>3. CacheCoherent' /\ SelectedOnlyInCalls' /\ op' = "none"
    BY <1>2, <2>1 DEF CacheCoherent, SelectedOnlyInCalls, Return, TypeOK
  <2> QED BY <2>2, <2>3, IdleIInv
<1>5. CASE EraseDone
  <2>1. Return("OK") /\ UNCHANGED <<data, mark, pagebuf, databuf, retlen, failaddr>>
    BY <1>5 DEF EraseDone, chip, cache
  <2>2. TypeOK'
    BY <2>1, ReturnType DEF TypeOK, Results, Ops
  <2>3. CacheCoherent' /\ SelectedOnlyInCalls' /\ op' = "none"
    BY <2>1 DEF CacheCoherent, SelectedOnlyInCalls, Return
  <2> QED BY <2>2, <2>3, IdleIInv
<1> QED BY <1>1, <1>3, <1>4, <1>5 DEF Erase

\* Spare-area writes and the bad-block calls.
LEMMA SpareIInv == IInv /\ Spare => IInv'
<1> SUFFICES ASSUME IInv, Spare PROVE IInv'
  OBVIOUS
<1> USE DEF IInv
<1>1. ASSUME NEW p \in SparePages, NEW nonff \in BOOLEAN, NEW ok \in BOOLEAN,
             WriteOob(p, nonff, ok)
      PROVE  IInv'
  <2>1. /\ op = "none" /\ op' = "none" /\ nCE' = nCE
        /\ pagebuf' = IF p = pagebuf THEN -1 ELSE pagebuf
        /\ UNCHANGED <<data, databuf, page, col, left, buf>>
        /\ req' = [page |-> p, col |-> 0, len |-> 1] /\ p \in Nat
        /\ ret' \in Results /\ retlen' \in Nat /\ failaddr' = -1
    BY <1>1, SparesAssumption DEF WriteOob, Result, Results
  <2>2. mark' \in [Page -> BOOLEAN]
    BY <1>1 DEF WriteOob, TypeOK
  <2>3. TypeOK' /\ CacheCoherent' /\ SelectedOnlyInCalls'
    BY <2>1, <2>2 DEF TypeOK, CacheCoherent, SelectedOnlyInCalls
  <2> QED BY <2>1, <2>3, IdleIInv
<1>2. CASE WriteOobReject
  BY <1>2, RejectIInv DEF WriteOobReject
<1>3. ASSUME NEW p \in 0 .. NPages + 1, BlockIsbad(p) \/ BlockMarkbad(p) \/ MarkbadCrash(p)
      PROVE  IInv'
  <2>1. IsBad(p) \in Results
    BY DEF IsBad, Results
  <2>2. TypeOK' /\ CacheCoherent' /\ SelectedOnlyInCalls' /\ op' \in {"none", "crashed"}
    BY <1>3, <2>1 DEF BlockIsbad, BlockMarkbad, MarkbadCrash, Result, NoReq, chip, cache, TypeOK,
                      CacheCoherent, SelectedOnlyInCalls, Results, Ops
  <2> QED BY <2>2, IdleIInv
<1> QED BY <1>1, <1>2, <1>3 DEF Spare

\* Every step keeps the invariant.
LEMMA NextIInv == IInv /\ [Next]_vars => IInv'
<1>1. IInv /\ UNCHANGED vars => IInv'
  BY DEF IInv, vars, TypeOK, CacheCoherent, SelectedOnlyInCalls, ReadLoop, WriteLoop,
         EraseLoop, ReadFaithful
<1> QED BY <1>1, ReadIInv, WriteIInv, EraseIInv, SpareIInv DEF Next

-----------------------------------------------------------------------------
\* The inductive invariant holds in every reachable state.
THEOREM Invariance == Spec => []IInv
BY InitIInv, NextIInv, PTL DEF Spec

\* The state of the MTD layer keeps its type.
THEOREM TypeCorrect == Spec => []TypeOK
<1>1. IInv => TypeOK
  BY DEF IInv
<1> QED BY <1>1, Invariance, PTL

\* On a chip of any size the one-page read cache never holds stale data.
THEOREM CacheIsCoherent == Spec => []CacheCoherent
<1>1. IInv => CacheCoherent
  BY DEF IInv
<1> QED BY <1>1, Invariance, PTL

\* On a chip of any size nand_read returns what the chip holds, cached or not.
THEOREM ReadsAreFaithful == Spec => []ReadFaithful
<1>1. IInv => ReadFaithful
  BY DEF IInv
<1> QED BY <1>1, Invariance, PTL

\* The chip is selected during a call and only then.
THEOREM SelectDiscipline == Spec => []SelectedOnlyInCalls
<1>1. IInv => SelectedOnlyInCalls
  BY DEF IInv
<1> QED BY <1>1, Invariance, PTL

-----------------------------------------------------------------------------
(* What a call changes and what it reports *)

\* How far a write is: the pages left are the rest of its request, *retlen is
\* behind the loop by at most the pages since a block boundary, and is the whole
\* request once all its pages are written.
WriteProgress ==
  op = "write" =>
    /\ page + left = req.page + req.len /\ req.page + retlen <= page
    /\ ret \in {"OK", "EIO"}
    /\ retlen % PPB = 0 \/ (req.page + retlen) % PPB = 0 \/ left = 0
    /\ ret = "OK" /\ left = 0 => retlen = req.len
    /\ ret # "OK" => retlen = 0

\* How far an erase is: whole blocks, and those behind it are blank.
EraseProgress ==
  op = "erase" =>
    /\ req.page <= page /\ page + left = req.page + req.len /\ page % PPB = 0
    /\ \A q \in Page : req.page <= q /\ q < page => data[q] = Erased /\ ~ mark[q]

Progress == WriteProgress /\ EraseProgress

-----------------------------------------------------------------------------
\* A step that does not leave a write or an erase under way keeps the progress.
LEMMA NoLoop ==
  ASSUME op' \notin {"write", "erase"}
  PROVE  Progress'
BY DEF Progress, WriteProgress, EraseProgress

\* No remainder is left of nothing.
LEMMA ZeroBlocks == 0 % PPB = 0
BY SizeAssumption

LEMMA WriteProgresses ==
  ASSUME IInv, Progress, Write
  PROVE  Progress'
<1> USE DEF IInv, Progress
<1>1. CASE WriteUnaligned
  BY <1>1, NoLoop DEF WriteUnaligned, Reject, Result
<1>2. ASSUME NEW p \in 0 .. NPages, NEW n \in 0 .. NPages, WriteCall(p, n)
      PROVE  Progress'
  <2>1. CASE Reject
    BY <1>2, <2>1, NoLoop DEF WriteCall, Reject, Result
  <2>2. CASE ~ Reject
    <3>1. /\ op' = "write" /\ req' = [page |-> p, col |-> 0, len |-> n] /\ page' = p
          /\ left' = n /\ retlen' = 0 /\ ret' = "EIO" /\ p \in Nat /\ n \in Nat
      BY <1>2, <2>2, SizeAssumption DEF WriteCall, Enter
    <3>2. req'.page = p /\ req'.len = n
      BY <3>1
    <3> QED BY <3>1, <3>2, ZeroBlocks DEF WriteProgress, EraseProgress
  <2> QED BY <2>1, <2>2
<1>3. ASSUME NEW d \in Data, WritePage(d)
      PROVE  Progress'
  <2>1. /\ op = "write" /\ left > 0 /\ page' = page + 1 /\ left' = left - 1 /\ ret' = "OK"
        /\ op' = op /\ req' = req /\ retlen' = Retlen
    BY <1>3 DEF WritePage
  <2>2. /\ page \in Nat /\ left \in Nat /\ req.page \in Nat /\ req.len \in Nat /\ retlen \in Nat
        /\ page + left = req.page + req.len /\ req.page + retlen <= page
        /\ retlen % PPB = 0 \/ (req.page + retlen) % PPB = 0
    BY <2>1 DEF TypeOK, WriteProgress
  <2>3. /\ page' + left' = req.page + req.len /\ req.page + retlen' <= page'
        /\ left' = 0 => retlen' = req.len
    BY <2>1, <2>2 DEF Retlen
  <2>4. retlen' % PPB = 0 \/ (req.page + retlen') % PPB = 0 \/ left' = 0
    <3>1. CASE left = 1
      BY <2>1, <3>1
    <3>2. CASE left # 1 /\ (page + 1) % PPB = 0
      <4>1. req.page + retlen' = page + 1
        BY <2>1, <2>2, <3>2 DEF Retlen
      <4> QED BY <3>2, <4>1
    <3>3. CASE left # 1 /\ (page + 1) % PPB # 0
      BY <2>1, <2>2, <3>3 DEF Retlen
    <3> QED BY <3>1, <3>2, <3>3
  <2> QED BY <2>1, <2>3, <2>4 DEF WriteProgress, EraseProgress
<1>4. ASSUME NEW spoilt \in BOOLEAN, WriteFails(spoilt)
      PROVE  Progress'
  BY <1>4, NoLoop DEF WriteFails, Return
<1>5. CASE WriteDone
  BY <1>5, NoLoop DEF WriteDone, Return
<1> QED BY <1>1, <1>2, <1>3, <1>4, <1>5 DEF Write

\* A turn of an erase is at a block it was asked for.
LEMMA EraseTurn ==
  ASSUME IInv, Progress, op = "erase", left > 0
  PROVE  /\ page \in Nat /\ left \in Nat /\ PPB \in Nat \ {0} /\ req.page \in Nat /\ req.len \in Nat
         /\ req.page <= page /\ page + PPB <= req.page + req.len
         /\ page % PPB = 0 /\ (page + PPB) % PPB = 0 /\ page + left = req.page + req.len
<1>1. /\ page \in Nat /\ left \in Nat \ {0} /\ PPB \in Nat \ {0} /\ req.page \in Nat /\ req.len \in Nat
      /\ left % PPB = 0
  BY SizeAssumption DEF IInv, TypeOK, EraseLoop
<1>2. req.page <= page /\ page + left = req.page + req.len /\ page % PPB = 0
  BY DEF Progress, EraseProgress
<1>3. left >= PPB
  BY <1>1, WholeBlocks
<1>4. page \in Int
  BY <1>1
<1>5. (page + PPB) % PPB = 0
  BY <1>1, <1>2, <1>4, BlockMore
<1> QED BY <1>1, <1>2, <1>3, <1>5

LEMMA EraseProgresses ==
  ASSUME IInv, Progress, Erase
  PROVE  Progress'
<1>1. ASSUME NEW p \in 0 .. NPages, NEW n \in 0 .. NPages, EraseCall(p, n)
      PROVE  Progress'
  <2>1. CASE Reject
    BY <1>1, <2>1, NoLoop DEF EraseCall, Reject, Result
  <2>2. CASE ~ Reject
    <3>1. /\ op' = "erase" /\ req' = [page |-> p, col |-> 0, len |-> n] /\ page' = p
          /\ left' = n /\ p \in Nat /\ n \in Nat /\ p % PPB = 0
      BY <1>1, <2>2, SizeAssumption DEF EraseCall, Enter
    <3>2. req'.page = p /\ req'.len = n
      BY <3>1
    <3>3. \A q \in Page : ~ (p <= q /\ q < p)
      BY <3>1, SizeAssumption DEF Page
    <3> QED BY <3>1, <3>2, <3>3 DEF Progress, WriteProgress, EraseProgress, Page
  <2> QED BY <2>1, <2>2
<1>2. CASE EraseBlock
  <2>1. /\ op = "erase" /\ left > 0 /\ page' = page + PPB /\ left' = left - PPB
        /\ op' = op /\ req' = req
        /\ data' = [q \in Page |-> IF q \in BlockOf(page) THEN Erased ELSE data[q]]
        /\ mark' = [q \in Page |-> q \notin BlockOf(page) /\ mark[q]]
    BY <1>2 DEF EraseBlock
  <2>2. /\ page \in Nat /\ left \in Nat /\ PPB \in Nat \ {0} /\ req.page \in Nat /\ req.len \in Nat
        /\ req.page <= page /\ (page + PPB) % PPB = 0 /\ page + left = req.page + req.len
    BY <2>1, EraseTurn
  <2>3. ASSUME NEW q \in Page, req.page <= q, q < page + PPB
        PROVE  data'[q] = Erased /\ ~ mark'[q]
    <3>1. CASE q < page
      <4>1. data[q] = Erased /\ ~ mark[q]
        BY <2>1, <2>3, <3>1 DEF Progress, EraseProgress
      <4> QED BY <2>1, <4>1
    <3>2. CASE ~ (q < page)
      <4>1. q \in BlockOf(page)
        BY <2>2, <2>3, <3>2, SizeAssumption DEF BlockOf, Page
      <4> QED BY <2>1, <4>1
    <3> QED BY <3>1, <3>2
  <2> QED BY <2>1, <2>2, <2>3 DEF Progress, WriteProgress, EraseProgress, Page
<1>3. ASSUME NEW spoilt \in BOOLEAN, EraseFails(spoilt)
      PROVE  Progress'
  BY <1>3, NoLoop DEF EraseFails, Return
<1>4. CASE EraseDone
  BY <1>4, NoLoop DEF EraseDone, Return
<1> QED BY <1>1, <1>2, <1>3, <1>4 DEF Erase

\* Reads and the calls about the spare area leave no write or erase under way.
LEMMA OthersProgress ==
  ASSUME Read \/ Spare
  PROVE  Progress'
<1>1. op' \notin {"write", "erase"}
  <2>1. ASSUME NEW p \in 0 .. NPages, NEW c \in 0 .. COLS - 1, NEW len \in 0 .. NPages * COLS,
               ReadCall(p, c, len)
        PROVE  op' \in {"none", "read"}
    BY <2>1 DEF ReadCall, Reject, Result, Enter
  <2>2. ASSUME ReadPage \/ ReadDone PROVE op' \in {"none", "read"}
    BY <2>2 DEF ReadPage, ReadDone, Return
  <2>3. ASSUME Spare PROVE op' \in {"none", "crashed"}
    BY <2>3 DEF Spare, WriteOob, WriteOobReject, Reject, Result, BlockIsbad, BlockMarkbad, MarkbadCrash
  <2> QED BY <2>1, <2>2, <2>3 DEF Read
<1> QED BY <1>1, NoLoop

THEOREM ProgressHolds == Spec => []Progress
<1>1. Init => Progress
  BY DEF Init, Progress, WriteProgress, EraseProgress
<1>2. IInv /\ Progress /\ [Next]_vars => Progress'
  <2>1. IInv /\ Progress /\ UNCHANGED vars => Progress'
    BY DEF vars, Progress, WriteProgress, EraseProgress
  <2> QED BY <2>1, WriteProgresses, EraseProgresses, OthersProgress DEF Next
<1> QED BY <1>1, <1>2, Invariance, PTL DEF Spec


-----------------------------------------------------------------------------
(* The steps that change the chip or end a call *)

LEMMA WriteTurn ==
  ASSUME IInv, Progress, op = "write", left > 0
  PROVE  req.page <= page /\ page < req.page + req.len
BY DEF IInv, TypeOK, WriteLoop, Progress, WriteProgress

LEMMA StepConfined ==
  ASSUME IInv, Progress, [Next]_vars,
         NEW q \in Page, data'[q] # data[q] \/ mark'[q] # mark[q]
  PROVE  InRequest(q)
<1> DEFINE Wr == \E d \in Data : WritePage(d)
           Wf == \E spoilt \in BOOLEAN : WriteFails(spoilt)
           Er == EraseBlock
           Ef == \E spoilt \in BOOLEAN : EraseFails(spoilt)
           Ob == \E p \in SparePages, nonff, ok \in BOOLEAN : WriteOob(p, nonff, ok)
<1>1. Wr \/ Wf \/ Er \/ Ef \/ Ob
  <2>1. ~ UNCHANGED <<data, mark>>
    OBVIOUS
  <2>2. ~ UNCHANGED vars
    BY <2>1 DEF vars
  <2>3. ~ Read
    BY <2>1 DEF Read, ReadCall, ReadPage, ReadDone, Reject, Enter, chip
  <2>4. CASE Write
    BY <2>1, <2>4 DEF Write, WriteUnaligned, WriteCall, WriteDone, Reject, Enter, chip
  <2>5. CASE Erase
    BY <2>1, <2>5 DEF Erase, EraseCall, EraseDone, Reject, Enter, chip
  <2>6. CASE Spare
    BY <2>1, <2>6 DEF Spare, WriteOobReject, BlockIsbad, BlockMarkbad, MarkbadCrash, Reject, chip
  <2> QED BY <2>2, <2>3, <2>4, <2>5, <2>6 DEF Next
<1>2. q \in Nat /\ page \in Nat /\ data \in [Page -> Contents] /\ mark \in [Page -> BOOLEAN]
  BY SizeAssumption DEF IInv, TypeOK, Page
<1>3. CASE Wr \/ Wf
  <2>1. op = "write" /\ left > 0 /\ q = page
    BY <1>2, <1>3 DEF WritePage, WriteFails
  <2> QED BY <2>1, WriteTurn DEF InRequest
<1>4. CASE Er \/ Ef
  <2>1. op = "erase" /\ left > 0 /\ q \in BlockOf(page)
    BY <1>2, <1>4 DEF EraseBlock, EraseFails
  <2>2. page <= q /\ q < page + PPB
    BY <2>1 DEF BlockOf
  <2>3. /\ req.page \in Nat /\ req.len \in Nat /\ PPB \in Nat
        /\ req.page <= page /\ page + PPB <= req.page + req.len
    BY <2>1, EraseTurn
  <2>4. req.page <= q /\ q < req.page + req.len
    BY <1>2, <2>2, <2>3
  <2> QED BY <2>1, <2>4 DEF InRequest
<1>5. CASE Ob
  <2>1. op = "none" /\ data'[q] = data[q]
    BY <1>5 DEF WriteOob
  <2>2. PICK p \in SparePages, nonff \in BOOLEAN, ok \in BOOLEAN : WriteOob(p, nonff, ok)
    BY <1>5
  <2>3. req'.page = p /\ mark' = [mark EXCEPT ![Masked(p)] = @ \/ (nonff /\ ok)]
    BY <2>2 DEF WriteOob, Result
  <2>4. q = Masked(req'.page)
    BY <1>2, <2>1, <2>3
  <2>5. mark[q] => mark'[q]
    BY <1>2, <2>3
  <2> QED BY <2>1, <2>4, <2>5 DEF InRequest
<1> QED BY <1>1, <1>3, <1>4, <1>5

\* What a failing or finished erase has done and says.
LEMMA EraseReturns ==
  ASSUME IInv, Progress, Next, op = "erase", op' = "none"
  PROVE  LET upto == IF ret' = "OK" THEN req.page + req.len ELSE failaddr'
         IN /\ ret' = "OK" \/ (req.page <= upto /\ upto < req.page + req.len)
            /\ upto % PPB = 0
            /\ \A q \in Page : req.page <= q /\ q < upto => data'[q] = Erased /\ ~ mark'[q]
<1>1. page \in Nat /\ PPB \in Nat \ {0} /\ req.page \in Nat /\ req.len \in Nat
  BY SizeAssumption DEF IInv, TypeOK
<1>2. /\ req.page <= page /\ page + left = req.page + req.len /\ page % PPB = 0
      /\ \A q \in Page : req.page <= q /\ q < page => data[q] = Erased /\ ~ mark[q]
  BY DEF Progress, EraseProgress
<1>3. EraseDone \/ \E spoilt \in BOOLEAN : EraseFails(spoilt)
  <2>1. ~ Read /\ ~ Write /\ ~ Spare
    BY DEF Read, ReadCall, ReadPage, ReadDone, Write, WriteUnaligned, WriteCall, WritePage,
       WriteFails, WriteDone, Spare, WriteOob, WriteOobReject, BlockIsbad, BlockMarkbad, MarkbadCrash
  <2>2. ~ EraseBlock /\ \A p \in 0 .. NPages, n \in 0 .. NPages : ~ EraseCall(p, n)
    BY DEF EraseBlock, EraseCall
  <2> QED BY <2>1, <2>2 DEF Next, Erase
<1>4. CASE EraseDone
  <2>1. ret' = "OK" /\ data' = data /\ mark' = mark /\ left = 0
    BY <1>4 DEF EraseDone, Return, chip
  <2>2. page = req.page + req.len
    BY <1>1, <1>2, <2>1
  <2> QED BY <1>2, <2>1, <2>2
<1>5. ASSUME NEW spoilt \in BOOLEAN, EraseFails(spoilt)
      PROVE  /\ ret' = "EIO" /\ failaddr' = page /\ page < req.page + req.len
             /\ \A q \in Page : q < page => data'[q] = data[q] /\ mark'[q] = mark[q]
  <2>1. /\ left > 0 /\ ret' = "EIO" /\ failaddr' = page /\ mark' = mark
        /\ data' = [q \in Page |-> IF spoilt /\ q \in BlockOf(page) THEN Mixed ELSE data[q]]
    BY <1>5 DEF EraseFails, Return
  <2>2. page < req.page + req.len
    BY <2>1, <1>1, EraseTurn
  <2>3. \A q \in Page : q < page => q \notin BlockOf(page)
    BY <1>1, SizeAssumption DEF BlockOf, Page
  <2> QED BY <2>1, <2>2, <2>3
<1>6. CASE \E spoilt \in BOOLEAN : EraseFails(spoilt)
  <2>1. /\ ret' = "EIO" /\ failaddr' = page /\ page < req.page + req.len
        /\ \A q \in Page : q < page => data'[q] = data[q] /\ mark'[q] = mark[q]
    BY <1>5, <1>6
  <2> QED BY <1>1, <1>2, <2>1
<1> QED BY <1>3, <1>4, <1>6

LEMMA WriteReturns ==
  ASSUME IInv, Progress, Next, op = "write", op' = "none"
  PROVE  /\ retlen' <= page - req.page
         /\ (ret' = "OK" => retlen' = req.len /\ left = 0)
         /\ (ret' # "OK" => retlen' % PPB = 0 \/ (req.page + retlen') % PPB = 0)
<1>1. page \in Nat /\ left \in Nat /\ req.page \in Nat /\ req.len \in Nat /\ retlen \in Nat
  BY DEF IInv, TypeOK
<1>2. /\ req.page + retlen <= page /\ ret \in {"OK", "EIO"}
      /\ retlen % PPB = 0 \/ (req.page + retlen) % PPB = 0 \/ left = 0
      /\ ret = "OK" /\ left = 0 => retlen = req.len
      /\ ret # "OK" => retlen = 0
  BY DEF Progress, WriteProgress
<1>3. WriteDone \/ \E spoilt \in BOOLEAN : WriteFails(spoilt)
  <2>1. ~ Read /\ ~ Erase /\ ~ Spare
    BY DEF Read, ReadCall, ReadPage, ReadDone, Erase, EraseCall, EraseBlock, EraseFails, EraseDone,
       Spare, WriteOob, WriteOobReject, BlockIsbad, BlockMarkbad, MarkbadCrash
  <2>2. /\ ~ WriteUnaligned /\ \A d \in Data : ~ WritePage(d)
        /\ \A p \in 0 .. NPages, n \in 0 .. NPages : ~ WriteCall(p, n)
    BY DEF WriteUnaligned, WritePage, WriteCall
  <2> QED BY <2>1, <2>2 DEF Next, Write
<1>4. CASE WriteDone
  <2>1. left = 0 /\ ret' = ret /\ retlen' = retlen
    BY <1>4 DEF WriteDone, Return
  <2> QED BY <1>1, <1>2, <2>1, ZeroBlocks
<1>5. CASE \E spoilt \in BOOLEAN : WriteFails(spoilt)
  <2>1. left > 0 /\ ret' = "EIO" /\ retlen' = retlen
    BY <1>5 DEF WriteFails, Return
  <2> QED BY <1>1, <1>2, <2>1
<1> QED BY <1>3, <1>4, <1>5

-----------------------------------------------------------------------------
(* Theorems *)

\* Writes and erases change the chip inside the range they are given and nowhere
\* else; a spare write the marker of one page, the one its page number is masked to.
THEOREM CallsAreConfined == Spec => ConfinedToRequest
<1>1. IInv /\ Progress /\ [Next]_vars =>
        [\A q \in Page : data'[q] # data[q] \/ mark'[q] # mark[q] => InRequest(q)]_vars
  BY StepConfined
<1> QED BY <1>1, Invariance, ProgressHolds, PTL DEF Spec, ConfinedToRequest

\* nand_erase tells the truth: erased what it reports erased, fail_addr where it stopped.
THEOREM EraseTellsTruth == Spec => EraseReport
<1> DEFINE A == op = "erase" /\ op' = "none" =>
                  LET upto == IF ret' = "OK" THEN req.page + req.len ELSE failaddr'
                  IN /\ ret' = "OK" \/ (req.page <= upto /\ upto < req.page + req.len)
                     /\ upto % PPB = 0
                     /\ \A q \in Page : req.page <= q /\ q < upto =>
                           data'[q] = Erased /\ ~ mark'[q]
<1>1. IInv /\ Progress /\ [Next]_vars => [A]_vars
  <2>1. IInv /\ Progress /\ Next => A
    BY EraseReturns, Zenon
  <2> HIDE DEF A
  <2> QED BY <2>1
<1> QED BY <1>1, Invariance, ProgressHolds, PTL DEF Spec, EraseReport

\* nand_write tells the truth about success and never counts a page too many.
THEOREM WriteTellsTruth == Spec => WriteReport
<1> DEFINE A == op = "write" /\ op' = "none" =>
                  /\ retlen' <= page - req.page
                  /\ (ret' = "OK" => retlen' = req.len /\ left = 0)
                  /\ (ret' # "OK" => retlen' % PPB = 0 \/ (req.page + retlen') % PPB = 0)
<1>1. IInv /\ Progress /\ [Next]_vars => [A]_vars
  <2>1. IInv /\ Progress /\ Next => A
    BY WriteReturns, Zenon
  <2> HIDE DEF A
  <2> QED BY <2>1
<1> QED BY <1>1, Invariance, ProgressHolds, PTL DEF Spec, WriteReport
=============================================================================
