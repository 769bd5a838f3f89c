------------------------------- MODULE NandMtd -------------------------------
(***************************************************************************)
(* The MTD layer of drivers/nand/nand_base.cpp over one NAND chip: the     *)
(* calls nand_read, nand_write, nand_erase, nand_write_oob,                *)
(* nand_block_isbad and nand_block_markbad that nand_scan publishes in     *)
(* struct mtd_info, with the one-page read cache (pagebuf, data_buf) they  *)
(* share, the chip-select line, and what a call reports to its caller.     *)
(*                                                                         *)
(* Configuration of the build: one chip (nand_scan(mtd, 1)), no ECC        *)
(* (board_nand_init), NAND_NO_AUTOINCR always set (nand_base.cpp:2562),    *)
(* no CONFIG_MTD_NAND_VERIFY_WRITE, NAND_ALLOW_ERASE_ALL defined.          *)
(*                                                                         *)
(* A page has COLS columns and one content; lengths of reads are in        *)
(* columns, of writes in pages, of erases in blocks of PPB pages.  The     *)
(* multi-page calls take one step per turn of their loop.                  *)
(***************************************************************************)
EXTENDS Integers, Sequences

CONSTANTS
  NPages,   \* pages of the chip (mtd->size >> page_shift)
  PPB,      \* pages per erase block
  COLS,     \* columns (bytes) per page
  Data,     \* what a caller may write to a page
  Erased,   \* content of an erased page
  Mixed,    \* content after a failed operation or programming over old data
  SparePages  \* page numbers that spare writes are given, on the device or past its end

ASSUME SizeAssumption ==
  /\ NPages \in Nat /\ PPB \in Nat \ {0} /\ COLS \in Nat \ {0}
  /\ NPages % PPB = 0 /\ NPages >= PPB
ASSUME SparesAssumption == SparePages \subseteq Nat
ASSUME ContentAssumption == Erased \notin Data /\ Mixed \notin Data /\ Erased # Mixed

VARIABLES
  data,      \* the chip's main array
  mark,      \* page -> its bad-block marker byte is not 0xff
  nCE,       \* chip-enable line, active low
  pagebuf,   \* This->pagebuf: page held in data_buf, or -1
  databuf,   \* This->data_buf: its main area
  op,        \* the call in progress, "none" between calls
  req,       \* its arguments; between calls, what the last spare write was given
  page,      \* page the loop of the call has reached
  col,       \* column in that page (reads)
  left,      \* what is left: columns (read), pages (write, erase)
  buf,       \* the caller's buffer, one chunk per page read
  ret,       \* result of the call
  retlen,    \* its *retlen, in columns for a read and in pages for a write
  failaddr   \* its instr->fail_addr, or -1 for 0xffffffff

vars == <<data, mark, nCE, pagebuf, databuf, op, req, page, col, left, buf,
          ret, retlen, failaddr>>
chip == <<data, mark>>
cache == <<pagebuf, databuf>>

Page == 0 .. NPages - 1
Contents == Data \cup {Erased, Mixed}
Ops == {"none", "read", "write", "erase", "crashed"}
Results == {"none", "OK", "BAD", "EINVAL", "EIO"}
NoReq == [page |-> 0, col |-> 0, len |-> 0]
Chunk == [val : Contents, col : Nat, n : Nat]
\* Pages of the block that starts at p; the ones before it are bugs the checks
\* must see.
BlockTooLong(p) == {q \in Page : p <= q /\ q <= p + PPB}
BlockTooShort(p) == {q \in Page : p <= q /\ q < p + PPB - 1}
BlockOf(p) == {q \in Page : p <= q /\ q < p + PPB}

-----------------------------------------------------------------------------
(* The chip, as the driver uses it. *)

\* Programming can only clear bits: over anything but an erased page it mixes.
Programmed(old, new) == IF old = Erased THEN new ELSE Mixed

\* Data out of a chip that is not selected is whatever floats on the bus.
ChipOut(p) == IF nCE = "L" THEN data[p] ELSE Mixed

\* The chip as found: anything written, and any blocks marked bad.
Init ==
  /\ data \in [Page -> Contents]
  /\ mark \in [Page -> BOOLEAN] /\ \A p \in Page : mark[p] => p % PPB = 0
  /\ nCE = "H"
  /\ pagebuf = -1 /\ databuf = Mixed
  /\ op = "none" /\ req = NoReq
  /\ page = 0 /\ col = 0 /\ left = 0 /\ buf = <<>>
  /\ ret = "none" /\ retlen = 0 /\ failaddr = -1

-----------------------------------------------------------------------------
\* A call that returns r without a loop of its own, given the arguments asked.
Result(r, n, asked) ==
  /\ ret' = r /\ retlen' = n /\ failaddr' = -1 /\ req' = asked
  /\ UNCHANGED <<nCE, op, page, col, left, buf>>

\* An early return of a call, before the chip is selected.
Reject == Result("EINVAL", 0, NoReq) /\ UNCHANGED <<chip, cache>>

\* The checks passed: select the chip and enter the loop at page p.
Enter(name, p, c, len) ==
  /\ nCE' = "L"
  /\ op' = name
  /\ req' = [page |-> p, col |-> c, len |-> len]
  /\ page' = p /\ col' = c /\ left' = len /\ buf' = <<>>
  /\ retlen' = 0 /\ failaddr' = -1
  /\ UNCHANGED <<chip, databuf>>

\* A bug the checks must see: the chip stays selected.
ReturnSelected(r) ==
  /\ op' = "none" /\ req' = NoReq /\ UNCHANGED nCE
  /\ page' = 0 /\ col' = 0 /\ left' = 0 /\ buf' = <<>>
  /\ ret' = r

\* nand_release_device and the return of a call, whose locals are gone.
Return(r) ==
  /\ nCE' = "H"
  /\ op' = "none" /\ req' = NoReq
  /\ page' = 0 /\ col' = 0 /\ left' = 0 /\ buf' = <<>>
  /\ ret' = r

\* Bugs the checks must see: the cache is forgotten, or its last page is.
NoInvalidation(p, n) == UNCHANGED pagebuf
InvalidateLess(p, n) ==
  pagebuf' = IF p <= pagebuf /\ pagebuf < p + n - 1 THEN -1 ELSE pagebuf

\* "Invalidate the page cache, if we write to the cached page", and likewise
\* for an erase.
Invalidate(p, n) ==
  pagebuf' = IF p <= pagebuf /\ pagebuf < p + n THEN -1 ELSE pagebuf

-----------------------------------------------------------------------------
(* nand_read -> nand_read_ecc with no oob buffer *)

ReadCall(p, c, len) ==
  /\ op = "none"
  /\ \/ p * COLS + c + len > NPages * COLS /\ Reject
     \/ /\ p * COLS + c + len <= NPages * COLS
        /\ Enter("read", p, c, len)
        /\ ret' = "none"
        /\ UNCHANGED pagebuf

\* A turn of the loop.  A whole page goes straight to the caller's buffer, a
\* part of a page through data_buf, which then caches the page; a page that is
\* cached is not read from the chip.
ReadPage ==
  /\ op = "read" /\ left > 0
  /\ LET aligned == col = 0 /\ left >= COLS
         hit == page = pagebuf
         src == IF hit THEN databuf ELSE ChipOut(page)
         n == IF left < COLS - col THEN left ELSE COLS - col
     IN /\ buf' = Append(buf, [val |-> src, col |-> col, n |-> n])
        /\ databuf' = IF hit \/ aligned THEN databuf ELSE src
        /\ pagebuf' = IF aligned THEN pagebuf ELSE page
        /\ left' = left - n
  /\ page' = page + 1 /\ col' = 0
  /\ UNCHANGED <<chip, nCE, op, req, ret, retlen, failaddr>>

ReadDone ==
  /\ op = "read" /\ left = 0
  /\ Return("OK")
  /\ retlen' = req.len
  /\ UNCHANGED <<chip, cache, failaddr>>

-----------------------------------------------------------------------------
(* nand_write -> nand_write_ecc with no oob buffer *)

\* A start or a length that is not a whole number of pages.
WriteUnaligned == op = "none" /\ Reject

WriteCall(p, n) ==
  /\ op = "none"
  /\ \/ p + n > NPages /\ Reject
     \/ /\ p + n <= NPages
        /\ Enter("write", p, 0, n)
        /\ Invalidate(p, n)
        /\ ret' = "EIO"      \* int ret = -EIO until a page is written

\* A bug the checks must see: *retlen forgotten at the end of the loop.
RetlenAtBlocks == IF (page + 1) % PPB = 0 THEN page + 1 - req.page ELSE retlen

\* *retlen is brought up to date at a block boundary and at the end.
Retlen == IF left = 1 \/ (page + 1) % PPB = 0 THEN page + 1 - req.page ELSE retlen

\* nand_write_page succeeded.
WritePage(d) ==
  /\ op = "write" /\ left > 0
  /\ data' = [data EXCEPT ![page] = Programmed(data[page], d)]
  /\ page' = page + 1 /\ left' = left - 1
  /\ ret' = "OK"
  /\ retlen' = Retlen
  /\ UNCHANGED <<mark, nCE, cache, op, req, col, buf, failaddr>>

\* The status register says the program operation failed: the page is as it was
\* or spoilt.
WriteFails(spoilt) ==
  /\ op = "write" /\ left > 0
  /\ data' = [data EXCEPT ![page] = IF spoilt THEN Mixed ELSE @]
  /\ Return("EIO")
  /\ UNCHANGED <<mark, cache, retlen, failaddr>>

WriteDone ==
  /\ op = "write" /\ left = 0
  /\ Return(ret)
  /\ UNCHANGED <<chip, cache, retlen, failaddr>>

-----------------------------------------------------------------------------
(* nand_erase -> nand_erase_nand; lengths whose sum with the address does not
   overflow 32 bits (NandProgram models the overflow). *)

\* A bug the checks must see: the end of the device is not looked at.
EraseUnbounded(p, n) ==
  /\ op = "none" /\ p % PPB = 0 /\ n % PPB = 0
  /\ Enter("erase", p, 0, n)
  /\ ret' = "none"
  /\ UNCHANGED pagebuf

\* n is a length in pages; one that is not whole blocks is rejected too.
EraseCall(p, n) ==
  /\ op = "none"
  /\ \/ (p % PPB # 0 \/ n % PPB # 0 \/ p + n > NPages) /\ Reject
     \/ /\ p % PPB = 0 /\ n % PPB = 0 /\ p + n <= NPages
        /\ Enter("erase", p, 0, n)
        /\ ret' = "none"
        /\ UNCHANGED pagebuf

\* A turn of the loop; the bad-block check in it is compiled out by
\* NAND_ALLOW_ERASE_ALL.
EraseBlock ==
  /\ op = "erase" /\ left > 0
  /\ Invalidate(page, PPB)
  /\ data' = [q \in Page |-> IF q \in BlockOf(page) THEN Erased ELSE data[q]]
  /\ mark' = [q \in Page |-> q \notin BlockOf(page) /\ mark[q]]
  /\ page' = page + PPB /\ left' = left - PPB
  /\ UNCHANGED <<nCE, databuf, op, req, col, buf, ret, retlen, failaddr>>

\* The status register says the erase failed: the block is as it was or spoilt.
EraseFails(spoilt) ==
  /\ op = "erase" /\ left > 0
  /\ Invalidate(page, PPB)
  /\ data' = [q \in Page |-> IF spoilt /\ q \in BlockOf(page) THEN Mixed ELSE data[q]]
  /\ failaddr' = page
  /\ Return("EIO")
  /\ UNCHANGED <<mark, databuf, retlen>>

EraseDone ==
  /\ op = "erase" /\ left = 0
  /\ Return("OK")
  /\ UNCHANGED <<chip, cache, retlen, failaddr>>

-----------------------------------------------------------------------------
(* Spare area and bad-block calls; the chip is selected and released inside. *)

\* page & This->pagemask: a number past the end names a page of the chip again.
Masked(p) == p % NPages

\* nand_write_oob of the marker byte of page p.  Nothing compares p with the size:
\* past the end it programs the page p is masked to.  The cache is compared with
\* the number as it was given.
WriteOob(p, nonff, ok) ==
  /\ op = "none"
  /\ pagebuf' = IF p = pagebuf THEN -1 ELSE pagebuf
  /\ mark' = [mark EXCEPT ![Masked(p)] = @ \/ (nonff /\ ok)]
  /\ Result(IF ok THEN "OK" ELSE "EIO", IF ok THEN 1 ELSE 0, [page |-> p, col |-> 0, len |-> 1])
  /\ UNCHANGED <<data, databuf>>

\* Past the end of the page's spare area.
WriteOobReject == op = "none" /\ Reject

\* nand_block_isbad: the marker is read from the chip, there is no table.
IsBad(p) == IF p > NPages THEN "EINVAL" ELSE IF mark[Masked(p)] THEN "BAD" ELSE "OK"

BlockIsbad(p) ==
  /\ op = "none"
  /\ Result(IsBad(p), 0, NoReq)
  /\ UNCHANGED <<chip, cache>>

\* nand_block_markbad: a good block goes to nand_default_block_markbad, which
\* writes through This->bbt, never allocated since scan_bbt was cancelled.
BlockMarkbad(p) ==
  /\ op = "none" /\ IsBad(p) # "OK"
  /\ Result(IF IsBad(p) = "BAD" THEN "OK" ELSE IsBad(p), 0, NoReq)
  /\ UNCHANGED <<chip, cache>>

MarkbadCrash(p) ==
  /\ op = "none" /\ IsBad(p) = "OK"
  /\ op' = "crashed"
  /\ UNCHANGED <<chip, nCE, cache, req, page, col, left, buf, ret, retlen, failaddr>>

-----------------------------------------------------------------------------
\* One call is made at a time: the program is single threaded.
Read == \/ \E p \in 0 .. NPages, c \in 0 .. COLS - 1, len \in 0 .. NPages * COLS :
             ReadCall(p, c, len)
        \/ ReadPage
        \/ ReadDone

Write == \/ WriteUnaligned
         \/ \E p \in 0 .. NPages, n \in 0 .. NPages : WriteCall(p, n)
         \/ \E d \in Data : WritePage(d)
         \/ \E spoilt \in BOOLEAN : WriteFails(spoilt)
         \/ WriteDone

Erase == \/ \E p \in 0 .. NPages, n \in 0 .. NPages : EraseCall(p, n)
         \/ EraseBlock
         \/ \E spoilt \in BOOLEAN : EraseFails(spoilt)
         \/ EraseDone

Spare == \/ \E p \in SparePages, nonff, ok \in BOOLEAN : WriteOob(p, nonff, ok)
         \/ WriteOobReject
         \/ \E p \in 0 .. NPages + 1 :
             BlockIsbad(p) \/ BlockMarkbad(p) \/ MarkbadCrash(p)

Next == Read \/ Write \/ Erase \/ Spare

Spec == Init /\ [][Next]_vars

-----------------------------------------------------------------------------
(* Properties *)

TypeOK ==
  /\ data \in [Page -> Contents] /\ mark \in [Page -> BOOLEAN]
  /\ nCE \in {"L", "H"}
  /\ pagebuf \in Page \cup {-1} /\ databuf \in Contents
  /\ op \in Ops /\ ret \in Results
  /\ req \in [page : Nat, col : Nat, len : Nat]
  /\ page \in Nat /\ col \in Nat /\ left \in Nat /\ buf \in Seq(Chunk)
  /\ retlen \in Nat /\ failaddr \in Page \cup {-1}

\* The page cache never serves stale data: while it names a page, data_buf holds
\* what the chip holds there, whatever was written or erased since it was filled
\* (the invalidations of nand_write_ecc, nand_write_oob and nand_erase_nand).
CacheCoherent == pagebuf # -1 => databuf = data[pagebuf]

\* nand_read gives its caller the chip's contents of consecutive pages, starting
\* at the column asked for and leaving no gap, whichever of the pages came from
\* the cache and whichever from the chip.
ReadFaithful ==
  op = "read" =>
    \A k \in 1 .. Len(buf) :
      /\ req.page + k - 1 \in Page
      /\ buf[k].val = data[req.page + k - 1]
      /\ buf[k].col = (IF k = 1 THEN req.col ELSE 0)
      /\ k < Len(buf) => buf[k].col + buf[k].n = COLS

\* The chip is selected exactly while a call is working on it: every return,
\* also the ones after a failed program or erase, deselects it.
SelectedOnlyInCalls == (nCE = "L") <=> (op \in {"read", "write", "erase"})

\* A write or an erase changes the chip inside the range its caller gave and nowhere
\* else.  A spare write changes the marker of one page, and only towards bad: the page
\* it was given, or for a number past the end, which nand_write_oob does not turn down,
\* the page that number is masked to - a page its caller did not name.
InRequest(q) ==
  \/ op \in {"write", "erase"} /\ req.page <= q /\ q < req.page + req.len
  \/ /\ op = "none" /\ q = Masked(req'.page)
     /\ data'[q] = data[q] /\ (mark[q] => mark'[q])
ConfinedToRequest ==
  [][\A q \in Page : data'[q] # data[q] \/ mark'[q] # mark[q] => InRequest(q)]_vars

\* When nand_erase returns success, every page it was given is erased and no
\* bad-block marker is left in them; when it fails, fail_addr is the first page
\* of a block of the request and every block before it is erased.
EraseReport ==
  [][op = "erase" /\ op' = "none" =>
       LET upto == IF ret' = "OK" THEN req.page + req.len ELSE failaddr'
       IN /\ ret' = "OK" \/ (req.page <= upto /\ upto < req.page + req.len)
          /\ upto % PPB = 0
          /\ \A q \in Page : req.page <= q /\ q < upto =>
                data'[q] = Erased /\ ~mark'[q]]_vars

\* nand_write reports success only when every page of the request has been
\* accepted by the chip, and *retlen never counts a page that was not.
WriteReport ==
  [][op = "write" /\ op' = "none" =>
       /\ retlen' <= page - req.page
       /\ (ret' = "OK" => retlen' = req.len /\ left = 0)
       /\ (ret' # "OK" => retlen' % PPB = 0 \/ (req.page + retlen') % PPB = 0)]_vars

=============================================================================
