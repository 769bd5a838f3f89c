-------------------------- MODULE NandProgramProofs --------------------------
(***************************************************************************)
(* The burn loop keeps image pages where they belong and programs blank    *)
(* pages only, for every geometry, image and pattern of failures.          *)
(*                                                                         *)
(* And when the device has room for the image it never wraps below the     *)
(* target, what it placed stays, and it implements NandBurn step by step.  *)
(* All three follow from one count: the pages burnt so far are exactly the *)
(* pages that take data between the target and where the loop stands.      *)
(***************************************************************************)
EXTENDS NandProgram, FiniteSetTheorems, TLAPS

-----------------------------------------------------------------------------
(* Whole blocks *)

\* A remainder in range is the remainder, and its quotient the quotient.
LEMMA Remainder ==
  ASSUME NEW x \in Int, NEW b \in Nat \ {0}, NEW q \in Int, NEW r \in 0 .. (b - 1),
         x = b * q + r
  PROVE  x % b = r /\ x \div b = q
<1> DEFINE p == x \div b
           s == x % b
<1>1. x = b * p + s /\ p \in Int /\ s \in 0 .. (b - 1)
  OBVIOUS
<1> HIDE DEF p, s
<1>2. PICK d \in Int : d = q - p
  BY <1>1
<1>3. b * d = s - r
  <2>1. b * d = b * q - b * p
    BY <1>1, <1>2
  <2>2. b * p \in Int /\ b * q \in Int
    BY <1>1
  <2> QED BY <1>1, <2>1, <2>2
<1>4. d = 0
  <2>1. CASE d >= 1
    <3>1. b * d >= b
      BY <2>1
    <3> QED BY <3>1, <1>1, <1>3
  <2>2. CASE d <= -1
    <3>1. b * d <= -b
      BY <2>2
    <3> QED BY <3>1, <1>1, <1>3
  <2> QED BY <2>1, <2>2
<1>5. b * d = 0
  BY <1>4
<1>6. s = r
  BY <1>1, <1>3, <1>5
<1>7. p = q
  BY <1>1, <1>2, <1>4
<1> QED BY <1>6, <1>7 DEF p, s

\* A number without remainder is a multiple.
LEMMA Multiple ==
  ASSUME NEW a \in Int, NEW b \in Nat \ {0}, a % b = 0
  PROVE  \E q \in Int : a = b * q
<1> DEFINE q == a \div b
<1>1. a = b * q + (a % b) /\ q \in Int
  OBVIOUS
<1> HIDE DEF q
<1>2. a = b * q
  BY <1>1
<1> QED BY <1>1, <1>2

\* Position r of the whole block after whole blocks is at r.
LEMMA PlaceInBlock ==
  ASSUME NEW a \in Int, NEW b \in Nat \ {0}, a % b = 0, NEW r \in 0 .. (b - 1)
  PROVE  (a + r) % b = r
<1>1. PICK q \in Int : a = b * q
  BY Multiple
<1>2. a + r \in Int /\ a + r = b * q + r
  BY <1>1
<1> QED BY <1>2, Remainder

\* A block more, and a block less, are whole blocks again.
LEMMA BlockMore ==
  ASSUME NEW a \in Int, NEW b \in Nat \ {0}, a % b = 0
  PROVE  (a + b) % b = 0 /\ (a - b) % b = 0
<1>1. PICK q \in Int : a = b * q
  BY Multiple
<1>2. /\ q + 1 \in Int /\ q - 1 \in Int /\ a + b \in Int /\ a - b \in Int /\ 0 \in 0 .. (b - 1)
      /\ a + b = b * (q + 1) + 0 /\ a - b = b * (q - 1) + 0
  BY <1>1
<1>3. (a + b) % b = 0
  BY <1>2, Remainder
<1>4. (a - b) % b = 0
  BY <1>2, Remainder
<1> QED BY <1>3, <1>4

\* The buffer holds a whole block of the file: what was loaded is whole blocks,
\* at least one once a turn is under way.
Buffered ==
  /\ loaded % PPB = 0
  /\ pc \in {"erase", "write"} \/ noLoad => loaded >= PPB

\* What was counted keeps up with the buffer, so the loop returns before it comes
\* to a page of the buffer past the end of the image.
Counted ==
  /\ pc = "load" => progSize >= IF noLoad THEN loaded - PPB ELSE loaded
  /\ pc = "erase" => progSize >= loaded - PPB
  /\ pc = "write" => progSize >= loaded - PPB + i
  /\ pc # "done" => progSize < imageSize \/ (imageSize = 0 /\ progSize = 0)

\* The rest of the block being written is blank.
RestBlank ==
  pc = "write" /\ blockIndex < NBlocks =>
    \A p \in PageNo : p >= i => flash[blockIndex][p] = Erased

IInv == TypeOK /\ Buffered /\ Counted /\ RestBlank /\ ImageAligned

-----------------------------------------------------------------------------
(* The invariant *)

\* The loop starts with nothing loaded and nothing counted.
LEMMA InitIInv == Init => IInv
<1> SUFFICES ASSUME Init PROVE IInv
  OBVIOUS
<1> USE ProgramAssumption DEF Init
<1>1. TypeOK
  <2>1. flash \in [Block -> [PageNo -> Contents]]
    BY DEF Contents
  <2>2. blockIndex \in 0 .. AddrBlocks - 1 /\ i \in PageNo
    BY DEF PageNo
  <2>3. targetBlock \in Nat /\ imageSize \in Nat /\ eraseBad \subseteq Block
    OBVIOUS
  <2>4. progBad \subseteq Block \X PageNo /\ placed \in Seq(Block \X PageNo)
    OBVIOUS
  <2> QED BY <2>1, <2>2, <2>3, <2>4 DEF TypeOK
<1>2. Buffered
  <2>1. 0 % PPB = 0
    BY Remainder
  <2> QED BY <2>1 DEF Buffered
<1>3. Counted /\ RestBlank
  BY DEF Counted, RestBlank
<1>4. ImageAligned
  <2>1. \A b \in Block, p \in PageNo : flash[b][p] = -2
    BY DEF Old
  <2> QED BY <2>1 DEF ImageAligned, Pad
<1> QED BY <1>1, <1>2, <1>3, <1>4 DEF IInv

\* The block number wraps inside its type.
LEMMA NextBlockType ==
  ASSUME TypeOK, NextBlock
  PROVE  blockIndex' \in 0 .. AddrBlocks - 1
<1>1. blockIndex + 1 \in Nat /\ AddrBlocks \in Nat \ {0}
  BY ProgramAssumption DEF TypeOK
<1>2. (blockIndex + 1) % AddrBlocks \in 0 .. AddrBlocks - 1
  BY <1>1
<1> QED BY <1>2 DEF NextBlock

\* The block erased is on the device, and the one that will be written if that
\* is on the device at all.
LEMMA EraseBlockType ==
  ASSUME TypeOK
  PROVE  /\ EraseBlock \in Block
         /\ blockIndex < NBlocks => EraseBlock = blockIndex
<1>1. blockIndex \in Nat /\ NBlocks \in Nat \ {0}
  BY ProgramAssumption DEF TypeOK
<1>2. blockIndex % NBlocks \in 0 .. NBlocks - 1
  BY <1>1
<1>3. blockIndex < NBlocks => blockIndex % NBlocks = blockIndex
  BY <1>1
<1> QED BY <1>2, <1>3 DEF EraseBlock, Block

\* Nothing but image pages and padding can break the alignment.
LEMMA AlignedKept ==
  ASSUME ImageAligned, imageSize' = imageSize,
         \A b \in Block, p \in PageNo :
           flash'[b][p] = flash[b][p] \/ flash'[b][p] \in {Erased, Mixed}
  PROVE  ImageAligned'
BY DEF ImageAligned, Erased, Mixed, Pad

\* The head of the loop: a whole block more, or the buffer kept.
LEMMA LoadIInv ==
  ASSUME IInv, Load
  PROVE  IInv'
<1> USE DEF IInv
<1>1. /\ loaded' = (IF noLoad THEN loaded ELSE loaded + PPB) /\ noLoad' = FALSE
      /\ pc = "load" /\ pc' = "erase"
      /\ UNCHANGED <<flash, device, blockIndex, i, progSize, placed>>
  BY DEF Load
<1>2. PPB \in Nat \ {0} /\ loaded \in Nat
  BY ProgramAssumption DEF TypeOK
<1>3. loaded' \in Nat /\ loaded' % PPB = 0 /\ loaded' >= PPB
  <2>1. loaded \in Int /\ loaded % PPB = 0
    BY <1>2 DEF Buffered
  <2>2. (loaded + PPB) % PPB = 0
    BY <1>2, <2>1, BlockMore
  <2> QED BY <1>1, <1>2, <2>2 DEF Buffered
<1>4. TypeOK'
  BY <1>1, <1>3 DEF TypeOK, device
<1>5. Buffered' /\ RestBlank'
  BY <1>1, <1>3 DEF Buffered, RestBlank
<1>6. Counted'
  BY <1>1, <1>2 DEF Counted, device
<1>7. ImageAligned'
  BY <1>1, AlignedKept DEF device
<1> QED BY <1>4, <1>5, <1>6, <1>7

\* An accepted erase blanks the block that is written next.
LEMMA EraseIInv ==
  ASSUME IInv, Erase
  PROVE  IInv'
<1> USE DEF IInv
<1>1. /\ pc = "erase" /\ pc' = "write" /\ i' = 0
      /\ flash' = [flash EXCEPT ![EraseBlock] = [p \in PageNo |-> Erased]]
      /\ UNCHANGED <<device, blockIndex, noLoad, loaded, progSize, placed>>
  BY DEF Erase
<1>2. /\ EraseBlock \in Block /\ 0 \in PageNo
      /\ blockIndex < NBlocks => EraseBlock = blockIndex
  BY EraseBlockType, ProgramAssumption DEF PageNo
<1>3. /\ flash'[EraseBlock] = [p \in PageNo |-> Erased]
      /\ \A b \in Block : b # EraseBlock => flash'[b] = flash[b]
  BY <1>1, <1>2 DEF TypeOK
<1>4. TypeOK'
  <2>1. [p \in PageNo |-> Erased] \in [PageNo -> Contents]
    BY DEF Contents
  <2>2. flash' \in [Block -> [PageNo -> Contents]]
    BY <1>1, <2>1 DEF TypeOK
  <2> QED BY <1>1, <1>2, <2>2 DEF TypeOK, device
<1>5. Buffered'
  BY <1>1 DEF Buffered
<1>6. Counted'
  <2>1. loaded - PPB + 0 = loaded - PPB
    BY ProgramAssumption DEF TypeOK
  <2> QED BY <1>1, <2>1 DEF Counted, device
<1>7. RestBlank'
  BY <1>1, <1>2, <1>3 DEF RestBlank
<1>8. ImageAligned'
  <2>1. \A b \in Block, p \in PageNo :
          flash'[b][p] = flash[b][p] \/ flash'[b][p] \in {Erased, Mixed}
    BY <1>3
  <2> QED BY <1>1, <2>1, AlignedKept DEF device
<1> QED BY <1>4, <1>5, <1>6, <1>7, <1>8

\* A failed erase goes on with the next block and the same buffer.
LEMMA EraseFailsIInv ==
  ASSUME IInv, NEW spoilt \in BOOLEAN, EraseFails(spoilt)
  PROVE  IInv'
<1> USE DEF IInv
<1>1. /\ pc = "erase" /\ pc' = "load" /\ noLoad' = TRUE /\ NextBlock
      /\ flash' = IF spoilt THEN [flash EXCEPT ![EraseBlock] = [p \in PageNo |-> Mixed]]
                  ELSE flash
      /\ UNCHANGED <<device, loaded, i, progSize, placed>>
  BY DEF EraseFails
<1>2. EraseBlock \in Block
  BY EraseBlockType
<1>3. \A b \in Block : flash'[b] = flash[b] \/ flash'[b] = [p \in PageNo |-> Mixed]
  BY <1>1, <1>2 DEF TypeOK
<1>4. TypeOK'
  <2>1. [p \in PageNo |-> Mixed] \in [PageNo -> Contents]
    BY DEF Contents
  <2>2. flash' \in [Block -> [PageNo -> Contents]]
    BY <1>1, <2>1 DEF TypeOK
  <2> QED BY <1>1, <2>2, NextBlockType DEF TypeOK, device
<1>5. Buffered' /\ RestBlank'
  BY <1>1 DEF Buffered, RestBlank
<1>6. Counted'
  BY <1>1 DEF Counted, device
<1>7. ImageAligned'
  <2>1. \A b \in Block, p \in PageNo :
          flash'[b][p] = flash[b][p] \/ flash'[b][p] \in {Erased, Mixed}
    BY <1>3
  <2> QED BY <1>1, <2>1, AlignedKept DEF device
<1> QED BY <1>4, <1>5, <1>6, <1>7

\* The page the buffer holds at i: it belongs at page i, and is padding only when
\* the image is empty.
LEMMA SourceAligned ==
  ASSUME IInv, pc = "write"
  PROVE  /\ Source \in Contents
         /\ Source >= 0 => Source % PPB = i /\ Source < imageSize
         /\ Source = Pad => imageSize = 0
<1> USE DEF IInv
<1> DEFINE k == loaded - PPB + i
<1>1. /\ PPB \in Nat \ {0} /\ loaded \in Nat /\ i \in 0 .. (PPB - 1)
      /\ progSize \in Nat /\ imageSize \in Nat /\ loaded >= PPB /\ loaded % PPB = 0
  BY ProgramAssumption DEF TypeOK, PageNo, Buffered
<1>2. loaded - PPB \in Nat /\ k \in Nat /\ progSize >= k
  BY <1>1 DEF Counted
<1>3. k % PPB = i
  <2>1. (loaded - PPB) % PPB = 0
    <3>1. loaded \in Int
      BY <1>1
    <3> QED BY <1>1, <3>1, BlockMore
  <2> QED BY <1>1, <1>2, <2>1, PlaceInBlock
<1>4. progSize < imageSize \/ imageSize = 0
  BY DEF Counted
<1>5. Source = IF k < imageSize THEN k ELSE Pad
  BY DEF Source
<1> HIDE DEF k
<1>6. CASE k < imageSize
  BY <1>2, <1>3, <1>5, <1>6 DEF Contents, Pad
<1>7. CASE ~(k < imageSize)
  BY <1>1, <1>2, <1>4, <1>5, <1>7 DEF Contents, Pad
<1> QED BY <1>6, <1>7

\* A programmed page takes its place in the block and is counted.
LEMMA WritePageIInv ==
  ASSUME IInv, WritePage
  PROVE  IInv'
<1> USE DEF IInv
<1>1. /\ pc = "write" /\ i < PPB /\ blockIndex < NBlocks
      /\ flash' = [flash EXCEPT ![blockIndex][i] = IF @ = Erased THEN Source ELSE Mixed]
      /\ progSize' = progSize + 1 /\ placed' = Append(placed, <<blockIndex, i>>)
      /\ UNCHANGED <<device, noLoad, loaded>>
  BY DEF WritePage, WriteOk
<1>2. /\ blockIndex \in Block /\ i \in PageNo /\ progSize \in Nat /\ loaded \in Nat
      /\ PPB \in Nat \ {0} /\ imageSize \in Nat
  BY <1>1, ProgramAssumption DEF TypeOK, Block
<1>3. flash[blockIndex][i] = Erased
  BY <1>1, <1>2 DEF RestBlank, TypeOK, PageNo
<1>4. /\ flash'[blockIndex][i] = Source
      /\ \A b \in Block, p \in PageNo :
           <<b, p>> # <<blockIndex, i>> => flash'[b][p] = flash[b][p]
  BY <1>1, <1>2, <1>3 DEF TypeOK
<1>5. \/ /\ progSize + 1 >= imageSize /\ pc' = "done" /\ UNCHANGED <<blockIndex, i>>
      \/ /\ progSize + 1 < imageSize /\ i + 1 < PPB /\ i' = i + 1
         /\ UNCHANGED <<pc, blockIndex>>
      \/ /\ progSize + 1 < imageSize /\ i + 1 >= PPB /\ pc' = "load" /\ NextBlock
         /\ i' = i
  BY <1>2 DEF WritePage, PageNo
<1>6. TypeOK'
  <2>1. flash' \in [Block -> [PageNo -> Contents]]
    <3>1. [flash[blockIndex] EXCEPT ![i] = Source] \in [PageNo -> Contents]
      BY <1>1, <1>2, SourceAligned DEF TypeOK
    <3>2. flash' = [flash EXCEPT ![blockIndex] = [flash[blockIndex] EXCEPT ![i] = Source]]
      BY <1>1, <1>2, <1>3 DEF TypeOK
    <3> QED BY <3>1, <3>2 DEF TypeOK
  <2>2. placed' \in Seq(Block \X PageNo)
    BY <1>1, <1>2 DEF TypeOK
  <2>3. blockIndex' \in 0 .. AddrBlocks - 1
    BY <1>5, NextBlockType DEF TypeOK
  <2>4. i' \in PageNo /\ pc' \in {"load", "erase", "write", "done"}
    BY <1>1, <1>2, <1>5 DEF PageNo
  <2> QED BY <1>1, <1>2, <2>1, <2>2, <2>3, <2>4 DEF TypeOK, device
<1>7. Buffered'
  BY <1>1, <1>5 DEF Buffered
<1>8. Counted'
  <2>1. progSize >= loaded - PPB + i
    BY <1>1 DEF Counted
  <2>2. i \in 0 .. (PPB - 1)
    BY <1>2 DEF PageNo
  <2>3. CASE pc' = "done"
    BY <2>3 DEF Counted
  <2>4. CASE pc' = "write" /\ i' = i + 1 /\ progSize + 1 < imageSize
    BY <1>1, <1>2, <2>1, <2>2, <2>4 DEF Counted, device
  <2>5. CASE pc' = "load" /\ i + 1 >= PPB /\ progSize + 1 < imageSize
    <3>1. progSize + 1 >= loaded /\ progSize + 1 >= loaded - PPB
      BY <1>2, <2>1, <2>2, <2>5
    <3> QED BY <1>1, <2>5, <3>1 DEF Counted, device
  <2> QED BY <1>1, <1>5, <2>3, <2>4, <2>5
<1>9. RestBlank'
  <2> SUFFICES ASSUME pc' = "write", blockIndex' < NBlocks,
                      NEW p \in PageNo, p >= i'
               PROVE  flash'[blockIndex'][p] = Erased
    BY DEF RestBlank
  <2>1. i' = i + 1 /\ blockIndex' = blockIndex
    BY <1>5
  <2>2. p # i /\ p >= i
    BY <1>2, <2>1 DEF PageNo
  <2>3. flash[blockIndex][p] = Erased
    BY <1>1, <2>2 DEF RestBlank
  <2> QED BY <1>2, <1>4, <2>1, <2>2, <2>3
<1>10. ImageAligned'
  <2> SUFFICES ASSUME NEW b \in Block, NEW p \in PageNo
               PROVE  /\ flash'[b][p] >= 0 => flash'[b][p] % PPB = p /\ flash'[b][p] < imageSize
                      /\ flash'[b][p] = Pad => imageSize = 0
    BY <1>1 DEF ImageAligned, device
  <2>1. CASE <<b, p>> = <<blockIndex, i>>
    BY <1>1, <1>4, <2>1, SourceAligned
  <2>2. CASE <<b, p>> # <<blockIndex, i>>
    BY <1>4, <2>2 DEF ImageAligned
  <2> QED BY <2>1, <2>2
<1> QED BY <1>6, <1>7, <1>8, <1>9, <1>10

\* A failed page spoils itself only, and the buffer is kept.
LEMMA WriteFailsIInv ==
  ASSUME IInv, WriteFails
  PROVE  IInv'
<1> USE DEF IInv
<1>1. /\ pc = "write" /\ pc' = "load" /\ noLoad' = TRUE /\ NextBlock
      /\ flash' = IF blockIndex < NBlocks THEN [flash EXCEPT ![blockIndex][i] = Mixed]
                  ELSE flash
      /\ UNCHANGED <<device, loaded, i, progSize, placed>>
  BY DEF WriteFails
<1>2. blockIndex < NBlocks => blockIndex \in Block
  BY ProgramAssumption DEF TypeOK, Block
<1>3. \A b \in Block, p \in PageNo :
        flash'[b][p] = flash[b][p] \/ flash'[b][p] \in {Erased, Mixed}
  BY <1>1, <1>2 DEF TypeOK
<1>4. TypeOK'
  <2>1. flash' \in [Block -> [PageNo -> Contents]]
    <3>1. CASE ~(blockIndex < NBlocks)
      BY <1>1, <3>1 DEF TypeOK
    <3>2. CASE blockIndex < NBlocks
      <4>1. [flash[blockIndex] EXCEPT ![i] = Mixed] \in [PageNo -> Contents]
        BY <1>2, <3>2 DEF TypeOK, Contents
      <4>2. flash' = [flash EXCEPT ![blockIndex] = [flash[blockIndex] EXCEPT ![i] = Mixed]]
        BY <1>1, <3>2
      <4> QED BY <4>1, <4>2 DEF TypeOK
    <3> QED BY <3>1, <3>2
  <2> QED BY <1>1, <2>1, NextBlockType DEF TypeOK, device
<1>5. Buffered' /\ RestBlank'
  BY <1>1 DEF Buffered, RestBlank
<1>6. Counted'
  <2>1. progSize >= loaded - PPB
    <3>1. progSize >= loaded - PPB + i
      BY <1>1 DEF Counted
    <3> QED BY <3>1, ProgramAssumption DEF TypeOK, PageNo
  <2> QED BY <1>1, <2>1 DEF Counted, device
<1>7. ImageAligned'
  BY <1>1, <1>3, AlignedKept DEF device
<1> QED BY <1>4, <1>5, <1>6, <1>7

\* Every step keeps the invariant.
LEMMA NextIInv == IInv /\ [Next]_vars => IInv'
<1> SUFFICES ASSUME IInv, [Next]_vars PROVE IInv'
  OBVIOUS
<1>1. CASE Load
  BY <1>1, LoadIInv
<1>2. CASE Erase
  BY <1>2, EraseIInv
<1>3. ASSUME NEW spoilt \in BOOLEAN, EraseFails(spoilt) PROVE IInv'
  BY <1>3, EraseFailsIInv
<1>4. CASE WritePage
  BY <1>4, WritePageIInv
<1>5. CASE WriteFails
  BY <1>5, WriteFailsIInv
<1>6. CASE UNCHANGED vars
  BY <1>6 DEF vars, IInv, TypeOK, Buffered, Counted, RestBlank, ImageAligned
<1> QED BY <1>1, <1>2, <1>3, <1>4, <1>5, <1>6 DEF Next

-----------------------------------------------------------------------------
(* Theorems *)

\* The invariant holds in every state of the burn.
THEOREM Invariance == Spec => []IInv
<1> QED BY InitIInv, NextIInv, PTL DEF Spec

\* The state of the loop keeps its type, whatever the chip refuses.
THEOREM TypeCorrect == Spec => []TypeOK
<1>1. IInv => TypeOK
  BY DEF IInv
<1> QED BY <1>1, Invariance, PTL

\* Image pages stand only at their place in a block and padding is burnt only for
\* an empty image, for any size of blocks, image and device.
THEOREM ImageStaysAligned == Spec => []ImageAligned
<1>1. IInv => ImageAligned
  BY DEF IInv
<1> QED BY <1>1, Invariance, PTL

\* A step that programs changes blank pages only.
LEMMA WriteStepBlank ==
  ASSUME IInv, Next, NEW b \in Block, NEW p \in PageNo,
         pc = "write", flash'[b][p] # flash[b][p]
  PROVE  flash[b][p] = Erased
<1> USE DEF IInv
<1>1. blockIndex < NBlocks /\ <<b, p>> = <<blockIndex, i>>
  <2>1. WritePage \/ WriteFails
    BY DEF Next, Load, Erase, EraseFails
  <2>2. CASE WritePage
    BY <2>2, ProgramAssumption DEF WritePage, WriteOk, TypeOK, Block
  <2>3. CASE WriteFails
    BY <2>3, ProgramAssumption DEF WriteFails, TypeOK, Block
  <2> QED BY <2>1, <2>2, <2>3
<1>2. i >= i
  BY DEF TypeOK, PageNo
<1> QED BY <1>1, <1>2 DEF RestBlank, TypeOK

\* The burn programs only pages it has erased before.
THEOREM BlankProgramming == Spec => OnlyBlankProgrammed
<1>1. IInv /\ [Next]_vars =>
        [\A b \in Block, p \in PageNo :
           pc = "write" /\ flash'[b][p] # flash[b][p] => flash[b][p] = Erased]_vars
  <2> SUFFICES ASSUME IInv, [Next]_vars, vars' # vars,
                      NEW b \in Block, NEW p \in PageNo,
                      pc = "write", flash'[b][p] # flash[b][p]
               PROVE  flash[b][p] = Erased
    BY Zenon
  <2> QED BY WriteStepBlank
<1> QED BY <1>1, Invariance, PTL DEF Spec, OnlyBlankProgrammed

-----------------------------------------------------------------------------
(* The burn of an image there is room for *)

\* The pages from the target on that take data, and those the loop is past.
Takers == {bp \in Block \X PageNo : bp[1] >= targetBlock /\ Takes(bp[1], bp[2])}
Passed == {bp \in Takers : \/ bp[1] < blockIndex
                           \/ pc = "write" /\ bp[1] = blockIndex /\ bp[2] < i}

HasRoom == Room(targetBlock) >= imageSize /\ Room(targetBlock) > 0

\* While the loop runs it has burnt every page that takes data up to where it
\* stands, and nothing below the target.
Swept ==
  HasRoom =>
    /\ pc # "done" => targetBlock <= blockIndex /\ progSize = Cardinality(Passed)
    /\ pc = "write" => /\ blockIndex \notin eraseBad
                       /\ \A q \in PageNo : q < i => <<blockIndex, q>> \notin progBad
    /\ \A b \in Block, p \in PageNo : b < targetBlock => flash[b][p] = Old

-----------------------------------------------------------------------------
(* Counting pages *)

\* The pages of the device are finitely many.
LEMMA PagesFinite == IsFiniteSet(Block \X PageNo) /\ IsFiniteSet(Block) /\ IsFiniteSet(PageNo)
<1>1. 0 \in Int /\ NBlocks - 1 \in Int /\ PPB - 1 \in Int
  BY ProgramAssumption
<1>2. IsFiniteSet(0 .. NBlocks - 1) /\ IsFiniteSet(0 .. PPB - 1)
  BY <1>1, FS_Interval
<1> QED BY <1>2, FS_Product DEF Block, PageNo

\* So are those that take data, and those passed.
LEMMA TakersFinite ==
  /\ IsFiniteSet(Takers) /\ IsFiniteSet(Passed)
  /\ Room(targetBlock) = Cardinality(Takers)
<1>1. Takers \in SUBSET (Block \X PageNo) /\ Passed \in SUBSET Takers
  BY DEF Takers, Passed
<1>2. IsFiniteSet(Takers)
  BY <1>1, PagesFinite, FS_Subset
<1> QED BY <1>1, <1>2, FS_Subset DEF Room, Takers

\* Room left means the loop stands on the device.
LEMMA StandsOnDevice ==
  ASSUME IInv, Swept, HasRoom, pc # "done"
  PROVE  blockIndex < NBlocks /\ blockIndex \in Block
<1>1. progSize = Cardinality(Passed)
  BY DEF Swept
<1>2. Cardinality(Takers) \in Nat /\ imageSize \in Nat /\ progSize \in Nat
  BY TakersFinite, FS_CardinalityType DEF IInv, TypeOK
<1>3. progSize < Cardinality(Takers)
  <2>1. progSize < imageSize \/ progSize = 0
    BY DEF IInv, Counted
  <2> QED BY <1>2, <2>1, TakersFinite DEF HasRoom
<1>4. Passed # Takers
  BY <1>1, <1>2, <1>3
<1>5. PICK bp \in Takers : bp \notin Passed
  BY <1>4 DEF Passed
<1>6. bp[1] \in 0 .. NBlocks - 1 /\ ~(bp[1] < blockIndex)
  BY <1>5 DEF Passed, Takers, Block
<1> QED BY <1>6, ProgramAssumption DEF IInv, TypeOK, Block

\* On the device the block number does not wrap.
LEMMA NoWrap ==
  ASSUME IInv, blockIndex \in Block, NextBlock
  PROVE  blockIndex' = blockIndex + 1
<1>1. blockIndex + 1 \in 0 .. AddrBlocks - 1 /\ AddrBlocks \in Nat \ {0}
  BY ProgramAssumption DEF Block
<1> QED BY <1>1 DEF NextBlock

\* What the chip refuses and what was asked for do not change.
LEMMA RequestKept ==
  ASSUME UNCHANGED device
  PROVE  Takers' = Takers /\ HasRoom' = HasRoom /\ targetBlock' = targetBlock
<1>1. eraseBad' = eraseBad /\ progBad' = progBad /\ targetBlock' = targetBlock
      /\ imageSize' = imageSize
  BY DEF device
<1> QED BY <1>1 DEF Takers, HasRoom, Room, Takes

-----------------------------------------------------------------------------
(* The count is kept *)

\* At first nothing is passed, and all blocks are as they were.
LEMMA InitSwept == Init => Swept
<1> SUFFICES ASSUME Init PROVE Swept
  OBVIOUS
<1>1. Passed = {}
  <2>1. \A bp \in Takers : bp[1] >= targetBlock /\ bp[1] \in Nat
    BY ProgramAssumption DEF Takers, Block
  <2>2. blockIndex = targetBlock /\ targetBlock \in Nat /\ pc = "load"
    BY ProgramAssumption DEF Init
  <2> QED BY <2>1, <2>2 DEF Passed
<1>2. progSize = Cardinality(Passed)
  BY <1>1, FS_EmptySet DEF Init
<1>3. targetBlock <= blockIndex /\ pc = "load"
  BY ProgramAssumption DEF Init
<1>4. \A b \in Block, p \in PageNo : flash[b][p] = Old
  BY DEF Init
<1> QED BY <1>2, <1>3, <1>4 DEF Swept

\* A turn that ends with block blockIndex takes the loop past that block.
LEMMA BlockPassed ==
  ASSUME IInv, UNCHANGED device, blockIndex \in Block, NextBlock, pc' = "load"
  PROVE  Passed' = {bp \in Takers : bp[1] <= blockIndex}
<1>1. blockIndex' = blockIndex + 1 /\ Takers' = Takers
  BY NoWrap, RequestKept
<1>2. \A bp \in Takers : bp[1] \in Int /\ blockIndex \in Int
  BY ProgramAssumption DEF Takers, Block
<1>3. \A bp \in Takers : bp[1] < blockIndex + 1 <=> bp[1] <= blockIndex
  BY <1>2
<1> QED BY <1>1, <1>3 DEF Passed

\* Loading moves nothing.
LEMMA LoadSwept ==
  ASSUME IInv, Swept, Load
  PROVE  Swept'
<1>1. /\ pc = "load" /\ pc' = "erase"
      /\ UNCHANGED <<flash, device, blockIndex, i, progSize, placed>>
  BY DEF Load
<1>2. Takers' = Takers /\ HasRoom' = HasRoom /\ targetBlock' = targetBlock
  BY <1>1, RequestKept DEF device
<1>3. Passed' = Passed
  BY <1>1, <1>2 DEF Passed
<1> QED BY <1>1, <1>2, <1>3 DEF Swept

\* The block erased takes data and lies at or after the target.
LEMMA EraseSwept ==
  ASSUME IInv, Swept, Erase
  PROVE  Swept'
<1> SUFFICES ASSUME HasRoom' PROVE Swept'
  BY DEF Swept
<1>1. /\ pc = "erase" /\ pc' = "write" /\ i' = 0 /\ EraseBlock \notin eraseBad
      /\ flash' = [flash EXCEPT ![EraseBlock] = [p \in PageNo |-> Erased]]
      /\ UNCHANGED <<device, blockIndex, noLoad, loaded, progSize, placed>>
  BY DEF Erase
<1>2. Takers' = Takers /\ HasRoom /\ targetBlock' = targetBlock /\ eraseBad' = eraseBad
  BY <1>1, RequestKept DEF device
<1>3. blockIndex \in Block /\ EraseBlock = blockIndex
  BY <1>1, <1>2, StandsOnDevice, EraseBlockType DEF IInv
<1>4. Passed' = Passed
  <2>1. \A bp \in Takers : ~(bp[2] < 0)
    BY ProgramAssumption DEF Takers, PageNo
  <2> QED BY <1>1, <1>2, <2>1 DEF Passed
<1>5. targetBlock <= blockIndex /\ progSize = Cardinality(Passed)
  BY <1>1, <1>2 DEF Swept
<1>6. \A q \in PageNo : ~(q < 0)
  BY ProgramAssumption DEF PageNo
<1>7. ASSUME NEW b \in Block, NEW p \in PageNo, b < targetBlock
      PROVE  flash'[b][p] = Old
  <2>1. b # blockIndex
    BY <1>3, <1>5, <1>7, ProgramAssumption DEF Block, IInv, TypeOK
  <2>2. flash'[b] = flash[b]
    BY <1>1, <1>3, <2>1 DEF IInv, TypeOK
  <2> QED BY <1>2, <1>7, <2>2 DEF Swept
<1> QED BY <1>1, <1>2, <1>3, <1>4, <1>5, <1>6, <1>7 DEF Swept

\* A block that does not erase takes no data.
LEMMA EraseFailsSwept ==
  ASSUME IInv, Swept, NEW spoilt \in BOOLEAN, EraseFails(spoilt)
  PROVE  Swept'
<1> SUFFICES ASSUME HasRoom' PROVE Swept'
  BY DEF Swept
<1>1. /\ pc = "erase" /\ pc' = "load" /\ NextBlock
      /\ flash' = IF spoilt THEN [flash EXCEPT ![EraseBlock] = [p \in PageNo |-> Mixed]]
                  ELSE flash
      /\ UNCHANGED <<device, loaded, i, progSize, placed>>
      /\ EraseAccepted => EraseBlock \in eraseBad
  BY DEF EraseFails
<1>2. Takers' = Takers /\ HasRoom /\ targetBlock' = targetBlock
  BY <1>1, RequestKept DEF device
<1>3. blockIndex \in Block /\ EraseBlock = blockIndex /\ blockIndex' = blockIndex + 1
  BY <1>1, <1>2, StandsOnDevice, EraseBlockType, NoWrap DEF IInv
<1>4. blockIndex \in eraseBad
  <2>1. blockIndex + 1 \in 0 .. AddrBlocks - 1 /\ AddrBlocks \in Nat \ {0}
        /\ blockIndex + 1 <= NBlocks
    BY <1>3, ProgramAssumption DEF Block
  <2>2. (blockIndex + 1) % AddrBlocks = blockIndex + 1
    BY <2>1
  <2> QED BY <1>1, <1>3, <2>1, <2>2 DEF EraseAccepted
<1>5. targetBlock <= blockIndex /\ progSize = Cardinality(Passed)
  BY <1>1, <1>2 DEF Swept
<1>6. Passed' = Passed
  <2>1. \A bp \in Takers : bp[1] <= blockIndex <=> bp[1] < blockIndex
    <3>1. \A bp \in Takers : bp[1] # blockIndex /\ bp[1] \in Int /\ blockIndex \in Int
      BY <1>3, <1>4, ProgramAssumption DEF Takers, Takes, Block
    <3> QED BY <3>1
  <2>2. Passed = {bp \in Takers : bp[1] <= blockIndex}
    BY <1>1, <2>1 DEF Passed
  <2> QED BY <1>1, <1>3, <2>2, BlockPassed
<1>7. ASSUME NEW b \in Block, NEW p \in PageNo, b < targetBlock
      PROVE  flash'[b][p] = Old
  <2>1. b # blockIndex
    BY <1>3, <1>5, <1>7, ProgramAssumption DEF Block, IInv, TypeOK
  <2>2. flash'[b] = flash[b]
    BY <1>1, <1>3, <2>1 DEF IInv, TypeOK
  <2> QED BY <1>2, <1>7, <2>2 DEF Swept
<1>8. targetBlock <= blockIndex + 1
  BY <1>3, <1>5, ProgramAssumption DEF Block, IInv, TypeOK
<1> QED BY <1>1, <1>2, <1>3, <1>5, <1>6, <1>7, <1>8 DEF Swept

\* The page programmed takes data, and was not passed before.
LEMMA PagePassed ==
  ASSUME IInv, Swept, HasRoom, WritePage
  PROVE  /\ <<blockIndex, i>> \in Takers
         /\ <<blockIndex, i>> \notin Passed
         /\ pc' # "done" => Passed' = Passed \cup {<<blockIndex, i>>}
<1> DEFINE here == <<blockIndex, i>>
<1>1. /\ pc = "write" /\ here \notin progBad /\ UNCHANGED device
      /\ \/ pc' = "done"
         \/ i + 1 < PPB /\ i' = i + 1 /\ UNCHANGED <<pc, blockIndex>>
         \/ ~(i + 1 < PPB) /\ pc' = "load" /\ NextBlock
  BY DEF WritePage, WriteOk
<1>2. blockIndex \in Block /\ i \in PageNo /\ targetBlock <= blockIndex
  BY <1>1, StandsOnDevice DEF Swept, IInv, TypeOK
<1>3. blockIndex \notin eraseBad /\ \A q \in PageNo : q < i => <<blockIndex, q>> \notin progBad
  BY <1>1 DEF Swept
<1>4. here \in Takers
  <2>1. \A q \in 0 .. i : q \in PageNo /\ (q < i \/ q = i)
    BY <1>2, ProgramAssumption DEF PageNo
  <2>2. Takes(blockIndex, i)
    BY <1>1, <1>3, <2>1 DEF Takes
  <2>3. blockIndex >= targetBlock
    BY <1>2, ProgramAssumption DEF Block, IInv, TypeOK
  <2> QED BY <1>2, <2>2, <2>3 DEF Takers
<1>5. here \notin Passed
  <2>1. ~(blockIndex < blockIndex) /\ ~(i < i)
    BY <1>2, ProgramAssumption DEF Block, PageNo
  <2> QED BY <2>1 DEF Passed
<1>6. ASSUME pc' # "done" PROVE Passed' = Passed \cup {here}
  <2>1. \A bp \in Takers : /\ bp = <<bp[1], bp[2]>> /\ bp[1] \in Int
                           /\ bp[2] \in 0 .. PPB - 1
    BY ProgramAssumption DEF Takers, Block, PageNo
  <2>2. blockIndex \in Int /\ i \in 0 .. PPB - 1 /\ PPB \in Nat
    BY <1>2, ProgramAssumption DEF Block, PageNo
  <2>3. CASE i + 1 < PPB /\ i' = i + 1 /\ UNCHANGED <<pc, blockIndex>>
    <3>1. \A bp \in Takers : bp[2] < i + 1 <=> bp[2] < i \/ bp[2] = i
      BY <2>1, <2>2
    <3>2. Passed' = {bp \in Takers : bp[1] < blockIndex \/ (bp[1] = blockIndex /\ bp[2] < i + 1)}
      BY <1>1, <2>3, RequestKept DEF Passed
    <3>3. \A bp \in Takers : bp[1] = blockIndex /\ bp[2] = i <=> bp = here
      BY <2>1
    <3> QED BY <1>1, <1>4, <3>1, <3>2, <3>3 DEF Passed
  <2>4. CASE ~(i + 1 < PPB) /\ pc' = "load" /\ NextBlock
    <3>1. \A bp \in Takers : bp[2] < i \/ bp[2] = i
      BY <2>1, <2>2, <2>4
    <3>2. \A bp \in Takers : bp[1] <= blockIndex <=> bp[1] < blockIndex \/ bp[1] = blockIndex
      BY <2>1, <2>2
    <3>3. \A bp \in Takers : bp[1] = blockIndex /\ bp[2] = i <=> bp = here
      BY <2>1
    <3>4. Passed' = {bp \in Takers : bp[1] <= blockIndex}
      BY <1>1, <1>2, <2>4, BlockPassed
    <3> QED BY <1>1, <1>4, <3>1, <3>2, <3>3, <3>4 DEF Passed
  <2> QED BY <1>1, <1>6, <2>3, <2>4
<1> QED BY <1>4, <1>5, <1>6

\* A page that is programmed counts as one more passed.
LEMMA WritePageSwept ==
  ASSUME IInv, Swept, WritePage
  PROVE  Swept'
<1> SUFFICES ASSUME HasRoom' PROVE Swept'
  BY DEF Swept
<1>1. /\ pc = "write" /\ UNCHANGED device /\ progSize' = progSize + 1
      /\ flash' = [flash EXCEPT ![blockIndex][i] = IF @ = Erased THEN Source ELSE Mixed]
      /\ \/ pc' = "done"
         \/ i + 1 < PPB /\ i' = i + 1 /\ UNCHANGED <<pc, blockIndex>>
         \/ ~(i + 1 < PPB) /\ pc' = "load" /\ NextBlock
  BY DEF WritePage
<1>2. HasRoom /\ targetBlock' = targetBlock /\ eraseBad' = eraseBad /\ progBad' = progBad
  BY <1>1, RequestKept DEF device
<1>3. blockIndex \in Block /\ i \in PageNo
  BY <1>1, <1>2, StandsOnDevice DEF IInv, TypeOK
<1>4. targetBlock <= blockIndex /\ progSize = Cardinality(Passed)
  BY <1>1, <1>2 DEF Swept
<1>5. ASSUME pc' # "done"
      PROVE  targetBlock' <= blockIndex' /\ progSize' = Cardinality(Passed')
  <2>1. Passed' = Passed \cup {<<blockIndex, i>>} /\ <<blockIndex, i>> \notin Passed
    BY <1>2, <1>5, PagePassed
  <2>2. Cardinality(Passed') = Cardinality(Passed) + 1
    BY <2>1, TakersFinite, FS_AddElement
  <2>3. targetBlock <= blockIndex /\ targetBlock <= blockIndex + 1
    BY <1>3, <1>4, ProgramAssumption DEF Block, IInv, TypeOK
  <2>4. blockIndex' = blockIndex \/ blockIndex' = blockIndex + 1
    BY <1>1, <1>3, <1>5, NoWrap
  <2> QED BY <1>1, <1>2, <1>4, <2>2, <2>3, <2>4
<1>6. ASSUME pc' = "write"
      PROVE  /\ blockIndex' \notin eraseBad'
             /\ \A q \in PageNo : q < i' => <<blockIndex', q>> \notin progBad'
  <2>1. i' = i + 1 /\ blockIndex' = blockIndex
    BY <1>1, <1>6
  <2>2. <<blockIndex, i>> \notin progBad
    BY DEF WritePage, WriteOk
  <2>3. \A q \in PageNo : q < i + 1 => q < i \/ q = i
    BY <1>3, ProgramAssumption DEF PageNo
  <2> QED BY <1>1, <1>2, <2>1, <2>2, <2>3 DEF Swept
<1>7. ASSUME NEW b \in Block, NEW p \in PageNo, b < targetBlock
      PROVE  flash'[b][p] = Old
  <2>1. b # blockIndex
    BY <1>3, <1>4, <1>7, ProgramAssumption DEF Block, IInv, TypeOK
  <2>2. flash'[b] = flash[b]
    BY <1>1, <1>3, <2>1 DEF IInv, TypeOK
  <2> QED BY <1>2, <1>7, <2>2 DEF Swept
<1> QED BY <1>2, <1>5, <1>6, <1>7 DEF Swept

\* The rest of a block whose page fails takes no data.
LEMMA WriteFailsSwept ==
  ASSUME IInv, Swept, WriteFails
  PROVE  Swept'
<1> SUFFICES ASSUME HasRoom' PROVE Swept'
  BY DEF Swept
<1>1. /\ pc = "write" /\ pc' = "load" /\ ~WriteOk /\ NextBlock
      /\ flash' = IF blockIndex < NBlocks THEN [flash EXCEPT ![blockIndex][i] = Mixed]
                  ELSE flash
      /\ UNCHANGED <<device, loaded, i, progSize, placed>>
  BY DEF WriteFails
<1>2. Takers' = Takers /\ HasRoom /\ targetBlock' = targetBlock
  BY <1>1, RequestKept DEF device
<1>3. /\ blockIndex \in Block /\ i \in PageNo /\ blockIndex' = blockIndex + 1
      /\ blockIndex < NBlocks /\ <<blockIndex, i>> \in progBad
  BY <1>1, <1>2, StandsOnDevice, NoWrap DEF IInv, TypeOK, WriteOk
<1>4. targetBlock <= blockIndex /\ progSize = Cardinality(Passed)
  BY <1>1, <1>2 DEF Swept
<1>5. Passed' = Passed
  <2>1. ASSUME NEW bp \in Takers
        PROVE  bp[1] <= blockIndex <=> bp[1] < blockIndex \/ (bp[1] = blockIndex /\ bp[2] < i)
    <3>1. /\ bp[1] \in Int /\ blockIndex \in Int /\ bp[2] \in 0 .. PPB - 1
          /\ i \in 0 .. PPB - 1 /\ PPB \in Nat
      BY <1>3, ProgramAssumption DEF Takers, Block, PageNo
    <3>2. bp[2] >= i => i \in 0 .. bp[2]
      BY <3>1
    <3>3. bp[1] = blockIndex /\ i \in 0 .. bp[2] => <<blockIndex, i>> \notin progBad
      BY DEF Takers, Takes
    <3> QED BY <1>3, <3>1, <3>2, <3>3
  <2>2. Passed = {bp \in Takers : bp[1] <= blockIndex}
    BY <1>1, <2>1 DEF Passed
  <2> QED BY <1>1, <1>3, <2>2, BlockPassed
<1>6. ASSUME NEW b \in Block, NEW p \in PageNo, b < targetBlock
      PROVE  flash'[b][p] = Old
  <2>1. b # blockIndex
    BY <1>3, <1>4, <1>6, ProgramAssumption DEF Block, IInv, TypeOK
  <2>2. flash'[b] = flash[b]
    BY <1>1, <1>3, <2>1 DEF IInv, TypeOK
  <2> QED BY <1>2, <1>6, <2>2 DEF Swept
<1>7. targetBlock <= blockIndex + 1
  BY <1>3, <1>4, ProgramAssumption DEF Block, IInv, TypeOK
<1> QED BY <1>1, <1>2, <1>3, <1>4, <1>5, <1>6, <1>7 DEF Swept

\* Every step keeps the count.
LEMMA NextSwept == IInv /\ Swept /\ [Next]_vars => Swept'
<1> SUFFICES ASSUME IInv, Swept, [Next]_vars PROVE Swept'
  OBVIOUS
<1>1. CASE Load
  BY <1>1, LoadSwept
<1>2. CASE Erase
  BY <1>2, EraseSwept
<1>3. ASSUME NEW spoilt \in BOOLEAN, EraseFails(spoilt) PROVE Swept'
  BY <1>3, EraseFailsSwept
<1>4. CASE WritePage
  BY <1>4, WritePageSwept
<1>5. CASE WriteFails
  BY <1>5, WriteFailsSwept
<1>6. CASE UNCHANGED vars
  <2>1. Passed' = Passed /\ HasRoom' = HasRoom
    BY <1>6, RequestKept DEF vars, device, Passed
  <2> QED BY <1>6, <2>1 DEF vars, Swept
<1> QED BY <1>1, <1>2, <1>3, <1>4, <1>5, <1>6 DEF Next

\* The count holds in every state of the burn.
THEOREM CountHolds == Spec => []Swept
<1> QED BY InitSwept, NextSwept, Invariance, PTL DEF Spec

\* While the device has room from the target on, the burn never wraps round to a
\* block below the target: whatever stood there still does.
THEOREM TargetRespected == Spec => []BelowTargetUntouched
<1>1. Swept => BelowTargetUntouched
  BY DEF Swept, HasRoom, BelowTargetUntouched
<1> QED BY <1>1, CountHolds, PTL

-----------------------------------------------------------------------------
(* A chip that programs every page: the abstract burn *)

\* What the buffer holds is where the count says, and what was placed lies behind
\* the loop with its page of the image in it.
Kept ==
  /\ Len(placed) = progSize /\ (pc \in {"erase", "write"} => noLoad = FALSE)
  /\ Burn!Enough =>
       /\ pc = "load" => loaded = IF noLoad THEN progSize + PPB ELSE progSize
       /\ pc = "erase" => loaded = progSize + PPB
       /\ pc = "write" => loaded - PPB + i = progSize
       /\ \A k \in 1 .. Len(placed) :
            /\ flash[placed[k][1]][placed[k][2]] = IF imageSize = 0 THEN Pad ELSE k - 1
            /\ pc # "done" => \/ placed[k][1] < blockIndex
                              \/ /\ pc = "write" /\ placed[k][1] = blockIndex
                                 /\ placed[k][2] < i

\* NandBurn counts as this module does.
LEMMA SameCardinality == \A S : Burn!Cardinality(S) = Cardinality(S)
BY DEF Burn!Cardinality, Cardinality

\* NandBurn's promise is about chips that program every page; there the pages
\* that take data are those of the usable blocks.
LEMMA EnoughIsRoom ==
  ASSUME IInv, Burn!Enough
  PROVE  /\ progBad = {} /\ HasRoom
         /\ Takers = Burn!Usable \X PageNo
<1> DEFINE good == IF progBad = {} THEN Block \ eraseBad ELSE {}
           size == IF imageSize = 0 THEN 1 ELSE imageSize
<1>1. Burn!Usable = {b \in good : targetBlock <= b /\ b < NBlocks}
  BY DEF Burn!Usable
<1>2. /\ Cardinality(Burn!Usable) * PPB >= size /\ size \in Nat /\ size >= 1
      /\ size >= imageSize /\ PPB \in Nat
  <2>1. imageSize \in Nat /\ PPB \in Nat
    BY ProgramAssumption DEF IInv, TypeOK
  <2>2. Cardinality(Burn!Usable) * PPB >= size
    BY SameCardinality DEF Burn!Enough
  <2> QED BY <2>1, <2>2
<1> HIDE DEF size
<1>3. Burn!Usable # {}
  <2>1. ~(0 * PPB >= size)
    BY <1>2
  <2> QED BY <1>2, <2>1, FS_EmptySet
<1>4. progBad = {}
  BY <1>1, <1>3
<1>5. Burn!Usable = {b \in Block : b \notin eraseBad /\ b >= targetBlock}
  BY <1>1, <1>4, ProgramAssumption DEF Block, IInv, TypeOK
<1>6. Takers = Burn!Usable \X PageNo
  BY <1>4, <1>5 DEF Takers, Takes
<1>7. IsFiniteSet(Burn!Usable) /\ Cardinality(PageNo) = PPB
  <2>1. IsFiniteSet(Burn!Usable)
    BY <1>5, PagesFinite, FS_Subset
  <2>2. Cardinality(0 .. PPB - 1) = PPB
    <3>1. 0 \in Int /\ PPB - 1 \in Int /\ ~(0 > PPB - 1) /\ (PPB - 1) - 0 + 1 = PPB
      BY ProgramAssumption
    <3> QED BY <3>1, FS_Interval
  <2> QED BY <2>1, <2>2 DEF PageNo
<1>8. Room(targetBlock) = Cardinality(Burn!Usable) * PPB
  BY <1>6, <1>7, TakersFinite, PagesFinite, FS_Product
<1>9. HasRoom
  <2>1. Room(targetBlock) >= size /\ Room(targetBlock) \in Nat /\ imageSize \in Nat
    BY <1>2, <1>8, TakersFinite, FS_CardinalityType DEF IInv, TypeOK
  <2> QED BY <1>2, <2>1 DEF HasRoom
<1> QED BY <1>4, <1>6, <1>9

\* The promise does not change while the burn runs.
LEMMA PromiseKept ==
  ASSUME UNCHANGED device
  PROVE  Burn!Usable' = Burn!Usable /\ Burn!Enough' = Burn!Enough
<1>1. eraseBad' = eraseBad /\ progBad' = progBad /\ targetBlock' = targetBlock
      /\ imageSize' = imageSize
  BY DEF device
<1>2. Burn!Usable' = Burn!Usable
  BY <1>1 DEF Burn!Usable
<1> QED BY <1>1, <1>2 DEF Burn!Enough

\* At first nothing is loaded, counted or placed.
LEMMA InitKept == Init => Kept
<1> SUFFICES ASSUME Init PROVE Kept
  OBVIOUS
<1>1. placed = <<>> /\ progSize = 0 /\ pc = "load" /\ noLoad = FALSE /\ loaded = 0
  BY DEF Init
<1>2. Len(placed) = 0 /\ \A k \in 1 .. Len(placed) : FALSE
  BY <1>1
<1> QED BY <1>1, <1>2 DEF Kept

\* What holds of the places taken so far, kept apart from the buffer.
LEMMA PlacesOnDevice ==
  ASSUME IInv, NEW k \in 1 .. Len(placed)
  PROVE  placed[k][1] \in Block /\ placed[k][2] \in PageNo /\ k \in Nat
<1>1. placed[k] \in Block \X PageNo
  BY DEF IInv, TypeOK
<1> QED BY <1>1 DEF IInv, TypeOK

\* Loading fills the buffer with the next block, or keeps it.
LEMMA LoadKept ==
  ASSUME IInv, Kept, Load
  PROVE  Kept'
<1>1. /\ pc = "load" /\ pc' = "erase" /\ noLoad' = FALSE
      /\ loaded' = (IF noLoad THEN loaded ELSE loaded + PPB)
      /\ UNCHANGED <<flash, device, blockIndex, i, progSize, placed>>
  BY DEF Load
<1>2. Burn!Enough' = Burn!Enough /\ imageSize' = imageSize
  BY <1>1, PromiseKept DEF device
<1>3. Burn!Enough => loaded' = progSize + PPB
  BY <1>1 DEF Kept
<1> QED BY <1>1, <1>2, <1>3 DEF Kept

\* The block erased lies behind nothing that was placed.
LEMMA EraseKept ==
  ASSUME IInv, Swept, Kept, Erase
  PROVE  Kept'
<1>1. /\ pc = "erase" /\ pc' = "write" /\ i' = 0
      /\ flash' = [flash EXCEPT ![EraseBlock] = [p \in PageNo |-> Erased]]
      /\ UNCHANGED <<device, blockIndex, noLoad, loaded, progSize, placed>>
  BY DEF Erase
<1>2. Burn!Enough' = Burn!Enough /\ imageSize' = imageSize
  BY <1>1, PromiseKept DEF device
<1>3. Len(placed') = progSize' /\ (pc' \in {"erase", "write"} => noLoad' = FALSE)
  BY <1>1 DEF Kept
<1> SUFFICES ASSUME Burn!Enough PROVE Kept'
  BY <1>2, <1>3 DEF Kept
<1>4. EraseBlock = blockIndex /\ blockIndex \in Block
  BY <1>1, EnoughIsRoom, StandsOnDevice, EraseBlockType DEF IInv
<1>5. loaded' - PPB + i' = progSize'
  <2>1. loaded = progSize + PPB
    BY <1>1 DEF Kept
  <2>2. loaded - PPB + 0 = progSize
    BY <2>1, ProgramAssumption DEF IInv, TypeOK
  <2> QED BY <1>1, <2>2
<1>6. ASSUME NEW k \in 1 .. Len(placed)
      PROVE  /\ flash'[placed[k][1]][placed[k][2]] = IF imageSize = 0 THEN Pad ELSE k - 1
             /\ placed[k][1] < blockIndex
  <2>1. placed[k][1] < blockIndex
    BY <1>1 DEF Kept
  <2>2. placed[k][1] \in Block /\ placed[k][1] # blockIndex
    BY <1>4, <2>1, PlacesOnDevice, ProgramAssumption DEF Block
  <2>3. flash'[placed[k][1]] = flash[placed[k][1]]
    BY <1>1, <1>4, <2>2 DEF IInv, TypeOK
  <2> QED BY <2>1, <2>3 DEF Kept
<1> QED BY <1>1, <1>2, <1>3, <1>5, <1>6 DEF Kept

\* A block skipped holds nothing that was placed.
LEMMA EraseFailsKept ==
  ASSUME IInv, Swept, Kept, NEW spoilt \in BOOLEAN, EraseFails(spoilt)
  PROVE  Kept'
<1>1. /\ pc = "erase" /\ pc' = "load" /\ noLoad' = TRUE /\ NextBlock
      /\ flash' = IF spoilt THEN [flash EXCEPT ![EraseBlock] = [p \in PageNo |-> Mixed]]
                  ELSE flash
      /\ UNCHANGED <<device, loaded, i, progSize, placed>>
  BY DEF EraseFails
<1>2. Burn!Enough' = Burn!Enough /\ imageSize' = imageSize
  BY <1>1, PromiseKept DEF device
<1>3. Len(placed') = progSize' /\ (pc' \in {"erase", "write"} => noLoad' = FALSE)
  BY <1>1 DEF Kept
<1> SUFFICES ASSUME Burn!Enough PROVE Kept'
  BY <1>2, <1>3 DEF Kept
<1>4. EraseBlock = blockIndex /\ blockIndex \in Block /\ blockIndex' = blockIndex + 1
  BY <1>1, EnoughIsRoom, StandsOnDevice, EraseBlockType, NoWrap DEF IInv
<1>5. loaded' = progSize' + PPB
  BY <1>1 DEF Kept
<1>6. ASSUME NEW k \in 1 .. Len(placed)
      PROVE  /\ flash'[placed[k][1]][placed[k][2]] = IF imageSize = 0 THEN Pad ELSE k - 1
             /\ placed[k][1] < blockIndex'
  <2>1. placed[k][1] < blockIndex
    BY <1>1 DEF Kept
  <2>2. /\ placed[k][1] \in Block /\ placed[k][1] # blockIndex
        /\ placed[k][1] < blockIndex + 1
    BY <1>4, <2>1, PlacesOnDevice, ProgramAssumption DEF Block
  <2>3. flash'[placed[k][1]] = flash[placed[k][1]]
    BY <1>1, <1>4, <2>2 DEF IInv, TypeOK
  <2> QED BY <1>4, <2>2, <2>3 DEF Kept
<1> QED BY <1>1, <1>2, <1>3, <1>5, <1>6 DEF Kept

\* Where no page fails, a page on the device never does.
LEMMA WriteFailsKept ==
  ASSUME IInv, Swept, Kept, WriteFails
  PROVE  Kept'
<1>1. /\ pc = "write" /\ pc' = "load" /\ ~WriteOk
      /\ UNCHANGED <<device, progSize, placed>>
  BY DEF WriteFails
<1>2. Burn!Enough' = Burn!Enough
  BY <1>1, PromiseKept DEF device
<1>3. ~Burn!Enough
  <2> SUFFICES ASSUME Burn!Enough PROVE FALSE
    OBVIOUS
  <2>1. blockIndex < NBlocks /\ progBad = {}
    BY <1>1, EnoughIsRoom, StandsOnDevice
  <2> QED BY <1>1, <2>1 DEF WriteOk
<1> QED BY <1>1, <1>2, <1>3 DEF Kept

\* A page programmed holds the next page of the image and lies behind the loop.
LEMMA WritePageKept ==
  ASSUME IInv, Swept, Kept, WritePage
  PROVE  Kept'
<1>1. /\ pc = "write" /\ progSize' = progSize + 1 /\ placed' = Append(placed, <<blockIndex, i>>)
      /\ flash' = [flash EXCEPT ![blockIndex][i] = IF @ = Erased THEN Source ELSE Mixed]
      /\ UNCHANGED <<device, noLoad, loaded>> /\ blockIndex < NBlocks
      /\ \/ pc' = "done"
         \/ i + 1 < PPB /\ i' = i + 1 /\ UNCHANGED <<pc, blockIndex>>
         \/ ~(i + 1 < PPB) /\ pc' = "load" /\ NextBlock
  BY DEF WritePage, WriteOk
<1>2. Burn!Enough' = Burn!Enough /\ imageSize' = imageSize
  BY <1>1, PromiseKept DEF device
<1>3. placed \in Seq(Block \X PageNo) /\ Len(placed) \in Nat /\ Len(placed) = progSize
  BY DEF Kept, IInv, TypeOK
<1>4. blockIndex \in Block /\ i \in PageNo
  BY <1>1, ProgramAssumption DEF IInv, TypeOK, Block
<1>5. /\ Len(placed') = Len(placed) + 1 /\ placed'[Len(placed) + 1] = <<blockIndex, i>>
      /\ \A k \in 1 .. Len(placed) : placed'[k] = placed[k]
  BY <1>1, <1>3, <1>4
<1>6. Len(placed') = progSize' /\ noLoad' = FALSE
  BY <1>1, <1>3, <1>5 DEF Kept
<1> SUFFICES ASSUME Burn!Enough PROVE Kept'
  BY <1>2, <1>6 DEF Kept
<1>7. loaded - PPB + i = progSize
  BY <1>1 DEF Kept
<1>8. /\ progSize \in Nat /\ imageSize \in Nat /\ loaded \in Nat /\ i \in 0 .. PPB - 1
      /\ PPB \in Nat \ {0} /\ noLoad \in BOOLEAN
  BY <1>4, ProgramAssumption DEF PageNo, IInv, TypeOK
<1>9. /\ pc' = "load" => loaded' = progSize'
      /\ pc' = "write" => loaded' - PPB + i' = progSize' /\ i' = i + 1 /\ blockIndex' = blockIndex
      /\ pc' # "erase"
      /\ pc' = "load" => blockIndex' = blockIndex + 1
  <2>1. CASE pc' = "done"
    BY <2>1
  <2>2. CASE i + 1 < PPB /\ i' = i + 1 /\ UNCHANGED <<pc, blockIndex>>
    BY <1>1, <1>7, <1>8, <2>2
  <2>3. CASE ~(i + 1 < PPB) /\ pc' = "load" /\ NextBlock
    BY <1>1, <1>4, <1>7, <1>8, <2>3, NoWrap
  <2> QED BY <1>1, <2>1, <2>2, <2>3
<1>10. flash[blockIndex][i] = Erased
  <2>1. i >= i
    BY <1>8
  <2> QED BY <1>1, <1>4, <2>1 DEF IInv, RestBlank
<1>11. /\ flash'[blockIndex][i] = Source
       /\ \A b \in Block, p \in PageNo :
            <<b, p>> # <<blockIndex, i>> => flash'[b][p] = flash[b][p]
  BY <1>1, <1>4, <1>10 DEF IInv, TypeOK
<1>12. Source = IF imageSize = 0 THEN Pad ELSE progSize
  <2>1. progSize < imageSize \/ (imageSize = 0 /\ progSize = 0)
    BY <1>1 DEF IInv, Counted
  <2> QED BY <1>7, <1>8, <2>1 DEF Source
<1>13. ASSUME NEW k \in 1 .. Len(placed')
       PROVE  /\ flash'[placed'[k][1]][placed'[k][2]] = IF imageSize = 0 THEN Pad ELSE k - 1
              /\ pc' # "done" => \/ placed'[k][1] < blockIndex'
                                 \/ /\ pc' = "write" /\ placed'[k][1] = blockIndex'
                                    /\ placed'[k][2] < i'
  <2>1. k \in 1 .. Len(placed) \/ k = Len(placed) + 1
    BY <1>3, <1>5
  <2>2. CASE k = Len(placed) + 1
    <3>1. placed'[k] = <<blockIndex, i>> /\ k - 1 = progSize
      BY <1>3, <1>5, <2>2
    <3>2. blockIndex < blockIndex + 1 /\ i < i + 1
      BY <1>4, <1>8, ProgramAssumption DEF Block
    <3>3. pc' \in {"done", "load", "write"}
      BY <1>1
    <3> QED BY <1>9, <1>11, <1>12, <3>1, <3>2, <3>3
  <2>3. CASE k \in 1 .. Len(placed)
    <3>1. placed'[k] = placed[k] /\ placed[k][1] \in Block /\ placed[k][2] \in PageNo
      BY <1>5, <2>3, PlacesOnDevice
    <3>2. placed[k][1] < blockIndex \/ (placed[k][1] = blockIndex /\ placed[k][2] < i)
      BY <1>1, <2>3 DEF Kept
    <3>3. <<placed[k][1], placed[k][2]>> # <<blockIndex, i>>
      BY <1>4, <1>8, <3>2, ProgramAssumption DEF Block
    <3>4. flash'[placed[k][1]][placed[k][2]] = IF imageSize = 0 THEN Pad ELSE k - 1
      BY <1>11, <2>3, <3>1, <3>3 DEF Kept
    <3>5. /\ placed[k][1] < blockIndex \/ placed[k][1] = blockIndex => placed[k][1] < blockIndex + 1
          /\ placed[k][2] < i => placed[k][2] < i + 1
      <4>1. \A x, y \in Int : x < y \/ x = y => x < y + 1
        OBVIOUS
      <4>2. blockIndex \in Int /\ i \in Int
        BY <1>4, <1>8, ProgramAssumption DEF Block
      <4>3. placed[k][1] \in Int /\ placed[k][2] \in Int
        BY <3>1, ProgramAssumption DEF Block, PageNo
      <4> QED BY <4>1, <4>2, <4>3
    <3>6. pc' \in {"done", "load", "write"}
      BY <1>1
    <3> QED BY <1>9, <3>1, <3>2, <3>4, <3>5, <3>6
  <2> QED BY <2>1, <2>2, <2>3
<1> QED BY <1>2, <1>6, <1>9, <1>13 DEF Kept

\* Every step keeps what was placed.
LEMMA NextKept == IInv /\ Swept /\ Kept /\ [Next]_vars => Kept'
<1> SUFFICES ASSUME IInv, Swept, Kept, [Next]_vars PROVE Kept'
  OBVIOUS
<1>1. CASE Load
  BY <1>1, LoadKept
<1>2. CASE Erase
  BY <1>2, EraseKept
<1>3. ASSUME NEW spoilt \in BOOLEAN, EraseFails(spoilt) PROVE Kept'
  BY <1>3, EraseFailsKept
<1>4. CASE WritePage
  BY <1>4, WritePageKept
<1>5. CASE WriteFails
  BY <1>5, WriteFailsKept
<1>6. CASE UNCHANGED vars
  <2>1. Burn!Enough' = Burn!Enough
    BY <1>6, PromiseKept DEF vars, device
  <2> QED BY <1>6, <2>1 DEF vars, device, Kept
<1> QED BY <1>1, <1>2, <1>3, <1>4, <1>5, <1>6 DEF Next

\* It holds in every state of the burn.
THEOREM ContentsKept == Spec => []Kept
<1> QED BY InitKept, NextKept, Invariance, CountHolds, PTL DEF Spec

\* With enough usable blocks, a page of the image once burnt is never taken away.
THEOREM PlacedPagesStay == Spec => []PlacedStays
<1>1. Kept => PlacedStays
  BY DEF Kept, PlacedStays
<1> QED BY <1>1, ContentsKept, PTL

-----------------------------------------------------------------------------
(* The loop implements NandBurn *)

\* Of two usable blocks the one with more usable blocks below it is the higher, so
\* a count names one block.
LEMMA NthIsUnique ==
  ASSUME IsFiniteSet(Burn!Usable), Burn!Usable \subseteq Nat, NEW b \in Burn!Usable
  PROVE  Burn!Nth(Cardinality({c \in Burn!Usable : c < b})) = b
<1> DEFINE Below(x) == {c \in Burn!Usable : c < x}
<1>1. \A x \in Burn!Usable : IsFiniteSet(Below(x)) /\ Cardinality(Below(x)) \in Nat
  <2>1. ASSUME NEW x \in Burn!Usable
        PROVE  IsFiniteSet(Below(x)) /\ Cardinality(Below(x)) \in Nat
    <3>1. Below(x) \in SUBSET Burn!Usable
      OBVIOUS
    <3> QED BY <3>1, FS_Subset, FS_CardinalityType
  <2> QED BY <2>1
<1>2. ASSUME NEW x \in Burn!Usable, NEW y \in Burn!Usable, x < y
      PROVE  Cardinality(Below(x)) < Cardinality(Below(y))
  <2>1. /\ Below(x) \in SUBSET Below(y) /\ x \in Below(y) /\ x \notin Below(x)
    <3>1. x \in Nat /\ y \in Nat /\ ~(x < x)
      OBVIOUS
    <3>2. \A c \in Burn!Usable : c < x => c < y
      BY <1>2, <3>1
    <3> QED BY <1>2, <3>1, <3>2
  <2>2. Cardinality(Below(x)) <= Cardinality(Below(y)) /\ Below(x) # Below(y)
    BY <1>1, <2>1, FS_Subset
  <2>3. Cardinality(Below(x)) # Cardinality(Below(y))
    BY <1>1, <2>1, <2>2, FS_Subset
  <2> QED BY <1>1, <2>2, <2>3
<1>3. \A x \in Burn!Usable : Cardinality(Below(x)) = Cardinality(Below(b)) => x = b
  <2> SUFFICES ASSUME NEW x \in Burn!Usable, x # b
               PROVE  Cardinality(Below(x)) # Cardinality(Below(b))
    OBVIOUS
  <2>1. x < b \/ b < x
    OBVIOUS
  <2> QED BY <1>1, <1>2, <2>1
<1>4. Burn!Nth(Cardinality(Below(b)))
        = CHOOSE x \in Burn!Usable : Cardinality(Below(x)) = Cardinality(Below(b))
  BY SameCardinality DEF Burn!Nth
<1> QED BY <1>3, <1>4

\* While it writes, the loop stands on the page NandBurn gives to the next page of
\* the image.
LEMMA StandsAtNext ==
  ASSUME IInv, Swept, Burn!Enough, pc = "write"
  PROVE  /\ blockIndex = Burn!Nth(progSize \div PPB)
         /\ i = progSize % PPB
<1> DEFINE Low == {c \in Burn!Usable : c < blockIndex}
           Part == {blockIndex} \X (0 .. i - 1)
<1>1. HasRoom /\ Takers = Burn!Usable \X PageNo /\ blockIndex \in Block /\ i \in 0 .. PPB - 1
  BY EnoughIsRoom, StandsOnDevice DEF IInv, TypeOK, PageNo
<1>2. PPB \in Nat \ {0} /\ targetBlock \in Nat /\ blockIndex \in Nat /\ i \in Nat
  BY <1>1, ProgramAssumption DEF IInv, TypeOK, Block
<1>3. Burn!Usable \subseteq Block /\ Block \subseteq Nat
  BY ProgramAssumption DEF Burn!Usable, Block
<1>4. IsFiniteSet(Burn!Usable) /\ Low \in SUBSET Burn!Usable
  BY <1>3, PagesFinite, FS_Subset
<1>5. blockIndex \in Burn!Usable
  <2>1. progBad = {} /\ blockIndex \notin eraseBad /\ targetBlock <= blockIndex
    BY EnoughIsRoom, <1>1 DEF Swept
  <2>2. blockIndex < NBlocks
    BY <1>1, ProgramAssumption DEF Block
  <2> QED BY <1>1, <2>1, <2>2 DEF Burn!Usable
<1>6. IsFiniteSet(Low) /\ Cardinality(Low) \in Nat
  BY <1>4, FS_Subset, FS_CardinalityType
<1>7. IsFiniteSet(PageNo) /\ Cardinality(PageNo) = PPB
  <2>1. 0 \in Int /\ PPB - 1 \in Int /\ ~(0 > PPB - 1) /\ (PPB - 1) - 0 + 1 = PPB
    BY <1>2
  <2> QED BY <2>1, FS_Interval DEF PageNo
<1>8. IsFiniteSet(Low \X PageNo) /\ Cardinality(Low \X PageNo) = Cardinality(Low) * PPB
  BY <1>6, <1>7, FS_Product
<1>9. IsFiniteSet(Part) /\ Cardinality(Part) = i
  <2>1. IsFiniteSet({blockIndex}) /\ Cardinality({blockIndex}) = 1
    BY FS_Singleton
  <2>2. IsFiniteSet(0 .. i - 1) /\ Cardinality(0 .. i - 1) = i
    <3>1. 0 \in Int /\ i - 1 \in Int /\ (0 > i - 1 => i = 0) /\ (i - 1) - 0 + 1 = i
      BY <1>2
    <3> QED BY <3>1, FS_Interval
  <2>3. IsFiniteSet(Part) /\ Cardinality(Part) = 1 * i
    BY <2>1, <2>2, FS_Product
  <2> QED BY <1>2, <2>3
<1>10. Passed = (Low \X PageNo) \cup Part
  <2>1. \A p \in PageNo : p < i <=> p \in 0 .. i - 1
    BY <1>2 DEF PageNo
  <2>2. \A p \in 0 .. i - 1 : p \in PageNo
    BY <1>1, <1>2 DEF PageNo
  <2>3. Passed = {bp \in Burn!Usable \X PageNo :
                    bp[1] < blockIndex \/ (bp[1] = blockIndex /\ bp[2] < i)}
    BY <1>1 DEF Passed
  <2> QED BY <1>5, <2>1, <2>2, <2>3
<1>11. (Low \X PageNo) \cap Part = {}
  BY <1>2
<1>12. progSize = Cardinality(Low) * PPB + i
  <2>1. Cardinality(Passed) = Cardinality(Low \X PageNo) + Cardinality(Part) - Cardinality({})
    BY <1>8, <1>9, <1>10, <1>11, FS_Union
  <2>2. Cardinality({}) = 0
    BY FS_EmptySet
  <2>3. Cardinality(Low \X PageNo) \in Nat
    BY <1>8, FS_CardinalityType
  <2>4. progSize = Cardinality(Passed)
    BY <1>1 DEF Swept
  <2> QED BY <1>2, <1>6, <1>8, <1>9, <2>1, <2>2, <2>3, <2>4
<1>13. progSize = PPB * Cardinality(Low) + i /\ progSize \in Int
  BY <1>2, <1>6, <1>12
<1> HIDE DEF Low
<1>14. progSize % PPB = i /\ progSize \div PPB = Cardinality(Low)
  BY <1>1, <1>2, <1>6, <1>13, Remainder
<1> QED BY <1>3, <1>4, <1>5, <1>14, NthIsUnique DEF Low

\* NandBurn without its liveness.
BurnSafety == Burn!Init /\ [][Burn!Next]_(Burn!bvars)

\* A page the loop programs is the one NandBurn places next.
LEMMA WritePagePlaces ==
  ASSUME IInv, Swept, Kept, Burn!Enough, WritePage
  PROVE  Burn!Place
<1> DEFINE size == IF imageSize = 0 THEN 1 ELSE imageSize
<1>1. /\ pc = "write" /\ placed' = Append(placed, <<blockIndex, i>>) /\ UNCHANGED device
      /\ progSize + 1 >= imageSize => pc' = "done"
      /\ ~(progSize + 1 >= imageSize) => pc' = "load" \/ pc' = pc
  BY DEF WritePage
<1>2. placed' = Append(placed, <<Burn!Nth(Len(placed) \div PPB), Len(placed) % PPB>>)
  BY <1>1, StandsAtNext DEF Kept
<1>3. Len(placed') = progSize + 1
  <2>1. placed \in Seq(Block \X PageNo) /\ Len(placed) = progSize
    BY DEF IInv, TypeOK, Kept
  <2> QED BY <1>1, <2>1
<1>4. progSize + 1 >= imageSize <=> Len(placed') >= size
  BY <1>3 DEF IInv, TypeOK
<1>5. (pc' = "done") = (Len(placed') >= size)
  BY <1>1, <1>4
<1>6. /\ eraseBad' = eraseBad /\ progBad' = progBad /\ targetBlock' = targetBlock
      /\ imageSize' = imageSize
  BY <1>1 DEF device
<1> QED BY <1>1, <1>2, <1>5, <1>6 DEF Burn!Place

\* Every step of the loop is a step of NandBurn or none at all.
LEMMA StepPlaces ==
  ASSUME IInv, Swept, Kept, [Next]_vars
  PROVE  [Burn!Next]_(Burn!bvars)
<1>1. ASSUME UNCHANGED device, UNCHANGED placed, pc # "done", pc' # "done"
      PROVE  UNCHANGED Burn!bvars
  <2>1. /\ eraseBad' = eraseBad /\ progBad' = progBad /\ targetBlock' = targetBlock
        /\ imageSize' = imageSize
    BY <1>1 DEF device
  <2>2. (pc = "done")' = (pc = "done")
    BY <1>1
  <2> QED BY <1>1, <2>1, <2>2 DEF Burn!bvars
<1>2. CASE Load
  BY <1>1, <1>2 DEF Load
<1>3. CASE Erase
  BY <1>1, <1>3 DEF Erase
<1>4. ASSUME NEW spoilt \in BOOLEAN, EraseFails(spoilt) PROVE [Burn!Next]_(Burn!bvars)
  BY <1>1, <1>4 DEF EraseFails
<1>5. CASE WriteFails
  BY <1>1, <1>5 DEF WriteFails
<1>6. CASE WritePage
  <2>1. CASE Burn!Enough
    BY <1>6, <2>1, WritePagePlaces DEF Burn!Next
  <2>2. CASE ~Burn!Enough
    <3>1. /\ eraseBad' = eraseBad /\ progBad' = progBad /\ targetBlock' = targetBlock
          /\ imageSize' = imageSize
      BY <1>6 DEF WritePage, device
    <3> QED BY <2>2, <3>1 DEF Burn!Next
  <2> QED BY <2>1, <2>2
<1>7. CASE UNCHANGED vars
  BY <1>7 DEF vars, device, Burn!bvars
<1> QED BY <1>2, <1>3, <1>4, <1>5, <1>6, <1>7 DEF Next

\* The loop of Nand_Program does what a user of oflash expects of a burn: page k of
\* the image goes to the k \div PPB-th usable block, in order and without gaps.
THEOREM BurnImplemented == Spec => BurnSafety
<1>1. Init => Burn!Init
  <2> SUFFICES ASSUME Init PROVE Burn!Init
    OBVIOUS
  <2>1. placed = <<>> /\ (pc = "done") = FALSE
    BY DEF Init
  <2> QED BY <2>1 DEF Burn!Init
<1>2. IInv /\ Swept /\ Kept /\ [Next]_vars => [Burn!Next]_(Burn!bvars)
  BY StepPlaces
<1> QED BY <1>1, <1>2, Invariance, CountHolds, ContentsKept, PTL DEF Spec, BurnSafety

-----------------------------------------------------------------------------
(* The image is on the chip *)

\* What was placed is in order, and the loop does not return before all of it is.
Ordered ==
  /\ pc = "done" => Len(placed) >= imageSize
  /\ Burn!Enough => \A k \in 1 .. Len(placed) :
       placed[k] = <<Burn!Nth((k - 1) \div PPB), (k - 1) % PPB>>

\* When the burn returns, every page of the image is on the chip at its place.
ImageOnChip ==
  pc = "done" /\ Burn!Enough =>
    \A k \in 0 .. imageSize - 1 : flash[Burn!Nth(k \div PPB)][k % PPB] = k

\* The order is kept.
LEMMA NextOrdered == IInv /\ Swept /\ Kept /\ Ordered /\ [Next]_vars => Ordered'
<1> SUFFICES ASSUME IInv, Swept, Kept, Ordered, [Next]_vars PROVE Ordered'
  OBVIOUS
<1>1. UNCHANGED device
  BY DEF Next, Load, Erase, EraseFails, WritePage, WriteFails, vars, device
<1>2. /\ Burn!Enough' = Burn!Enough /\ imageSize' = imageSize
      /\ \A n : Burn!Nth(n)' = Burn!Nth(n)
  BY <1>1, PromiseKept DEF Burn!Nth, device
<1>3. CASE placed' = placed /\ (pc' = "done" => pc = "done")
  BY <1>2, <1>3 DEF Ordered
<1>4. CASE WritePage
  <2>1. /\ pc = "write" /\ placed' = Append(placed, <<blockIndex, i>>)
        /\ ~(progSize + 1 >= imageSize) => pc' # "done"
    BY <1>4 DEF WritePage
  <2>2. /\ placed \in Seq(Block \X PageNo) /\ Len(placed) = progSize /\ progSize \in Nat
        /\ imageSize \in Nat
    BY DEF IInv, TypeOK, Kept
  <2>3. /\ Len(placed') = Len(placed) + 1 /\ placed'[Len(placed) + 1] = <<blockIndex, i>>
        /\ \A k \in 1 .. Len(placed) : placed'[k] = placed[k]
    BY <2>1, <2>2
  <2>4. pc' = "done" => Len(placed') >= imageSize
    BY <2>1, <2>2, <2>3
  <2>5. ASSUME Burn!Enough, NEW k \in 1 .. Len(placed')
        PROVE  placed'[k] = <<Burn!Nth((k - 1) \div PPB), (k - 1) % PPB>>
    <3>1. k \in 1 .. Len(placed) \/ (k = Len(placed) + 1 /\ k - 1 = progSize)
      BY <2>2, <2>3
    <3> QED BY <2>1, <2>3, <2>5, <3>1, StandsAtNext DEF Ordered
  <2> QED BY <1>2, <2>4, <2>5 DEF Ordered
<1>5. \/ WritePage
      \/ placed' = placed /\ (pc' = "done" => pc = "done")
  BY DEF Next, Load, Erase, EraseFails, WriteFails, vars
<1> QED BY <1>3, <1>4, <1>5

\* With enough usable blocks the whole image is on the chip, block after usable
\* block from the target on, when the burn returns.
THEOREM ImageBurnt == Spec => []ImageOnChip
<1>1. Init => Ordered
  <2> SUFFICES ASSUME Init PROVE Ordered
    OBVIOUS
  <2>1. placed = <<>> /\ pc = "load" /\ \A k \in 1 .. Len(placed) : FALSE
    BY DEF Init
  <2> QED BY <2>1 DEF Ordered
<1>2. IInv /\ Kept /\ Ordered => ImageOnChip
  <2> SUFFICES ASSUME IInv, Kept, Ordered, pc = "done", Burn!Enough,
                      NEW k \in 0 .. imageSize - 1
               PROVE  flash[Burn!Nth(k \div PPB)][k % PPB] = k
    BY DEF ImageOnChip
  <2>1. imageSize \in Nat /\ Len(placed) \in Nat /\ Len(placed) >= imageSize
    BY DEF Ordered, IInv, TypeOK
  <2>2. k + 1 \in 1 .. Len(placed) /\ (k + 1) - 1 = k /\ imageSize # 0
    BY <2>1
  <2>3. placed[k + 1] = <<Burn!Nth(k \div PPB), k % PPB>>
    BY <2>2 DEF Ordered
  <2>4. flash[placed[k + 1][1]][placed[k + 1][2]] = k
    BY <2>2 DEF Kept
  <2> QED BY <2>3, <2>4
<1> QED BY <1>1, <1>2, NextOrdered, Invariance, CountHolds, ContentsKept, PTL DEF Spec
=============================================================================
