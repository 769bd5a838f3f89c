----------------------------- MODULE NandProgram -----------------------------
(***************************************************************************)
(* Nand_Program of drivers/nand/nand_menu.cpp: the loop that burns the     *)
(* open image file block by block, with the calls it makes: LoadImageFile  *)
(* and OpenImageFile (oflash.cpp), nand_erase and nand_write for one block *)
(* and one page (nand_base.cpp; NandMtd models those calls in full).       *)
(*                                                                         *)
(* Sizes are in pages and blocks.  A byte address is 32 bits wide, so the  *)
(* block number of instr.addr counts modulo AddrBlocks = 2^32/erasesize.   *)
(***************************************************************************)
EXTENDS Integers, Sequences, FiniteSets

CONSTANTS
  NBlocks,     \* blocks of the device (mtd->size / mtd->erasesize)
  AddrBlocks,  \* blocks a 32-bit address can name
  PPB,         \* pages per block (mtd->erasesize / mtd->oobblock)
  MaxImage     \* bound: largest image tried, in pages

ASSUME ProgramAssumption ==
  /\ NBlocks \in Nat \ {0} /\ AddrBlocks \in Nat /\ NBlocks < AddrBlocks
  /\ AddrBlocks % NBlocks = 0
  /\ PPB \in Nat \ {0} /\ MaxImage \in Nat

VARIABLES
  flash,       \* block -> page -> what is there
  eraseBad,    \* blocks whose erase the chip reports as failed
  progBad,     \* pages whose programming the chip reports as failed
  targetBlock, \* first block asked for
  imageSize,   \* pages of the image (a last page filled up in part counts)
  pc,          \* where the loop is: "load", "erase", "write" or "done"
  blockIndex,  \* block number, as instr.addr holds it
  noLoad,      \* keep the buffer of the turn before
  loaded,      \* pages taken from the file: blockBuf holds the last PPB of them
  i,           \* page of the block
  progSize,    \* pages counted as programmed
  placed       \* history: block and page of every page counted, in order

vars == <<flash, eraseBad, progBad, targetBlock, imageSize, pc, blockIndex,
          noLoad, loaded, i, progSize, placed>>
device == <<eraseBad, progBad, targetBlock, imageSize>>

Block == 0 .. NBlocks - 1
PageNo == 0 .. PPB - 1

\* What a page holds: page k of the image is k, the rest is negative.
Erased == -1
Old == -2      \* what was there before
Mixed == -3    \* spoilt by a failed operation, or programmed twice
Pad == -4      \* the 0xff and the zeros LoadImageFile adds past the end
Contents == Nat \cup {Erased, Old, Mixed, Pad}

-----------------------------------------------------------------------------
\* A request main has accepted: the image is open, -o gives the target, which
\* may lie past the end of the device.
Init ==
  /\ flash = [b \in Block |-> [p \in PageNo |-> Old]]
  /\ eraseBad \in SUBSET Block /\ progBad \in SUBSET (Block \X PageNo)
  /\ targetBlock \in 0 .. NBlocks /\ imageSize \in 0 .. MaxImage
  /\ pc = "load" /\ blockIndex = targetBlock
  /\ noLoad = FALSE /\ loaded = 0 /\ i = 0 /\ progSize = 0 /\ placed = <<>>

\* Bugs the checks must see: the block number is not advanced, advanced twice, or
\* kept wider than the address.
SameBlock == UNCHANGED blockIndex
SkipBlock == blockIndex' = (blockIndex + 2) % AddrBlocks
WideBlock == blockIndex' = blockIndex + 1

\* blockIndex++, seen through instr.addr = blockIndex * mtd->erasesize.
NextBlock == blockIndex' = (blockIndex + 1) % AddrBlocks

\* A bug the checks must see: the buffer is loaded again after a failed turn.
LoadAlways ==
  /\ pc = "load"
  /\ loaded' = loaded + PPB /\ noLoad' = FALSE /\ pc' = "erase"
  /\ UNCHANGED <<flash, device, blockIndex, i, progSize, placed>>

\* The head of the loop: LoadImageFile unless the last turn failed.
Load ==
  /\ pc = "load"
  /\ loaded' = IF noLoad THEN loaded ELSE loaded + PPB
  /\ noLoad' = FALSE
  /\ pc' = "erase"
  /\ UNCHANGED <<flash, device, blockIndex, i, progSize, placed>>

\* nand_erase adds length and address in 32 bits before it compares with the
\* size of the device, and masks the page number to the chip.
EraseAccepted == (blockIndex + 1) % AddrBlocks <= NBlocks
EraseBlockBefore == (blockIndex + NBlocks - 1) % NBlocks    \* a bug to be seen
EraseBlock == blockIndex % NBlocks

Erase ==
  /\ pc = "erase" /\ EraseAccepted /\ EraseBlock \notin eraseBad
  /\ flash' = [flash EXCEPT ![EraseBlock] = [p \in PageNo |-> Erased]]
  /\ pc' = "write" /\ i' = 0
  /\ UNCHANGED <<device, blockIndex, noLoad, loaded, progSize, placed>>

\* Refused, or failed on the chip, which leaves the block as it was or spoilt.
EraseFails(spoilt) ==
  /\ pc = "erase"
  /\ \/ ~EraseAccepted /\ ~spoilt
     \/ EraseAccepted /\ EraseBlock \in eraseBad
  /\ flash' = IF spoilt THEN [flash EXCEPT ![EraseBlock] = [p \in PageNo |-> Mixed]]
              ELSE flash
  /\ pc' = "load" /\ noLoad' = TRUE /\ NextBlock
  /\ UNCHANGED <<device, loaded, i, progSize, placed>>

\* Page i of blockBuf.
Source == LET k == loaded - PPB + i IN IF k < imageSize THEN k ELSE Pad

\* nand_write compares with the size in 64 bits.
WriteOk == blockIndex < NBlocks /\ <<blockIndex, i>> \notin progBad

WritePage ==
  /\ pc = "write" /\ i < PPB /\ WriteOk
  /\ flash' = [flash EXCEPT ![blockIndex][i] = IF @ = Erased THEN Source ELSE Mixed]
  /\ progSize' = progSize + 1
  /\ placed' = Append(placed, <<blockIndex, i>>)
  /\ IF progSize + 1 >= imageSize
       THEN pc' = "done" /\ UNCHANGED <<blockIndex, i>>
       ELSE IF i + 1 < PPB THEN i' = i + 1 /\ UNCHANGED <<pc, blockIndex>>
       ELSE pc' = "load" /\ NextBlock /\ UNCHANGED i
  /\ UNCHANGED <<device, noLoad, loaded>>

\* The rest of the block is given up; what was counted stays counted.
WriteFails ==
  /\ pc = "write" /\ i < PPB /\ ~WriteOk
  /\ flash' = IF blockIndex < NBlocks THEN [flash EXCEPT ![blockIndex][i] = Mixed]
              ELSE flash
  /\ pc' = "load" /\ noLoad' = TRUE /\ NextBlock
  /\ UNCHANGED <<device, loaded, i, progSize, placed>>

Next == Load \/ Erase \/ (\E spoilt \in BOOLEAN : EraseFails(spoilt))
        \/ WritePage \/ WriteFails

\* The loop is one thread that runs: while a step is possible it is taken.
Spec == Init /\ [][Next]_vars /\ WF_vars(Next)

-----------------------------------------------------------------------------
(* Properties *)

TypeOK ==
  /\ flash \in [Block -> [PageNo -> Contents]]
  /\ eraseBad \subseteq Block /\ progBad \subseteq Block \X PageNo
  /\ targetBlock \in Nat /\ imageSize \in Nat
  /\ pc \in {"load", "erase", "write", "done"} /\ blockIndex \in 0 .. AddrBlocks - 1
  /\ noLoad \in BOOLEAN /\ loaded \in Nat /\ i \in PageNo /\ progSize \in Nat
  /\ placed \in Seq(Block \X PageNo)

\* An image page never moves inside its block and is never mixed with padding or
\* older data by being programmed over something: across skipped blocks, failed
\* pages and reloads of the buffer, page k of the image only ever stands at page
\* k % PPB of a block, and padding is burnt only for an empty image.
ImageAligned ==
  \A b \in Block, p \in PageNo :
    /\ flash[b][p] >= 0 => flash[b][p] % PPB = p /\ flash[b][p] < imageSize
    /\ flash[b][p] = Pad => imageSize = 0

\* Programming touches only pages this run of the tool erased before: a page that
\* is written was blank.
OnlyBlankProgrammed ==
  [][\A b \in Block, p \in PageNo :
       pc = "write" /\ flash'[b][p] # flash[b][p] => flash[b][p] = Erased]_vars

\* A page takes data when its block erases and no page up to it fails; the room
\* from a block on is the number of such pages.
Takes(b, p) == b \notin eraseBad /\ \A q \in 0 .. p : <<b, q>> \notin progBad
Room(from) == Cardinality({bp \in Block \X PageNo : bp[1] >= from /\ Takes(bp[1], bp[2])})

\* While the device has room for the image from the target on, no block below
\* the target is touched.
BelowTargetUntouched ==
  Room(targetBlock) >= imageSize /\ Room(targetBlock) > 0 =>
    \A b \in Block, p \in PageNo : b < targetBlock => flash[b][p] = Old

\* The burn ends when the chip can take any page at all.
Terminates == Room(0) > 0 => <>(pc = "done")

\* NandProgram does what NandBurn promises, as long as no page fails to program.
Burn == INSTANCE NandBurn WITH
  good <- IF progBad = {} THEN Block \ eraseBad ELSE {},
  target <- targetBlock,
  size <- IF imageSize = 0 THEN 1 ELSE imageSize,
  where <- placed,
  done <- pc = "done"
BurnSpec == Burn!Spec

\* What was placed stays: once burnt, no later turn of the loop takes a page of
\* the image away again, when the device has room from the target on.
PlacedStays ==
  Burn!Enough => \A k \in 1 .. Len(placed) :
    flash[placed[k][1]][placed[k][2]] = IF imageSize = 0 THEN Pad ELSE k - 1

-----------------------------------------------------------------------------
\* README.md:31, "burn leds_nand.bin into the NAND flash": when the burn returns
\* with room for the image from the target on, the whole image is on the device.
ImageComplete ==
  pc = "done" /\ Room(targetBlock) >= imageSize + PPB =>
    \A k \in 0 .. imageSize - 1 : \E b \in Block : flash[b][k % PPB] = k
=============================================================================
