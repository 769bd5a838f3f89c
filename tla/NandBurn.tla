------------------------------ MODULE NandBurn ------------------------------
(***************************************************************************)
(* What a user of oflash expects of burning an image into NAND (README.md, *)
(* the -f example for leds_nand.bin): page k of the image ends up in the   *)
(* k \div PPB-th usable block from the target block on, in order, without  *)
(* gaps, and the burn finishes.  It is promised when there are enough      *)
(* usable blocks from the target to the end of the device; otherwise       *)
(* nothing is said.  NandProgram is shown to implement this.               *)
(***************************************************************************)
EXTENDS Integers, Sequences, FiniteSets

CONSTANTS NBlocks, PPB    \* blocks of the device, pages per block

VARIABLES
  good,     \* blocks the chip can erase and program
  target,   \* first block of the request
  size,     \* pages of the image
  where,    \* where[k + 1]: block and page that took page k of the image
  done      \* the burn has returned

bvars == <<good, target, size, where, done>>

Usable == {b \in good : target <= b /\ b < NBlocks}
Enough == Cardinality(Usable) * PPB >= size

\* The n-th usable block, counting from 0.
Nth(n) == CHOOSE b \in Usable : Cardinality({c \in Usable : c < b}) = n

Init == where = <<>> /\ done = FALSE

Place ==
  /\ ~done /\ Enough
  /\ LET k == Len(where)
     IN where' = Append(where, <<Nth(k \div PPB), k % PPB>>)
  /\ done' = (Len(where') >= size)
  /\ UNCHANGED <<good, target, size>>

Next == Place \/ (~Enough /\ UNCHANGED <<good, target, size>>)

Spec == Init /\ [][Next]_bvars /\ WF_bvars(Place)
=============================================================================
