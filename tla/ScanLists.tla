------------------------------ MODULE ScanLists ------------------------------
(***************************************************************************)
(* What the scans of a call have to keep to for the pads to be handed from *)
(* one driver to the next: the vocabulary of the proofs about the bus and  *)
(* the NAND controllers.                                                   *)
(***************************************************************************)
EXTENDS Pins

\* What a scan does to a cell.
Brings(scan, cell, value) == cell \in DOMAIN scan.pins /\ scan.pins[cell] = value
Raises(scan, cell) == Brings(scan, cell, HIGH)
Lowers(scan, cell) == cell \in DOMAIN scan.pins /\ scan.pins[cell] # HIGH

IsList(list) == list \in Seq({list[k] : k \in 1 .. Len(list)})

\* The scans that do not shift the cells out set none.
Quiet(list) ==
  \A k \in 1 .. Len(list) : list[k].scan \in {"EXTEST", "ready"} => DOMAIN list[k].pins = {}

\* A scan that lowers the strobe is followed by one that raises it.
Pulsed(list, strobe) ==
  \A k \in 1 .. Len(list) :
    Lowers(list[k], strobe) => k < Len(list) /\ Raises(list[k + 1], strobe)

\* The data pads of the lanes are turned to inputs, in, with nOE or by the
\* scan before it.
Turned(list, lanes, in) ==
  \A k \in 1 .. Len(list) : Lowers(list[k], nOE) =>
    \A i \in lanes :
      \/ Brings(list[k], DATA_CON(i), in)
      \/ DATA_CON(i) \notin DOMAIN list[k].pins /\ k > 1 /\ Brings(list[k - 1], DATA_CON(i), in)

\* Only the banks asserted are selected, and those of them released are
\* deselected later on.
Selecting(list, asserted, released) ==
  \A k \in 1 .. Len(list), b \in Banks : Lowers(list[k], nCS(b)) =>
    /\ b \in asserted
    /\ b \in released => \E j \in k + 1 .. Len(list) : Raises(list[j], nCS(b))

\* No scan sets one of the cells.
LeftAlone(list, cells) == \A k \in 1 .. Len(list) : DOMAIN list[k].pins \cap cells = {}

\* The scans of a call on the memory bus.
Tidy(list, lanes, in, asserted, released) ==
  /\ IsList(list) /\ Quiet(list)
  /\ Pulsed(list, nOE) /\ Pulsed(list, nWE)
  /\ Turned(list, lanes, in)
  /\ Selecting(list, asserted, released)
  /\ LeftAlone(list, {nFCE, nFRE, nFWE})

\* The scans of a NAND controller function: the data pad is turned round when
\* nFRE goes LOW, and of the chip selects only the NAND chip's is moved.
NandTidy(list, in, select) ==
  /\ IsList(list) /\ Quiet(list)
  /\ Pulsed(list, nFRE) /\ Pulsed(list, nFWE)
  /\ \A k \in 1 .. Len(list) : Lowers(list[k], nFRE) => Brings(list[k], DATA_CON(0), in)
  /\ LeftAlone(list, ({nOE, nWE, nFCE} \cup {nCS(b) : b \in Banks}) \ {select})
=============================================================================
