------------------------------ MODULE Identify ------------------------------
(***************************************************************************)
(* The program finds out what flash is on the board: one session with the  *)
(* NOR menu, which probes the chip once (NorProbe), or sessions with the   *)
(* NAND menu, which scans each time (NandScan).  The other part is idle.   *)
(***************************************************************************)
EXTENDS NorProbe, NandScan

NorOnly == ProbeInit /\ socket = NoChip /\ at = "main" /\ scans = MaxScans /\ nand = Unscanned
NandOnly ==
  /\ ScanInit
  /\ board \in Boards /\ board = CHOOSE b \in Boards : TRUE
  /\ mode = [l \in 1 .. board.lanes |-> "read"] /\ pc = "idle" /\ try = 1 /\ info = NoInfo

Init == NorOnly \/ NandOnly
Next ==
  \/ ProbeNext /\ UNCHANGED scanVars
  \/ ScanNext /\ UNCHANGED probeVars
Spec == Init /\ [][Next]_<<probeVars, scanVars>>
=============================================================================
