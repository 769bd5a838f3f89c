--------------------------------- MODULE Pins ---------------------------------
(***************************************************************************)
(* The boundary scan cells a program of this kind writes, by the pad they  *)
(* belong to, and the scans that carry them.  A cell is a pair of a name   *)
(* and a number; the cells of the eight pads of a data lane count as one   *)
(* cell that holds a byte, the address cells as one that holds a number.   *)
(***************************************************************************)
EXTENDS Integers, Sequences

LOW == 0
HIGH == 1

nOE == <<"nOE", 0>>
nWE == <<"nWE", 0>>
nFCE == <<"nFCE", 0>>
nFRE == <<"nFRE", 0>>
nFWE == <<"nFWE", 0>>
CLE == <<"CLE", 0>>
ALE == <<"ALE", 0>>
ADDR == <<"ADDR", 0>>
BUS_CON == <<"BUS_CON", 0>>        \* direction of address, chip selects, nOE, nWE, nBE
NF_CON == <<"NF_CON", 0>>          \* direction of CLE, ALE, nFCE, nFRE and nFWE
nCS(bank) == <<"nCS", bank>>
nBE(lane) == <<"nBE", lane>>
DATA(lane) == <<"DATA", lane>>
DATA_CON(lane) == <<"DATA_CON", lane>>

Lanes == 0 .. 3
Banks == 0 .. 7
Strobes == {nOE, nWE, nFCE, nFRE, nFWE} \cup {nCS(b) : b \in Banks} \cup {nBE(i) : i \in Lanes}
Cells ==
  Strobes \cup {CLE, ALE, ADDR, BUS_CON, NF_CON}
  \cup {DATA(i) : i \in Lanes} \cup {DATA_CON(i) : i \in Lanes}

\* The pins of f set over those of h.
f ++ h == [c \in DOMAIN f \cup DOMAIN h |-> IF c \in DOMAIN f THEN f[c] ELSE h[c]]
\* SetPin on each cell of a set.
SetPins(cells, value) == [c \in cells |-> value]
Nothing == SetPins({}, LOW)
When(condition, pins) == IF condition THEN pins ELSE Nothing
SetData(bytes) == [c \in {DATA(i) : i \in 0 .. Len(bytes) - 1} |-> bytes[c[2] + 1]]
Direction(lanes, value) == SetPins({DATA_CON(i) : i \in lanes}, value)

(* What goes out on the cable: the pins set since the last scan, then a scan  *)
(* whose reply is not asked for, one whose reply is kept, or one repeated     *)
(* until the ready pad is seen at a level; or the EXTEST instruction.        *)
Shift(pins) == [scan |-> "NoTdo", pins |-> pins]
Sample(pins) == [scan |-> "Tdo", pins |-> pins]
Await(level) == [scan |-> "ready", pins |-> Nothing, level |-> level]
Extest == [scan |-> "EXTEST", pins |-> Nothing]
=============================================================================
