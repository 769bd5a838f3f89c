------------------------------- MODULE MCMpsse -------------------------------
(* Instance of Mpsse for TLC: strings with one bit set or one bit clear.        *)
EXTENDS Mpsse
MCLengths == {1, 2, 3, 7, 8, 9, 15, 16, 17, 18, 24, 25, 33, 34}
MCCells ==
  [n \in MCLengths |->
     { [k \in 1 .. n |-> IF k = p THEN v ELSE 1 - v] : p \in {1, 2, 7, 8, 9, 16, 17, n - 1, n}, v \in Bit }]
=============================================================================
