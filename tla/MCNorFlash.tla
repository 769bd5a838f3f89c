----------------------------- MODULE MCNorFlash -----------------------------
(* Instance of NorFlash for TLC: sectors of 4, 4 and 8 bytes, a write buffer of *)
(* 4 bytes, and images that end on and off word, buffer and sector boundaries.  *)
EXTENDS NorFlash
MCStart == <<0, 4, 8>>
MCOffsets == {0, 2, 4, 8}
MCSizes == {0, 1, 3, 4, 6, 9}
=============================================================================
