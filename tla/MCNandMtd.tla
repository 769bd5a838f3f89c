------------------------------ MODULE MCNandMtd ------------------------------
(* Instance of NandMtd for TLC: two blocks of two pages of two columns, so that *)
(* reads cross pages and blocks and start or end inside a page.                 *)
EXTENDS NandMtd
CONSTANT d1
MCData == {d1}
=============================================================================
