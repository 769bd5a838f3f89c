---------------------------- MODULE MCNandProgram ----------------------------
(* Instance of NandProgram for TLC: three blocks of two pages, any of them bad *)
(* and any page failing, images of up to four pages, and a 32-bit space of two *)
(* devices so that the block number wraps.                                     *)
EXTENDS NandProgram
=============================================================================
