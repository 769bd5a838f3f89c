----------------------------- MODULE MCOpenJtag -----------------------------
(* Instance of OpenJtag for TLC: a buffer that three scans fill to half. *)
EXTENDS OpenJtag
=============================================================================
