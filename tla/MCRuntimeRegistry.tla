------------------------- MODULE MCRuntimeRegistry -------------------------
(***************************************************************************)
(* A small registry for TLC: two names, two declarations of each.          *)
(***************************************************************************)
EXTENDS RuntimeRegistry
=============================================================================
