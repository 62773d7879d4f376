--------------------------- MODULE MCFreshWindow ---------------------------
(* Clock offsets for FreshWindow: a configuration file has no negative numbers. *)
EXTENDS FreshWindow

Skewed == {-1, 0, 1}
InStep == {0}
=============================================================================
