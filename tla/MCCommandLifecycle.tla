------------------------- MODULE MCCommandLifecycle -------------------------
(* Model values and symmetry for TLC. *)
EXTENDS CommandLifecycle, TLC

CONSTANTS c1, c2

MCCommands == {c1, c2}
=============================================================================
