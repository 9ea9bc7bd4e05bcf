---- MODULE MCIdentityVault ----
(* Two devices, two faults. *)
EXTENDS IdentityVault
====
