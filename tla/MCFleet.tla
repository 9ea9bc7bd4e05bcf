---- MODULE MCFleet ----
(* Two provisions of an organization that may have one device, on two nodes. *)
EXTENDS Fleet, TLC
CONSTANTS d1, d2, n1, n2
MCDevices == {d1, d2}
MCNodes == {n1, n2}
MCCapacities == {1, 2}
====
