----------------------------- MODULE MCExpiryReminders -----------------------------
(* One subscription with two renewals. *)
EXTENDS ExpiryReminders, TLC
====================================================================================
