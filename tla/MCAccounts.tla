---------------------------- MODULE MCAccounts ----------------------------
(* Two addresses of one identity and one of another.                       *)
EXTENDS Accounts

MCSlots == 1 .. 2
MCEmails == {"ann", "Ann", "ben"}
MCIdentity == [e \in MCEmails |-> IF e = "ben" THEN "ben" ELSE "ann"]
MCResetTokens == {101}
=============================================================================
