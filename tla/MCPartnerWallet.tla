----------------------------- MODULE MCPartnerWallet -----------------------------
(* Two credits of 2 paise (or of an override), a payout of one whole rupee and  *)
(* one with a fraction; a rupee has 2 paise here.                               *)
EXTENDS PartnerWallet, TLC

CONSTANTS p1, p2

MCAmountOf == p1 :> 2 @@ p2 :> 1
==================================================================================
