------------------------- MODULE PartnerWalletProofs -------------------------
(***************************************************************************)
(* Payouts are paid once and the wallet holds what was earned less what    *)
(* was spent, for any number of credits, payouts and approvals, any        *)
(* amounts and any rates.                                                  *)
(*                                                                         *)
(* A payout on which no two approvals met is under at most one approval,   *)
(* which knows whether the transfer was made; once it is PAID, under none. *)
(*                                                                         *)
(* A balance that a call has read is at most what is earned by then, and   *)
(* what is earned never falls; a commit that finds the balance it read     *)
(* moves both sides of the account alike.  What the sums over the rows do  *)
(* when a row is added needs an induction, made with least subsets.        *)
(***************************************************************************)
EXTENDS PartnerWallet, FiniteSetTheorems, TLAPS

Running == {"wallet", "transfer", "commit"}

(* There is a wallet before there is a payout, and one row for a request.  *)
RowsFollow ==
  \A p \in Payouts :
    /\ request[p] = "insert" \/ payouts[p] # None => wallet # None
    /\ request[p] \in {"idle", "insert"} => payouts[p] = None

(* An approval has a payout to pay, money for it, and then its transfer.   *)
ApprovalKnows(a) ==
  /\ approval[a].step = "idle" => approval[a].payout = None
  /\ approval[a].step \in Running =>
       approval[a].payout \in Payouts /\ payouts[approval[a].payout] # None
  /\ approval[a].step \in {"transfer", "commit"} =>
       AmountOf[approval[a].payout] <= approval[a].balance
  /\ approval[a].step = "commit" => transfers[approval[a].payout] > 0

(* A payout that is not raced.                                             *)
Of(a, p) == approval[a].payout = p /\ approval[a].step \in Running
Alone(p) ==
  /\ \A a, b \in Approvals : Of(a, p) /\ Of(b, p) => a = b
  /\ transfers[p] <= 1
  /\ transfers[p] > 0 =>
       payouts[p] = "PAID" \/ \E a \in Approvals : Of(a, p) /\ approval[a].step = "commit"
  /\ \A a \in Approvals : Of(a, p) /\ approval[a].step # "commit" => transfers[p] = 0
  /\ payouts[p] = "PAID" => \A a \in Approvals : ~Of(a, p)

IInv ==
  /\ TypeOK /\ RowsFollow /\ PaidWasTransferred
  /\ \A a \in Approvals : ApprovalKnows(a)
  /\ \A p \in Payouts \ raced : Alone(p)

(* The account: what the wallet, and what calls and rows know of it, may be. *)
CreditKnows(k) ==
  /\ commissions[k] # None => credit[k].step = "done"
  /\ k \in creator => /\ creator = {k} /\ wallet = None
                       /\ credit[k].step = "commit" /\ credit[k].balance = 0
  /\ credit[k].step \in {"idle", "wallet", "create"} => credit[k].balance = 0
  /\ credit[k].step = "commit" /\ k \notin creator => wallet # None
  /\ credit[k].step = "commit" => credit[k].balance <= Earned

AccountInv ==
  /\ \A k \in Credits : CreditKnows(k)
  /\ \A a \in Approvals : approval[a].step \in {"transfer", "commit"} => approval[a].balance <= Earned
  /\ \A p \in Payouts : request[p] = "insert" \/ payouts[p] # None => AmountOf[p] <= Earned
  /\ Balance <= Earned
  /\ LockstepUnlessStale

-------------------------------------------------------------------------------
\* A call is over, waits to begin, or is at one of its awaits.
LEMMA UnderApprovalIs ==
    ASSUME TypeOK, \A a \in Approvals : ApprovalKnows(a), NEW p \in Payouts
    PROVE  UnderApproval(p) = {a \in Approvals : Of(a, p)}
<1>1. \A a \in Approvals : approval[a].step \in ApprovalSteps
  BY DEF TypeOK
<1>2. \A a \in Approvals : approval[a].step = "idle" => approval[a].payout # p
  BY NoneAssumption DEF ApprovalKnows
<1> QED
  BY <1>1, <1>2 DEF UnderApproval, Of, Running, ApprovalSteps, Ended

LEMMA InitIInv == Init => IInv
<1> SUFFICES ASSUME Init PROVE IInv
  OBVIOUS
<1> USE NoneAssumption DEF Init
<1>1. TypeOK
  BY DEF TypeOK, Statuses, CreditSteps, RequestSteps, ApprovalSteps, Ended
<1>2. RowsFollow /\ PaidWasTransferred
  BY DEF RowsFollow, PaidWasTransferred
<1>3. \A a \in Approvals : ApprovalKnows(a)
  BY DEF ApprovalKnows, Running
<1>4. \A p \in Payouts : Alone(p)
  BY DEF Alone, Of, Running
<1> QED
  BY <1>1, <1>2, <1>3, <1>4 DEF IInv

\* The steps of a credit, a request and the override keep types and rows, and touch
\* no approval.
LEMMA StepCredit ==
    ASSUME IInv, NEW k \in Credits, Credit(k)
    PROVE  /\ TypeOK' /\ (wallet # None => wallet' # None)
           /\ UNCHANGED <<payouts, transfers, request, approval, raced>>
<1> USE NoneAssumption, AmountAssumption DEF IInv, TypeOK, CreditSteps, Ended
<1>1. CASE CreditReadOrg(k)
  <2>1. CommissionRate \in Nat
    BY DEF CommissionRate
  <2> QED
    BY <1>1, <2>1 DEF CreditReadOrg, CreditStep
<1>2. CASE CreditReadWallet(k)
  <2> DEFINE row == IF wallet = None THEN [credit[k] EXCEPT !.step = "create"]
                    ELSE [credit[k] EXCEPT !.step = "commit", !.balance = wallet]
  <2>1. row \in [step : CreditSteps, amount : Nat, balance : Nat]
    <3>1. credit[k] \in [step : CreditSteps, amount : Nat, balance : Nat]
      OBVIOUS
    <3>2. "create" \in CreditSteps /\ "commit" \in CreditSteps /\ wallet \in Nat \cup {None}
      OBVIOUS
    <3> HIDE DEF CreditSteps
    <3> QED
      BY ONLY <3>1, <3>2
  <2>2. credit' = [credit EXCEPT ![k] = row]
    BY <1>2 DEF CreditReadWallet, CreditStep
  <2>3. credit' \in [Credits -> [step : CreditSteps, amount : Nat, balance : Nat]]
    <3> HIDE DEF row, CreditSteps
    <3> QED
      BY <2>1, <2>2
  <2> QED
    BY <1>2, <2>3 DEF CreditReadWallet
<1>3. CASE CreditCreateWallet(k)
  BY <1>3 DEF CreditCreateWallet, CreditStep
<1>4. CASE CreditCommit(k)
  <2>1. credit[k].balance + credit[k].amount \in Nat /\ credit[k].amount \in Nat
    OBVIOUS
  <2> QED
    BY <1>4, <2>1 DEF CreditCommit, CreditStep
<1>5. CASE CreditFails(k)
  BY <1>5 DEF CreditFails
<1> QED
  BY <1>1, <1>2, <1>3, <1>4, <1>5 DEF Credit

LEMMA StepOverride ==
    ASSUME IInv, NEW rate \in Overrides \cup {None}, SetOverride(rate)
    PROVE  /\ TypeOK' /\ (wallet # None => wallet' # None)
           /\ UNCHANGED <<payouts, transfers, request, approval, raced>>
  BY DEF IInv, TypeOK, SetOverride, callVars

\* What a step keeps that leaves payouts and approvals alone.
LEMMA Apart ==
    ASSUME IInv, TypeOK', wallet # None => wallet' # None,
           UNCHANGED <<payouts, transfers, request, approval, raced>>
    PROVE  IInv'
<1>1. RowsFollow' /\ PaidWasTransferred'
  BY DEF IInv, RowsFollow, PaidWasTransferred
<1>2. \A a \in Approvals : ApprovalKnows(a)'
  BY DEF IInv, ApprovalKnows
<1>3. \A p \in Payouts \ raced' : Alone(p)'
  BY DEF IInv, Alone, Of
<1> QED
  BY <1>1, <1>2, <1>3 DEF IInv

LEMMA StepRequest ==
    ASSUME IInv, NEW p \in Payouts, Request(p)
    PROVE  IInv'
<1> USE NoneAssumption, AmountAssumption DEF IInv
<1>1. CASE RequestRead(p)
  <2> USE <1>1 DEF RequestRead
  <2>1. TypeOK'
    BY DEF TypeOK, RequestSteps, Ended
  <2>2. RowsFollow' /\ PaidWasTransferred'
    BY DEF RowsFollow, PaidWasTransferred, TypeOK
  <2>3. \A a \in Approvals : ApprovalKnows(a)'
    BY DEF ApprovalKnows
  <2>4. \A q \in Payouts \ raced' : Alone(q)'
    BY DEF Alone, Of
  <2> QED
    BY <2>1, <2>2, <2>3, <2>4
<1>2. CASE RequestInsert(p)
  <2> USE <1>2 DEF RequestInsert
  <2>1. TypeOK'
    BY DEF TypeOK, RequestSteps, Ended, Statuses
  <2>2. payouts[p] = None /\ wallet # None /\ \A q \in Payouts : payouts[q] # None => payouts'[q] = payouts[q]
    BY DEF RowsFollow, TypeOK
  <2>3. \A q \in Payouts : payouts'[q] \in {payouts[q], "PENDING"}
    BY DEF TypeOK
  <2>4. RowsFollow' /\ PaidWasTransferred'
    BY <2>2 DEF RowsFollow, PaidWasTransferred, TypeOK
  <2>5. \A a \in Approvals : ApprovalKnows(a)'
    BY <2>2 DEF ApprovalKnows
  <2>6. \A q \in Payouts \ raced' : Alone(q)'
    BY <2>2, <2>3 DEF Alone, Of, TypeOK, Statuses
  <2> QED
    BY <2>1, <2>4, <2>5, <2>6
<1> QED
  BY <1>1, <1>2 DEF Request

-------------------------------------------------------------------------------
(* The steps of an approval.                                               *)

\* Another approval, and a payout that only other approvals are about, keep what is
\* known of them while one approval moves on.
LEMMA Others ==
    ASSUME NEW a \in Approvals, NEW to, approval' = [approval EXCEPT ![a] = to],
           TypeOK, NEW b \in Approvals \ {a}
    PROVE  approval'[b] = approval[b]
  BY DEF TypeOK

LEMMA StepLoad ==
    ASSUME IInv, NEW a \in Approvals, NEW p \in Payouts, ApproveLoad(a, p)
    PROVE  IInv'
<1> DEFINE pending == payouts[p] = "PENDING"
           to == [step |-> IF pending THEN "wallet" ELSE "failed", payout |-> p, balance |-> 0]
<1> USE NoneAssumption DEF IInv
<1>1. /\ payouts[p] # None /\ approval[a].step = "idle" /\ approval[a].payout = None
      /\ approval' = [approval EXCEPT ![a] = to] /\ approval'[a] = to
      /\ raced' = IF pending /\ UnderApproval(p) # {} THEN raced \cup {p} ELSE raced
      /\ UNCHANGED <<wallet, override, commissions, payouts, transfers, credit, request, creator, stale>>
  BY DEF ApproveLoad, ApprovalStep, TypeOK, ApprovalKnows
<1>2. \A b \in Approvals \ {a} : approval'[b] = approval[b]
  BY <1>1, Others
<1>3. TypeOK'
  <2>1. to \in [step : ApprovalSteps, payout : Payouts \cup {None}, balance : Nat]
    BY DEF ApprovalSteps, Ended
  <2> QED
    BY <1>1, <2>1 DEF TypeOK
<1>4. RowsFollow' /\ PaidWasTransferred'
  BY <1>1 DEF RowsFollow, PaidWasTransferred
<1>5. \A b \in Approvals : ApprovalKnows(b)'
  BY <1>1, <1>2 DEF ApprovalKnows, Running
<1>6. ASSUME NEW q \in Payouts \ raced' PROVE Alone(q)'
  <2>1. q \notin raced /\ Alone(q)
    BY <1>1, <1>6
  <2>2. \A b \in Approvals \ {a} : Of(b, q)' <=> Of(b, q)
    BY <1>1, <1>2 DEF Of
  <2>3. ~Of(a, q)
    BY <1>1 DEF Of, Running
  <2>4. CASE Of(a, q)'
    <3>1. q = p /\ pending
      BY <1>1, <2>4 DEF Of, Running
    <3>2. UnderApproval(p) = {}
      BY <1>1, <1>6, <3>1
    <3>3. \A b \in Approvals : ~Of(b, q)
      BY <3>1, <3>2, UnderApprovalIs
    <3>4. transfers[q] = 0 /\ payouts[q] # "PAID"
      BY <2>1, <3>1, <3>3 DEF Alone, TypeOK
    <3> QED
      BY <1>1, <2>2, <3>3, <3>4 DEF Alone, Running
  <2>5. CASE ~Of(a, q)'
    BY <1>1, <1>2, <2>1, <2>2, <2>3, <2>5 DEF Alone
  <2> QED
    BY <2>4, <2>5
<1> QED
  BY <1>3, <1>4, <1>5, <1>6

LEMMA StepCheck ==
    ASSUME IInv, NEW a \in Approvals, ApproveCheck(a)
    PROVE  IInv'
<1> DEFINE p == approval[a].payout
           to == IF AmountOf[p] > wallet THEN [approval[a] EXCEPT !.step = "failed"]
                 ELSE [approval[a] EXCEPT !.step = "transfer", !.balance = wallet]
<1> USE NoneAssumption, AmountAssumption DEF IInv
<1>1. /\ approval[a].step = "wallet" /\ p \in Payouts /\ payouts[p] # None
      /\ approval' = [approval EXCEPT ![a] = to] /\ approval'[a] = to
      /\ UNCHANGED <<wallet, override, commissions, payouts, transfers, credit, request, creator, stale, raced>>
  BY DEF ApproveCheck, ApprovalStep, TypeOK, ApprovalKnows, Running
<1>2. \A b \in Approvals \ {a} : approval'[b] = approval[b]
  BY <1>1, Others
<1>3. wallet \in Nat /\ AmountOf[p] \in Nat
  BY <1>1 DEF RowsFollow, TypeOK
<1>4. /\ to.payout = p /\ to.step \in {"failed", "transfer"}
      /\ to.step = "transfer" => AmountOf[p] <= to.balance
      /\ to \in [step : ApprovalSteps, payout : Payouts \cup {None}, balance : Nat]
  <2>1. approval[a] \in [step : ApprovalSteps, payout : Payouts \cup {None}, balance : Nat]
    BY DEF TypeOK
  <2>2. CASE AmountOf[p] > wallet
    BY <2>1, <2>2 DEF ApprovalSteps, Ended
  <2>3. CASE ~(AmountOf[p] > wallet)
    <3>1. to = [approval[a] EXCEPT !.step = "transfer", !.balance = wallet]
      BY <2>3
    <3>2. to.payout = p /\ to.step = "transfer" /\ to.balance = wallet
      BY <2>1, <3>1
    <3>3. to \in [step : ApprovalSteps, payout : Payouts \cup {None}, balance : Nat]
      BY <1>3, <2>1, <3>1 DEF ApprovalSteps
    <3>4. AmountOf[p] <= wallet
      BY <1>3, <2>3
    <3> QED
      BY <3>2, <3>3, <3>4
  <2> QED
    BY <2>2, <2>3
<1> HIDE DEF to
<1>5. TypeOK'
  BY <1>1, <1>4 DEF TypeOK
<1>6. RowsFollow' /\ PaidWasTransferred'
  BY <1>1 DEF RowsFollow, PaidWasTransferred
<1>7. \A b \in Approvals : ApprovalKnows(b)'
  BY <1>1, <1>2, <1>4 DEF ApprovalKnows, Running
<1>8. ASSUME NEW q \in Payouts \ raced' PROVE Alone(q)'
  <2>1. Alone(q) /\ \A b \in Approvals : Of(b, q)' => Of(b, q)
    BY <1>1, <1>2, <1>4, <1>8 DEF Of, Running
  <2>2. \A b \in Approvals : Of(b, q) /\ approval[b].step = "commit"
                               => Of(b, q)' /\ approval'[b].step = "commit"
    BY <1>1, <1>2 DEF Of
  <2>3. \A b \in Approvals : Of(b, q)' /\ approval'[b].step # "commit" => approval[b].step # "commit"
    BY <1>1, <1>2
  <2> QED
    BY <1>1, <2>1, <2>2, <2>3 DEF Alone
<1> QED
  BY <1>5, <1>6, <1>7, <1>8

LEMMA StepTransfer ==
    ASSUME IInv, NEW a \in Approvals, ApproveTransfer(a)
    PROVE  IInv'
<1> DEFINE p == approval[a].payout
           to == [approval[a] EXCEPT !.step = "commit"]
<1> USE NoneAssumption, AmountAssumption DEF IInv
<1>1. /\ approval[a].step = "transfer" /\ p \in Payouts /\ payouts[p] # None
      /\ AmountOf[p] <= approval[a].balance
      /\ approval' = [approval EXCEPT ![a] = to] /\ approval'[a] = to
      /\ transfers' = [transfers EXCEPT ![p] = @ + 1]
      /\ UNCHANGED <<wallet, override, commissions, payouts, credit, request, creator, stale, raced>>
  BY DEF ApproveTransfer, ApprovalStep, TypeOK, ApprovalKnows, Running
<1>2. \A b \in Approvals \ {a} : approval'[b] = approval[b]
  BY <1>1, Others
<1>3. /\ to.payout = p /\ to.step = "commit" /\ to.balance = approval[a].balance
      /\ to \in [step : ApprovalSteps, payout : Payouts \cup {None}, balance : Nat]
  BY DEF TypeOK, ApprovalSteps, Ended
<1> HIDE DEF to
<1>4. /\ transfers'[p] = transfers[p] + 1 /\ transfers[p] \in Nat
      /\ \A q \in Payouts : transfers'[q] >= transfers[q] /\ (q # p => transfers'[q] = transfers[q])
  BY <1>1 DEF TypeOK
<1>5. TypeOK'
  BY <1>1, <1>3, <1>4 DEF TypeOK
<1>6. RowsFollow' /\ PaidWasTransferred'
  BY <1>1, <1>4 DEF RowsFollow, PaidWasTransferred, TypeOK
<1>7. \A b \in Approvals : ApprovalKnows(b)'
  BY <1>1, <1>2, <1>3, <1>4 DEF ApprovalKnows, Running, TypeOK
<1>8. ASSUME NEW q \in Payouts \ raced' PROVE Alone(q)'
  <2>1. Alone(q) /\ \A b \in Approvals : Of(b, q)' <=> Of(b, q)
    BY <1>1, <1>2, <1>3, <1>8 DEF Of, Running
  <2>2. CASE q = p
    <3>1. Of(a, q) /\ transfers[q] = 0 /\ payouts[q] # "PAID"
      BY <1>1, <2>1, <2>2 DEF Alone, Of, Running
    <3>2. \A b \in Approvals : Of(b, q)' => b = a
      BY <2>1, <3>1 DEF Alone
    <3>3. Of(a, q)' /\ approval'[a].step = "commit" /\ transfers'[q] = 1
      BY <1>1, <1>3, <1>4, <2>1, <2>2, <3>1
    <3> QED
      BY <1>1, <2>1, <3>1, <3>2, <3>3 DEF Alone
  <2>3. CASE q # p
    <3>1. ~Of(a, q)
      BY <2>3 DEF Of
    <3> QED
      BY <1>1, <1>2, <1>4, <2>1, <2>3, <3>1 DEF Alone
  <2> QED
    BY <2>2, <2>3
<1> QED
  BY <1>5, <1>6, <1>7, <1>8

LEMMA StepCommit ==
    ASSUME IInv, NEW a \in Approvals, ApproveCommit(a)
    PROVE  IInv'
<1> DEFINE p == approval[a].payout
           to == [approval[a] EXCEPT !.step = "done"]
<1> USE NoneAssumption, AmountAssumption DEF IInv
<1>1. /\ approval[a].step = "commit" /\ p \in Payouts /\ payouts[p] # None
      /\ AmountOf[p] <= approval[a].balance /\ transfers[p] > 0
      /\ approval' = [approval EXCEPT ![a] = to] /\ approval'[a] = to
      /\ wallet' = approval[a].balance - AmountOf[p]
      /\ payouts' = [payouts EXCEPT ![p] = "PAID"]
      /\ stale' \in BOOLEAN
      /\ UNCHANGED <<override, commissions, transfers, credit, request, creator, raced>>
  BY DEF ApproveCommit, ApprovalStep, TypeOK, ApprovalKnows, Running
<1>2. \A b \in Approvals \ {a} : approval'[b] = approval[b]
  BY <1>1, Others
<1>3. /\ to.step = "done"
      /\ to \in [step : ApprovalSteps, payout : Payouts \cup {None}, balance : Nat]
  BY DEF TypeOK, ApprovalSteps, Ended
<1> HIDE DEF to
<1>4. wallet' \in Nat /\ wallet' # None
  BY <1>1 DEF TypeOK
<1>5. /\ payouts'[p] = "PAID" /\ \A q \in Payouts \ {p} : payouts'[q] = payouts[q]
      /\ payouts' \in [Payouts -> Statuses]
  BY <1>1 DEF TypeOK, Statuses
<1>6. TypeOK'
  BY <1>1, <1>3, <1>4, <1>5 DEF TypeOK
<1>7. RowsFollow' /\ PaidWasTransferred'
  BY <1>1, <1>4, <1>5 DEF RowsFollow, PaidWasTransferred
<1>8. \A b \in Approvals : ApprovalKnows(b)'
  BY <1>1, <1>2, <1>3, <1>5 DEF ApprovalKnows, Running
<1>9. ASSUME NEW q \in Payouts \ raced' PROVE Alone(q)'
  <2>1. Alone(q) /\ ~Of(a, q)' /\ \A b \in Approvals \ {a} : Of(b, q)' <=> Of(b, q)
    BY <1>1, <1>2, <1>3, <1>9 DEF Of, Running
  <2>2. CASE q = p
    <3>1. Of(a, q)
      BY <1>1, <2>2 DEF Of, Running
    <3>2. \A b \in Approvals : ~Of(b, q)'
      BY <2>1, <3>1 DEF Alone
    <3> QED
      BY <1>1, <1>5, <2>1, <2>2, <3>2 DEF Alone
  <2>3. CASE q # p
    <3>1. ~Of(a, q) /\ payouts'[q] = payouts[q] /\ transfers'[q] = transfers[q]
      BY <1>1, <1>5, <2>3 DEF Of
    <3> QED
      BY <1>2, <2>1, <3>1 DEF Alone
  <2> QED
    BY <2>2, <2>3
<1> QED
  BY <1>6, <1>7, <1>8, <1>9

LEMMA StepFail ==
    ASSUME IInv, NEW a \in Approvals, ApproveFails(a)
    PROVE  IInv'
<1> DEFINE p == approval[a].payout
           to == [approval[a] EXCEPT !.step = "failed"]
<1> USE NoneAssumption DEF IInv
<1>1. /\ approval[a].step \in Running /\ p \in Payouts
      /\ approval' = [approval EXCEPT ![a] = to] /\ approval'[a] = to
      /\ raced' = IF approval[a].step = "commit" THEN raced \cup {p} ELSE raced
      /\ UNCHANGED <<wallet, override, commissions, payouts, transfers, credit, request, creator, stale>>
  <2>1. approval[a].step \in ApprovalSteps /\ approval[a].step \notin {"idle"} \cup Ended
    BY DEF ApproveFails, TypeOK
  <2>2. approval[a].step \in Running
    BY <2>1 DEF ApprovalSteps, Running
  <2> QED
    BY <2>2 DEF ApproveFails, TypeOK, ApprovalKnows
<1>2. \A b \in Approvals \ {a} : approval'[b] = approval[b]
  BY <1>1, Others
<1>3. /\ to.step = "failed"
      /\ to \in [step : ApprovalSteps, payout : Payouts \cup {None}, balance : Nat]
  BY DEF TypeOK, ApprovalSteps, Ended
<1> HIDE DEF to
<1>4. TypeOK'
  BY <1>1, <1>3 DEF TypeOK
<1>5. RowsFollow' /\ PaidWasTransferred'
  BY <1>1 DEF RowsFollow, PaidWasTransferred
<1>6. \A b \in Approvals : ApprovalKnows(b)'
  BY <1>1, <1>2, <1>3 DEF ApprovalKnows, Running
<1>7. ASSUME NEW q \in Payouts \ raced' PROVE Alone(q)'
  <2>1. Alone(q) /\ ~Of(a, q)' /\ \A b \in Approvals \ {a} : Of(b, q)' <=> Of(b, q)
    BY <1>1, <1>2, <1>3, <1>7 DEF Of, Running
  <2>2. Of(a, q) => approval[a].step # "commit"
    BY <1>1, <1>7 DEF Of
  <2> QED
    BY <1>1, <1>2, <2>1, <2>2 DEF Alone
<1> QED
  BY <1>4, <1>5, <1>6, <1>7

-------------------------------------------------------------------------------
LEMMA StepIInv == IInv /\ [Next]_vars => IInv'
<1> SUFFICES ASSUME IInv, [Next]_vars PROVE IInv'
  OBVIOUS
<1>1. ASSUME NEW rate \in Overrides \cup {None}, SetOverride(rate) PROVE IInv'
  BY <1>1, StepOverride, Apart
<1>2. ASSUME NEW k \in Credits, Credit(k) PROVE IInv'
  BY <1>2, StepCredit, Apart
<1>3. ASSUME NEW p \in Payouts, Request(p) PROVE IInv'
  BY <1>3, StepRequest
<1>4. ASSUME NEW a \in Approvals, Approve(a) PROVE IInv'
  BY <1>4, StepLoad, StepCheck, StepTransfer, StepCommit, StepFail DEF Approve
<1>5. CASE UNCHANGED vars
  <2>1. TypeOK'
    BY <1>5 DEF IInv, TypeOK, vars, callVars
  <2> QED
    BY <1>5, <2>1, Apart DEF vars, callVars
<1> QED
  BY <1>1, <1>2, <1>3, <1>4, <1>5 DEF Next

LEMMA Invariance == Spec => []IInv
<1>1. Init => IInv
  BY InitIInv
<1>2. IInv /\ [Next]_vars => IInv'
  BY StepIInv
<1> QED
  BY <1>1, <1>2, PTL DEF Spec

\* A payout is PAID only after its transfer, and transferred twice only where two
\* approvals of it overlapped or one died between transfer and commit
\* (approve_payout).
THEOREM PaidOnce == Spec => []PayoutsPaidOnce
<1>1. IInv => PayoutsPaidOnce
  <2> SUFFICES ASSUME IInv PROVE PayoutsPaidOnce
    OBVIOUS
  <2>1. \A p \in Payouts : transfers[p] > 1 => p \in raced
    BY DEF IInv, Alone, TypeOK
  <2> QED
    BY <2>1 DEF IInv, PayoutsPaidOnce, TransferredOnceUnlessRaced
<1> QED
  BY <1>1, Invariance, PTL

-------------------------------------------------------------------------------
(* Sums over the rows of a table.                                          *)

\* A non-empty family of subsets of a finite set has a least one: what is false of
\* some subset is false of a least one, which stands for induction.
LEMMA LeastSubset ==
    ASSUME NEW S, IsFiniteSet(S), NEW T \in SUBSET (SUBSET S), T # {}
    PROVE  \E s \in T : \A t \in T : t \subseteq s => t = s
<1>1. IsWellFoundedOn(StrictSubsetOrdering(S), SUBSET S)
  BY FS_StrictSubsetOrderingWellFounded, FS_FiniteSubsetsOfFinite
<1>2. \E s \in T : \A t \in T : ~(<<t, s>> \in StrictSubsetOrdering(S))
  BY <1>1, WFMin
<1> QED
  BY <1>2 DEF StrictSubsetOrdering

Pick(s) == CHOOSE x \in s : TRUE
Sums(f, dom, g) == g = [s \in SUBSET dom |-> IF s = {} THEN 0 ELSE f[Pick(s)] + g[s \ {Pick(s)}]]

LEMMA SumIs ==
    ASSUME NEW f, NEW S
    PROVE  SumFunctionOnSet(f, S) = (CHOOSE g : Sums(f, S, g))[S]
  BY DEF SumFunctionOnSet, FoldFunctionOnSet, MapThenFoldSet, Sums, Pick

LEMMA PickIs ==
    ASSUME NEW s, s # {}
    PROVE  Pick(s) \in s /\ s \ {Pick(s)} \subseteq s /\ s \ {Pick(s)} # s
<1>1. Pick(s) \in s
  BY DEF Pick
<1> QED
  BY <1>1

LEMMA SumsAgree ==
    ASSUME NEW f, NEW U, IsFiniteSet(U), NEW R \in SUBSET U, NEW g, NEW h,
           Sums(f, U, g), Sums(f, R, h)
    PROVE  g[R] = h[R]
<1> DEFINE T == {s \in SUBSET R : g[s] # h[s]}
<1>1. SUFFICES ASSUME T # {} PROVE FALSE
  <2>1. R \in SUBSET R
    OBVIOUS
  <2> QED
    BY <2>1
<1>2. IsFiniteSet(R)
  BY FS_Subset
<1>3. PICK s \in T : \A t \in T : t \subseteq s => t = s
  <2>1. T \in SUBSET (SUBSET R)
    OBVIOUS
  <2> HIDE DEF T
  <2> QED
    BY <1>1, <1>2, <2>1, LeastSubset
<1>4. s \in SUBSET R /\ s \in SUBSET U /\ g[s] # h[s]
  OBVIOUS
<1>5. /\ g[s] = IF s = {} THEN 0 ELSE f[Pick(s)] + g[s \ {Pick(s)}]
      /\ h[s] = IF s = {} THEN 0 ELSE f[Pick(s)] + h[s \ {Pick(s)}]
  BY <1>4 DEF Sums
<1>6. s # {}
  BY <1>4, <1>5
<1>7. s \ {Pick(s)} \in SUBSET R /\ s \ {Pick(s)} \notin T
  BY <1>3, <1>4, <1>6, PickIs
<1> QED
  BY <1>4, <1>5, <1>7

LEMMA SumsExist ==
    ASSUME NEW f, NEW S, IsFiniteSet(S)
    PROVE  \E g : Sums(f, S, g)
<1> DEFINE T == {s \in SUBSET S : ~ \E g : Sums(f, s, g)}
<1>1. SUFFICES ASSUME T # {} PROVE FALSE
  OBVIOUS
<1>2. PICK s \in T : \A t \in T : t \subseteq s => t = s
  <2>1. T \in SUBSET (SUBSET S)
    OBVIOUS
  <2> HIDE DEF T
  <2> QED
    BY <1>1, <2>1, LeastSubset
<1>3. s \in SUBSET S /\ ~ \E g : Sums(f, s, g)
  OBVIOUS
<1>4. \A t \in SUBSET s : t # s => \E g : Sums(f, t, g)
  BY <1>2, <1>3
<1> DEFINE G(t) == CHOOSE g : Sums(f, t, g)
           g0 == [t \in SUBSET s |-> IF t = {} THEN 0
                                     ELSE f[Pick(t)] + G(t \ {Pick(t)})[t \ {Pick(t)}]]
<1>5. \A t \in SUBSET s : t # s => Sums(f, t, G(t))
  BY <1>4
<1> HIDE DEF G, T
<1>6. ASSUME NEW t \in SUBSET s, t # s
      PROVE  g0[t] = G(t)[t]
  <2>1. G(t)[t] = IF t = {} THEN 0 ELSE f[Pick(t)] + G(t)[t \ {Pick(t)}]
    <3>1. Sums(f, t, G(t))
      BY <1>5, <1>6
    <3> QED
      BY <3>1 DEF Sums
  <2>2. CASE t # {}
    <3> DEFINE r == t \ {Pick(t)}
    <3>1. r \in SUBSET t /\ r \in SUBSET s /\ r # s
      BY <1>6, <2>2, PickIs
    <3>2. IsFiniteSet(t)
      BY <1>3, FS_Subset
    <3>3. Sums(f, t, G(t)) /\ Sums(f, r, G(r))
      BY <1>5, <1>6, <3>1
    <3>4. G(t)[r] = G(r)[r]
      <4> HIDE DEF r
      <4> DEFINE gt == G(t)
                 gr == G(r)
      <4>2. Sums(f, t, gt) /\ Sums(f, r, gr)
        BY <3>3
      <4> HIDE DEF gt, gr
      <4>3. gt[r] = gr[r]
        BY <3>1, <3>2, <4>2, SumsAgree
      <4> QED
        BY <4>3 DEF gt, gr
    <3> QED
      BY <2>1, <2>2, <3>4
  <2>3. CASE t = {}
    BY <2>1, <2>3
  <2> QED
    BY <2>2, <2>3
<1>7. ASSUME NEW t \in SUBSET s, t # {}
      PROVE  G(t \ {Pick(t)})[t \ {Pick(t)}] = g0[t \ {Pick(t)}]
  <2>1. t \ {Pick(t)} \in SUBSET s /\ t \ {Pick(t)} # s
    BY <1>7, PickIs
  <2> HIDE DEF g0
  <2> QED
    BY <2>1, <1>6
<1>8. g0 = [t \in SUBSET s |-> IF t = {} THEN 0 ELSE f[Pick(t)] + g0[t \ {Pick(t)}]]
  BY <1>7
<1>9. Sums(f, s, g0)
  BY <1>8 DEF Sums
<1> QED
  BY <1>3, <1>9

LEMMA SumStep ==
    ASSUME NEW f, NEW S, IsFiniteSet(S)
    PROVE  SumFunctionOnSet(f, S) =
             IF S = {} THEN 0 ELSE f[Pick(S)] + SumFunctionOnSet(f, S \ {Pick(S)})
<1> DEFINE G(t) == CHOOSE g : Sums(f, t, g)
           r == S \ {Pick(S)}
<1>1. r \in SUBSET S /\ IsFiniteSet(r)
  BY FS_Subset
<1>2. Sums(f, S, G(S)) /\ Sums(f, r, G(r))
  BY <1>1, SumsExist
<1>3. SumFunctionOnSet(f, S) = G(S)[S] /\ SumFunctionOnSet(f, r) = G(r)[r]
  BY SumIs
<1>4. G(S)[r] = G(r)[r]
  <2> HIDE DEF r
  <2> DEFINE gs == G(S)
             gr == G(r)
  <2>1. Sums(f, S, gs) /\ Sums(f, r, gr)
    BY <1>2
  <2> HIDE DEF gs, gr
  <2>2. gs[r] = gr[r]
    BY <1>1, <2>1, SumsAgree
  <2> QED
    BY <2>2 DEF gs, gr
<1>5. G(S)[S] = IF S = {} THEN 0 ELSE f[Pick(S)] + G(S)[r]
  BY <1>2 DEF Sums
<1> QED
  BY <1>3, <1>4, <1>5

\* Sums of natural numbers are natural numbers.
LEMMA SumType ==
    ASSUME NEW f, NEW S, IsFiniteSet(S), \A x \in S : f[x] \in Nat
    PROVE  SumFunctionOnSet(f, S) \in Nat
<1> DEFINE T == {s \in SUBSET S : SumFunctionOnSet(f, s) \notin Nat}
<1>1. SUFFICES ASSUME T # {} PROVE FALSE
  OBVIOUS
<1>2. PICK s \in T : \A t \in T : t \subseteq s => t = s
  <2>1. T \in SUBSET (SUBSET S)
    OBVIOUS
  <2> HIDE DEF T
  <2> QED
    BY <1>1, <2>1, LeastSubset
<1>3. s \in SUBSET S /\ SumFunctionOnSet(f, s) \notin Nat /\ IsFiniteSet(s)
  BY FS_Subset
<1>4. SumFunctionOnSet(f, s) = IF s = {} THEN 0 ELSE f[Pick(s)] + SumFunctionOnSet(f, s \ {Pick(s)})
  BY <1>3, SumStep
<1>5. CASE s # {}
  <2>1. /\ s \ {Pick(s)} \in SUBSET S /\ s \ {Pick(s)} \notin T /\ Pick(s) \in S
    BY <1>2, <1>3, <1>5, PickIs
  <2>2. SumFunctionOnSet(f, s \ {Pick(s)}) \in Nat /\ f[Pick(s)] \in Nat
    BY <2>1
  <2> QED
    BY <1>3, <1>4, <1>5, <2>2
<1> QED
  BY <1>3, <1>4, <1>5

\* A sum depends on the values that are summed.
LEMMA SumSame ==
    ASSUME NEW f, NEW h, NEW S, IsFiniteSet(S), \A x \in S : f[x] = h[x]
    PROVE  SumFunctionOnSet(f, S) = SumFunctionOnSet(h, S)
<1> DEFINE T == {s \in SUBSET S : SumFunctionOnSet(f, s) # SumFunctionOnSet(h, s)}
<1>1. SUFFICES ASSUME T # {} PROVE FALSE
  OBVIOUS
<1>2. PICK s \in T : \A t \in T : t \subseteq s => t = s
  <2>1. T \in SUBSET (SUBSET S)
    OBVIOUS
  <2> HIDE DEF T
  <2> QED
    BY <1>1, <2>1, LeastSubset
<1>3. /\ s \in SUBSET S /\ IsFiniteSet(s)
      /\ SumFunctionOnSet(f, s) # SumFunctionOnSet(h, s)
  BY FS_Subset
<1>4. /\ SumFunctionOnSet(f, s) = IF s = {} THEN 0 ELSE f[Pick(s)] + SumFunctionOnSet(f, s \ {Pick(s)})
      /\ SumFunctionOnSet(h, s) = IF s = {} THEN 0 ELSE h[Pick(s)] + SumFunctionOnSet(h, s \ {Pick(s)})
  BY <1>3, SumStep
<1>5. CASE s # {}
  <2>1. /\ s \ {Pick(s)} \in SUBSET S /\ s \ {Pick(s)} \notin T /\ Pick(s) \in S
    BY <1>2, <1>3, <1>5, PickIs
  <2> QED
    BY <1>3, <1>4, <1>5, <2>1
<1> QED
  BY <1>3, <1>4, <1>5

\* An element adds its value, whichever element the sum begins with.
LEMMA SumAdd ==
    ASSUME NEW f, NEW S, IsFiniteSet(S), NEW x, x \notin S, \A y \in S \cup {x} : f[y] \in Nat
    PROVE  SumFunctionOnSet(f, S \cup {x}) = SumFunctionOnSet(f, S) + f[x]
<1> DEFINE Adds(s, y) == SumFunctionOnSet(f, s \cup {y}) = SumFunctionOnSet(f, s) + f[y]
           U == S \cup {x}
           T == {s \in SUBSET U : \E y \in U \ s : ~Adds(s, y)}
<1>0. IsFiniteSet(U)
  BY FS_AddElement
<1>1. SUFFICES ASSUME T # {} PROVE FALSE
  <2>1. S \in SUBSET U /\ x \in U \ S
    OBVIOUS
  <2> QED
    BY <2>1
<1>2. PICK s \in T : \A t \in T : t \subseteq s => t = s
  <2>1. T \in SUBSET (SUBSET U)
    OBVIOUS
  <2> HIDE DEF T
  <2> QED
    BY <1>0, <1>1, <2>1, LeastSubset
<1>3. PICK y \in U \ s : ~Adds(s, y)
  OBVIOUS
<1>4. s \in SUBSET U /\ IsFiniteSet(s) /\ IsFiniteSet(s \cup {y})
  BY <1>0, FS_Subset, FS_AddElement
<1> DEFINE p == Pick(s \cup {y})
<1>5. p \in s \cup {y}
  BY PickIs
<1>6. SumFunctionOnSet(f, s \cup {y}) = f[p] + SumFunctionOnSet(f, (s \cup {y}) \ {p})
  BY <1>4, SumStep
<1>7. \A t \in SUBSET U : SumFunctionOnSet(f, t) \in Nat
  BY <1>0, FS_Subset, SumType
<1>8. f[p] \in Nat /\ f[y] \in Nat
  BY <1>3, <1>4, <1>5
<1> HIDE DEF p, T
<1>9. CASE p = y
  <2>1. (s \cup {y}) \ {p} = s
    BY <1>3, <1>9
  <2> QED
    BY <1>3, <1>4, <1>6, <1>7, <1>8, <1>9, <2>1
<1>10. CASE p # y
  <2> DEFINE r == s \ {p}
  <2>1. p \in s /\ r \in SUBSET U /\ r # s /\ r \subseteq s
    BY <1>4, <1>5, <1>10
  <2>2. \A z \in U \ r : Adds(r, z)
    BY <1>2, <2>1 DEF T
  <2>3. Adds(r, y) /\ Adds(r, p)
    BY <1>3, <1>4, <2>1, <2>2
  <2>4. r \cup {p} = s /\ (s \cup {y}) \ {p} = r \cup {y}
    BY <1>10, <2>1
  <2>5. SumFunctionOnSet(f, r) \in Nat /\ SumFunctionOnSet(f, s) \in Nat
    BY <1>4, <1>7, <2>1
  <2>6. SumFunctionOnSet(f, s \cup {y}) = f[p] + (SumFunctionOnSet(f, r) + f[y])
    BY <1>6, <2>3, <2>4
  <2>7. SumFunctionOnSet(f, s) = SumFunctionOnSet(f, r) + f[p]
    BY <2>3, <2>4
  <2> QED
    BY <1>3, <1>8, <2>5, <2>6, <2>7
<1> QED
  BY <1>9, <1>10

-------------------------------------------------------------------------------
(* The account.                                                            *)

LEMMA SumsAreNumbers ==
    ASSUME IInv
    PROVE  Earned \in Nat /\ Spent \in Nat
<1> DEFINE rows == {k \in Credits : commissions[k] # None}
           paid == {p \in Payouts : payouts[p] = "PAID"}
<1>1. /\ IsFiniteSet(rows) /\ \A k \in rows : commissions[k] \in Nat
      /\ IsFiniteSet(paid) /\ \A p \in paid : AmountOf[p] \in Nat
  BY AmountAssumption, FS_Subset DEF IInv, TypeOK
<1> HIDE DEF rows, paid
<1>2. SumFunctionOnSet(commissions, rows) \in Nat /\ SumFunctionOnSet(AmountOf, paid) \in Nat
  BY <1>1, SumType
<1> QED
  BY <1>2 DEF Earned, Spent, rows, paid

\* A new commission row adds its amount to what is earned.
LEMMA EarnedGrows ==
    ASSUME IInv, NEW k \in Credits, commissions[k] = None, NEW amount \in Nat,
           commissions' = [commissions EXCEPT ![k] = amount]
    PROVE  Earned' = Earned + amount
<1> DEFINE rows == {j \in Credits : commissions[j] # None}
           new  == {j \in Credits : commissions'[j] # None}
           now  == commissions'
<1>1. /\ commissions \in [Credits -> Nat \cup {None}] /\ now[k] = amount
      /\ \A j \in Credits \ {k} : now[j] = commissions[j]
  BY DEF IInv, TypeOK
<1>2. new = rows \cup {k} /\ k \notin rows
  BY <1>1, NoneAssumption
<1>3. IsFiniteSet(rows) /\ (\A j \in rows : now[j] = commissions[j])
      /\ \A j \in rows \cup {k} : now[j] \in Nat
  BY <1>1, AmountAssumption, FS_Subset
<1> HIDE DEF rows, new, now
<1>4. SumFunctionOnSet(now, rows) = SumFunctionOnSet(commissions, rows)
  BY <1>3, SumSame
<1>5. SumFunctionOnSet(now, rows \cup {k}) = SumFunctionOnSet(now, rows) + now[k]
  BY <1>2, <1>3, SumAdd
<1>6. Earned = SumFunctionOnSet(commissions, rows) /\ Earned' = SumFunctionOnSet(now, new)
  BY DEF Earned, rows, new, now
<1> QED
  BY <1>1, <1>2, <1>4, <1>5, <1>6

\* A payout that becomes PAID adds its amount to what is spent; another status of a
\* row adds nothing.
LEMMA SpentGrows ==
    ASSUME IInv, NEW p \in Payouts, payouts[p] # "PAID", NEW to \in {"PENDING", "PAID"},
           payouts' = [payouts EXCEPT ![p] = to]
    PROVE  Spent' = IF to = "PAID" THEN Spent + AmountOf[p] ELSE Spent
<1> DEFINE paid == {q \in Payouts : payouts[q] = "PAID"}
           new  == {q \in Payouts : payouts'[q] = "PAID"}
<1>1. payouts'[p] = to /\ \A q \in Payouts \ {p} : payouts'[q] = payouts[q]
  BY DEF IInv, TypeOK
<1>2. p \notin paid /\ new = IF to = "PAID" THEN paid \cup {p} ELSE paid
  BY <1>1
<1>3. IsFiniteSet(paid) /\ \A q \in paid \cup {p} : AmountOf[q] \in Nat
  BY AmountAssumption, FS_Subset
<1> HIDE DEF paid, new
<1>4. SumFunctionOnSet(AmountOf, paid \cup {p}) = SumFunctionOnSet(AmountOf, paid) + AmountOf[p]
  BY <1>2, <1>3, SumAdd
<1>5. Spent = SumFunctionOnSet(AmountOf, paid) /\ Spent' = SumFunctionOnSet(AmountOf, new)
  BY DEF Spent, paid, new
<1> QED
  BY <1>2, <1>4, <1>5

\* Steps that add no row and pay nothing.
LEMMA SumsStay ==
    /\ UNCHANGED commissions => Earned' = Earned
    /\ UNCHANGED payouts => Spent' = Spent
  BY DEF Earned, Spent

LEMMA InitAccount == Init => AccountInv
<1> SUFFICES ASSUME Init PROVE AccountInv
  OBVIOUS
<1> USE NoneAssumption
<1>1. Earned = 0 /\ Spent = 0
  <2>1. {k \in Credits : commissions[k] # None} = {} /\ {p \in Payouts : payouts[p] = "PAID"} = {}
    BY DEF Init
  <2> QED
    BY <2>1, SumStep, FS_EmptySet DEF Earned, Spent
<1>2. Balance = 0
  BY DEF Init, Balance
<1> QED
  BY <1>1, <1>2 DEF Init, AccountInv, CreditKnows, LockstepUnlessStale

LEMMA OtherCredits ==
    ASSUME TypeOK, NEW k \in Credits, NEW to, credit' = [credit EXCEPT ![k] = to]
    PROVE  credit'[k] = to /\ \A j \in Credits \ {k} : credit'[j] = credit[j]
  BY DEF TypeOK

\* What a step of a credit keeps that commits nothing.
LEMMA CreditReads ==
    ASSUME IInv, AccountInv, NEW k \in Credits, CreditKnows(k)',
           \A j \in Credits \ {k} : CreditKnows(j)',
           UNCHANGED <<wallet, commissions, payouts, request, approval, stale>>
    PROVE  AccountInv'
<1>1. \A j \in Credits : CreditKnows(j)'
  OBVIOUS
<1>2. Earned' = Earned /\ Spent' = Spent /\ Balance' = Balance
  BY SumsStay DEF Balance
<1> QED
  BY <1>1, <1>2 DEF AccountInv, LockstepUnlessStale

LEMMA AccountCredit ==
    ASSUME IInv, AccountInv, NEW k \in Credits, Credit(k)
    PROVE  AccountInv'
<1> USE NoneAssumption
<1>1. /\ CreditKnows(k) /\ \A j \in Credits \ {k} : CreditKnows(j)
      /\ credit[k] \in [step : CreditSteps, amount : Nat, balance : Nat]
      /\ TypeOK /\ wallet \in Nat \cup {None}
      /\ Earned \in Nat /\ Spent \in Nat /\ Balance <= Earned /\ Balance \in Nat
  BY SumsAreNumbers DEF AccountInv, IInv, TypeOK, Balance
<1>2. CASE CreditReadOrg(k)
  <2>1. /\ credit[k].step = "idle"
        /\ credit' = [credit EXCEPT ![k] = [step |-> "wallet", amount |-> CommissionRate, balance |-> 0]]
        /\ UNCHANGED <<wallet, commissions, payouts, request, approval, creator, stale>>
    BY <1>2 DEF CreditReadOrg, CreditStep
  <2>2. /\ credit'[k].step = "wallet" /\ credit'[k].balance = 0
        /\ \A j \in Credits \ {k} : credit'[j] = credit[j]
    <3> DEFINE to == [step |-> "wallet", amount |-> CommissionRate, balance |-> 0]
    <3>1. to.step = "wallet" /\ to.balance = 0 /\ credit' = [credit EXCEPT ![k] = to]
      BY <2>1
    <3> HIDE DEF to
    <3> QED
      BY <1>1, <3>1, OtherCredits
  <2>3. CreditKnows(k)' /\ \A j \in Credits \ {k} : CreditKnows(j)'
    BY <1>1, <2>1, <2>2, SumsStay DEF CreditKnows
  <2> QED
    BY <2>1, <2>3, CreditReads
<1>3. CASE CreditReadWallet(k)
  <2> DEFINE to == IF wallet = None THEN [credit[k] EXCEPT !.step = "create"]
                   ELSE [credit[k] EXCEPT !.step = "commit", !.balance = wallet]
  <2>1. /\ credit[k].step = "wallet" /\ credit' = [credit EXCEPT ![k] = to]
        /\ UNCHANGED <<wallet, commissions, payouts, request, approval, creator, stale>>
    BY <1>3 DEF CreditReadWallet, CreditStep
  <2>2. /\ wallet = None => to.step = "create" /\ to.balance = credit[k].balance
        /\ wallet # None => to.step = "commit" /\ to.balance = wallet
    BY <1>1
  <2> HIDE DEF to
  <2>3. credit'[k] = to /\ \A j \in Credits \ {k} : credit'[j] = credit[j]
    BY <1>1, <2>1, OtherCredits
  <2>4. CreditKnows(k)'
    <3>1. credit[k].balance = 0 /\ k \notin creator /\ commissions[k] = None
      BY <1>1, <2>1 DEF CreditKnows
    <3>2. wallet # None => wallet <= Earned
      BY <1>1 DEF Balance
    <3> QED
      BY <2>1, <2>2, <2>3, <3>1, <3>2, SumsStay DEF CreditKnows
  <2>5. \A j \in Credits \ {k} : CreditKnows(j)'
    BY <1>1, <2>1, <2>3, SumsStay DEF CreditKnows
  <2> QED
    BY <2>1, <2>4, <2>5, CreditReads
<1>4. CASE CreditCreateWallet(k)
  <2> DEFINE to == [credit[k] EXCEPT !.step = IF wallet = None THEN "commit" ELSE "failed"]
  <2>1. /\ credit[k].step = "create" /\ creator = {} /\ credit' = [credit EXCEPT ![k] = to]
        /\ creator' = IF wallet = None THEN {k} ELSE {}
        /\ UNCHANGED <<wallet, commissions, payouts, request, approval, stale>>
    BY <1>4 DEF CreditCreateWallet, CreditStep
  <2>2. /\ to.step = (IF wallet = None THEN "commit" ELSE "failed") /\ to.balance = credit[k].balance
    BY <1>1
  <2> HIDE DEF to
  <2>3. credit'[k] = to /\ \A j \in Credits \ {k} : credit'[j] = credit[j]
    BY <1>1, <2>1, OtherCredits
  <2>4. CreditKnows(k)'
    <3>1. credit[k].balance = 0 /\ commissions[k] = None
      BY <1>1, <2>1 DEF CreditKnows
    <3> QED
      BY <1>1, <2>1, <2>2, <2>3, <3>1, SumsStay DEF CreditKnows
  <2>5. \A j \in Credits \ {k} : CreditKnows(j)'
    BY <1>1, <2>1, <2>3, SumsStay DEF CreditKnows
  <2> QED
    BY <2>1, <2>4, <2>5, CreditReads
<1>5. CASE CreditCommit(k)
  <2> DEFINE written == k \in creator \/ credit[k].amount # 0
             amount == credit[k].amount
             read == credit[k].balance
  <2>1. /\ credit[k].step = "commit" /\ credit' = [credit EXCEPT ![k] = [credit[k] EXCEPT !.step = "done"]]
        /\ commissions' = [commissions EXCEPT ![k] = amount]
        /\ wallet' = IF written THEN read + amount ELSE wallet
        /\ stale' = (stale \/ (written /\ k \notin creator /\ wallet # read))
        /\ creator' = creator \ {k}
        /\ UNCHANGED <<payouts, request, approval>>
    BY <1>5 DEF CreditCommit, CreditStep
  <2>2. credit'[k].step = "done" /\ \A j \in Credits \ {k} : credit'[j] = credit[j]
    <3> DEFINE to == [credit[k] EXCEPT !.step = "done"]
    <3>1. to.step = "done" /\ credit' = [credit EXCEPT ![k] = to]
      BY <1>1, <2>1
    <3> HIDE DEF to
    <3> QED
      BY <1>1, <3>1, OtherCredits
  <2>3. amount \in Nat /\ read \in Nat /\ read <= Earned /\ commissions[k] = None
    BY <1>1, <2>1 DEF CreditKnows
  <2>4. Earned' = Earned + amount /\ Spent' = Spent
    BY <2>1, <2>3, EarnedGrows, SumsStay
  <2>5. commissions \in [Credits -> Nat \cup {None}]
    BY DEF IInv, TypeOK
  <2>6. \A j \in Credits \ {k} : commissions'[j] = commissions[j]
    BY <2>1, <2>5
  <2>7. /\ k \in creator => creator = {k} /\ wallet = None /\ read = 0 /\ written
        /\ k \notin creator => wallet # None
        /\ ~written => amount = 0 /\ k \notin creator
    BY <1>1, <2>1 DEF CreditKnows
  <2>8. wallet' # None /\ wallet' \in Nat
    BY <1>1, <2>1, <2>3, <2>7
  <2>9. CreditKnows(k)'
    BY <2>1, <2>2 DEF CreditKnows
  <2>10. ASSUME NEW j \in Credits \ {k}
         PROVE  CreditKnows(j)'
    <3>1. CreditKnows(j) /\ credit'[j] = credit[j] /\ commissions'[j] = commissions[j]
      BY <1>1, <2>2, <2>6
    <3>2. j \in creator => j \notin creator'
      BY <1>1, <2>1, <2>7, <3>1 DEF CreditKnows
    <3>3. credit[j].balance \in Nat /\ creator' \subseteq creator
      BY <2>1 DEF IInv, TypeOK
    <3>4. credit[j].step = "commit" => credit[j].balance <= Earned'
      BY <1>1, <2>3, <2>4, <3>1, <3>3 DEF CreditKnows
    <3>5. j \notin creator'
      BY <3>2, <3>3
    <3> QED
      BY <2>8, <3>1, <3>4, <3>5 DEF CreditKnows
  <2>11. Balance' = wallet' /\ Balance = IF wallet = None THEN 0 ELSE wallet
    BY <2>8 DEF Balance
  <2>12. Balance' <= Earned'
    BY <1>1, <2>1, <2>3, <2>4, <2>7, <2>11
  <2>13. LockstepUnlessStale'
    <3>1. SUFFICES ASSUME ~stale' PROVE Balance' = Earned' - Spent'
      BY DEF LockstepUnlessStale
    <3>2. Balance = Earned - Spent /\ (written /\ k \notin creator => wallet = read)
      BY <2>1, <3>1 DEF LockstepUnlessStale, AccountInv
    <3>3. Balance' = Balance + amount
      BY <1>1, <2>1, <2>3, <2>7, <2>11, <3>2
    <3> QED
      BY <1>1, <2>3, <2>4, <3>2, <3>3
  <2>14. \A a \in Approvals : approval'[a].step \in {"transfer", "commit"} => approval'[a].balance <= Earned'
    <3>1. \A a \in Approvals : approval[a].balance \in Nat
      BY DEF IInv, TypeOK
    <3> QED
      BY <1>1, <2>1, <2>3, <2>4, <3>1 DEF AccountInv
  <2>15. \A p \in Payouts : request'[p] = "insert" \/ payouts'[p] # None => AmountOf[p] <= Earned'
    BY <1>1, <2>1, <2>3, <2>4, AmountAssumption DEF AccountInv
  <2> QED
    BY <2>9, <2>10, <2>12, <2>13, <2>14, <2>15 DEF AccountInv
<1>6. CASE CreditFails(k)
  <2>1. /\ credit[k].step \notin {"idle"} \cup Ended
        /\ credit' = [credit EXCEPT ![k] = [credit[k] EXCEPT !.step = "failed"]]
        /\ creator' = creator \ {k}
        /\ UNCHANGED <<wallet, commissions, payouts, request, approval, stale>>
    BY <1>6 DEF CreditFails
  <2>2. credit'[k].step = "failed" /\ \A j \in Credits \ {k} : credit'[j] = credit[j]
    <3> DEFINE to == [credit[k] EXCEPT !.step = "failed"]
    <3>1. to.step = "failed" /\ credit' = [credit EXCEPT ![k] = to]
      BY <1>1, <2>1
    <3> HIDE DEF to
    <3> QED
      BY <1>1, <3>1, OtherCredits
  <2>3. CreditKnows(k)'
    <3>1. commissions[k] = None
      BY <1>1, <2>1 DEF CreditKnows, Ended
    <3> QED
      BY <2>1, <2>2, <3>1 DEF CreditKnows
  <2>4. \A j \in Credits \ {k} : CreditKnows(j)'
    BY <1>1, <2>1, <2>2, SumsStay DEF CreditKnows
  <2> QED
    BY <2>1, <2>3, <2>4, CreditReads
<1> QED
  BY <1>2, <1>3, <1>4, <1>5, <1>6 DEF Credit

LEMMA AccountRequest ==
    ASSUME IInv, AccountInv, NEW p \in Payouts, Request(p)
    PROVE  AccountInv'
<1> USE NoneAssumption
<1>1. /\ Earned \in Nat /\ AmountOf[p] \in Nat /\ wallet \in Nat \cup {None}
      /\ request \in [Payouts -> RequestSteps] /\ payouts \in [Payouts -> Statuses]
  BY SumsAreNumbers, AmountAssumption DEF IInv, TypeOK
<1>2. UNCHANGED <<wallet, commissions, credit, approval, creator, stale>>
  BY DEF Request, RequestRead, RequestInsert
<1>3. Earned' = Earned /\ Spent' = Spent /\ Balance' = Balance
  <2>1. CASE RequestRead(p)
    BY <2>1, <1>2, SumsStay DEF RequestRead, Balance
  <2>2. CASE RequestInsert(p)
    <3>1. payouts[p] # "PAID"
      BY <2>2 DEF RequestInsert, IInv, RowsFollow
    <3>2. UNCHANGED payouts \/ payouts' = [payouts EXCEPT ![p] = "PENDING"]
      BY <2>2 DEF RequestInsert
    <3>3. Spent' = Spent
      BY <3>1, <3>2, SumsStay, SpentGrows
    <3> QED
      BY <1>2, <3>3, SumsStay DEF Balance
  <2> QED
    BY <2>1, <2>2 DEF Request
<1>4. \A k \in Credits : CreditKnows(k)'
  BY <1>2, <1>3 DEF CreditKnows, AccountInv
<1>5. \A q \in Payouts \ {p} : request'[q] = request[q] /\ payouts'[q] = payouts[q]
  BY <1>1 DEF Request, RequestRead, RequestInsert
<1>6. request'[p] = "insert" \/ payouts'[p] # None => AmountOf[p] <= Earned
  <2>1. CASE RequestRead(p)
    <3>1. payouts'[p] = None
      BY <2>1 DEF RequestRead, IInv, RowsFollow
    <3>2. request'[p] = "insert" => wallet # None /\ ~(AmountOf[p] > wallet)
      BY <1>1, <2>1 DEF RequestRead
    <3>3. wallet # None => wallet <= Earned
      BY DEF AccountInv, Balance
    <3> QED
      BY <1>1, <3>1, <3>2, <3>3
  <2>2. CASE RequestInsert(p)
    BY <2>2 DEF RequestInsert, AccountInv
  <2> QED
    BY <2>1, <2>2 DEF Request
<1> QED
  BY <1>2, <1>3, <1>4, <1>5, <1>6 DEF AccountInv, LockstepUnlessStale

LEMMA AccountApprove ==
    ASSUME IInv, AccountInv, NEW a \in Approvals, Approve(a)
    PROVE  AccountInv'
<1> USE NoneAssumption
<1>1. /\ Earned \in Nat /\ Spent \in Nat /\ wallet \in Nat \cup {None}
      /\ approval \in [Approvals -> [step : ApprovalSteps, payout : Payouts \cup {None}, balance : Nat]]
      /\ UNCHANGED <<commissions, credit, request, creator>>
  BY SumsAreNumbers DEF IInv, TypeOK, Approve, ApproveLoad, ApproveCheck, ApproveTransfer,
     ApproveCommit, ApproveFails
<1>2. Earned' = Earned
  BY <1>1, SumsStay
<1>3. CASE UNCHANGED <<wallet, payouts, stale>>
  <2>1. \A k \in Credits : CreditKnows(k)'
    BY <1>1, <1>2, <1>3 DEF CreditKnows, AccountInv
  <2>2. Spent' = Spent /\ Balance' = Balance
    BY <1>3, SumsStay DEF Balance
  <2>3. \A b \in Approvals \ {a} : approval'[b] = approval[b]
    BY <1>1 DEF Approve, ApproveLoad, ApproveCheck, ApproveTransfer, ApproveCommit, ApproveFails,
       ApprovalStep
  <2>4. approval'[a].step \in {"transfer", "commit"} => approval'[a].balance <= Earned
    <3>1. ASSUME NEW p \in Payouts, ApproveLoad(a, p) PROVE approval'[a].step \in {"wallet", "failed"}
      BY <1>1, <3>1 DEF ApproveLoad, ApprovalStep
    <3>2. CASE ApproveCheck(a)
      <4> DEFINE to == IF AmountOf[approval[a].payout] > wallet
                       THEN [approval[a] EXCEPT !.step = "failed"]
                       ELSE [approval[a] EXCEPT !.step = "transfer", !.balance = wallet]
      <4>1. /\ approval[a].step = "wallet" /\ approval' = [approval EXCEPT ![a] = to]
        BY <3>2 DEF ApproveCheck, ApprovalStep
      <4>2. approval'[a] = to
        BY <1>1, <4>1
      <4>3. to.step = "failed" \/ to.balance = wallet
        BY <1>1
      <4>4. wallet # None
        BY <1>1, <4>1 DEF IInv, ApprovalKnows, Running, RowsFollow
      <4>5. wallet <= Earned
        BY <4>4 DEF AccountInv, Balance
      <4> QED
        BY <4>2, <4>3, <4>5
    <3>3. CASE ApproveTransfer(a)
      BY <1>1, <3>3 DEF ApproveTransfer, ApprovalStep, AccountInv
    <3>4. CASE ApproveCommit(a)
      BY <1>1, <3>4 DEF ApproveCommit, ApprovalStep
    <3>5. CASE ApproveFails(a)
      BY <1>1, <3>5 DEF ApproveFails
    <3> QED
      BY <3>1, <3>2, <3>3, <3>4, <3>5 DEF Approve
  <2> QED
    BY <1>1, <1>2, <1>3, <2>1, <2>2, <2>3, <2>4 DEF AccountInv, LockstepUnlessStale
<1>4. CASE ApproveCommit(a)
  <2> DEFINE p == approval[a].payout
             read == approval[a].balance
  <2>1. /\ approval[a].step = "commit"
        /\ approval' = [approval EXCEPT ![a] = [approval[a] EXCEPT !.step = "done"]]
        /\ wallet' = read - AmountOf[p] /\ payouts' = [payouts EXCEPT ![p] = "PAID"]
        /\ stale' = (stale \/ wallet # read \/ payouts[p] # "PENDING")
    BY <1>4 DEF ApproveCommit, ApprovalStep
  <2>2. /\ p \in Payouts /\ payouts[p] # None /\ AmountOf[p] <= read
        /\ read \in Nat /\ AmountOf[p] \in Nat /\ read <= Earned /\ wallet # None
        /\ AmountOf[p] <= Earned
    BY <1>1, <2>1, AmountAssumption DEF IInv, ApprovalKnows, Running, RowsFollow, AccountInv
  <2>3. wallet' \in Nat /\ wallet' # None /\ Balance' = wallet' /\ Balance = wallet
    BY <2>1, <2>2 DEF Balance
  <2>4. approval'[a].step = "done" /\ \A b \in Approvals \ {a} : approval'[b] = approval[b]
    BY <1>1, <2>1
  <2>5. Balance' <= Earned'
    BY <1>1, <1>2, <2>1, <2>2, <2>3
  <2>6. LockstepUnlessStale'
    <3>1. ASSUME ~stale' PROVE Spent' = Spent + AmountOf[p]
      BY <2>1, <2>2, <3>1, SpentGrows
    <3>2. ASSUME ~stale' PROVE wallet = Earned - Spent /\ wallet = read
      BY <2>1, <2>3, <3>2 DEF AccountInv, LockstepUnlessStale
    <3> QED
      BY <1>1, <1>2, <2>1, <2>2, <2>3, <3>1, <3>2 DEF LockstepUnlessStale
  <2>7. \A k \in Credits : CreditKnows(k)'
    <3>1. \A k \in Credits : k \notin creator
      BY <2>2 DEF AccountInv, CreditKnows
    <3> QED
      BY <1>1, <1>2, <2>3, <3>1 DEF AccountInv, CreditKnows
  <2>8. \A q \in Payouts : request'[q] = "insert" \/ payouts'[q] # None => AmountOf[q] <= Earned'
    <3>1. \A q \in Payouts \ {p} : payouts'[q] = payouts[q]
      BY <2>1 DEF IInv, TypeOK
    <3> QED
      BY <1>1, <1>2, <2>2, <3>1 DEF AccountInv
  <2>9. \A b \in Approvals : approval'[b].step \in {"transfer", "commit"} => approval'[b].balance <= Earned'
    BY <1>2, <2>4 DEF AccountInv
  <2> QED
    BY <2>5, <2>6, <2>7, <2>8, <2>9 DEF AccountInv
<1> QED
  BY <1>3, <1>4 DEF Approve, ApproveLoad, ApproveCheck, ApproveTransfer, ApproveFails

LEMMA AccountStep == IInv /\ AccountInv /\ [Next]_vars => AccountInv'
<1> SUFFICES ASSUME IInv, AccountInv, [Next]_vars PROVE AccountInv'
  OBVIOUS
<1>1. CASE UNCHANGED <<wallet, commissions, payouts, credit, request, approval, creator, stale>>
  BY <1>1, SumsStay DEF AccountInv, CreditKnows, LockstepUnlessStale, Balance
<1>2. CASE UNCHANGED vars
  BY <1>1, <1>2 DEF vars, callVars
<1>3. ASSUME NEW rate \in Overrides \cup {None}, SetOverride(rate) PROVE AccountInv'
  BY <1>1, <1>3 DEF SetOverride, callVars
<1> QED
  BY <1>2, <1>3, AccountCredit, AccountRequest, AccountApprove DEF Next

LEMMA AccountInvariance == Spec => [](IInv /\ AccountInv)
<1>1. Init => IInv /\ AccountInv
  BY InitIInv, InitAccount
<1>2. IInv /\ AccountInv /\ [Next]_vars => (IInv /\ AccountInv)'
  BY StepIInv, AccountStep
<1> QED
  BY <1>1, <1>2, PTL DEF Spec

\* The wallet is the commissions less the payouts unless a commit was based on an
\* outdated balance or status (credit_commission, approve_payout).
THEOREM Lockstep == Spec => []LockstepUnlessStale
<1>1. AccountInv => LockstepUnlessStale
  BY DEF AccountInv
<1> QED
  BY <1>1, AccountInvariance, PTL

\* Even when commits race, the wallet holds at most what was credited, and no payout
\* is asked for beyond that (request_payout, approve_payout).
THEOREM PayoutsEarned == Spec => []PayoutsWereEarned
<1>1. AccountInv => PayoutsWereEarned
  BY DEF AccountInv, PayoutsWereEarned
<1> QED
  BY <1>1, AccountInvariance, PTL
===============================================================================
