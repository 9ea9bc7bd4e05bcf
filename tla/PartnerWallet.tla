------------------------------ MODULE PartnerWallet ------------------------------
(***************************************************************************)
(* The commission wallet of one partner: credit_commission and             *)
(* approve_payout each read the balance, compute the new one and write it  *)
(* at their commit.  Requests run concurrently on READ COMMITTED           *)
(* transactions without row locks, and the transfer of an approval leaves  *)
(* before its commit.  Amounts are in paise.                               *)
(***************************************************************************)
EXTENDS Integers, FiniteSets, Functions

CONSTANTS
  Credits,        \* calls of credit_commission, one per paid device-month
  Payouts,        \* calls of request_payout, each with the row it may insert
  Approvals,      \* calls of approve_payout
  AmountOf,       \* AmountOf[p]: the amount of payout p
  Overrides,      \* rates a Super_Admin may set for the partner, 0 among them
  DefaultRate,    \* DEFAULT_COMMISSION_RATE (50 rupees)
  PaisePerRupee,  \* PAISE_PER_RUPEE (100)
  None            \* no row, no override, nothing read

ASSUME AmountAssumption ==
  /\ IsFiniteSet(Credits) /\ IsFiniteSet(Payouts)
  /\ AmountOf \in [Payouts -> Nat \ {0}]
  /\ Overrides \subseteq Nat /\ DefaultRate \in Nat
  /\ PaisePerRupee \in Nat \ {0}
ASSUME NoneAssumption == None \notin Int \cup Payouts \cup {"PENDING", "PAID"}

VARIABLES
  wallet,       \* partner_wallets.balance, None while there is no row
  override,     \* organizations.commission_rate_override
  commissions,  \* commissions[k]: amount of the row credit k committed, or None
  payouts,      \* payouts[p]: status of the row, or None
  transfers,    \* transfers[p]: RazorpayX transfers made for p
  credit,       \* credit[k]: step, amount and balance read of the call
  request,      \* request[p]: step of the call
  approval,     \* approval[a]: step, payout and balance read of the call
  creator,      \* the credit with an uncommitted wallet row: at most one
  stale,        \* history: a commit was based on an outdated balance or status
  raced         \* history: payouts approved twice at a time, or transferred by
                \* an approval that died before its commit

callVars == <<credit, request, approval, creator>>
vars == <<wallet, override, commissions, payouts, transfers, callVars, stale, raced>>

Ended == {"done", "failed"}
CreditSteps   == {"idle", "wallet", "create", "commit"} \cup Ended
RequestSteps  == {"idle", "insert"} \cup Ended
ApprovalSteps == {"idle", "wallet", "transfer", "commit"} \cup Ended
Statuses == {None, "PENDING", "PAID"}

\* All values have their type; the balance and every amount are never negative.
TypeOK ==
  /\ wallet \in Nat \cup {None}
  /\ override \in Overrides \cup {None}
  /\ commissions \in [Credits -> Nat \cup {None}]
  /\ payouts \in [Payouts -> Statuses]
  /\ transfers \in [Payouts -> Nat]
  /\ credit \in [Credits -> [step : CreditSteps, amount : Nat, balance : Nat]]
  /\ request \in [Payouts -> RequestSteps]
  /\ approval \in [Approvals -> [step : ApprovalSteps, payout : Payouts \cup {None},
                                 balance : Nat]]
  /\ creator \subseteq Credits
  /\ stale \in BOOLEAN /\ raced \subseteq Payouts

Init ==
  /\ wallet = None /\ override = None
  /\ commissions = [k \in Credits |-> None]
  /\ payouts = [p \in Payouts |-> None]
  /\ transfers = [p \in Payouts |-> 0]
  /\ credit = [k \in Credits |-> [step |-> "idle", amount |-> 0, balance |-> 0]]
  /\ request = [p \in Payouts |-> "idle"]
  /\ approval = [a \in Approvals |-> [step |-> "idle", payout |-> None, balance |-> 0]]
  /\ creator = {} /\ stale = FALSE /\ raced = {}

-------------------------------------------------------------------------------
(* set_commission_override: any non-negative rate, or None for the default. *)

SetOverride(rate) ==
  /\ override # rate /\ override' = rate
  /\ UNCHANGED <<wallet, commissions, payouts, transfers, callVars, stale, raced>>

-------------------------------------------------------------------------------
(* credit_commission.                                                       *)

\* resolve_commission_rate: an override of zero is not the unset override.
CommissionRate == IF override = None THEN DefaultRate ELSE override

CreditStep(k, from, to) ==
  /\ credit[k].step = from
  /\ credit' = [credit EXCEPT ![k] = to]

\* Read the organization: the rate is settled here.
CreditReadOrg(k) ==
  /\ CreditStep(k, "idle", [step |-> "wallet", amount |-> CommissionRate, balance |-> 0])
  /\ UNCHANGED <<wallet, override, commissions, payouts, transfers, request, approval,
                 creator, stale, raced>>

\* _get_or_create_wallet, the SELECT.
CreditReadWallet(k) ==
  /\ CreditStep(k, "wallet",
       IF wallet = None THEN [credit[k] EXCEPT !.step = "create"]
                        ELSE [credit[k] EXCEPT !.step = "commit", !.balance = wallet])
  /\ UNCHANGED <<wallet, override, commissions, payouts, transfers, request, approval,
                 creator, stale, raced>>

\* _get_or_create_wallet, the INSERT: the unique org_id makes it wait for another
\* uncommitted insert, and fail when that one commits.
CreditCreateWallet(k) ==
  /\ creator = {}
  /\ CreditStep(k, "create",
       [credit[k] EXCEPT !.step = IF wallet = None THEN "commit" ELSE "failed"])
  /\ creator' = IF wallet = None THEN {k} ELSE {}
  /\ UNCHANGED <<wallet, override, commissions, payouts, transfers, request, approval,
                 stale, raced>>

\* Mutant: the commission is committed before the balance is written.
CreditCommitsRowOnly(k) ==
  /\ CreditStep(k, "commit", [credit[k] EXCEPT !.step = "done"])
  /\ commissions' = [commissions EXCEPT ![k] = credit[k].amount]
  /\ wallet' = IF k \in creator THEN 0 ELSE wallet
  /\ creator' = creator \ {k}
  /\ UNCHANGED <<override, payouts, transfers, request, approval, stale, raced>>

\* The commission row and the balance computed from the one read are committed
\* together; adding zero leaves the attribute unchanged and writes no balance.
CreditCommit(k) ==
  LET written == k \in creator \/ credit[k].amount # 0 IN
  /\ CreditStep(k, "commit", [credit[k] EXCEPT !.step = "done"])
  /\ commissions' = [commissions EXCEPT ![k] = credit[k].amount]
  /\ wallet' = IF written THEN credit[k].balance + credit[k].amount ELSE wallet
  /\ stale' = (stale \/ (written /\ k \notin creator /\ wallet # credit[k].balance))
  /\ creator' = creator \ {k}
  /\ UNCHANGED <<override, payouts, transfers, request, approval, raced>>

\* The call raises or the process dies: its transaction is rolled back.
CreditFails(k) ==
  /\ credit[k].step \notin {"idle"} \cup Ended
  /\ credit' = [credit EXCEPT ![k].step = "failed"]
  /\ creator' = creator \ {k}
  /\ UNCHANGED <<wallet, override, commissions, payouts, transfers, request, approval,
                 stale, raced>>

-------------------------------------------------------------------------------
(* request_payout.                                                          *)

\* Mutant: without a wallet there is no balance to compare with.
RequestReadUnchecked(p) ==
  /\ request[p] = "idle"
  /\ request' = [request EXCEPT ![p] =
       IF wallet # None /\ AmountOf[p] > wallet THEN "failed" ELSE "insert"]
  /\ UNCHANGED <<wallet, override, commissions, payouts, transfers, credit, approval,
                 creator, stale, raced>>

\* No wallet, or an amount above the balance: rejected.
RequestRead(p) ==
  /\ request[p] = "idle"
  /\ request' = [request EXCEPT ![p] =
       IF wallet = None THEN "failed"
       ELSE IF AmountOf[p] > wallet THEN "failed" ELSE "insert"]
  /\ UNCHANGED <<wallet, override, commissions, payouts, transfers, credit, approval,
                 creator, stale, raced>>

\* The PENDING row is committed, or the commit fails.
RequestInsert(p) ==
  /\ request[p] = "insert"
  /\ \/ /\ request' = [request EXCEPT ![p] = "done"]
        /\ payouts' = [payouts EXCEPT ![p] = "PENDING"]
     \/ /\ request' = [request EXCEPT ![p] = "failed"]
        /\ UNCHANGED payouts
  /\ UNCHANGED <<wallet, override, commissions, transfers, credit, approval, creator,
                 stale, raced>>

-------------------------------------------------------------------------------
(* approve_payout.                                                          *)

ApprovalStep(a, from, to) ==
  /\ approval[a].step = from
  /\ approval' = [approval EXCEPT ![a] = to]

\* Approvals of p that are past the status check and have not ended.
UnderApproval(p) ==
  {a \in Approvals : approval[a].payout = p /\ approval[a].step \notin Ended}

\* Mutant: the status of the payout is not looked at.
ApproveLoadUnchecked(a, p) ==
  /\ payouts[p] # None
  /\ ApprovalStep(a, "idle", [step |-> "wallet", payout |-> p, balance |-> 0])
  /\ raced' = IF UnderApproval(p) # {} THEN raced \cup {p} ELSE raced
  /\ UNCHANGED <<wallet, override, commissions, payouts, transfers, credit, request,
                 creator, stale>>

\* Read the payout; only a PENDING one is approved.
ApproveLoad(a, p) ==
  /\ payouts[p] # None
  /\ ApprovalStep(a, "idle",
       [step |-> IF payouts[p] = "PENDING" THEN "wallet" ELSE "failed",
        payout |-> p, balance |-> 0])
  /\ raced' = IF payouts[p] = "PENDING" /\ UnderApproval(p) # {}
               THEN raced \cup {p} ELSE raced
  /\ UNCHANGED <<wallet, override, commissions, payouts, transfers, credit, request,
                 creator, stale>>

\* Read the wallet and re-check the amount against its balance.
ApproveCheck(a) ==
  /\ ApprovalStep(a, "wallet",
       IF AmountOf[approval[a].payout] > wallet
         THEN [approval[a] EXCEPT !.step = "failed"]
         ELSE [approval[a] EXCEPT !.step = "transfer", !.balance = wallet])
  /\ UNCHANGED <<wallet, override, commissions, payouts, transfers, credit, request,
                 creator, stale, raced>>

\* int(amount) * PAISE_PER_RUPEE: whole rupees are transferred.
TransferAmount(p) == (AmountOf[p] \div PaisePerRupee) * PaisePerRupee

\* The transfer; RazorpayX refuses an amount of zero.
ApproveTransfer(a) ==
  LET p == approval[a].payout IN
  /\ ApprovalStep(a, "transfer", [approval[a] EXCEPT !.step = "commit"])
  /\ TransferAmount(p) > 0
  /\ transfers' = [transfers EXCEPT ![p] = @ + 1]
  /\ UNCHANGED <<wallet, override, commissions, payouts, credit, request, creator,
                 stale, raced>>

\* The debited balance and the status PAID are committed together; APPROVED is
\* overwritten in memory and never reaches the database.
ApproveCommit(a) ==
  LET p == approval[a].payout IN
  /\ ApprovalStep(a, "commit", [approval[a] EXCEPT !.step = "done"])
  /\ wallet' = approval[a].balance - AmountOf[p]
  /\ payouts' = [payouts EXCEPT ![p] = "PAID"]
  /\ stale' = (stale \/ wallet # approval[a].balance \/ payouts[p] # "PENDING")
  /\ UNCHANGED <<override, commissions, transfers, credit, request, creator, raced>>

\* The call raises or the process dies: the transaction is rolled back, a transfer
\* already made is not.
ApproveFails(a) ==
  /\ approval[a].step \notin {"idle"} \cup Ended
  /\ approval' = [approval EXCEPT ![a].step = "failed"]
  /\ raced' = IF approval[a].step = "commit" THEN raced \cup {approval[a].payout}
                                             ELSE raced
  /\ UNCHANGED <<wallet, override, commissions, payouts, transfers, credit, request,
                 creator, stale>>

-------------------------------------------------------------------------------
Credit(k) ==
  \/ CreditReadOrg(k) \/ CreditReadWallet(k) \/ CreditCreateWallet(k)
  \/ CreditCommit(k) \/ CreditFails(k)

Request(p) == RequestRead(p) \/ RequestInsert(p)

Approve(a) ==
  \/ \E p \in Payouts : ApproveLoad(a, p)
  \/ ApproveCheck(a) \/ ApproveTransfer(a) \/ ApproveCommit(a) \/ ApproveFails(a)

Next ==
  \/ \E rate \in Overrides \cup {None} : SetOverride(rate)
  \/ \E k \in Credits : Credit(k)
  \/ \E p \in Payouts : Request(p)
  \/ \E a \in Approvals : Approve(a)

Spec == Init /\ [][Next]_vars

-------------------------------------------------------------------------------
\* Everything credited, and everything debited by payouts that are PAID.
Earned == SumFunctionOnSet(commissions, {k \in Credits : commissions[k] # None})
Spent  == SumFunctionOnSet(AmountOf, {p \in Payouts : payouts[p] = "PAID"})
Balance == IF wallet = None THEN 0 ELSE wallet

\* The wallet holds the commissions less the payouts as long as no commit was based
\* on a balance or a status outdated by another one: rollbacks, rejected and repeated
\* calls, zero rates and the race to create the wallet all keep it so.
LockstepUnlessStale == ~stale => Balance = Earned - Spent

\* A PAID payout was really transferred: no failure of RazorpayX leaves a payout
\* marked PAID.
PaidWasTransferred == \A p \in Payouts : payouts[p] = "PAID" => transfers[p] > 0

\* A payout is transferred twice only when two approvals of it overlapped or one
\* died between its transfer and its commit.
TransferredOnceUnlessRaced ==
  \A p \in Payouts : transfers[p] > 1 => p \in raced

\* Partners get what a PAID payout says, once; unless approvals raced.
PayoutsPaidOnce == TypeOK /\ PaidWasTransferred /\ TransferredOnceUnlessRaced

\* Even when commits race, the wallet never holds more than was ever credited, so
\* no payout is asked for beyond it.
PayoutsWereEarned ==
  /\ Balance <= Earned
  /\ \A p \in Payouts : payouts[p] # None => AmountOf[p] <= Earned
===============================================================================
