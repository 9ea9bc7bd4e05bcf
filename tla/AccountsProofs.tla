---------------------------- MODULE AccountsProofs ----------------------------
(***************************************************************************)
(* What holds of Accounts for any number of open requests, addresses,      *)
(* tokens and events: refresh tokens end once, a logout is final, a second *)
(* factor can be passed, a reset token sets one password, and the reward   *)
(* is the one the referrals have earned, each up to the overlap that the   *)
(* code does not exclude and that its property names.                      *)
(***************************************************************************)
EXTENDS Accounts, FiniteSetTheorems, TLAPS

Kinds == {"none", "signup", "login", "refresh", "logout", "enable", "verify", "reset"}
Steps == {"none", "insert", "refer", "count", "select", "grant", "commit", "issue", "rotate",
          "answer", "denied", "revoke", "clear", "delete"}
Request == [kind : Kinds, step : Steps, email : Emails \cup {"none"}, ref : Int \cup ResetTokens,
            seen : Nat, row : Nat, coded : BOOLEAN, crossed : BOOLEAN]
RequestsTyped ==
  /\ req \in [Slots -> Request]
  /\ \A s \in Slots : /\ req[s].kind = "signup" => req[s].email \in Emails
                      /\ req[s].kind = "reset" => req[s].ref \in ResetTokens
Excuses == [reward : BOOLEAN, twofa : BOOLEAN, reset : SUBSET ResetTokens, logout : BOOLEAN]
HistoryTyped ==
  /\ used \in [ResetTokens -> Nat] /\ ends \in [Orphan .. MaxTokens -> Nat]
  /\ excused \in Excuses
  /\ referrals \in [before : Nat, by : SUBSET Emails] /\ rewards \in Seq(Nat \X Nat)
StoreTyped == store \in [access : {"none", "fresh", "stale"}, refresh : {NoToken} \union 1 .. issued]
Typed == TypeOK /\ StoreTyped /\ RequestsTyped /\ HistoryTyped

\* A token that was issued is there or has ended once, and none has ended before.
TokensTyped ==
  /\ keys \subseteq 1 .. issued /\ endless \subseteq {Orphan} /\ issued \in 1 .. MaxTokens
  /\ ends \in [Orphan .. MaxTokens -> Nat]
EndOnce == \A j \in 1 .. issued : ends[j] = IF j \in keys THEN 0 ELSE 1
NextTokensFresh == \A j \in issued + 1 .. MaxTokens : ends[j] = 0
Tokens == TokensTyped /\ EndOnce /\ NextTokensFresh

\* A refresh under way while the store holds no refresh token has been crossed.
RefreshesNoticed ==
  \A s \in Slots : req[s].kind = "refresh" => store.refresh # NoToken \/ req[s].crossed
StoreInv == LogoutSticksUnlessRefreshing /\ RefreshesNoticed

\* What was read of the second factor still holds, or the request has been crossed.
FactorsNoticed ==
  \A s \in Slots :
    /\ req[s].kind = "enable" => req[s].crossed \/ (account.twofa => req[s].seen = 1)
    /\ req[s].kind = "verify" => req[s].crossed \/ account.secret \in proven
FactorInv == SecondFactorProvenUnlessOverlapped /\ FactorsNoticed

\* A token that is not excused is in the hands of one request, which alone sets the
\* password with it and takes it away.
Resetting(k) == {s \in Slots : req[s].kind = "reset" /\ req[s].ref = k}
ResetsCounted ==
  \A k \in ResetTokens \ excused.reset :
    /\ \A s, o \in Resetting(k) : s = o
    /\ used[k] \in {0, 1}
    /\ \A s \in Resetting(k) : req[s].step = "commit" => used[k] = 0
    /\ resets[k] # "gone" => used[k] = 0 \/ \E s \in Resetting(k) : req[s].step = "delete"

\* An identity is referred, or being referred by one sign-up that holds its row.
OnePerIdentity ==
  /\ \A e, f \in referrals.by : Identity[e] = Identity[f] => e = f
  /\ \A s \in Slots : HoldsIdentity(s) => ~Referred(Identity[req[s].email])
  /\ \A s, o \in Slots :
       HoldsIdentity(s) /\ HoldsIdentity(o) /\ Identity[req[s].email] = Identity[req[o].email] => s = o

\* The rewards are those of the referrals there are, and a sign-up that nobody has
\* crossed has counted them all and has read the reward row there is.
Granting(s) == HoldsIdentity(s) /\ req[s].step # "count"
RewardsCounted ==
  /\ excused.reward \/ rewards = IF Total = 0 THEN <<>> ELSE <<RewardFor(Total)>>
  /\ \A s \in Slots : Granting(s) /\ ~req[s].crossed =>
       /\ req[s].seen = Total + 1
       /\ req[s].step # "select" => req[s].row = Len(rewards)

IInv == Typed /\ Tokens /\ StoreInv /\ FactorInv /\ ResetsCounted /\ OnePerIdentity /\ RewardsCounted
-----------------------------------------------------------------------------
(* What a step does to the open requests.                                  *)

\* The request in slot o goes on as it was; it may have been crossed.
Kept(o) ==
  /\ req'[o].kind = req[o].kind /\ req'[o].step = req[o].step
  /\ req'[o].email = req[o].email /\ req'[o].ref = req[o].ref
  /\ req'[o].seen = req[o].seen /\ req'[o].row = req[o].row
  /\ req'[o].coded = req[o].coded
  /\ req'[o].crossed \in BOOLEAN /\ (req[o].crossed => req'[o].crossed)

LEMMA IdleIs ==
    /\ Idle \in Request /\ Idle.kind = "none" /\ Idle.step = "none"
    /\ Idle.email = "none" /\ Idle.ref = NoToken /\ Idle.seen = 0
    /\ Idle.coded = FALSE /\ Idle.crossed = FALSE
  BY DEF Idle, Request, Kinds, Steps, NoToken

LEMMA SlotSet ==
    ASSUME RequestsTyped, NEW s \in Slots, NEW q \in Request, req' = [req EXCEPT ![s] = q],
           q.kind = "signup" => q.email \in Emails, q.kind = "reset" => q.ref \in ResetTokens
    PROVE  /\ RequestsTyped'
           /\ req'[s] = q
           /\ \A o \in Slots \ {s} : req'[o] = req[o] /\ Kept(o)
<1>1. /\ req' \in [Slots -> Request] /\ req'[s] = q
      /\ \A o \in Slots \ {s} : req'[o] = req[o]
  BY DEF RequestsTyped
<1>2. RequestsTyped'
  BY <1>1 DEF RequestsTyped
<1>3. \A o \in Slots \ {s} : req[o].crossed \in BOOLEAN
  BY DEF RequestsTyped, Request
<1> QED
  BY <1>1, <1>2, <1>3 DEF Kept

LEMMA BeginIs ==
    ASSUME RequestsTyped, NEW s \in Slots, NEW q \in Request, Begin(s, q),
           q.kind = "signup" => q.email \in Emails, q.kind = "reset" => q.ref \in ResetTokens
    PROVE  /\ RequestsTyped'
           /\ req[s] = Idle /\ req'[s] = q
           /\ \A o \in Slots \ {s} : req'[o] = req[o] /\ Kept(o)
<1>1. req' = [req EXCEPT ![s] = q] /\ req[s] = Idle
  BY DEF Begin
<1> QED
  BY <1>1, SlotSet

LEMMA DoneIs ==
    ASSUME RequestsTyped, NEW s \in Slots, Done(s)
    PROVE  /\ RequestsTyped'
           /\ req'[s] = Idle /\ req'[s].kind = "none"
           /\ \A o \in Slots \ {s} : req'[o] = req[o] /\ Kept(o)
<1>1. req' = [req EXCEPT ![s] = Idle]
  BY DEF Done
<1> QED
  BY <1>1, SlotSet, IdleIs

\* A request at its next step.
LEMMA Moved ==
    ASSUME RequestsTyped, NEW s \in Slots, NEW q \in Request, req' = [req EXCEPT ![s] = q],
           q.kind = req[s].kind, q.email = req[s].email, q.ref = req[s].ref
    PROVE  /\ RequestsTyped' /\ req'[s] = q
           /\ \A o \in Slots \ {s} : req'[o] = req[o] /\ Kept(o)
<1>1. /\ q.kind = "signup" => q.email \in Emails
      /\ q.kind = "reset" => q.ref \in ResetTokens
  BY DEF RequestsTyped
<1> QED
  BY <1>1, SlotSet

LEMMA GotoIs ==
    ASSUME RequestsTyped, NEW s \in Slots, NEW step \in Steps, Goto(s, step)
    PROVE  /\ RequestsTyped'
           /\ req'[s].step = step /\ req'[s].seen = req[s].seen /\ req'[s].row = req[s].row
           /\ req'[s].kind = req[s].kind /\ req'[s].email = req[s].email
           /\ req'[s].ref = req[s].ref /\ req'[s].coded = req[s].coded
           /\ req'[s].crossed = req[s].crossed
           /\ \A o \in Slots \ {s} : req'[o] = req[o] /\ Kept(o)
<1> DEFINE q == [req[s] EXCEPT !.step = step]
<1>1. req[s] \in Request
  BY DEF RequestsTyped
<1>2. /\ q \in Request /\ q.step = step
      /\ q.kind = req[s].kind /\ q.email = req[s].email /\ q.ref = req[s].ref
      /\ q.seen = req[s].seen /\ q.row = req[s].row
      /\ q.coded = req[s].coded /\ q.crossed = req[s].crossed
  BY <1>1 DEF Request
<1>3. req' = [req EXCEPT ![s] = q]
  BY DEF Goto
<1> HIDE DEF q
<1> QED
  BY <1>2, <1>3, Moved

\* The requests of D are over, those of X are crossed.
LEMMA CrossedAre ==
    ASSUME RequestsTyped, NEW D \in SUBSET Slots, NEW X \in SUBSET Slots,
           req' = [o \in Slots |-> IF o \in D THEN Idle
                                   ELSE [req[o] EXCEPT !.crossed = @ \/ o \in X]]
    PROVE  /\ RequestsTyped'
           /\ \A o \in D : req'[o] = Idle
           /\ \A o \in Slots \ D : Kept(o) /\ (o \in X => req'[o].crossed)
<1>1. req \in [Slots -> Request]
  BY DEF RequestsTyped
<1>2. ASSUME NEW o \in Slots \ D
      PROVE  /\ req'[o] \in Request /\ Kept(o)
             /\ o \in X => req'[o].crossed
  <2>1. req'[o] = [req[o] EXCEPT !.crossed = req[o].crossed \/ o \in X]
    BY <1>2
  <2>2. req[o] \in Request /\ (req[o].crossed \/ o \in X) \in BOOLEAN
    BY <1>1
  <2>3. /\ req'[o] \in Request
        /\ req'[o].crossed = (req[o].crossed \/ o \in X)
        /\ req'[o].kind = req[o].kind /\ req'[o].step = req[o].step
        /\ req'[o].email = req[o].email /\ req'[o].ref = req[o].ref
        /\ req'[o].seen = req[o].seen /\ req'[o].row = req[o].row
        /\ req'[o].coded = req[o].coded
    BY <2>1, <2>2 DEF Request
  <2> QED
    BY <2>3 DEF Kept
<1>3. \A o \in D : req'[o] = Idle
  OBVIOUS
<1>4. req' \in [Slots -> Request]
  BY <1>2, <1>3, IdleIs
<1>5. \A o \in Slots : /\ req'[o].kind = "signup" => req'[o].email \in Emails
                       /\ req'[o].kind = "reset" => req'[o].ref \in ResetTokens
  BY <1>2, <1>3, IdleIs DEF RequestsTyped, Kept
<1> QED
  BY <1>2, <1>3, <1>4, <1>5 DEF RequestsTyped

LEMMA CrossingIs ==
    ASSUME RequestsTyped, NEW s \in Slots, NEW kind, req' = Crossing(s, kind)
    PROVE  /\ RequestsTyped'
           /\ req'[s] = Idle /\ req'[s].kind = "none"
           /\ \A o \in Slots \ {s} : Kept(o) /\ (req[o].kind = kind => req'[o].crossed)
<1> DEFINE X == {o \in Slots : req[o].kind = kind}
<1>1. ASSUME NEW o \in Slots
      PROVE  [req[o] EXCEPT !.crossed = @ \/ req[o].kind = kind]
               = [req[o] EXCEPT !.crossed = @ \/ o \in X]
  <2>1. (req[o].kind = kind) = (o \in X)
    OBVIOUS
  <2> QED
    BY <2>1
<1>2. req' = [o \in Slots |-> IF o \in {s} THEN Idle
                              ELSE [req[o] EXCEPT !.crossed = @ \/ o \in X]]
  BY <1>1 DEF Crossing
<1>3. X \in SUBSET Slots
  OBVIOUS
<1>4. \A o \in Slots : req[o].kind = kind => o \in X
  OBVIOUS
<1>5. {s} \in SUBSET Slots
  OBVIOUS
<1> HIDE DEF X
<1>6. /\ RequestsTyped'
      /\ \A o \in {s} : req'[o] = Idle
      /\ \A o \in Slots \ {s} : Kept(o) /\ (o \in X => req'[o].crossed)
  BY ONLY RequestsTyped, <1>2, <1>3, <1>5, CrossedAre
<1> QED
  BY <1>4, <1>6, IdleIs

LEMMA GiveUpIs ==
    ASSUME RequestsTyped, GiveUp
    PROVE  /\ RequestsTyped'
           /\ \A o \in Slots : Kept(o) /\ (req[o].kind = "refresh" => req'[o].crossed)
<1> DEFINE X == {o \in Slots : req[o].kind = "refresh"}
<1>1. ASSUME NEW o \in Slots
      PROVE  [req[o] EXCEPT !.crossed = @ \/ req[o].kind = "refresh"]
               = [req[o] EXCEPT !.crossed = @ \/ o \in X]
  <2>1. (req[o].kind = "refresh") = (o \in X)
    OBVIOUS
  <2> QED
    BY <2>1
<1>2. req' = [o \in Slots |-> IF o \in {} THEN Idle
                              ELSE [req[o] EXCEPT !.crossed = @ \/ o \in X]]
  BY <1>1 DEF GiveUp
<1>3. X \in SUBSET Slots
  OBVIOUS
<1>4. \A o \in Slots : req[o].kind = "refresh" => o \in X
  OBVIOUS
<1>5. {} \in SUBSET Slots
  OBVIOUS
<1> HIDE DEF X
<1>6. /\ RequestsTyped'
      /\ \A o \in Slots \ {} : Kept(o) /\ (o \in X => req'[o].crossed)
  BY ONLY RequestsTyped, <1>2, <1>3, <1>5, CrossedAre
<1> QED
  BY <1>4, <1>6

\* A sign-up with the code crosses those that have counted without it.
Counted(o) == req[o].kind = "signup" /\ req[o].coded /\ req[o].step \in {"select", "grant", "commit"}
LEMMA CodedCommitIs ==
    ASSUME RequestsTyped, NEW s \in Slots, CommitSignUp(s), req[s].coded
    PROVE  /\ RequestsTyped'
           /\ req'[s] = Idle
           /\ \A o \in Slots \ {s} : Kept(o) /\ (Counted(o) => req'[o].crossed)
<1> DEFINE X == {o \in Slots : Counted(o)}
<1>1. ASSUME NEW o \in Slots
      PROVE  [req[o] EXCEPT !.crossed = @ \/ Counted(o)] = [req[o] EXCEPT !.crossed = @ \/ o \in X]
  <2>1. Counted(o) = (o \in X)
    BY DEF Counted
  <2> QED
    BY <2>1
<1>2. req' = [o \in Slots |-> IF o = s THEN Idle ELSE [req[o] EXCEPT !.crossed = @ \/ Counted(o)]]
  BY DEF CommitSignUp, Counted
<1>3. req' = [o \in Slots |-> IF o \in {s} THEN Idle
                              ELSE [req[o] EXCEPT !.crossed = @ \/ o \in X]]
  BY <1>1, <1>2
<1>4. X \in SUBSET Slots
  OBVIOUS
<1>5. \A o \in Slots : Counted(o) => o \in X
  OBVIOUS
<1>6. {s} \in SUBSET Slots
  OBVIOUS
<1> HIDE DEF X
<1>7. /\ RequestsTyped'
      /\ \A o \in {s} : req'[o] = Idle
      /\ \A o \in Slots \ {s} : Kept(o) /\ (o \in X => req'[o].crossed)
  BY ONLY RequestsTyped, <1>3, <1>4, <1>6, CrossedAre
<1> QED
  BY <1>5, <1>7

LEMMA TotalIs ==
    ASSUME Typed
    PROVE  /\ IsFiniteSet(referrals.by) /\ Cardinality(referrals.by) \in Nat
           /\ referrals.before \in Nat /\ Total \in Nat
           /\ Total = 0 <=> referrals.before = 0 /\ referrals.by = {}
<1>1. referrals.before \in Nat /\ referrals.by \in SUBSET Emails
  BY DEF Typed, HistoryTyped
<1>2. IsFiniteSet(referrals.by)
  BY <1>1, AccountsAssumption, FS_Subset
<1>3. Cardinality(referrals.by) \in Nat /\ (Cardinality(referrals.by) = 0 <=> referrals.by = {})
  BY <1>2, FS_CardinalityType, FS_EmptySet
<1> QED
  BY <1>1, <1>2, <1>3 DEF Total

LEMMA CountIs ==
    ASSUME Typed, NEW s \in Slots, CountReferrals(s)
    PROVE  /\ RequestsTyped' /\ req'[s].kind = "signup" /\ req'[s].coded = req[s].coded
           /\ req'[s].step = "select" /\ req'[s].seen = Total + 1
           /\ req'[s].email = req[s].email /\ req'[s].crossed = req[s].crossed
           /\ \A o \in Slots \ {s} : req'[o] = req[o] /\ Kept(o)
<1> DEFINE n == Total + 1
           q == [req[s] EXCEPT !.step = "select", !.seen = n]
<1>1. req[s] \in Request /\ RequestsTyped
  BY DEF Typed, RequestsTyped
<1>2. n \in Nat
  BY TotalIs
<1>3. req' = [req EXCEPT ![s].step = "select", ![s].seen = n] /\ req[s].kind = "signup"
  BY DEF CountReferrals, In
<1> HIDE DEF n
<1>4. req' = [req EXCEPT ![s] = q]
  BY <1>1, <1>3 DEF RequestsTyped
<1>5. /\ q \in Request /\ q.step = "select" /\ q.seen = n
      /\ q.kind = req[s].kind /\ q.email = req[s].email /\ q.ref = req[s].ref
      /\ q.coded = req[s].coded /\ q.crossed = req[s].crossed
  BY <1>1, <1>2 DEF Request, Steps
<1> HIDE DEF q
<1> QED
  BY <1>1, <1>3, <1>4, <1>5, Moved DEF n

LEMMA SelectIs ==
    ASSUME Typed, NEW s \in Slots, SelectReward(s), Len(rewards) <= 1
    PROVE  /\ RequestsTyped' /\ req'[s].kind = "signup" /\ req'[s].coded = req[s].coded
           /\ req'[s].step = "grant" /\ req'[s].seen = req[s].seen /\ req'[s].row = Len(rewards)
           /\ req'[s].email = req[s].email /\ req'[s].crossed = req[s].crossed
           /\ \A o \in Slots \ {s} : req'[o] = req[o] /\ Kept(o)
<1> DEFINE n == Len(rewards)
           q == [req[s] EXCEPT !.step = "grant", !.row = n]
<1>1. req[s] \in Request /\ RequestsTyped
  BY DEF Typed, RequestsTyped
<1>2. n \in Nat
  BY DEF Typed, HistoryTyped
<1>3. req' = [req EXCEPT ![s].step = "grant", ![s].row = n] /\ req[s].kind = "signup"
  BY <1>2 DEF SelectReward, In
<1> HIDE DEF n
<1>4. req' = [req EXCEPT ![s] = q]
  BY <1>1, <1>3 DEF RequestsTyped
<1>5. /\ q \in Request /\ q.step = "grant" /\ q.seen = req[s].seen /\ q.row = n
      /\ q.kind = req[s].kind /\ q.email = req[s].email /\ q.ref = req[s].ref
      /\ q.coded = req[s].coded /\ q.crossed = req[s].crossed
  BY <1>1, <1>2 DEF Request, Steps
<1> HIDE DEF q
<1> QED
  BY <1>1, <1>3, <1>4, <1>5, Moved DEF n

LEMMA SignUpIs ==
    ASSUME RequestsTyped, NEW s \in Slots, SignUp(s)
    PROVE  /\ RequestsTyped' /\ req'[s].kind = "signup" /\ req'[s].step = "insert"
           /\ \A o \in Slots \ {s} : Kept(o)
<1>1. PICK e \in Emails, coded \in BOOLEAN :
        Begin(s, [Idle EXCEPT !.kind = "signup", !.step = "insert", !.email = e, !.coded = coded])
  BY DEF SignUp
<1> DEFINE q == [Idle EXCEPT !.kind = "signup", !.step = "insert", !.email = e, !.coded = coded]
<1>2. q \in Request /\ q.kind = "signup" /\ q.step = "insert" /\ q.email \in Emails
  BY IdleIs DEF Request, Kinds, Steps
<1>3. Begin(s, q)
  BY <1>1
<1> HIDE DEF q
<1> QED
  BY <1>2, <1>3, BeginIs

\* Sign-up leaves the requests of the other kinds alone, and so do the others.
LEMMA SignUpRequests ==
    ASSUME Typed, NEW s \in Slots, SignUpStep(s)
    PROVE  /\ RequestsTyped'
           /\ req'[s].kind \in {"none", "signup"}
           /\ \A o \in Slots \ {s} : Kept(o)
<1>0. RequestsTyped
  BY DEF Typed
<1>1. CASE SignUp(s)
  BY <1>0, <1>1, SignUpIs
<1>2. CASE InsertUser(s)
  <2>1. Done(s) \/ Goto(s, "refer") \/ Goto(s, "commit")
    BY <1>2 DEF InsertUser
  <2>2. req[s].kind = "signup"
    BY <1>2 DEF InsertUser, In
  <2> QED
    BY <1>0, <2>1, <2>2, DoneIs, GotoIs DEF Steps
<1>3. CASE InsertReferral(s)
  <2>1. Done(s) \/ Goto(s, "count")
    BY <1>3 DEF InsertReferral
  <2>2. req[s].kind = "signup"
    BY <1>3 DEF InsertReferral, In
  <2> QED
    BY <1>0, <2>1, <2>2, DoneIs, GotoIs DEF Steps
<1>4. CASE CountReferrals(s)
  BY <1>4, CountIs
<1>5. CASE SelectReward(s)
  <2>1. CASE Len(rewards) > 1
    BY <1>0, <1>5, <2>1, DoneIs DEF SelectReward
  <2>2. CASE ~(Len(rewards) > 1)
    <3>1. Len(rewards) <= 1
      BY <2>2 DEF Typed, HistoryTyped
    <3> QED
      BY <1>5, <3>1, SelectIs
  <2> QED
    BY <2>1, <2>2
<1>6. CASE GrantReward(s)
  <2>1. Goto(s, "commit") /\ req[s].kind = "signup"
    BY <1>6 DEF GrantReward, In
  <2> QED
    BY <1>0, <2>1, GotoIs DEF Steps
<1>7. CASE CommitSignUp(s)
  <2>1. CASE req[s].coded
    BY <1>0, <1>7, <2>1, CodedCommitIs, IdleIs
  <2>2. CASE ~req[s].coded
    <3>1. Done(s)
      BY <1>7, <2>2 DEF CommitSignUp
    <3> QED
      BY <1>0, <3>1, DoneIs
  <2> QED
    BY <2>1, <2>2
<1> QED
  BY <1>1, <1>2, <1>3, <1>4, <1>5, <1>6, <1>7 DEF SignUpStep

LEMMA SessionRequests ==
    ASSUME Typed, NEW s \in Slots, SessionStep(s)
    PROVE  /\ RequestsTyped'
           /\ req'[s].kind \in {"none", "login", "refresh", "logout"}
           /\ req'[s].kind = "refresh" =>
                Refresh(s) \/ (req[s].kind = "refresh" /\ req'[s].crossed = req[s].crossed)
           /\ \A o \in Slots \ {s} : Kept(o)
<1>0. RequestsTyped /\ store.refresh \in Int
  BY DEF Typed, TypeOK, NoToken
<1>1. CASE SignIn(s)
  <2> DEFINE q == [Idle EXCEPT !.kind = "login", !.step = "issue"]
  <2>1. q \in Request /\ q.kind = "login"
    BY <1>0, IdleIs DEF Request, Kinds, Steps
  <2>2. Begin(s, q)
    BY <1>1 DEF SignIn
  <2> HIDE DEF q
  <2> QED
    BY <1>0, <2>1, <2>2, BeginIs
<1>2. CASE IssueAtSignIn(s)
  <2>1. (Done(s)) /\ req[s].kind = "login"
    BY <1>2 DEF IssueAtSignIn, In
  <2> QED
    BY <1>0, <2>1, DoneIs, GotoIs DEF Steps
<1>3. CASE Refresh(s)
  <2> DEFINE q == [Idle EXCEPT !.kind = "refresh", !.step = "rotate", !.ref = store.refresh]
  <2>1. q \in Request /\ q.kind = "refresh"
    BY <1>0, IdleIs DEF Request, Kinds, Steps
  <2>2. Begin(s, q)
    BY <1>3 DEF Refresh
  <2> HIDE DEF q
  <2> QED
    BY <1>0, <1>3, <2>1, <2>2, BeginIs
<1>4. CASE Rotate(s)
  <2>1. (Goto(s, "issue") \/ Goto(s, "denied")) /\ req[s].kind = "refresh"
    BY <1>4 DEF Rotate, In
  <2> QED
    BY <1>0, <2>1, DoneIs, GotoIs DEF Steps
<1>5. CASE IssueAtRefresh(s)
  <2>1. (Goto(s, "answer")) /\ req[s].kind = "refresh"
    BY <1>5 DEF IssueAtRefresh, In
  <2> QED
    BY <1>0, <2>1, DoneIs, GotoIs DEF Steps
<1>6. CASE AnswerRefresh(s)
  <2>1. (Done(s)) /\ req[s].kind = "refresh"
    BY <1>6 DEF AnswerRefresh, In
  <2> QED
    BY <1>0, <2>1, DoneIs, GotoIs DEF Steps
<1>7. CASE DenyRefresh(s)
  <2>1. req' = Crossing(s, "refresh")
    BY <1>7 DEF DenyRefresh
  <2> QED
    BY <1>0, <2>1, CrossingIs
<1>8. CASE LogOut(s)
  <2> DEFINE q == [Idle EXCEPT !.kind = "logout", !.step = "revoke", !.ref = store.refresh]
  <2>1. q \in Request /\ q.kind = "logout"
    BY <1>0, IdleIs DEF Request, Kinds, Steps
  <2>2. Begin(s, q)
    BY <1>8 DEF LogOut
  <2> HIDE DEF q
  <2> QED
    BY <1>0, <2>1, <2>2, BeginIs
<1>9. CASE Revoke(s)
  <2>1. (Goto(s, "clear")) /\ req[s].kind = "logout"
    BY <1>9 DEF Revoke, In
  <2> QED
    BY <1>0, <2>1, DoneIs, GotoIs DEF Steps
<1>10. CASE ClearStore(s)
  <2>1. req' = Crossing(s, "refresh")
    BY <1>10 DEF ClearStore
  <2> QED
    BY <1>0, <2>1, CrossingIs
<1> QED
  BY <1>1, <1>2, <1>3, <1>4, <1>5, <1>6, <1>7, <1>8, <1>9, <1>10 DEF SessionStep

LEMMA EnableIs ==
    ASSUME Typed, NEW s \in Slots, EnableTwoFA(s)
    PROVE  /\ RequestsTyped' /\ req'[s].kind = "enable"
           /\ req'[s].seen = IF account.twofa THEN 1 ELSE 0
           /\ \A o \in Slots \ {s} : Kept(o)
<1> DEFINE n == IF account.twofa THEN 1 ELSE 0
           q == [Idle EXCEPT !.kind = "enable", !.step = "commit", !.seen = n]
<1>0. RequestsTyped /\ n \in Nat
  BY DEF Typed
<1>1. Begin(s, q)
  BY DEF EnableTwoFA
<1> HIDE DEF n
<1>2. q \in Request /\ q.kind = "enable" /\ q.seen = n
  BY <1>0, IdleIs DEF Request, Kinds, Steps
<1> HIDE DEF q
<1>3. req'[s] = q /\ RequestsTyped' /\ \A o \in Slots \ {s} : Kept(o)
  BY <1>0, <1>1, <1>2, BeginIs
<1> QED
  BY <1>2, <1>3 DEF n

LEMMA VerifyIs ==
    ASSUME Typed, NEW s \in Slots, VerifyTwoFA(s)
    PROVE  /\ RequestsTyped' /\ req'[s].kind = "verify"
           /\ \A o \in Slots \ {s} : Kept(o)
<1> DEFINE n == IF account.twofa THEN 1 ELSE 0
           q == [Idle EXCEPT !.kind = "verify", !.step = "commit", !.seen = n]
<1>0. RequestsTyped /\ n \in Nat
  BY DEF Typed
<1>1. Begin(s, q)
  BY DEF VerifyTwoFA
<1> HIDE DEF n
<1>2. q \in Request /\ q.kind = "verify"
  BY <1>0, IdleIs DEF Request, Kinds, Steps
<1> HIDE DEF q
<1> QED
  BY <1>0, <1>1, <1>2, BeginIs

\* A request with a token that is there.
ReadWith(s, k) ==
  /\ resets[k] = "live" /\ Begin(s, [Idle EXCEPT !.kind = "reset", !.step = "commit", !.ref = k])
  /\ excused' = IF \E o \in Slots : req[o].kind = "reset" /\ req[o].ref = k
                THEN [excused EXCEPT !.reset = @ \union {k}] ELSE excused
LEMMA ReadIs ==
    ASSUME Typed, NEW s \in Slots, NEW k \in ResetTokens, ReadWith(s, k)
    PROVE  /\ RequestsTyped' /\ req[s] = Idle
           /\ req'[s].kind = "reset" /\ req'[s].step = "commit" /\ req'[s].ref = k
           /\ \A o \in Slots \ {s} : Kept(o)
<1> DEFINE q == [Idle EXCEPT !.kind = "reset", !.step = "commit", !.ref = k]
<1>0. RequestsTyped
  BY DEF Typed
<1>1. Begin(s, q)
  BY DEF ReadWith
<1>2. q \in Request /\ q.kind = "reset" /\ q.step = "commit" /\ q.ref = k
  BY IdleIs DEF Request, Kinds, Steps
<1> HIDE DEF q
<1> QED
  BY <1>0, <1>1, <1>2, BeginIs

LEMMA ProtectionRequests ==
    ASSUME Typed, NEW s \in Slots, ProtectionStep(s)
    PROVE  /\ RequestsTyped'
           /\ req'[s].kind \in {"none", "enable", "verify", "reset"}
           /\ \A o \in Slots \ {s} : Kept(o)
<1>0. RequestsTyped
  BY DEF Typed
<1>1. CASE EnableTwoFA(s)
  BY <1>1, EnableIs
<1>2. CASE VerifyTwoFA(s)
  BY <1>2, VerifyIs
<1>3. CASE CommitEnable(s)
  <2>1. req' = Crossing(s, "verify")
    BY <1>3 DEF CommitEnable
  <2> QED
    BY <1>0, <2>1, CrossingIs
<1>4. CASE CommitVerify(s)
  <2>1. req' = Crossing(s, "enable")
    BY <1>4 DEF CommitVerify
  <2> QED
    BY <1>0, <2>1, CrossingIs
<1>5. CASE ReadReset(s)
  <2>1. \E k \in ResetTokens : ReadWith(s, k)
    BY <1>5 DEF ReadReset, ReadWith
  <2> QED
    BY <2>1, ReadIs
<1>6. CASE CommitReset(s)
  <2>1. (Goto(s, "delete")) /\ req[s].kind = "reset"
    BY <1>6 DEF CommitReset, In
  <2> QED
    BY <1>0, <2>1, DoneIs, GotoIs DEF Steps
<1>7. CASE DeleteReset(s)
  <2>1. (Done(s)) /\ req[s].kind = "reset"
    BY <1>7 DEF DeleteReset, In
  <2> QED
    BY <1>0, <2>1, DoneIs, GotoIs DEF Steps
<1> QED
  BY <1>1, <1>2, <1>3, <1>4, <1>5, <1>6, <1>7 DEF ProtectionStep

LEMMA FailRequests ==
    ASSUME Typed, NEW s \in Slots, Fail(s)
    PROVE  /\ RequestsTyped'
           /\ req'[s].kind = "none"
              \/ /\ req'[s].kind = req[s].kind /\ req[s].kind \in {"refresh", "logout"}
                 /\ req'[s].crossed = req[s].crossed
           /\ \A o \in Slots \ {s} : req'[o] = req[o] /\ Kept(o)
<1>0. RequestsTyped
  BY DEF Typed
<1>1. CASE req[s].kind = "refresh"
  <2>1. Goto(s, "denied")
    BY <1>1 DEF Fail
  <2> QED
    BY <1>0, <1>1, <2>1, GotoIs DEF Steps
<1>2. CASE req[s].kind = "logout"
  <2>1. Goto(s, "clear")
    BY <1>2 DEF Fail
  <2> QED
    BY <1>0, <1>2, <2>1, GotoIs DEF Steps
<1>3. CASE req[s].kind \notin {"refresh", "logout"}
  <2>1. Done(s)
    BY <1>3 DEF Fail
  <2> QED
    BY <1>0, <2>1, DoneIs
<1> QED
  BY <1>1, <1>2, <1>3

\* What happens outside the slots.
SharedStep ==
  \/ GiveUp \/ AccessExpires \/ RecordExpires \/ SweepRecord
  \/ RequestReset \/ ResetExpires \/ SetSuspended \/ UNCHANGED vars

LEMMA SharedRequests ==
    ASSUME Typed, SharedStep
    PROVE  RequestsTyped' /\ \A o \in Slots : Kept(o)
<1>0. RequestsTyped
  BY DEF Typed
<1>1. CASE GiveUp
  BY <1>0, <1>1, GiveUpIs
<1>2. CASE ~GiveUp
  <2>1. req' = req
    BY <1>2 DEF SharedStep, AccessExpires, RecordExpires, SweepRecord, RequestReset, ResetExpires,
                SetSuspended, vars
  <2>2. \A o \in Slots : req[o].crossed \in BOOLEAN
    BY <1>0 DEF RequestsTyped, Request
  <2> QED
    BY <1>0, <2>1, <2>2 DEF RequestsTyped, Kept
<1> QED
  BY <1>1, <1>2

LEMMA StepIs ==
    ASSUME [Next]_vars
    PROVE  \/ \E s \in Slots : SignUpStep(s) \/ SessionStep(s) \/ ProtectionStep(s) \/ Fail(s)
           \/ SharedStep
  BY DEF Next, SharedStep
-----------------------------------------------------------------------------
(* What the other parts of the account leave alone.                        *)

SameExcuses(fields) == excused' \in Excuses /\ \A f \in fields : excused'[f] = excused[f]

\* Each excuse is given apart from the others.
LEMMA Excused ==
    ASSUME Typed, NEW b \in BOOLEAN, NEW X \in SUBSET ResetTokens
    PROVE  /\ excused' = excused => SameExcuses({"reward", "twofa", "reset", "logout"})
           /\ excused' = [excused EXCEPT !.reward = b] =>
                SameExcuses({"twofa", "reset", "logout"}) /\ excused'.reward = b
           /\ excused' = [excused EXCEPT !.twofa = b] =>
                SameExcuses({"reward", "reset", "logout"}) /\ excused'.twofa = b
           /\ excused' = [excused EXCEPT !.logout = b] =>
                SameExcuses({"reward", "twofa", "reset"}) /\ excused'.logout = b
           /\ excused' = [excused EXCEPT !.reset = X] =>
                SameExcuses({"reward", "twofa", "logout"}) /\ excused'.reset = X
<1>1. excused \in Excuses
  BY DEF Typed, HistoryTyped
<1> QED
  BY <1>1 DEF SameExcuses, Excuses

LEMMA SignUpLeaves ==
    ASSUME Typed, NEW s \in Slots, SignUpStep(s)
    PROVE  /\ UNCHANGED <<account, proven, keys, endless, issued, store, resets, ends, used>>
           /\ SameExcuses({"twofa", "reset", "logout"})
           /\ ~CommitSignUp(s) => UNCHANGED <<users, referrals, rewards>> /\ excused' = excused
<1>1. CASE CommitSignUp(s)
  <2>1. UNCHANGED <<account, proven, keys, endless, issued, store, resets, ends, used>>
    BY <1>1 DEF CommitSignUp, redis
  <2>2. excused' = excused \/ excused' = [excused EXCEPT !.reward = @ \/ req[s].crossed]
    BY <1>1 DEF CommitSignUp
  <2>3. (excused.reward \/ req[s].crossed) \in BOOLEAN
    OBVIOUS
  <2>4. SameExcuses({"twofa", "reset", "logout"})
    BY <2>2, <2>3, Excused DEF SameExcuses
  <2> QED
    BY <1>1, <2>1, <2>4
<1>2. CASE ~CommitSignUp(s)
  <2>1. UNCHANGED <<db, redis, store, history>>
    BY <1>2 DEF SignUpStep, SignUp, InsertUser, InsertReferral, CountReferrals, SelectReward, GrantReward
  <2>2. excused' = excused => SameExcuses({"twofa", "reset", "logout"})
    BY Excused DEF SameExcuses
  <2> QED
    BY <1>2, <2>1, <2>2 DEF db, redis, history
<1> QED
  BY <1>1, <1>2

LEMMA SessionLeaves ==
    ASSUME Typed, NEW s \in Slots, SessionStep(s)
    PROVE  /\ UNCHANGED <<account, proven, users, referrals, rewards, endless, resets, used>>
           /\ SameExcuses({"reward", "twofa", "reset"})
           /\ ~IssueAtSignIn(s) /\ ~AnswerRefresh(s) => SameExcuses({"logout"})
<1>1. UNCHANGED <<account, proven, users, referrals, rewards, endless, resets, used>>
  BY DEF SessionStep, SignIn, IssueAtSignIn, Refresh, Rotate, IssueAtRefresh, AnswerRefresh,
         DenyRefresh, LogOut, Revoke, ClearStore, db, redis, history
<1>2. CASE IssueAtSignIn(s) \/ AnswerRefresh(s)
  <2>1. \/ excused' = [excused EXCEPT !.logout = FALSE]
        \/ excused' = [excused EXCEPT !.logout = @ \/ req[s].crossed]
    BY <1>2 DEF IssueAtSignIn, AnswerRefresh
  <2>2. (excused.logout \/ req[s].crossed) \in BOOLEAN
    OBVIOUS
  <2> QED
    BY <1>1, <1>2, <2>1, <2>2, Excused
<1>3. CASE ~IssueAtSignIn(s) /\ ~AnswerRefresh(s)
  <2>1. excused' = excused
    BY <1>3 DEF SessionStep, SignIn, Refresh, Rotate, IssueAtRefresh,
         DenyRefresh, LogOut, Revoke, ClearStore, history
  <2>2. SameExcuses({"reward", "twofa", "reset", "logout"})
    BY <2>1, Excused
  <2> QED
    BY <1>1, <2>2 DEF SameExcuses
<1> QED
  BY <1>2, <1>3

LEMMA ProtectionLeaves ==
    ASSUME Typed, NEW s \in Slots, ProtectionStep(s)
    PROVE  /\ UNCHANGED <<users, referrals, rewards, keys, endless, issued, store, ends>>
           /\ SameExcuses({"reward", "logout"})
           /\ ~CommitEnable(s) /\ ~CommitVerify(s) => SameExcuses({"twofa"})
           /\ ~ReadReset(s) => SameExcuses({"reset"})
<1>1. UNCHANGED <<users, referrals, rewards, keys, endless, issued, store, ends>>
  BY DEF ProtectionStep, EnableTwoFA, CommitEnable, VerifyTwoFA, CommitVerify, ReadReset,
         CommitReset, DeleteReset, db, redis, history
<1>2. CASE CommitEnable(s) \/ CommitVerify(s)
  <2>1. excused' = [excused EXCEPT !.twofa = req[s].crossed]
    BY <1>2 DEF CommitEnable, CommitVerify
  <2>2. req[s].crossed \in BOOLEAN
    BY DEF Typed, RequestsTyped, Request
  <2>3. SameExcuses({"reward", "reset", "logout"})
    BY <2>1, <2>2, Excused
  <2> QED
    BY <1>1, <1>2, <2>3 DEF SameExcuses
<1>3. CASE ReadReset(s)
  <2>1. PICK k \in ResetTokens :
          \/ excused' = excused
          \/ excused' = [excused EXCEPT !.reset = @ \union {k}]
    BY <1>3 DEF ReadReset
  <2>2. (excused.reset \union {k}) \in SUBSET ResetTokens
    BY DEF Typed, HistoryTyped, Excuses
  <2>3. SameExcuses({"reward", "twofa", "logout"})
    BY <2>1, <2>2, Excused DEF SameExcuses
  <2> QED
    BY <1>1, <1>3, <2>3 DEF SameExcuses
<1>4. CASE ~CommitEnable(s) /\ ~CommitVerify(s) /\ ~ReadReset(s)
  <2>1. excused' = excused
    BY <1>4 DEF ProtectionStep, EnableTwoFA, VerifyTwoFA, CommitReset, DeleteReset, history
  <2>2. SameExcuses({"reward", "twofa", "reset", "logout"})
    BY <2>1, Excused
  <2> QED
    BY <1>1, <2>2 DEF SameExcuses
<1> QED
  BY <1>2, <1>3, <1>4

LEMMA FailLeaves ==
    ASSUME Typed, NEW s \in Slots, Fail(s)
    PROVE  /\ UNCHANGED <<account, proven, users, referrals, rewards, keys, endless, issued,
                          resets, store, ends, used>>
           /\ SameExcuses({"reward", "twofa", "logout"})
           /\ excused'.reset = excused.reset \union
                {k \in ResetTokens : In(s, "reset", "delete") /\ k = req[s].ref}
<1>1. UNCHANGED <<account, proven, users, referrals, rewards, keys, endless, issued,
                  resets, store, ends, used>>
  BY DEF Fail, db, redis
<1>2. CASE In(s, "reset", "delete")
  <2>1. req[s].ref \in ResetTokens /\ excused.reset \in SUBSET ResetTokens
    BY <1>2 DEF In, Typed, RequestsTyped, HistoryTyped, Excuses
  <2>2. excused' = [excused EXCEPT !.reset = excused.reset \union {req[s].ref}]
    BY <1>2 DEF Fail
  <2>3. SameExcuses({"reward", "twofa", "logout"}) /\ excused'.reset = excused.reset \union {req[s].ref}
    BY <2>1, <2>2, Excused
  <2> QED
    BY <1>1, <1>2, <2>1, <2>3
<1>3. CASE ~In(s, "reset", "delete")
  <2>1. excused' = excused
    BY <1>3 DEF Fail
  <2>2. SameExcuses({"reward", "twofa", "reset", "logout"})
    BY <2>1, Excused
  <2> QED
    BY <1>1, <1>3, <2>1, <2>2 DEF SameExcuses
<1> QED
  BY <1>2, <1>3

LEMMA SharedLeaves ==
    ASSUME Typed, SharedStep
    PROVE  /\ UNCHANGED <<proven, users, referrals, rewards, issued, used, excused>>
           /\ account'.secret = account.secret /\ account'.twofa = account.twofa
           /\ account' \in [legacy : BOOLEAN, suspended : BOOLEAN, secret : Nat, twofa : BOOLEAN]
<1>1. UNCHANGED <<proven, users, referrals, rewards, issued, used, excused>>
  BY DEF SharedStep, GiveUp, AccessExpires, RecordExpires, SweepRecord, RequestReset, ResetExpires,
         SetSuspended, db, redis, history, vars
<1>2. account' = account \/ account' = [account EXCEPT !.suspended = ~@]
  BY DEF SharedStep, GiveUp, AccessExpires, RecordExpires, SweepRecord, RequestReset, ResetExpires,
         SetSuspended, db, vars
<1>3. account \in [legacy : BOOLEAN, suspended : BOOLEAN, secret : Nat, twofa : BOOLEAN]
  BY DEF Typed, TypeOK
<1> QED
  BY <1>1, <1>2, <1>3
-----------------------------------------------------------------------------
(* Types, and the ends of the refresh tokens.                              *)

\* A token that is there ends, and a new one is issued.
LEMMA TokenEnds ==
    ASSUME Tokens, NEW j \in keys, keys' = keys \ {j}, ends' = [ends EXCEPT ![j] = @ + 1],
           UNCHANGED <<issued, endless>>
    PROVE  Tokens'
<1>1. j \in 1 .. issued /\ j \in Orphan .. MaxTokens /\ ends \in [Orphan .. MaxTokens -> Nat]
  BY AccountsAssumption DEF Tokens, TokensTyped, Orphan
<1>2. /\ ends' \in [Orphan .. MaxTokens -> Nat] /\ ends'[j] = ends[j] + 1
      /\ \A i \in Orphan .. MaxTokens : i # j => ends'[i] = ends[i]
  BY <1>1
<1>3. ends[j] = 0
  BY <1>1 DEF Tokens, EndOnce
<1>4. TokensTyped'
  BY <1>2 DEF Tokens, TokensTyped
<1>5. \A i \in 1 .. MaxTokens : i \in Orphan .. MaxTokens
  BY AccountsAssumption DEF Orphan
<1>6. issued \in 1 .. MaxTokens
  BY DEF Tokens, TokensTyped
<1>7. EndOnce'
  <2> SUFFICES ASSUME NEW i \in 1 .. issued PROVE ends'[i] = IF i \in keys' THEN 0 ELSE 1
    BY DEF EndOnce
  <2>1. i \in 1 .. MaxTokens
    BY <1>6, AccountsAssumption
  <2> QED
    BY <2>1, <1>2, <1>3, <1>5 DEF Tokens, EndOnce
<1>8. NextTokensFresh'
  <2> SUFFICES ASSUME NEW i \in issued + 1 .. MaxTokens PROVE ends'[i] = 0
    BY DEF NextTokensFresh
  <2>1. i \in 1 .. MaxTokens /\ i # j
    BY <1>1, <1>6, AccountsAssumption
  <2> QED
    BY <2>1, <1>2, <1>5 DEF Tokens, NextTokensFresh
<1> QED
  BY <1>4, <1>7, <1>8 DEF Tokens

LEMMA TokenBegins ==
    ASSUME Tokens, NewRecord, UNCHANGED <<ends, endless>>
    PROVE  Tokens' /\ issued' = issued + 1
<1>1. /\ issued \in 1 .. MaxTokens /\ keys \subseteq 1 .. issued
      /\ issued < MaxTokens /\ issued' = issued + 1 /\ keys' = keys \union {issued + 1}
  BY DEF Tokens, TokensTyped, NewRecord
<1>2. TokensTyped'
  BY <1>1, AccountsAssumption DEF Tokens, TokensTyped
<1>3. EndOnce'
  <2> SUFFICES ASSUME NEW i \in 1 .. issued' PROVE ends[i] = IF i \in keys' THEN 0 ELSE 1
    BY DEF EndOnce
  <2>1. CASE i = issued + 1
    BY <1>1, <2>1, AccountsAssumption DEF Tokens, NextTokensFresh
  <2>2. CASE i # issued + 1
    BY <1>1, <2>2, AccountsAssumption DEF Tokens, EndOnce
  <2> QED
    BY <2>1, <2>2
<1>4. NextTokensFresh'
  BY <1>1, AccountsAssumption DEF Tokens, NextTokensFresh
<1> QED
  BY <1>1, <1>2, <1>3, <1>4 DEF Tokens

LEMMA TokensStay ==
    ASSUME Tokens, UNCHANGED <<keys, endless, issued, ends>>
    PROVE  Tokens'
  BY DEF Tokens, TokensTyped, EndOnce, NextTokensFresh

LEMMA StoreIs ==
    ASSUME StoreTyped, Tokens
    PROVE  /\ issued' = issued /\ store' \in {store, SignedOut} => StoreTyped'
           /\ issued' = issued + 1 /\ store' = store => StoreTyped'
           /\ issued' = issued + 1 /\ store' = [access |-> "fresh", refresh |-> issued + 1]
                => StoreTyped'
           /\ \A a \in {"fresh", "stale"} :
                issued' = issued /\ store' = [store EXCEPT !.access = a] => StoreTyped'
<1>1. issued \in Nat \ {0}
  BY AccountsAssumption DEF Tokens, TokensTyped
<1>2. SignedOut \in [access : {"none", "fresh", "stale"}, refresh : {NoToken} \union 1 .. issued]
  BY DEF SignedOut
<1> QED
  BY <1>1, <1>2 DEF StoreTyped

LEMMA StepTokens ==
    ASSUME Typed, Tokens, [Next]_vars
    PROVE  StoreTyped' /\ Tokens'
<1>0. StoreTyped
  BY DEF Typed
<1>1. ASSUME NEW s \in Slots, SignUpStep(s) \/ ProtectionStep(s) \/ Fail(s) PROVE StoreTyped' /\ Tokens'
  <2>1. UNCHANGED <<keys, endless, issued, store, ends>>
    BY <1>1, SignUpLeaves, ProtectionLeaves, FailLeaves
  <2> QED
    BY <2>1, <1>0, TokensStay, StoreIs
<1>2. ASSUME NEW s \in Slots, SessionStep(s) PROVE StoreTyped' /\ Tokens'
  <2>1. CASE SignIn(s) \/ Refresh(s) \/ LogOut(s)
    <3>1. UNCHANGED <<keys, endless, issued, store, ends>>
      BY <2>1 DEF SignIn, Refresh, LogOut, redis, history
    <3> QED
      BY <3>1, <1>0, TokensStay, StoreIs
  <2>2. CASE IssueAtSignIn(s) \/ IssueAtRefresh(s)
    <3>1. /\ NewRecord /\ UNCHANGED <<ends, endless>>
          /\ store' = store \/ store' = [access |-> "fresh", refresh |-> issued + 1]
      BY <2>2 DEF IssueAtSignIn, IssueAtRefresh, history
    <3>2. Tokens' /\ issued' = issued + 1
      BY <3>1, TokenBegins
    <3> QED
      BY <3>1, <3>2, <1>0, StoreIs
  <2>3. CASE Rotate(s) \/ Revoke(s)
    <3>1. /\ keys' = keys \ {req[s].ref} /\ UNCHANGED <<issued, endless, store>>
          /\ ends' = IF req[s].ref \in keys THEN [ends EXCEPT ![req[s].ref] = @ + 1] ELSE ends
      BY <2>3 DEF Rotate, Revoke
    <3>2. CASE req[s].ref \in keys
      <4>1. PICK j \in keys : j = req[s].ref
        BY <3>2
      <4>2. keys' = keys \ {j} /\ ends' = [ends EXCEPT ![j] = @ + 1]
        BY <3>1, <4>1
      <4> QED
        BY <3>1, <4>2, <1>0, TokenEnds, StoreIs
    <3>3. CASE req[s].ref \notin keys
      <4>1. UNCHANGED <<keys, endless, issued, ends>>
        BY <3>1, <3>3
      <4> QED
        BY <3>1, <4>1, <1>0, TokensStay, StoreIs
    <3> QED
      BY <3>2, <3>3
  <2>4. CASE AnswerRefresh(s)
    <3>1. UNCHANGED <<keys, endless, issued, ends>> /\ store' = [store EXCEPT !.access = "fresh"]
      BY <2>4 DEF AnswerRefresh, redis
    <3> QED
      BY <3>1, <1>0, TokensStay, StoreIs
  <2>5. CASE DenyRefresh(s) \/ ClearStore(s)
    <3>1. UNCHANGED <<keys, endless, issued, ends>> /\ store' = SignedOut
      BY <2>5 DEF DenyRefresh, ClearStore, redis, history
    <3> QED
      BY <3>1, <1>0, TokensStay, StoreIs
  <2> QED
    BY <1>2, <2>1, <2>2, <2>3, <2>4, <2>5 DEF SessionStep
<1>3. ASSUME SharedStep PROVE StoreTyped' /\ Tokens'
  <2>1. CASE RecordExpires
    <3>1. PICK j \in keys : keys' = keys \ {j} /\ ends' = [ends EXCEPT ![j] = @ + 1]
      BY <2>1 DEF RecordExpires
    <3>2. UNCHANGED <<issued, endless, store>>
      BY <2>1 DEF RecordExpires
    <3> QED
      BY <3>1, <3>2, <1>0, TokenEnds, StoreIs
  <2>2. CASE SweepRecord
    <3>1. UNCHANGED <<keys, issued, ends, store>> /\ endless' \subseteq endless
      BY <2>2 DEF SweepRecord, history
    <3> QED
      BY <1>0, <3>1 DEF Tokens, TokensTyped, StoreTyped, EndOnce, NextTokensFresh
  <2>3. CASE GiveUp
    <3>1. UNCHANGED <<keys, endless, issued, ends>> /\ store' = SignedOut
      BY <2>3 DEF GiveUp, redis, history
    <3> QED
      BY <3>1, <1>0, TokensStay, StoreIs
  <2>4. CASE AccessExpires
    <3>1. UNCHANGED <<keys, endless, issued, ends>> /\ store' = [store EXCEPT !.access = "stale"]
      BY <2>4 DEF AccessExpires, redis, history
    <3> QED
      BY <3>1, <1>0, TokensStay, StoreIs
  <2>5. CASE RequestReset \/ ResetExpires \/ SetSuspended \/ UNCHANGED vars
    <3>1. UNCHANGED <<keys, endless, issued, store, ends>>
      BY <2>5 DEF RequestReset, ResetExpires, SetSuspended, vars, redis, history
    <3> QED
      BY <3>1, <1>0, TokensStay, StoreIs
  <2> QED
    BY <1>3, <2>1, <2>2, <2>3, <2>4, <2>5 DEF SharedStep
<1> QED
  BY <1>1, <1>2, <1>3, StepIs

AccountTyped == account \in [legacy : BOOLEAN, suspended : BOOLEAN, secret : Nat, twofa : BOOLEAN]
BooksTyped ==
  /\ users \subseteq Emails /\ referrals.by \subseteq users
  /\ referrals \in [before : Nat, by : SUBSET Emails] /\ rewards \in Seq(Nat \X Nat)
ResetsTyped ==
  /\ resets \in [ResetTokens -> {"none", "live", "gone"}] /\ used \in [ResetTokens -> Nat]

LEMMA AccountPut ==
    ASSUME AccountTyped, NEW b \in BOOLEAN
    PROVE  /\ account' = account => AccountTyped'
           /\ account' = [account EXCEPT !.legacy = b] =>
                /\ AccountTyped'
                /\ account'.secret = account.secret /\ account'.twofa = account.twofa
           /\ account' = [account EXCEPT !.twofa = b] =>
                /\ AccountTyped' /\ account'.secret = account.secret /\ account'.twofa = b
           /\ account' = [account EXCEPT !.secret = @ + 1, !.twofa = b] =>
                /\ AccountTyped' /\ account'.secret = account.secret + 1 /\ account'.twofa = b
<1> DEFINE Row == [legacy : BOOLEAN, suspended : BOOLEAN, secret : Nat, twofa : BOOLEAN]
           n == account.secret + 1
<1>0. account \in Row /\ n \in Nat
  BY DEF AccountTyped
<1> HIDE DEF n
<1>1. LET a == [account EXCEPT !.legacy = b]
      IN  a \in Row /\ a.secret = account.secret /\ a.twofa = account.twofa
  BY <1>0
<1>2. LET a == [account EXCEPT !.twofa = b]
      IN  a \in Row /\ a.secret = account.secret /\ a.twofa = b
  BY <1>0
<1>3. LET a == [account EXCEPT !.secret = n, !.twofa = b]
      IN  a \in Row /\ a.secret = n /\ a.twofa = b
  BY <1>0
<1> QED
  BY <1>0, <1>1, <1>2, <1>3 DEF AccountTyped, n

LEMMA RewardIsPair ==
    ASSUME NEW n \in Nat
    PROVE  RewardFor(n) \in Nat \X Nat
  BY DEF RewardFor

LEMMA RowPut ==
    ASSUME NEW S, NEW rows \in Seq(S), NEW r \in S
    PROVE  /\ [rows EXCEPT ![1] = r] \in Seq(S)
           /\ Len(rows) = 1 => [rows EXCEPT ![1] = r] = <<r>>
<1>1. rows \in [1 .. Len(rows) -> S] /\ Len(rows) \in Nat
  OBVIOUS
<1>2. [rows EXCEPT ![1] = r] \in [1 .. Len(rows) -> S]
  BY <1>1
<1> DEFINE put == [rows EXCEPT ![1] = r]
<1>3. Len(rows) = 1 => Len(put) = 1 /\ put[1] = r
  BY <1>1
<1> QED
  BY <1>1, <1>2, <1>3

\* What a committed sign-up leaves in the books.
LEMMA CommitIs ==
    ASSUME Typed, NEW s \in Slots, CommitSignUp(s)
    PROVE  /\ req[s].email \in Emails /\ users' = users \union {req[s].email}
           /\ req[s].coded => /\ referrals'.by = referrals.by \union {req[s].email}
                              /\ referrals'.before = referrals.before
                              /\ rewards' = IF req[s].row = 1
                                            THEN [rewards EXCEPT ![1] = RewardFor(req[s].seen)]
                                            ELSE Append(rewards, RewardFor(req[s].seen))
           /\ ~req[s].coded => UNCHANGED <<referrals, rewards>>
           /\ BooksTyped'
<1>1. /\ req[s].email \in Emails /\ users' = users \union {req[s].email}
      /\ req[s].seen \in Nat /\ RewardFor(req[s].seen) \in Nat \X Nat
  BY RewardIsPair DEF CommitSignUp, In, Typed, RequestsTyped, Request
<1>2. /\ users \subseteq Emails /\ referrals.by \subseteq users
      /\ referrals \in [before : Nat, by : SUBSET Emails] /\ rewards \in Seq(Nat \X Nat)
  BY DEF Typed, TypeOK, HistoryTyped
<1>3. CASE req[s].coded
  <2>1. /\ referrals' = [referrals EXCEPT !.by = @ \union {req[s].email}]
        /\ rewards' = IF req[s].row = 1 THEN [rewards EXCEPT ![1] = RewardFor(req[s].seen)]
                                        ELSE Append(rewards, RewardFor(req[s].seen))
    BY <1>3 DEF CommitSignUp
  <2>2. /\ referrals'.by = referrals.by \union {req[s].email}
        /\ referrals'.before = referrals.before
        /\ referrals' \in [before : Nat, by : SUBSET Emails]
    BY <1>1, <1>2, <2>1
  <2>3. rewards' \in Seq(Nat \X Nat)
    <3> HIDE DEF RewardFor
    <3> DEFINE r == RewardFor(req[s].seen)
    <3>1. r \in Nat \X Nat
      BY <1>1
    <3> HIDE DEF r
    <3>2. Append(rewards, r) \in Seq(Nat \X Nat)
      BY <1>2, <3>1
    <3>3. [rewards EXCEPT ![1] = r] \in Seq(Nat \X Nat)
      BY <1>2, <3>1, RowPut
    <3> QED
      BY <2>1, <3>2, <3>3 DEF r
  <2> QED
    BY <1>1, <1>2, <1>3, <2>1, <2>2, <2>3 DEF BooksTyped
<1>4. CASE ~req[s].coded
  <2>1. UNCHANGED <<referrals, rewards>>
    BY <1>4 DEF CommitSignUp
  <2> QED
    BY <1>1, <1>2, <1>4, <2>1 DEF BooksTyped
<1> QED
  BY <1>3, <1>4

LEMMA StepTyped ==
    ASSUME Typed, Tokens, [Next]_vars
    PROVE  Typed'
<1> DEFINE Rest == AccountTyped' /\ BooksTyped' /\ ResetsTyped' /\ RequestsTyped' /\ excused' \in Excuses
<1>0. AccountTyped /\ BooksTyped /\ ResetsTyped /\ RequestsTyped /\ excused \in Excuses
  BY DEF Typed, TypeOK, HistoryTyped, AccountTyped, BooksTyped, ResetsTyped
<1>1. ASSUME NEW s \in Slots, SignUpStep(s) PROVE Rest
  <2>1. /\ UNCHANGED <<account, resets, used>> /\ RequestsTyped' /\ excused' \in Excuses
        /\ ~CommitSignUp(s) => UNCHANGED <<users, referrals, rewards>>
    BY <1>1, SignUpLeaves, SignUpRequests DEF SameExcuses
  <2>2. BooksTyped'
    BY <1>0, <2>1, CommitIs DEF BooksTyped
  <2> QED
    BY <1>0, <2>1, <2>2 DEF AccountTyped, ResetsTyped
<1>2. ASSUME NEW s \in Slots, SessionStep(s) \/ Fail(s) PROVE Rest
  <2>1. /\ UNCHANGED <<account, users, referrals, rewards, resets, used>>
        /\ RequestsTyped' /\ excused' \in Excuses
    BY <1>2, SessionLeaves, SessionRequests, FailLeaves, FailRequests DEF SameExcuses
  <2> QED
    BY <1>0, <2>1 DEF AccountTyped, BooksTyped, ResetsTyped
<1>3. ASSUME NEW s \in Slots, ProtectionStep(s) PROVE Rest
  <2>1. /\ UNCHANGED <<users, referrals, rewards>> /\ RequestsTyped' /\ excused' \in Excuses
    BY <1>3, ProtectionLeaves, ProtectionRequests DEF SameExcuses
  <2>2. AccountTyped'
    <3>0. account.twofa \in BOOLEAN
      BY <1>0 DEF AccountTyped
    <3>1. CASE CommitEnable(s)
      <4>1. account' = [account EXCEPT !.secret = @ + 1,
                                       !.twofa = IF req[s].seen = 1 THEN FALSE ELSE account.twofa]
        BY <3>1 DEF CommitEnable
      <4> QED
        BY <1>0, <3>0, <4>1, AccountPut
    <3>2. CASE CommitVerify(s)
      <4>1. account' = [account EXCEPT !.twofa = IF req[s].seen = 0 THEN TRUE ELSE account.twofa]
        BY <3>2 DEF CommitVerify
      <4> QED
        BY <1>0, <3>0, <4>1, AccountPut
    <3>3. CASE ~CommitEnable(s) /\ ~CommitVerify(s)
      <4>1. account' = account \/ account' = [account EXCEPT !.legacy = FALSE]
        BY <1>3, <3>3 DEF ProtectionStep, EnableTwoFA, VerifyTwoFA, ReadReset,
                          CommitReset, DeleteReset, db
      <4> QED
        BY <1>0, <4>1, AccountPut
    <3> QED
      BY <3>1, <3>2, <3>3
  <2>3. ResetsTyped'
    <3>1. CASE CommitReset(s)
      <4>1. resets' = resets /\ used' = [used EXCEPT ![req[s].ref] = @ + 1]
        BY <3>1 DEF CommitReset, redis
      <4>2. req[s].ref \in ResetTokens
        BY <3>1 DEF CommitReset, In, Typed, RequestsTyped
      <4> QED
        BY <1>0, <4>1, <4>2 DEF ResetsTyped
    <3>2. CASE DeleteReset(s)
      <4>1. used' = used /\ resets' = [resets EXCEPT ![req[s].ref] = "gone"]
        BY <3>2 DEF DeleteReset, history
      <4> QED
        BY <1>0, <4>1 DEF ResetsTyped
    <3>3. CASE ~CommitReset(s) /\ ~DeleteReset(s)
      <4>1. UNCHANGED <<resets, used>>
        BY <1>3, <3>3 DEF ProtectionStep, EnableTwoFA, CommitEnable, VerifyTwoFA, CommitVerify,
                          ReadReset, redis, history
      <4> QED
        BY <1>0, <4>1 DEF ResetsTyped
    <3> QED
      BY <3>1, <3>2, <3>3
  <2> QED
    BY <1>0, <2>1, <2>2, <2>3 DEF BooksTyped
<1>4. ASSUME SharedStep PROVE Rest
  <2>1. /\ UNCHANGED <<users, referrals, rewards, used, excused>> /\ AccountTyped' /\ RequestsTyped'
    BY <1>4, SharedLeaves, SharedRequests DEF AccountTyped
  <2>2. \/ resets' = resets
        \/ \E k \in ResetTokens : resets' = [resets EXCEPT ![k] = "live"]
        \/ \E k \in ResetTokens : resets' = [resets EXCEPT ![k] = "gone"]
    BY <1>4 DEF SharedStep, GiveUp, AccessExpires, RecordExpires, SweepRecord, RequestReset,
                ResetExpires, SetSuspended, redis, vars
  <2> QED
    BY <1>0, <2>1, <2>2 DEF BooksTyped, ResetsTyped
<1>5. StoreTyped' /\ TokensTyped'
  BY StepTokens DEF Tokens
<1> QED
  BY <1>1, <1>2, <1>3, <1>4, <1>5, StepIs
     DEF Typed, TypeOK, HistoryTyped, AccountTyped, BooksTyped, ResetsTyped, StoreTyped, TokensTyped
-----------------------------------------------------------------------------
(* The store of the browser.                                               *)

LEMMA StepStore ==
    ASSUME Typed, StoreInv, [Next]_vars
    PROVE  StoreInv'
<1>1. ASSUME UNCHANGED store, excused'.logout = excused.logout,
             \A o \in Slots : req'[o].kind = "refresh" =>
               req[o].kind = "refresh" /\ (req[o].crossed => req'[o].crossed)
      PROVE  StoreInv'
  BY <1>1 DEF StoreInv, LogoutSticksUnlessRefreshing, RefreshesNoticed
<1>2. ASSUME NEW s \in Slots, SignUpStep(s) \/ ProtectionStep(s) \/ Fail(s) PROVE StoreInv'
  <2>1. UNCHANGED store /\ excused'.logout = excused.logout
    BY <1>2, SignUpLeaves, ProtectionLeaves, FailLeaves DEF SameExcuses
  <2>2. \A o \in Slots : req'[o].kind = "refresh" =>
          req[o].kind = "refresh" /\ (req[o].crossed => req'[o].crossed)
    BY <1>2, SignUpRequests, ProtectionRequests, FailRequests DEF Kept
  <2> QED
    BY <1>1, <2>1, <2>2
<1>3. ASSUME NEW s \in Slots, SessionStep(s) PROVE StoreInv'
  <2>1. /\ \A o \in Slots \ {s} : Kept(o)
        /\ req'[s].kind = "refresh" =>
             Refresh(s) \/ (req[s].kind = "refresh" /\ req'[s].crossed = req[s].crossed)
        /\ ~IssueAtSignIn(s) /\ ~AnswerRefresh(s) => excused'.logout = excused.logout
    BY <1>3, SessionRequests, SessionLeaves DEF SameExcuses
  <2>2. RequestsTyped
    BY DEF Typed
  <2>3. CASE Refresh(s)
    <3>1. UNCHANGED <<store, excused>> /\ store.refresh # NoToken
      BY <2>3 DEF Refresh, history
    <3> QED
      BY <3>1 DEF StoreInv, LogoutSticksUnlessRefreshing, RefreshesNoticed
  <2>4. CASE IssueAtSignIn(s)
    <3>1. store'.refresh = issued + 1 /\ issued + 1 # NoToken
      BY <2>4, AccountsAssumption DEF IssueAtSignIn, Typed, TypeOK, NoToken
    <3> QED
      BY <3>1 DEF StoreInv, LogoutSticksUnlessRefreshing, RefreshesNoticed
  <2>5. CASE AnswerRefresh(s)
    <3>1. store.refresh = NoToken => req[s].crossed
      BY <2>5 DEF AnswerRefresh, In, StoreInv, RefreshesNoticed
    <3>2. store'.refresh = store.refresh
      BY <2>5 DEF AnswerRefresh, Typed, StoreTyped
    <3>3. store.refresh = NoToken => excused'.logout
      <4>1. excused' = [excused EXCEPT !.logout = excused.logout \/ req[s].crossed]
        BY <2>5 DEF AnswerRefresh
      <4>2. (excused.logout \/ req[s].crossed) \in BOOLEAN
        OBVIOUS
      <4>3. excused'.logout = (excused.logout \/ req[s].crossed)
        BY <4>1, <4>2, Excused
      <4> QED
        BY <3>1, <4>3
    <3>4. req'[s].kind = "none"
      BY <2>2, <2>5, DoneIs DEF AnswerRefresh
    <3> QED
      BY <2>1, <3>2, <3>3, <3>4 DEF StoreInv, LogoutSticksUnlessRefreshing, RefreshesNoticed, Kept
  <2>6. CASE DenyRefresh(s) \/ ClearStore(s)
    <3>1. store' = SignedOut /\ req' = Crossing(s, "refresh")
      BY <2>6 DEF DenyRefresh, ClearStore
    <3>2. /\ req'[s].kind = "none"
          /\ \A o \in Slots \ {s} : req[o].kind = "refresh" => req'[o].crossed
      BY <2>2, <3>1, CrossingIs
    <3> QED
      BY <2>1, <3>1, <3>2 DEF StoreInv, LogoutSticksUnlessRefreshing, RefreshesNoticed, Kept, SignedOut
  <2>7. CASE SignIn(s) \/ Rotate(s) \/ IssueAtRefresh(s) \/ LogOut(s) \/ Revoke(s)
    <3>1. UNCHANGED <<store, excused>>
      BY <2>7 DEF SignIn, Rotate, IssueAtRefresh, LogOut, Revoke, history
    <3>2. CASE ~Refresh(s)
      BY <1>1, <2>1, <3>1, <3>2 DEF Kept
    <3> QED
      BY <2>3, <3>2
  <2> QED
    BY <1>3, <2>3, <2>4, <2>5, <2>6, <2>7 DEF SessionStep
<1>4. ASSUME SharedStep PROVE StoreInv'
  <2>1. excused' = excused /\ \A o \in Slots : Kept(o)
    BY <1>4, SharedLeaves, SharedRequests
  <2>2. CASE GiveUp
    <3>1. store' = SignedOut /\ \A o \in Slots : req[o].kind = "refresh" => req'[o].crossed
      BY <2>2, GiveUpIs DEF GiveUp, Typed
    <3> QED
      BY <2>1, <3>1 DEF StoreInv, LogoutSticksUnlessRefreshing, RefreshesNoticed, Kept, SignedOut
  <2>3. CASE AccessExpires
    <3>1. store.access = "fresh" /\ store'.refresh = store.refresh
      BY <2>3 DEF AccessExpires, Typed, StoreTyped
    <3> QED
      BY <2>1, <3>1 DEF StoreInv, LogoutSticksUnlessRefreshing, RefreshesNoticed, Kept
  <2>4. CASE ~GiveUp /\ ~AccessExpires
    <3>1. UNCHANGED store
      BY <1>4, <2>4 DEF SharedStep, RecordExpires, SweepRecord, RequestReset, ResetExpires, SetSuspended, vars
    <3> QED
      BY <1>1, <2>1, <3>1 DEF Kept
  <2> QED
    BY <2>2, <2>3, <2>4
<1> QED
  BY <1>2, <1>3, <1>4, StepIs
-----------------------------------------------------------------------------
(* The second factor.                                                      *)

LEMMA StepFactor ==
    ASSUME Typed, FactorInv, [Next]_vars
    PROVE  FactorInv'
<1>0. RequestsTyped /\ AccountTyped
  BY DEF Typed, TypeOK, AccountTyped
<1>1. ASSUME UNCHANGED proven, account'.secret = account.secret, account'.twofa = account.twofa,
             excused'.twofa = excused.twofa,
             \A o \in Slots : req'[o].kind \in {"enable", "verify"} => Kept(o)
      PROVE  FactorInv'
  BY <1>1 DEF FactorInv, SecondFactorProvenUnlessOverlapped, FactorsNoticed, Kept
<1>2. ASSUME NEW s \in Slots, SignUpStep(s) \/ SessionStep(s) \/ Fail(s) PROVE FactorInv'
  <2>1. UNCHANGED <<account, proven>> /\ excused'.twofa = excused.twofa
    BY <1>2, SignUpLeaves, SessionLeaves, FailLeaves DEF SameExcuses
  <2>2. \A o \in Slots : req'[o].kind \in {"enable", "verify"} => Kept(o)
    BY <1>2, SignUpRequests, SessionRequests, FailRequests
  <2> QED
    BY <1>1, <2>1, <2>2
<1>3. ASSUME NEW s \in Slots, ProtectionStep(s) PROVE FactorInv'
  <2>1. /\ \A o \in Slots \ {s} : Kept(o)
        /\ ~CommitEnable(s) /\ ~CommitVerify(s) => excused'.twofa = excused.twofa
    BY <1>3, ProtectionRequests, ProtectionLeaves DEF SameExcuses
  <2>2. CASE EnableTwoFA(s)
    <3>1. UNCHANGED <<account, proven, excused>>
      BY <2>2 DEF EnableTwoFA, db, history
    <3>2. req'[s].kind = "enable" /\ (account.twofa => req'[s].seen = 1)
      BY <2>2, EnableIs
    <3> QED
      BY <2>1, <3>1, <3>2 DEF FactorInv, SecondFactorProvenUnlessOverlapped, FactorsNoticed, Kept
  <2>3. CASE CommitEnable(s)
    <3>1. /\ account' = [account EXCEPT !.secret = @ + 1,
                                        !.twofa = IF req[s].seen = 1 THEN FALSE ELSE account.twofa]
          /\ req' = Crossing(s, "verify") /\ excused' = [excused EXCEPT !.twofa = req[s].crossed]
          /\ req[s].kind = "enable" /\ UNCHANGED proven
      BY <2>3 DEF CommitEnable, In
    <3>2. req[s].crossed \in BOOLEAN /\ account.twofa \in BOOLEAN
      BY <1>0 DEF RequestsTyped, Request, AccountTyped
    <3>3. /\ account'.twofa = IF req[s].seen = 1 THEN FALSE ELSE account.twofa
          /\ excused'.twofa = req[s].crossed
      BY <1>0, <3>1, <3>2, AccountPut, Excused
    <3>4. /\ req'[s].kind = "none"
          /\ \A o \in Slots \ {s} : req[o].kind = "verify" => req'[o].crossed
      BY <1>0, <3>1, CrossingIs
    <3>5. account'.twofa => excused'.twofa
      BY <3>1, <3>3 DEF FactorInv, FactorsNoticed
    <3>6. FactorsNoticed'
      BY <2>1, <3>1, <3>3, <3>4 DEF FactorInv, FactorsNoticed, Kept
    <3> QED
      BY <3>5, <3>6 DEF FactorInv, SecondFactorProvenUnlessOverlapped
  <2>4. CASE VerifyTwoFA(s)
    <3>1. account' = account /\ excused' = excused /\ proven' = proven \union {account.secret}
      BY <2>4 DEF VerifyTwoFA, history
    <3>2. req'[s].kind = "verify"
      BY <2>4, VerifyIs
    <3> QED
      BY <2>1, <3>1, <3>2 DEF FactorInv, SecondFactorProvenUnlessOverlapped, FactorsNoticed, Kept
  <2>5. CASE CommitVerify(s)
    <3>1. /\ account' = [account EXCEPT !.twofa = IF req[s].seen = 0 THEN TRUE ELSE account.twofa]
          /\ req' = Crossing(s, "enable") /\ excused' = [excused EXCEPT !.twofa = req[s].crossed]
          /\ req[s].kind = "verify" /\ UNCHANGED proven
      BY <2>5 DEF CommitVerify, In
    <3>2. req[s].crossed \in BOOLEAN /\ account.twofa \in BOOLEAN
      BY <1>0 DEF RequestsTyped, Request, AccountTyped
    <3>3. account'.secret = account.secret /\ excused'.twofa = req[s].crossed
      BY <1>0, <3>1, <3>2, AccountPut, Excused
    <3>4. /\ req'[s].kind = "none"
          /\ \A o \in Slots \ {s} : req[o].kind = "enable" => req'[o].crossed
      BY <1>0, <3>1, CrossingIs
    <3>5. account.secret \in proven \/ excused'.twofa
      BY <3>1, <3>3 DEF FactorInv, FactorsNoticed
    <3>6. FactorsNoticed'
      BY <2>1, <3>1, <3>3, <3>4 DEF FactorInv, FactorsNoticed, Kept
    <3> QED
      BY <3>1, <3>3, <3>5, <3>6 DEF FactorInv, SecondFactorProvenUnlessOverlapped
  <2>6. CASE ReadReset(s) \/ CommitReset(s) \/ DeleteReset(s)
    <3>1. account'.secret = account.secret /\ account'.twofa = account.twofa /\ UNCHANGED proven
      <4>1. account' = account \/ account' = [account EXCEPT !.legacy = FALSE]
        BY <2>6 DEF ReadReset, CommitReset, DeleteReset, db
      <4>2. UNCHANGED proven
        BY <2>6 DEF ReadReset, CommitReset, DeleteReset, db
      <4> QED
        BY <1>0, <4>1, <4>2, AccountPut
    <3>2. req'[s].kind \in {"none", "reset"}
      <4>1. CASE ReadReset(s)
        <5>1. \E k \in ResetTokens : ReadWith(s, k)
          BY <4>1 DEF ReadReset, ReadWith
        <5> QED
          BY <5>1, ReadIs
      <4>2. CASE CommitReset(s)
        BY <1>0, <4>2, GotoIs DEF CommitReset, In, Steps
      <4>3. CASE DeleteReset(s)
        BY <1>0, <4>3, DoneIs DEF DeleteReset
      <4> QED
        BY <2>6, <4>1, <4>2, <4>3
    <3>3. CASE CommitEnable(s) \/ CommitVerify(s)
      BY <2>3, <2>5, <3>3
    <3>4. CASE ~CommitEnable(s) /\ ~CommitVerify(s)
      BY <1>1, <2>1, <3>1, <3>2, <3>4
    <3> QED
      BY <3>3, <3>4
  <2> QED
    BY <1>3, <2>2, <2>3, <2>4, <2>5, <2>6 DEF ProtectionStep
<1>4. ASSUME SharedStep PROVE FactorInv'
  BY <1>1, <1>4, SharedLeaves, SharedRequests
<1> QED
  BY <1>2, <1>3, <1>4, StepIs
-----------------------------------------------------------------------------
(* The reset tokens.                                                       *)

\* A step of one part belongs to a request of that part, or begins one.
LEMMA OwnKind ==
    ASSUME NEW s \in Slots
    PROVE  /\ SignUpStep(s) => req[s].kind \in {"none", "signup"}
           /\ SessionStep(s) => req[s].kind \in {"none", "login", "refresh", "logout"}
           /\ EnableTwoFA(s) \/ CommitEnable(s) \/ VerifyTwoFA(s) \/ CommitVerify(s) =>
                req[s].kind \in {"none", "enable", "verify"}
<1>1. \A q : Begin(s, q) => req[s].kind = "none"
  BY IdleIs DEF Begin
<1>2. \A kind, step : In(s, kind, step) => req[s].kind = kind
  BY DEF In
<1>3. SignUpStep(s) => req[s].kind \in {"none", "signup"}
  BY <1>1, <1>2 DEF SignUpStep, SignUp, InsertUser, InsertReferral, CountReferrals, SelectReward,
                    GrantReward, CommitSignUp
<1>4. SessionStep(s) => req[s].kind \in {"none", "login", "refresh", "logout"}
  BY <1>1, <1>2 DEF SessionStep, SignIn, IssueAtSignIn, Refresh, Rotate, IssueAtRefresh, AnswerRefresh,
                    DenyRefresh, LogOut, Revoke, ClearStore
<1>5. EnableTwoFA(s) \/ CommitEnable(s) \/ VerifyTwoFA(s) \/ CommitVerify(s) =>
        req[s].kind \in {"none", "enable", "verify"}
  BY <1>1, <1>2 DEF EnableTwoFA, CommitEnable, VerifyTwoFA, CommitVerify
<1> QED
  BY <1>3, <1>4, <1>5

\* What ResetsCounted says of one token.
TokenCounted(k) ==
  /\ \A s, o \in Resetting(k) : s = o
  /\ used[k] \in {0, 1}
  /\ \A s \in Resetting(k) : req[s].step = "commit" => used[k] = 0
  /\ resets[k] # "gone" => used[k] = 0 \/ \E s \in Resetting(k) : req[s].step = "delete"

LEMMA TokenLeft ==
    ASSUME NEW k \in ResetTokens, TokenCounted(k), used'[k] = used[k],
           resets'[k] # "gone" => resets[k] # "gone",
           \A o \in Slots : o \in Resetting(k) \/ o \in Resetting(k)' => Kept(o)
    PROVE  TokenCounted(k)'
<1>1. \A o \in Slots : o \in Resetting(k)' <=> o \in Resetting(k)
  BY DEF Resetting, Kept
<1>2. \A o \in Resetting(k) : o \in Slots /\ req'[o].step = req[o].step
  BY DEF Resetting, Kept
<1>3. Resetting(k)' = Resetting(k)
  BY <1>1 DEF Resetting
<1> QED
  BY <1>2, <1>3 DEF TokenCounted

LEMMA StepResets ==
    ASSUME Typed, ResetsCounted, [Next]_vars
    PROVE  ResetsCounted'
<1> SUFFICES ASSUME NEW k \in ResetTokens, k \notin excused'.reset
             PROVE  TokenCounted(k)'
  BY DEF ResetsCounted, TokenCounted
<1>0. RequestsTyped /\ ResetsTyped
  BY DEF Typed, TypeOK, HistoryTyped, ResetsTyped
<1>1. ASSUME k \notin excused.reset PROVE TokenCounted(k)
  BY <1>1 DEF ResetsCounted, TokenCounted
<1>2. ASSUME NEW s \in Slots,
             SignUpStep(s) \/ SessionStep(s)
               \/ EnableTwoFA(s) \/ CommitEnable(s) \/ VerifyTwoFA(s) \/ CommitVerify(s)
      PROVE  TokenCounted(k)'
  <2>1. UNCHANGED <<resets, used>> /\ excused'.reset = excused.reset
    <3>1. CASE SignUpStep(s) \/ SessionStep(s)
      BY <3>1, SignUpLeaves, SessionLeaves DEF SameExcuses
    <3>2. CASE EnableTwoFA(s) \/ CommitEnable(s) \/ VerifyTwoFA(s) \/ CommitVerify(s)
      <4>1. UNCHANGED <<resets, used>>
        BY <3>2 DEF EnableTwoFA, CommitEnable, VerifyTwoFA, CommitVerify, redis, history
      <4>2. excused' = excused \/ excused' = [excused EXCEPT !.twofa = req[s].crossed]
        BY <3>2 DEF EnableTwoFA, CommitEnable, VerifyTwoFA, CommitVerify, history
      <4>3. req[s].crossed \in BOOLEAN
        BY <1>0 DEF RequestsTyped, Request
      <4> QED
        BY <4>1, <4>2, <4>3, Excused DEF SameExcuses
    <3> QED
      BY <1>2, <3>1, <3>2
  <2>2. \A o \in Slots : req[o].kind = "reset" \/ req'[o].kind = "reset" => Kept(o)
    <3>1. /\ req[s].kind # "reset" /\ req'[s].kind # "reset"
          /\ \A o \in Slots \ {s} : Kept(o)
      <4>1. CASE SignUpStep(s) \/ SessionStep(s)
        BY <4>1, OwnKind, SignUpRequests, SessionRequests
      <4>2. CASE EnableTwoFA(s) \/ VerifyTwoFA(s)
        BY <4>2, OwnKind, EnableIs, VerifyIs
      <4>3. CASE CommitEnable(s) \/ CommitVerify(s)
        <5>1. req' = Crossing(s, "verify") \/ req' = Crossing(s, "enable")
          BY <4>3 DEF CommitEnable, CommitVerify
        <5> QED
          BY <1>0, <4>3, <5>1, OwnKind, CrossingIs
      <4> QED
        BY <1>2, <4>1, <4>2, <4>3
    <3> QED
      BY <3>1
  <2>3. \A o \in Slots : o \in Resetting(k) \/ o \in Resetting(k)' => Kept(o)
    BY <2>2 DEF Resetting
  <2> QED
    BY <1>1, <2>1, <2>3, TokenLeft
<1>3. ASSUME NEW s \in Slots, ReadReset(s) PROVE TokenCounted(k)'
  <2>1. PICK i \in ResetTokens : ReadWith(s, i)
    BY <1>3 DEF ReadReset, ReadWith
  <2>2. UNCHANGED <<resets, used>>
    BY <1>3 DEF ReadReset, redis
  <2>3. /\ req[s].kind = "none" /\ req'[s].kind = "reset" /\ req'[s].step = "commit"
        /\ req'[s].ref = i /\ \A o \in Slots \ {s} : Kept(o)
    BY <2>1, ReadIs, IdleIs
  <2>4. /\ k \notin excused.reset
        /\ k = i => Resetting(k) = {}
    <3>1. CASE \E o \in Slots : req[o].kind = "reset" /\ req[o].ref = i
      <4>1. excused' = [excused EXCEPT !.reset = excused.reset \union {i}]
        BY <2>1, <3>1 DEF ReadWith
      <4>2. (excused.reset \union {i}) \in SUBSET ResetTokens
        BY DEF Typed, HistoryTyped, Excuses
      <4>3. excused'.reset = excused.reset \union {i}
        BY <4>1, <4>2, Excused
      <4> QED
        BY <4>3
    <3>2. CASE ~ \E o \in Slots : req[o].kind = "reset" /\ req[o].ref = i
      <4>1. excused' = excused
        BY <2>1, <3>2 DEF ReadWith
      <4> QED
        BY <3>2, <4>1 DEF Resetting
    <3> QED
      BY <3>1, <3>2
  <2>5. CASE k = i
    <3>1. Resetting(k)' = {s}
      BY <2>3, <2>4, <2>5 DEF Resetting, Kept
    <3>2. used[k] = 0
      BY <1>1, <2>1, <2>4, <2>5 DEF TokenCounted, ReadWith
    <3> QED
      BY <2>2, <2>3, <3>1, <3>2 DEF TokenCounted
  <2>6. CASE k # i
    <3>1. \A o \in Slots : o \in Resetting(k) \/ o \in Resetting(k)' => Kept(o)
      BY <2>3, <2>6 DEF Resetting
    <3> QED
      BY <1>1, <2>2, <2>4, <3>1, TokenLeft
  <2> QED
    BY <2>5, <2>6
<1>4. ASSUME NEW s \in Slots, CommitReset(s) PROVE TokenCounted(k)'
  <2>1. /\ req[s].kind = "reset" /\ req[s].step = "commit" /\ Goto(s, "delete")
        /\ used' = [used EXCEPT ![req[s].ref] = @ + 1]
        /\ UNCHANGED <<resets, excused>>
    BY <1>4 DEF CommitReset, In, redis
  <2>2. /\ req'[s].kind = "reset" /\ req'[s].step = "delete" /\ req'[s].ref = req[s].ref
        /\ \A o \in Slots \ {s} : Kept(o)
    BY <1>0, <2>1, GotoIs DEF Steps
  <2>3. TokenCounted(k)
    BY <1>1, <2>1
  <2>4. CASE k = req[s].ref
    <3>1. s \in Resetting(k) /\ Resetting(k) = {s}
      BY <2>1, <2>3, <2>4 DEF TokenCounted, Resetting
    <3>2. used[k] = 0 /\ used'[k] = 1
      BY <1>0, <2>1, <2>3, <2>4, <3>1 DEF TokenCounted, ResetsTyped
    <3>3. Resetting(k)' = {s}
      BY <2>2, <2>4, <3>1 DEF Resetting, Kept
    <3> QED
      BY <2>2, <3>2, <3>3 DEF TokenCounted
  <2>5. CASE k # req[s].ref
    <3>1. \A o \in Slots : o \in Resetting(k) \/ o \in Resetting(k)' => Kept(o)
      BY <2>2, <2>5 DEF Resetting
    <3>2. used'[k] = used[k]
      BY <1>0, <2>1, <2>5 DEF ResetsTyped
    <3> QED
      BY <2>1, <2>3, <3>1, <3>2, TokenLeft
  <2> QED
    BY <2>4, <2>5
<1>5. ASSUME NEW s \in Slots, DeleteReset(s) PROVE TokenCounted(k)'
  <2>1. /\ req[s].kind = "reset" /\ req[s].step = "delete" /\ Done(s)
        /\ resets' = [resets EXCEPT ![req[s].ref] = "gone"]
        /\ UNCHANGED <<used, excused>>
    BY <1>5 DEF DeleteReset, In, history
  <2>2. req'[s].kind = "none" /\ \A o \in Slots \ {s} : Kept(o)
    BY <1>0, <2>1, DoneIs
  <2>3. TokenCounted(k)
    BY <1>1, <2>1
  <2>4. CASE k = req[s].ref
    <3>1. Resetting(k) = {s}
      BY <2>1, <2>3, <2>4 DEF TokenCounted, Resetting
    <3>2. Resetting(k)' = {}
      BY <2>2, <3>1 DEF Resetting, Kept
    <3>3. resets'[k] = "gone"
      BY <1>0, <2>1, <2>4 DEF ResetsTyped
    <3> QED
      BY <2>1, <2>3, <3>2, <3>3 DEF TokenCounted
  <2>5. CASE k # req[s].ref
    <3>1. \A o \in Slots : o \in Resetting(k) \/ o \in Resetting(k)' => Kept(o)
      BY <2>2, <2>5 DEF Resetting
    <3>2. resets'[k] = resets[k]
      BY <1>0, <2>1, <2>5 DEF ResetsTyped
    <3> QED
      BY <2>1, <2>3, <3>1, <3>2, TokenLeft
  <2> QED
    BY <2>4, <2>5
<1>6. ASSUME NEW s \in Slots, Fail(s) PROVE TokenCounted(k)'
  <2>1. /\ UNCHANGED <<resets, used>> /\ k \notin excused.reset
        /\ ~(In(s, "reset", "delete") /\ k = req[s].ref)
    BY <1>6, FailLeaves
  <2>2. /\ req'[s].kind # "reset"
        /\ \A o \in Slots \ {s} : Kept(o)
    BY <1>6, FailRequests
  <2>3. TokenCounted(k)
    BY <1>1, <2>1
  <2>4. Resetting(k)' = Resetting(k) \ {s}
    BY <2>2 DEF Resetting, Kept
  <2>5. \A o \in Resetting(k) \ {s} : req'[o].step = req[o].step
    BY <2>2 DEF Resetting, Kept
  <2>6. \A o \in Resetting(k) : req[o].step = "delete" => o # s
    BY <2>1 DEF Resetting, In
  <2> QED
    BY <2>1, <2>3, <2>4, <2>5, <2>6 DEF TokenCounted
<1>7. ASSUME SharedStep PROVE TokenCounted(k)'
  <2>1. UNCHANGED <<used, excused>> /\ \A o \in Slots : Kept(o)
    BY <1>7, SharedLeaves, SharedRequests
  <2>2. resets'[k] # "gone" => resets[k] # "gone"
    <3>1. CASE RequestReset \/ ResetExpires
      BY <1>0, <3>1 DEF RequestReset, ResetExpires, ResetsTyped
    <3>2. CASE ~RequestReset /\ ~ResetExpires
      BY <1>7, <3>2 DEF SharedStep, GiveUp, AccessExpires, RecordExpires, SweepRecord, SetSuspended,
                        redis, vars
    <3> QED
      BY <3>1, <3>2
  <2> QED
    BY <1>1, <2>1, <2>2, TokenLeft
<1> QED
  BY <1>2, <1>3, <1>4, <1>5, <1>6, <1>7, StepIs DEF ProtectionStep
-----------------------------------------------------------------------------
(* Referrals and their reward.                                             *)

LEMMA ReferralsLeft ==
    ASSUME OnePerIdentity, UNCHANGED referrals,
           \A o \in Slots : HoldsIdentity(o)' => HoldsIdentity(o) /\ req'[o].email = req[o].email
    PROVE  OnePerIdentity'
  BY DEF OnePerIdentity, Referred

LEMMA StepReferrals ==
    ASSUME Typed, OnePerIdentity, [Next]_vars
    PROVE  OnePerIdentity'
<1>0. RequestsTyped
  BY DEF Typed
<1>1. ASSUME NEW o \in Slots, Kept(o)
      PROVE  HoldsIdentity(o)' => HoldsIdentity(o) /\ req'[o].email = req[o].email
  BY <1>1 DEF Kept, HoldsIdentity
<1>2. ASSUME NEW s \in Slots, SessionStep(s) \/ ProtectionStep(s) \/ Fail(s) PROVE OnePerIdentity'
  <2>1. UNCHANGED referrals
    BY <1>2, SessionLeaves, ProtectionLeaves, FailLeaves
  <2>2. req'[s].kind # "signup" /\ \A o \in Slots \ {s} : Kept(o)
    BY <1>2, SessionRequests, ProtectionRequests, FailRequests
  <2>3. ~HoldsIdentity(s)'
    BY <2>2 DEF HoldsIdentity
  <2> QED
    BY <1>1, <2>1, <2>2, <2>3, ReferralsLeft
<1>3. ASSUME NEW s \in Slots, SignUpStep(s) PROVE OnePerIdentity'
  <2>1. /\ \A o \in Slots \ {s} : Kept(o)
        /\ ~CommitSignUp(s) => UNCHANGED referrals
    BY <1>3, SignUpRequests, SignUpLeaves
  <2>2. CASE CommitSignUp(s)
    <3>1. ~HoldsIdentity(s)'
      <4>1. req'[s] = Idle
        BY <1>0, <2>2, CodedCommitIs, DoneIs DEF CommitSignUp
      <4> QED
        BY <4>1, IdleIs DEF HoldsIdentity
    <3>2. CASE ~req[s].coded
      <4>1. UNCHANGED referrals
        BY <2>2, <3>2, CommitIs
      <4> QED
        BY <1>1, <2>1, <3>1, <4>1, ReferralsLeft
    <3>3. CASE req[s].coded
      <4>1. referrals'.by = referrals.by \union {req[s].email}
        BY <2>2, <3>3, CommitIs
      <4>2. HoldsIdentity(s)
        BY <2>2, <3>3 DEF CommitSignUp, In, HoldsIdentity
      <4>3. \A e \in referrals.by : Identity[e] # Identity[req[s].email]
        BY <4>2 DEF OnePerIdentity, Referred
      <4>4. \A e, f \in referrals'.by : Identity[e] = Identity[f] => e = f
        BY <4>1, <4>3 DEF OnePerIdentity
      <4>5. ASSUME NEW o \in Slots, HoldsIdentity(o)'
            PROVE  HoldsIdentity(o) /\ req'[o].email = req[o].email /\ o # s
        BY <1>1, <2>1, <3>1, <4>5
      <4>6. ASSUME NEW o \in Slots, HoldsIdentity(o)' PROVE ~Referred(Identity[req[o].email])'
        BY <4>1, <4>2, <4>5, <4>6 DEF OnePerIdentity, Referred
      <4> QED
        BY <4>4, <4>5, <4>6 DEF OnePerIdentity
    <3> QED
      BY <3>2, <3>3
  <2>3. CASE InsertReferral(s) /\ ~Referred(Identity[req[s].email])
    <3>1. Goto(s, "count") /\ ~IdentityTaken(s) /\ UNCHANGED referrals
      BY <2>3 DEF InsertReferral, db
    <3>2. req'[s].email = req[s].email
      BY <1>0, <3>1, GotoIs DEF Steps
    <3>3. \A o \in Slots \ {s} : HoldsIdentity(o)' =>
            /\ HoldsIdentity(o) /\ req'[o].email = req[o].email
            /\ Identity[req[o].email] # Identity[req[s].email]
      BY <1>1, <2>1, <3>1 DEF IdentityTaken
    <3> QED
      BY <2>3, <3>1, <3>2, <3>3 DEF OnePerIdentity, Referred
  <2>4. CASE ~CommitSignUp(s) /\ ~(InsertReferral(s) /\ ~Referred(Identity[req[s].email]))
    <3>1. HoldsIdentity(s)' => HoldsIdentity(s) /\ req'[s].email = req[s].email
      <4>1. CASE SignUp(s)
        <5>1. req'[s].step = "insert"
          BY <1>0, <4>1, SignUpIs
        <5> QED
          BY <5>1 DEF HoldsIdentity
      <4>2. CASE InsertUser(s)
        <5>1. Done(s) \/ Goto(s, IF req[s].coded THEN "refer" ELSE "commit")
          BY <4>2 DEF InsertUser
        <5> QED
          BY <1>0, <5>1, DoneIs, GotoIs DEF Steps, HoldsIdentity
      <4>3. CASE InsertReferral(s)
        <5>1. Done(s)
          BY <2>4, <4>3 DEF InsertReferral
        <5> QED
          BY <1>0, <5>1, DoneIs DEF HoldsIdentity
      <4>4. CASE CountReferrals(s)
        BY <4>4, CountIs DEF HoldsIdentity, CountReferrals, In
      <4>5. CASE SelectReward(s)
        BY <1>0, <4>5, SelectIs, DoneIs DEF HoldsIdentity, SelectReward, In, Typed, HistoryTyped
      <4>6. CASE GrantReward(s)
        BY <1>0, <4>6, GotoIs DEF HoldsIdentity, GrantReward, In, Steps
      <4> QED
        BY <1>3, <2>4, <4>1, <4>2, <4>3, <4>4, <4>5, <4>6 DEF SignUpStep
    <3> QED
      BY <1>1, <2>1, <2>4, <3>1, ReferralsLeft
  <2> QED
    BY <2>2, <2>3, <2>4
<1>4. ASSUME SharedStep PROVE OnePerIdentity'
  BY <1>1, <1>4, SharedLeaves, SharedRequests, ReferralsLeft
<1> QED
  BY <1>2, <1>3, <1>4, StepIs

\* A sign-up that holds its place counts on as it did.
GrantKept(o) ==
  Granting(o)' /\ ~req'[o].crossed =>
    /\ Granting(o) /\ ~req[o].crossed /\ req'[o].seen = req[o].seen /\ req'[o].row = req[o].row
    /\ req'[o].step # "select" => req[o].step # "select"

LEMMA RewardsLeft ==
    ASSUME RewardsCounted, UNCHANGED <<referrals, rewards>>, excused'.reward = excused.reward,
           \A o \in Slots : GrantKept(o)
    PROVE  RewardsCounted'
  BY DEF RewardsCounted, GrantKept, Total

\* The row a sign-up has read is the row of the referrals it has counted.
LEMMA RewardGrows ==
    ASSUME Typed, OnePerIdentity, RewardsCounted, NEW s \in Slots, CommitSignUp(s), req[s].coded,
           ~req[s].crossed, ~excused.reward
    PROVE  Total' = Total + 1 /\ rewards' = <<RewardFor(Total + 1)>>
<1>1. /\ IsFiniteSet(referrals.by) /\ Cardinality(referrals.by) \in Nat
      /\ referrals.before \in Nat /\ Total \in Nat
  BY TotalIs
<1>2. Granting(s) /\ HoldsIdentity(s) /\ req[s].step = "commit"
  BY DEF Granting, HoldsIdentity, CommitSignUp, In
<1>3. req[s].seen = Total + 1 /\ req[s].row = Len(rewards)
  BY <1>2 DEF RewardsCounted
<1>4. req[s].email \notin referrals.by
  BY <1>2 DEF OnePerIdentity, Referred
<1>5. /\ referrals'.by = referrals.by \union {req[s].email} /\ referrals'.before = referrals.before
      /\ rewards' = IF req[s].row = 1 THEN [rewards EXCEPT ![1] = RewardFor(req[s].seen)]
                                      ELSE Append(rewards, RewardFor(req[s].seen))
  BY CommitIs
<1>6. Cardinality(referrals'.by) = Cardinality(referrals.by) + 1
  BY <1>1, <1>4, <1>5, FS_AddElement
<1>7. Total' = Total + 1
  BY <1>1, <1>5, <1>6 DEF Total
<1> DEFINE new == RewardFor(Total + 1)
<1>8. new \in Nat \X Nat /\ rewards \in Seq(Nat \X Nat)
  <2>1. Total + 1 \in Nat
    BY <1>1
  <2> QED
    BY <2>1, RewardIsPair DEF Typed, HistoryTyped
<1>9. rewards' = IF Len(rewards) = 1 THEN [rewards EXCEPT ![1] = new] ELSE Append(rewards, new)
  BY <1>3, <1>5
<1>10. Len(rewards) = 1 \/ rewards = <<>>
  BY DEF RewardsCounted
<1> HIDE DEF new
<1>11. CASE Len(rewards) = 1
  <2>1. [rewards EXCEPT ![1] = new] = <<new>>
    BY <1>8, <1>11, RowPut
  <2> QED
    BY <1>7, <1>9, <1>11, <2>1 DEF new
<1>12. CASE rewards = <<>>
  <2>1. rewards' = <<new>>
    BY <1>8, <1>9, <1>12
  <2> QED
    BY <1>7, <2>1 DEF new
<1> QED
  BY <1>10, <1>11, <1>12

LEMMA StepRewards ==
    ASSUME Typed, OnePerIdentity, RewardsCounted, [Next]_vars
    PROVE  RewardsCounted'
<1>0. RequestsTyped
  BY DEF Typed
<1>1. ASSUME NEW o \in Slots, Kept(o) PROVE GrantKept(o)
  BY <1>1 DEF Kept, GrantKept, Granting, HoldsIdentity
<1>2. ASSUME NEW s \in Slots, SessionStep(s) \/ ProtectionStep(s) \/ Fail(s) PROVE RewardsCounted'
  <2>1. UNCHANGED <<referrals, rewards>> /\ excused'.reward = excused.reward
    BY <1>2, SessionLeaves, ProtectionLeaves, FailLeaves DEF SameExcuses
  <2>2. req'[s].kind # "signup" /\ \A o \in Slots \ {s} : Kept(o)
    BY <1>2, SessionRequests, ProtectionRequests, FailRequests
  <2>3. GrantKept(s)
    BY <2>2 DEF GrantKept, Granting, HoldsIdentity
  <2> QED
    BY <1>1, <2>1, <2>2, <2>3, RewardsLeft
<1>3. ASSUME NEW s \in Slots, SignUpStep(s) PROVE RewardsCounted'
  <2>1. /\ \A o \in Slots \ {s} : Kept(o)
        /\ ~CommitSignUp(s) => UNCHANGED <<referrals, rewards>> /\ excused' = excused
    BY <1>3, SignUpRequests, SignUpLeaves
  <2>2. CASE CommitSignUp(s)
    <3>1. ~Granting(s)'
      <4>1. req'[s] = Idle
        BY <1>0, <2>2, CodedCommitIs, DoneIs DEF CommitSignUp
      <4> QED
        BY <4>1, IdleIs DEF Granting, HoldsIdentity
    <3>2. CASE ~req[s].coded
      <4>1. UNCHANGED <<referrals, rewards>> /\ excused' = excused
        BY <2>2, <3>2 DEF CommitSignUp
      <4>2. \A o \in Slots : GrantKept(o)
        BY <1>1, <2>1, <3>1 DEF GrantKept
      <4> QED
        BY <4>1, <4>2, RewardsLeft
    <3>3. CASE req[s].coded
      <4>1. \A o \in Slots \ {s} : Counted(o) => req'[o].crossed
        BY <1>0, <2>2, <3>3, CodedCommitIs
      <4>2. ASSUME NEW o \in Slots, Granting(o)' PROVE req'[o].crossed
        <5>1. o # s /\ Kept(o)
          BY <2>1, <3>1, <4>2
        <5>2. Counted(o)
          BY <4>2, <5>1 DEF Kept, Counted, Granting, HoldsIdentity
        <5> QED
          BY <4>1, <5>1, <5>2
      <4>3. excused'.reward = (excused.reward \/ req[s].crossed)
        <5>1. excused' = [excused EXCEPT !.reward = excused.reward \/ req[s].crossed]
          BY <2>2, <3>3 DEF CommitSignUp
        <5>2. (excused.reward \/ req[s].crossed) \in BOOLEAN
          OBVIOUS
        <5> QED
          BY <5>1, <5>2, Excused
      <4>4. CASE excused.reward \/ req[s].crossed
        BY <4>2, <4>3, <4>4 DEF RewardsCounted
      <4>5. CASE ~excused.reward /\ ~req[s].crossed
        <5>1. Total' = Total + 1 /\ rewards' = <<RewardFor(Total + 1)>> /\ Total \in Nat
          BY <2>2, <3>3, <4>5, RewardGrows, TotalIs
        <5> QED
          BY <4>2, <5>1 DEF RewardsCounted
      <4> QED
        BY <4>4, <4>5
    <3> QED
      BY <3>2, <3>3
  <2>3. CASE CountReferrals(s)
    <3>1. /\ UNCHANGED <<referrals, rewards, excused>>
          /\ req'[s].step = "select" /\ req'[s].seen = Total + 1
      BY <2>3, CountIs DEF CountReferrals, db, history
    <3>2. \A o \in Slots \ {s} : GrantKept(o)
      BY <1>1, <2>1
    <3> QED
      BY <3>1, <3>2 DEF RewardsCounted, GrantKept, Total
  <2>4. CASE SelectReward(s) /\ Len(rewards) <= 1
    <3>1. /\ UNCHANGED <<referrals, rewards, excused>>
          /\ req[s].step = "select"
          /\ req'[s].step = "grant" /\ req'[s].seen = req[s].seen /\ req'[s].row = Len(rewards)
          /\ req'[s].kind = req[s].kind /\ req'[s].coded = req[s].coded
          /\ req'[s].crossed = req[s].crossed
      BY <2>4, SelectIs DEF SelectReward, In, HoldsIdentity, db, history
    <3>2. \A o \in Slots \ {s} : GrantKept(o)
      BY <1>1, <2>1
    <3>3. Granting(s)' => Granting(s)
      BY <3>1 DEF Granting, HoldsIdentity
    <3>4. Granting(s) /\ ~req[s].crossed => req[s].seen = Total + 1
      BY DEF RewardsCounted
    <3>5. \A o \in Slots \ {s} : Granting(o)' /\ ~req'[o].crossed =>
            /\ req'[o].seen = Total + 1
            /\ req'[o].step # "select" => req'[o].row = Len(rewards)
      BY <3>2 DEF RewardsCounted, GrantKept
    <3>6. Total' = Total
      BY <3>1 DEF Total
    <3> QED
      BY <3>1, <3>3, <3>4, <3>5, <3>6 DEF RewardsCounted
  <2>5. CASE ~CommitSignUp(s) /\ ~CountReferrals(s) /\ ~(SelectReward(s) /\ Len(rewards) <= 1)
    <3>1. GrantKept(s)
      <4>1. CASE SignUp(s)
        BY <1>0, <4>1, SignUpIs DEF GrantKept, Granting, HoldsIdentity
      <4>2. CASE InsertUser(s)
        <5>1. Done(s) \/ Goto(s, IF req[s].coded THEN "refer" ELSE "commit")
          BY <4>2 DEF InsertUser
        <5> QED
          BY <1>0, <5>1, DoneIs, GotoIs DEF Steps, GrantKept, Granting, HoldsIdentity
      <4>3. CASE InsertReferral(s)
        <5>1. Done(s) \/ Goto(s, "count")
          BY <4>3 DEF InsertReferral
        <5> QED
          BY <1>0, <5>1, DoneIs, GotoIs DEF Steps, GrantKept, Granting, HoldsIdentity
      <4>4. CASE SelectReward(s)
        <5>1. Len(rewards) \in Nat
          BY DEF Typed, HistoryTyped
        <5>2. Done(s)
          BY <2>5, <4>4, <5>1 DEF SelectReward
        <5> QED
          BY <1>0, <5>2, DoneIs DEF GrantKept, Granting, HoldsIdentity
      <4>5. CASE GrantReward(s)
        BY <1>0, <4>5, GotoIs DEF GrantKept, Granting, HoldsIdentity, GrantReward, In, Steps
      <4> QED
        BY <1>3, <2>5, <4>1, <4>2, <4>3, <4>4, <4>5 DEF SignUpStep
    <3> QED
      BY <1>1, <2>1, <2>5, <3>1, RewardsLeft
  <2> QED
    BY <2>2, <2>3, <2>4, <2>5
<1>4. ASSUME SharedStep PROVE RewardsCounted'
  BY <1>1, <1>4, SharedLeaves, SharedRequests, RewardsLeft
<1> QED
  BY <1>2, <1>3, <1>4, StepIs

\* The highest tier there is, spelled out.
LEMMA TierReached ==
    ASSUME Total \in Nat
    PROVE  /\ Reached = {} <=> Total = 0
           /\ Total # 0 =>
                LET best == CHOOSE t \in Reached : \A u \in Reached : u[1] <= t[1]
                IN  <<best[2], best[3]>> = RewardFor(Total)
<1> DEFINE top == IF Total >= 6 THEN <<6, 3, 3>> ELSE IF Total >= 2 THEN <<2, 2, 1>> ELSE <<1, 1, 1>>
<1>0. \A t \in Tiers : t[1] \in Nat /\ t[1] >= 1
  BY DEF Tiers
<1>1. Reached = {} <=> Total = 0
  <2>1. Total = 0 => Reached = {}
    BY <1>0 DEF Reached
  <2>2. Total # 0 => <<1, 1, 1>> \in Reached
    BY DEF Reached, Tiers
  <2> QED
    BY <2>1, <2>2
<1>2. ASSUME Total # 0
      PROVE  top \in Reached /\ \A t \in Reached : (\A u \in Reached : u[1] <= t[1]) <=> t = top
  BY <1>2 DEF Reached, Tiers
<1>3. ASSUME Total # 0
      PROVE  (CHOOSE t \in Reached : \A u \in Reached : u[1] <= t[1]) = top
  BY <1>2, <1>3
<1>4. ASSUME Total # 0
      PROVE  <<top[2], top[3]>> = RewardFor(Total)
  BY <1>4 DEF RewardFor
<1> QED
  BY <1>1, <1>3, <1>4

LEMMA IdentitiesCounted ==
    ASSUME Typed, OnePerIdentity
    PROVE  Cardinality({Identity[e] : e \in referrals.by}) = Cardinality(referrals.by)
<1> DEFINE T == {Identity[e] : e \in referrals.by}
           f == [e \in referrals.by |-> Identity[e]]
<1>1. IsFiniteSet(referrals.by)
  BY TotalIs
<1>2. f \in Surjection(referrals.by, T)
  BY DEF Surjection
<1>3. f \in Injection(referrals.by, T)
  BY DEF Injection, IsInjective, OnePerIdentity
<1> HIDE DEF f
<1> QED
  BY <1>1, <1>2, <1>3, FS_Surjection

LEMMA RewardKept ==
    ASSUME Typed, OnePerIdentity, RewardsCounted
    PROVE  RewardUnlessRaced
  BY IdentitiesCounted, TotalIs, TierReached DEF RewardsCounted, RewardUnlessRaced
-----------------------------------------------------------------------------
(* The inductive invariant and what it implies.                            *)

LEMMA InitIInv == Init => IInv
<1> SUFFICES ASSUME Init PROVE IInv
  OBVIOUS
<1>1. req = [s \in Slots |-> Idle] /\ \A s \in Slots : req[s] = Idle
  BY DEF Init
<1>2. RequestsTyped
  BY <1>1, IdleIs DEF RequestsTyped
<1>3. PICK n \in Nat : /\ referrals = [before |-> n, by |-> {}]
                       /\ rewards = IF n = 0 THEN <<>> ELSE <<RewardFor(n)>>
  BY AccountsAssumption DEF Init
<1>4. Total = n
  BY <1>3, FS_EmptySet DEF Total
<1>5. rewards \in Seq(Nat \X Nat)
  <2>1. PICK r \in Nat \X Nat : rewards = IF n = 0 THEN <<>> ELSE <<r>>
    BY <1>3, RewardIsPair
  <2> QED
    BY <2>1
<1>6. TypeOK /\ StoreTyped
  <2>1. account \in [legacy : BOOLEAN, suspended : BOOLEAN, secret : Nat, twofa : BOOLEAN]
    BY DEF Init
  <2>2. issued \in 1 .. MaxTokens /\ keys \subseteq 1 .. issued /\ endless \subseteq {Orphan}
    BY AccountsAssumption DEF Init
  <2>3. StoreTyped /\ store.access = "fresh" /\ store.refresh = 1 /\ issued = 1
    BY DEF Init, StoreTyped
  <2>4. users \subseteq Emails /\ referrals.by \subseteq users
    BY <1>3 DEF Init
  <2> QED
    BY <2>1, <2>2, <2>3, <2>4 DEF Init, TypeOK
<1>7. HistoryTyped
  <2>1. excused \in Excuses
    BY DEF Init, Excuses
  <2> QED
    BY <1>3, <1>5, <2>1 DEF Init, HistoryTyped
<1>8. Tokens
  BY AccountsAssumption DEF Init, Tokens, TokensTyped, EndOnce, NextTokensFresh, Orphan
<1>9. StoreInv /\ FactorInv
  <2>1. store.refresh # NoToken /\ ~account.twofa
    BY DEF Init, NoToken
  <2> QED
    BY <1>1, <2>1, IdleIs
       DEF StoreInv, LogoutSticksUnlessRefreshing, RefreshesNoticed,
           FactorInv, SecondFactorProvenUnlessOverlapped, FactorsNoticed
<1>10. ResetsCounted
  <2>1. \A k \in ResetTokens : used[k] = 0 /\ Resetting(k) = {}
    BY <1>1, IdleIs DEF Init, Resetting
  <2> QED
    BY <2>1 DEF ResetsCounted
<1>11. \A s \in Slots : ~HoldsIdentity(s) /\ ~Granting(s)
  BY <1>1, IdleIs DEF HoldsIdentity, Granting
<1>12. OnePerIdentity /\ RewardsCounted
  BY <1>3, <1>4, <1>11 DEF OnePerIdentity, RewardsCounted
<1> QED
  BY <1>2, <1>6, <1>7, <1>8, <1>9, <1>10, <1>12 DEF IInv, Typed

LEMMA Invariance == Spec => []IInv
<1>1. IInv /\ [Next]_vars => IInv'
  BY StepTyped, StepTokens, StepStore, StepFactor, StepResets, StepReferrals, StepRewards DEF IInv
<1> QED
  BY InitIInv, <1>1, PTL DEF Spec

\* A refresh token ends once, however many requests and tabs present it
\* (rotate_refresh_token, revoke_refresh_token): one DEL decides.
THEOREM EndsOnce == Spec => []SessionsEndOnce
<1>1. IInv => SessionsEndOnce
  BY DEF IInv, Typed, Tokens, EndOnce, SessionsEndOnce
<1> QED
  BY <1>1, Invariance, PTL

\* A logout stays, unless a tab was refreshing when the store was cleared
\* (logoutAndRevoke and the interceptor of apiClient.js).
THEOREM LogoutSticks == Spec => []LogoutSticksUnlessRefreshing
<1>1. IInv => LogoutSticksUnlessRefreshing
  BY DEF IInv, StoreInv
<1> QED
  BY <1>1, Invariance, PTL

\* A second factor that is on can be passed, unless enabling and verifying it
\* overlapped (twofa_enable, twofa_verify).
THEOREM SecondFactorProven == Spec => []SecondFactorProvenUnlessOverlapped
<1>1. IInv => SecondFactorProvenUnlessOverlapped
  BY DEF IInv, FactorInv
<1> QED
  BY <1>1, Invariance, PTL

\* A reset token sets a password once, unless two requests held it together or one
\* was cut off before it deleted the token (password_reset).
THEOREM ResetOnce == Spec => []ResetOnceUnlessInterrupted
<1>1. IInv => ResetOnceUnlessInterrupted
  BY DEF IInv, ResetsCounted, ResetOnceUnlessInterrupted
<1> QED
  BY <1>1, Invariance, PTL

\* The account has the reward its referrals have earned, and an identity counts
\* once, unless two referred sign-ups overlapped (_upsert_reward).
THEOREM RewardEarned == Spec => []RewardUnlessRaced
<1>1. IInv => RewardUnlessRaced
  BY RewardKept DEF IInv
<1> QED
  BY <1>1, Invariance, PTL
=============================================================================
