------------------------------ MODULE Accounts ------------------------------
(***************************************************************************)
(* Accounts: sign-up with referrals, sign-in, token refresh, logout, two   *)
(* factors and password reset (src/app/api/v1/auth.py, core/security/jwt,  *)
(* services/referral_service.py, workers/session_cleanup.py), with the     *)
(* browser whose tabs share one pair of tokens (web/src/lib/apiClient.js). *)
(*                                                                         *)
(* One account is followed: its sessions, its second factor, its password  *)
(* resets, and the rewards it earns when others sign up with its code.     *)
(* Requests run in the lowest free slot and are cut at their awaits.       *)
(***************************************************************************)
EXTENDS Integers, Sequences, FiniteSets

CONSTANTS Slots,       \* requests that may be open at once
          Emails,      \* e-mail addresses that sign up
          Identity,    \* [Emails -> identities]: addresses equal but for case are one identity
          Earlier,     \* numbers of referrals the account may already have
          ResetTokens, \* password-reset tokens
          MaxTokens,   \* highest refresh token
          MaxRequests, MaxEvents   \* bounds of the exploration

ASSUME AccountsAssumption ==
    /\ Earlier \subseteq Nat /\ MaxTokens \in Nat \ {0}
    /\ IsFiniteSet(Emails) /\ DOMAIN Identity = Emails

VARIABLES account,   \* row of users and organizations: legacy, suspended, secret, twofa
          proven,    \* secrets the user has shown a code for
          users,     \* addresses that have an account
          referrals, \* addresses referred by the account; history: how many there were before
          rewards,   \* rows of referral_rewards: sequence of <<devices, months>>
          keys,      \* refresh:{jti} records in Redis with a TTL
          endless,   \* such records without one
          issued,    \* refresh tokens issued so far
          store,     \* the tokens in localStorage
          resets,    \* iotaps:pwreset keys: "none", "live" or "gone"
          req,       \* the request in each slot
          spent, ends, used, excused   \* bounds and history

vars == <<account, proven, users, referrals, rewards, keys, endless, issued, store, resets,
          req, spent, ends, used, excused>>
db == <<account, proven, users, referrals, rewards>>
redis == <<keys, endless, issued, resets>>
history == <<ends, used, excused>>

NoToken == -1
Orphan == 0     \* a record written without a TTL before the model starts
SignedOut == [access |-> "none", refresh |-> NoToken]
Idle == [kind |-> "none", step |-> "none", email |-> "none", ref |-> NoToken, seen |-> 0, row |-> 0,
         coded |-> FALSE, crossed |-> FALSE]

In(s, kind, step) == req[s].kind = kind /\ req[s].step = step
Begin(s, q) ==
    /\ req[s] = Idle /\ \A o \in Slots : o < s => req[o] # Idle
    /\ spent.requests < MaxRequests
    /\ req' = [req EXCEPT ![s] = q]
    /\ spent' = [spent EXCEPT !.requests = @ + 1]
(* What happens on its own: a failure, an expiry, an administrator.        *)
Event == spent.events < MaxEvents /\ spent' = [spent EXCEPT !.events = @ + 1]
Goto(s, step) == req' = [req EXCEPT ![s].step = step]
Done(s) == req' = [req EXCEPT ![s] = Idle]

-----------------------------------------------------------------------------
(* Sign-up and referrals: one transaction of several statements.           *)

(* reward_for_referral_count: <<devices, months>> of the highest tier.     *)
(* Mutant: the second tier begins one referral late.                       *)
RewardLate(count) ==
    IF count >= 6 THEN <<3, 3>> ELSE IF count > 2 THEN <<2, 1>> ELSE IF count >= 1 THEN <<1, 1>> ELSE <<0, 0>>
RewardFor(count) ==
    IF count >= 6 THEN <<3, 3>> ELSE IF count >= 2 THEN <<2, 1>> ELSE IF count >= 1 THEN <<1, 1>> ELSE <<0, 0>>

Total == referrals.before + Cardinality(referrals.by)
Referred(id) == id \in {Identity[e] : e \in referrals.by}

(* A unique index makes an insert wait for the open transaction that has   *)
(* inserted the same value.                                                *)
HoldsEmail(s) == req[s].kind = "signup" /\ req[s].step # "insert"
HoldsIdentity(s) == req[s].kind = "signup" /\ req[s].coded /\ req[s].step \in {"count", "select", "grant", "commit"}
EmailTaken(s) == \E o \in Slots \ {s} : HoldsEmail(o) /\ req[o].email = req[s].email
IdentityTaken(s) == \E o \in Slots \ {s} : HoldsIdentity(o) /\ Identity[req[o].email] = Identity[req[s].email]

(* register: no account with the address is found.                         *)
SignUp(s) == \E e \in Emails \ users, coded \in BOOLEAN :
    /\ Begin(s, [Idle EXCEPT !.kind = "signup", !.step = "insert", !.email = e, !.coded = coded])
    /\ UNCHANGED <<db, redis, store, history>>

(* The user and an organization of its own are flushed; an address another *)
(* sign-up has committed meanwhile fails the request.                      *)
InsertUser(s) ==
    /\ In(s, "signup", "insert") /\ ~EmailTaken(s)
    /\ IF req[s].email \in users THEN Done(s)
       ELSE Goto(s, IF req[s].coded THEN "refer" ELSE "commit")
    /\ UNCHANGED <<db, redis, store, spent, history>>

(* record_referral: an identity that was referred before, found by the     *)
(* SELECT or by the unique index, fails the whole sign-up.                 *)
InsertReferral(s) ==
    /\ In(s, "signup", "refer") /\ ~IdentityTaken(s)
    /\ IF Referred(Identity[req[s].email]) THEN Done(s) ELSE Goto(s, "count")
    /\ UNCHANGED <<db, redis, store, spent, history>>

(* _count_confirmed_referrals: the committed ones and its own.             *)
CountReferrals(s) ==
    /\ In(s, "signup", "count")
    /\ req' = [req EXCEPT ![s].step = "select", ![s].seen = Total + 1]
    /\ UNCHANGED <<db, redis, store, spent, history>>

(* _upsert_reward: the reward row is read; scalar_one_or_none raises when  *)
(* there are two.                                                          *)
SelectReward(s) ==
    /\ In(s, "signup", "select")
    /\ IF Len(rewards) > 1 THEN Done(s)
       ELSE req' = [req EXCEPT ![s].step = "grant", ![s].row = Len(rewards)]
    /\ UNCHANGED <<db, redis, store, spent, history>>

(* _upsert_reward: a new row is inserted, or the one that was read is      *)
(* updated, after any open transaction that has updated it.                *)
GrantReward(s) ==
    /\ In(s, "signup", "grant")
    /\ req[s].row = 1 => \A o \in Slots \ {s} : ~(In(o, "signup", "commit") /\ req[o].coded /\ req[o].row = 1)
    /\ Goto(s, "commit")
    /\ UNCHANGED <<db, redis, store, spent, history>>

(* register commits.  History: another sign-up that has counted without    *)
(* this one is crossed.                                                    *)
CommitSignUp(s) ==
    LET q == req[s]
        reward == RewardFor(q.seen)
    IN
    /\ In(s, "signup", "commit")
    /\ users' = users \union {q.email}
    /\ IF q.coded
       THEN /\ referrals' = [referrals EXCEPT !.by = @ \union {q.email}]
            /\ rewards' = IF q.row = 1 THEN [rewards EXCEPT ![1] = reward] ELSE Append(rewards, reward)
            /\ req' = [o \in Slots |->
                  IF o = s THEN Idle
                  ELSE [req[o] EXCEPT !.crossed = @ \/ (req[o].kind = "signup" /\ req[o].coded
                                                        /\ req[o].step \in {"select", "grant", "commit"})]]
            /\ excused' = [excused EXCEPT !.reward = @ \/ q.crossed]
       ELSE /\ UNCHANGED <<referrals, rewards, excused>>
            /\ Done(s)
    /\ UNCHANGED <<account, proven, redis, store, spent, ends, used>>

-----------------------------------------------------------------------------
(* Sessions.                                                               *)

(* login and oauth_google: the password (of an accepted format) and the    *)
(* second factor, or a Google identity, and no suspension.                 *)
SignIn(s) == \E oauth \in BOOLEAN :
    /\ ~account.suspended
    /\ oauth \/ (~account.legacy /\ (account.twofa => account.secret \in proven))
    /\ Begin(s, [Idle EXCEPT !.kind = "login", !.step = "issue"])
    /\ UNCHANGED <<db, redis, store, history>>

(* issue_refresh_token: SET with the lifetime of the token.                *)
NewRecord == issued < MaxTokens /\ issued' = issued + 1 /\ keys' = keys \union {issued + 1}
IssueAtSignIn(s) ==
    /\ In(s, "login", "issue")
    /\ NewRecord
    /\ Done(s)
    /\ store' = [access |-> "fresh", refresh |-> issued + 1]
    /\ excused' = [excused EXCEPT !.logout = FALSE]
    /\ UNCHANGED <<db, endless, resets, spent, ends, used>>

(* The interceptor of a tab meets a 401 and refreshes with the stored      *)
(* token; a tab has one refresh at a time.                                 *)
Refresh(s) ==
    /\ store.access = "stale" /\ store.refresh # NoToken
    /\ Begin(s, [Idle EXCEPT !.kind = "refresh", !.step = "rotate", !.ref = store.refresh])
    /\ UNCHANGED <<db, redis, store, history>>

(* rotate_refresh_token: one DEL decides who may use the token.            *)
(* Mutant: the record is looked up, and deleted with the new one's SET.    *)
LookUpOnly(s) ==
    /\ In(s, "refresh", "rotate")
    /\ ends' = IF req[s].ref \in keys THEN [ends EXCEPT ![req[s].ref] = @ + 1] ELSE ends
    /\ UNCHANGED keys
    /\ Goto(s, IF req[s].ref \in keys THEN "issue" ELSE "denied")
    /\ UNCHANGED <<db, endless, issued, resets, store, spent, used, excused>>
Rotate(s) ==
    /\ In(s, "refresh", "rotate")
    /\ ends' = IF req[s].ref \in keys THEN [ends EXCEPT ![req[s].ref] = @ + 1] ELSE ends
    /\ keys' = keys \ {req[s].ref}
    /\ Goto(s, IF req[s].ref \in keys THEN "issue" ELSE "denied")
    /\ UNCHANGED <<db, endless, issued, resets, store, spent, used, excused>>

(* The new record is written; its token is dropped by the endpoint.        *)
IssueAtRefresh(s) ==
    /\ In(s, "refresh", "issue")
    /\ NewRecord
    /\ Goto(s, "answer")
    /\ UNCHANGED <<db, endless, resets, store, spent, history>>

(* The tab stores the new access token next to whatever is there.          *)
AnswerRefresh(s) ==
    /\ In(s, "refresh", "answer")
    /\ store' = [store EXCEPT !.access = "fresh"]
    /\ Done(s)
    /\ excused' = [excused EXCEPT !.logout = @ \/ req[s].crossed]
    /\ UNCHANGED <<db, redis, spent, ends, used>>

(* A refresh that fails for any reason clears the stored tokens.  History: *)
(* a refresh of another tab is crossed.                                    *)
Crossing(s, kind) == [o \in Slots |-> IF o = s THEN Idle
                                      ELSE [req[o] EXCEPT !.crossed = @ \/ req[o].kind = kind]]
DenyRefresh(s) ==
    /\ In(s, "refresh", "denied")
    /\ store' = SignedOut
    /\ req' = Crossing(s, "refresh")
    /\ UNCHANGED <<db, redis, spent, history>>
GiveUp ==
    /\ store.access = "stale" /\ store.refresh = NoToken
    /\ store' = SignedOut
    /\ req' = [o \in Slots |-> [req[o] EXCEPT !.crossed = @ \/ req[o].kind = "refresh"]]
    /\ UNCHANGED <<db, redis, spent, history>>

(* logoutAndRevoke: the token is read, revoked, and the store cleared,     *)
(* whether the revocation worked or not.                                   *)
LogOut(s) ==
    /\ store # SignedOut
    /\ Begin(s, [Idle EXCEPT !.kind = "logout", !.step = "revoke", !.ref = store.refresh])
    /\ UNCHANGED <<db, redis, store, history>>
Revoke(s) ==
    /\ In(s, "logout", "revoke")
    /\ ends' = IF req[s].ref \in keys THEN [ends EXCEPT ![req[s].ref] = @ + 1] ELSE ends
    /\ keys' = keys \ {req[s].ref}
    /\ Goto(s, "clear")
    /\ UNCHANGED <<db, endless, issued, resets, store, spent, used, excused>>
(* Mutant: the access token is left in the store.                          *)
ClearRefreshOnly(s) ==
    /\ In(s, "logout", "clear")
    /\ store' = [store EXCEPT !.refresh = NoToken]
    /\ req' = Crossing(s, "refresh")
    /\ UNCHANGED <<db, redis, spent, history>>
ClearStore(s) ==
    /\ In(s, "logout", "clear")
    /\ store' = SignedOut
    /\ req' = Crossing(s, "refresh")
    /\ UNCHANGED <<db, redis, spent, history>>

(* Tokens run out: the access token, and a record in Redis.                *)
AccessExpires ==
    /\ store.access = "fresh"
    /\ store' = [store EXCEPT !.access = "stale"]
    /\ UNCHANGED <<db, redis, req, spent, history>>
RecordExpires == \E j \in keys :
    /\ Event
    /\ keys' = keys \ {j}
    /\ ends' = [ends EXCEPT ![j] = @ + 1]
    /\ UNCHANGED <<db, endless, issued, resets, store, req, used, excused>>

SweepRecord == \E j \in endless :
    /\ endless' = endless \ {j}
    /\ UNCHANGED <<db, keys, issued, resets, store, req, spent, history>>

-----------------------------------------------------------------------------
(* Second factor, password reset, suspension.                              *)

(* twofa_enable: the row is read; a new secret is committed, and the flag  *)
(* is written if it was read as set.                                       *)
EnableTwoFA(s) ==
    /\ Begin(s, [Idle EXCEPT !.kind = "enable", !.step = "commit", !.seen = IF account.twofa THEN 1 ELSE 0])
    /\ UNCHANGED <<db, redis, store, history>>
(* Mutant: the flag of the old secret is kept.                             *)
KeepTwoFA(s) ==
    /\ In(s, "enable", "commit")
    /\ account' = [account EXCEPT !.secret = @ + 1]
    /\ req' = Crossing(s, "verify")
    /\ excused' = [excused EXCEPT !.twofa = req[s].crossed]
    /\ UNCHANGED <<proven, users, referrals, rewards, redis, store, spent, ends, used>>
CommitEnable(s) ==
    /\ In(s, "enable", "commit")
    /\ account' = [account EXCEPT !.secret = @ + 1, !.twofa = IF req[s].seen = 1 THEN FALSE ELSE @]
    /\ req' = Crossing(s, "verify")
    /\ excused' = [excused EXCEPT !.twofa = req[s].crossed]
    /\ UNCHANGED <<proven, users, referrals, rewards, redis, store, spent, ends, used>>

(* twofa_verify: a code of the secret that was read sets the flag.         *)
VerifyTwoFA(s) ==
    /\ account.secret # 0
    /\ Begin(s, [Idle EXCEPT !.kind = "verify", !.step = "commit", !.seen = IF account.twofa THEN 1 ELSE 0])
    /\ proven' = proven \union {account.secret}
    /\ UNCHANGED <<account, users, referrals, rewards, redis, store, history>>
CommitVerify(s) ==
    /\ In(s, "verify", "commit")
    /\ account' = [account EXCEPT !.twofa = IF req[s].seen = 0 THEN TRUE ELSE @]
    /\ req' = Crossing(s, "enable")
    /\ excused' = [excused EXCEPT !.twofa = req[s].crossed]
    /\ UNCHANGED <<proven, users, referrals, rewards, redis, store, spent, ends, used>>

(* password_reset_request, and the expiry of its token.                    *)
RequestReset == \E k \in ResetTokens :
    /\ resets[k] = "none"
    /\ resets' = [resets EXCEPT ![k] = "live"]
    /\ UNCHANGED <<db, keys, endless, issued, store, req, spent, history>>
ResetExpires == \E k \in ResetTokens :
    /\ resets[k] = "live"
    /\ Event
    /\ resets' = [resets EXCEPT ![k] = "gone"]
    /\ UNCHANGED <<db, keys, endless, issued, store, req, history>>

(* password_reset: GET, commit, DEL.  History: the requests that find the  *)
(* token of another one still there.                                       *)
ReadReset(s) == \E k \in ResetTokens :
    /\ resets[k] = "live"
    /\ Begin(s, [Idle EXCEPT !.kind = "reset", !.step = "commit", !.ref = k])
    /\ excused' = IF \E o \in Slots : req[o].kind = "reset" /\ req[o].ref = k
                  THEN [excused EXCEPT !.reset = @ \union {k}] ELSE excused
    /\ UNCHANGED <<db, redis, store, ends, used>>
CommitReset(s) ==
    /\ In(s, "reset", "commit")
    /\ account' = [account EXCEPT !.legacy = FALSE]
    /\ used' = [used EXCEPT ![req[s].ref] = @ + 1]
    /\ Goto(s, "delete")
    /\ UNCHANGED <<proven, users, referrals, rewards, redis, store, spent, ends, excused>>
(* Mutant: the token is left to its TTL.                                   *)
KeepReset(s) ==
    /\ In(s, "reset", "delete")
    /\ Done(s)
    /\ UNCHANGED <<db, redis, store, spent, history>>
DeleteReset(s) ==
    /\ In(s, "reset", "delete")
    /\ resets' = [resets EXCEPT ![req[s].ref] = "gone"]
    /\ Done(s)
    /\ UNCHANGED <<db, keys, endless, issued, store, spent, history>>

(* set_company_status, by an administrator.                                *)
SetSuspended ==
    /\ Event
    /\ account' = [account EXCEPT !.suspended = ~@]
    /\ UNCHANGED <<proven, users, referrals, rewards, redis, store, req, history>>

(* A statement raises, a process dies or the answer is lost: transactions  *)
(* roll back, what Redis was told stays, and the browser goes on.          *)
Fail(s) ==
    /\ req[s] # Idle /\ req[s].step \notin {"denied", "clear"}
    /\ Event
    /\ CASE req[s].kind = "refresh" -> Goto(s, "denied")
         [] req[s].kind = "logout" -> Goto(s, "clear")
         [] OTHER -> Done(s)
    /\ excused' = IF In(s, "reset", "delete") THEN [excused EXCEPT !.reset = @ \union {req[s].ref}] ELSE excused
    /\ UNCHANGED <<db, redis, store, ends, used>>

-----------------------------------------------------------------------------
Init ==
    /\ \E legacy \in BOOLEAN :
           account = [legacy |-> legacy, suspended |-> FALSE, secret |-> 0, twofa |-> FALSE]
    /\ proven = {} /\ users = {}
    /\ \E n \in Earlier :
           /\ referrals = [before |-> n, by |-> {}]
           /\ rewards = IF n = 0 THEN <<>> ELSE <<RewardFor(n)>>
    /\ keys = {1} /\ endless = {Orphan} /\ issued = 1
    /\ store = [access |-> "fresh", refresh |-> 1]
    /\ resets = [k \in ResetTokens |-> "none"]
    /\ req = [s \in Slots |-> Idle]
    /\ spent = [requests |-> 0, events |-> 0]
    /\ ends = [j \in Orphan .. MaxTokens |-> 0]
    /\ used = [k \in ResetTokens |-> 0]
    /\ excused = [reward |-> FALSE, twofa |-> FALSE, reset |-> {}, logout |-> FALSE]

SignUpStep(s) == \/ SignUp(s) \/ InsertUser(s) \/ InsertReferral(s) \/ CountReferrals(s)
                 \/ SelectReward(s) \/ GrantReward(s) \/ CommitSignUp(s)
SessionStep(s) == \/ SignIn(s) \/ IssueAtSignIn(s) \/ Refresh(s) \/ Rotate(s) \/ IssueAtRefresh(s)
                  \/ AnswerRefresh(s) \/ DenyRefresh(s) \/ LogOut(s) \/ Revoke(s) \/ ClearStore(s)
ProtectionStep(s) == \/ EnableTwoFA(s) \/ CommitEnable(s) \/ VerifyTwoFA(s) \/ CommitVerify(s)
                     \/ ReadReset(s) \/ CommitReset(s) \/ DeleteReset(s)

Next ==
    \/ \E s \in Slots : SignUpStep(s) \/ SessionStep(s) \/ ProtectionStep(s) \/ Fail(s)
    \/ GiveUp \/ AccessExpires \/ RecordExpires \/ SweepRecord
    \/ RequestReset \/ ResetExpires \/ SetSuspended

Spec == Init /\ [][Next]_vars

-----------------------------------------------------------------------------
(* Properties.                                                             *)

TypeOK ==
    /\ account \in [legacy : BOOLEAN, suspended : BOOLEAN, secret : Nat, twofa : BOOLEAN]
    /\ users \subseteq Emails /\ referrals.by \subseteq users
    /\ keys \subseteq 1 .. issued /\ endless \subseteq {Orphan} /\ issued \in 1 .. MaxTokens
    /\ store.access \in {"none", "fresh", "stale"} /\ store.refresh \in {NoToken} \union 1 .. issued
    /\ resets \in [ResetTokens -> {"none", "live", "gone"}]

(* Every refresh token ends exactly once: refreshed, revoked or expired,   *)
(* whichever comes first, however many tabs and requests present it        *)
(* (rotate_refresh_token, revoke_refresh_token), and Session_Cleanup never *)
(* ends one that has a TTL.                                                *)
SessionsEndOnce ==
    /\ TypeOK
    /\ \A j \in 1 .. issued : ends[j] = IF j \in keys THEN 0 ELSE 1

(* A browser that holds an access token also holds the refresh token of    *)
(* its sign-in, unless the store was cleared while another tab refreshed   *)
(* (logoutAndRevoke and the interceptor of apiClient.js share the store):  *)
(* a logout is otherwise final.                                            *)
LogoutSticksUnlessRefreshing ==
    store.access # "none" /\ store.refresh = NoToken => excused.logout

(* A second factor that is on can be passed: the user has shown a code of  *)
(* the secret in force, unless enabling and verifying overlapped.          *)
SecondFactorProvenUnlessOverlapped ==
    account.twofa => account.secret \in proven \/ excused.twofa

(* "One-time use": a reset token sets a password once, unless two requests *)
(* used it at the same time or one was cut off between its commit and the  *)
(* deletion of the token.                                                  *)
ResetOnceUnlessInterrupted == \A k \in ResetTokens : used[k] > 1 => k \in excused.reset

(* The reward of the account is the highest tier its referrals reach, in   *)
(* one row, and an identity counts once, unless two referred sign-ups      *)
(* overlapped after one of them had counted (_upsert_reward).  The table   *)
(* is that of the documentation: <<referrals, devices, months>>.           *)
Tiers == {<<1, 1, 1>>, <<2, 2, 1>>, <<6, 3, 3>>}
Reached == {t \in Tiers : t[1] <= Total}
RewardUnlessRaced ==
    /\ Cardinality({Identity[e] : e \in referrals.by}) = Cardinality(referrals.by)
    /\ excused.reward \/ rewards = IF Reached = {} THEN <<>>
          ELSE LET best == CHOOSE t \in Reached : \A u \in Reached : u[1] <= t[1]
               IN  <<<<best[2], best[3]>>>>
=============================================================================
