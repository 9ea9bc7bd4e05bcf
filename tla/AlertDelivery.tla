--------------------------- MODULE AlertDelivery ---------------------------
(***************************************************************************)
(* From the actions of a rule to its users and webhooks                    *)
(* (RedisActionSink of src/app/workers/alert_checker.py,                   *)
(* src/app/workers/notification_sender.py and webhook_dispatcher.py).      *)
(*                                                                         *)
(* The sink publishes on Redis pub/sub, which hands a message to whoever   *)
(* is subscribed and forgets it.  The Notification_Sender works off its    *)
(* alerts one at a time, channel by channel; the Webhook_Dispatcher runs a *)
(* task per event and retries.  Both drain when stopped, and both keep     *)
(* what they have not finished in memory only.                             *)
(***************************************************************************)
EXTENDS Integers, Sequences, FiniteSets, SequencesExt, Functions

CONSTANTS Recipients,  \* the users of the organization: [user, enabled, addresses]
          Wired,       \* the channels that have a sender or persister
          OrgNamed,    \* whether the alert messages may name the organization: subset of BOOLEAN
          Policies,    \* the retry policies of webhook messages: records of a config's keys
          Malformed,   \* a value of a config that is no number
          MaxAlerts, MaxHooks, MaxTurns   \* bounds of the exploration

ChannelOrder == <<"telegram", "email", "push", "in_app">>

ASSUME AlertDeliveryAssumption ==
    /\ OrgNamed \subseteq BOOLEAN /\ IsFiniteSet(Recipients)
    /\ \A r \in Recipients : r.enabled \subseteq ToSet(ChannelOrder)
    /\ \A r, s \in Recipients : r.user = s.user => r = s
    /\ \A policy \in Policies : \A key \in DOMAIN policy : policy[key] \in {Malformed} \union Int

VARIABLES notifier, dispatcher,  \* the processes: "up", "draining" or "down"
          inbox,     \* alerts buffered for the notifier
          current,   \* the alert it delivers, with the <<user, channel>> pairs ahead
          alerts,    \* every alert published: its organization and what became of it
          log,       \* calls of senders and of the persister, in their order
          hooks,     \* every webhook event published, with its delivery
          turns      \* stops and crashes so far

vars == <<notifier, dispatcher, inbox, current, alerts, log, hooks, turns>>
notifying == <<notifier, inbox, current, alerts, log>>
dispatching == <<dispatcher, hooks>>

Nothing == [alert |-> 0, ahead |-> <<>>]

-----------------------------------------------------------------------------
(* The pure core: channels and retry policies.                             *)

(* address_for: in-app needs no address.                                   *)
AddressFor(r, channel) == channel \in r.addresses \union {"in_app"}

(* channels_to_deliver: a call for each channel that is enabled and        *)
(* addressable, in canonical order.                                        *)
Delivers(r, channel) == channel \in r.enabled /\ AddressFor(r, channel)
ChannelsToDeliver(r) == FlattenSeq([i \in DOMAIN ChannelOrder |->
    IF Delivers(r, ChannelOrder[i]) THEN <<<<r.user, ChannelOrder[i]>>>> ELSE <<>>])

(* from_config: the first spelling present counts, a malformed value is    *)
(* the default, and max_retries alone does not include the first attempt.  *)
DefaultMaxAttempts == 3
FirstOf(config, keys, default) ==
    LET present == {i \in DOMAIN keys : keys[i] \in DOMAIN config}
        given == config[keys[Min(present)]]
    IN  IF present = {} \/ given = Malformed THEN default ELSE given
AttemptsOf(config) ==
    LET given == FirstOf(config, <<"max_attempts", "max_retries", "attempts">>, DefaultMaxAttempts)
        extra == IF DOMAIN config \intersect {"max_attempts", "max_retries", "attempts"} = {"max_retries"}
                 THEN 1 ELSE 0
        total == given + extra
    IN  IF total < 1 THEN 1 ELSE total

(* backoff_for_retry: exponential up to a maximum, in whole seconds.       *)
BackoffForRetry(config, i) ==
    LET initial == FirstOf(config, <<"backoff_initial", "backoff", "initial_delay", "delay">>, 1)
        factor == FirstOf(config, <<"backoff_factor", "factor", "multiplier">>, 2)
        most == FirstOf(config, <<"backoff_max", "max_backoff", "max_delay">>, 60)
        NoLess(n) == IF n < 0 THEN 0 ELSE n
        delay == NoLess(initial) * NoLess(factor) ^ i
    IN  IF delay < NoLess(most) THEN delay ELSE NoLess(most)

-----------------------------------------------------------------------------
(* RedisActionSink: fire and forget.  A worker that drains is still        *)
(* subscribed, but does not read any more.                                 *)

(* _do_notify: org_id is not among the fields it publishes; messages that  *)
(* name it are those of parse_alert_event's contract.                      *)
PublishAlert == \E org \in OrgNamed :
    /\ Len(alerts) < MaxAlerts
    /\ alerts' = Append(alerts, [org |-> org, fate |-> IF notifier = "down" THEN "missed" ELSE "inbox"])
    /\ inbox' = IF notifier = "down" THEN inbox ELSE Append(inbox, Len(alerts) + 1)
    /\ UNCHANGED <<notifier, current, log, dispatching, turns>>

(* _do_webhook, and the parsing of what it publishes: the event goes into  *)
(* a task of its own, so nothing is ever queued in front of it.            *)
PublishHook == \E policy \in Policies :
    /\ Len(hooks) < MaxHooks
    /\ hooks' = Append(hooks, [policy |-> policy, phase |-> IF dispatcher = "up" THEN "ready" ELSE "missed",
                               attempts |-> 0, handled |-> 0, seen |-> FALSE, strays |-> 0, unanswered |-> 0])
    /\ UNCHANGED <<notifying, dispatcher, turns>>

-----------------------------------------------------------------------------
(* The Notification_Sender.                                                *)

Busy == current # Nothing

(* The users of the organization in whatever order the database gives,     *)
(* each with its channels; an alert without organization has no recipient. *)
Plan(order) == FlattenSeq([i \in DOMAIN order |-> ChannelsToDeliver(order[i])])

(* run: the next alert and its recipients.                                 *)
LoadRecipients == \E order \in [1 .. Cardinality(Recipients) -> Recipients] :
    /\ notifier = "up" /\ ~Busy /\ inbox # <<>>
    /\ IsInjective(order)
    /\ inbox' = Tail(inbox)
    /\ LET a == Head(inbox)
           plan == IF alerts[a].org THEN Plan(order) ELSE <<>>
       IN  IF plan = <<>>
           THEN /\ alerts' = [alerts EXCEPT ![a].fate = "done"]
                /\ UNCHANGED current
           ELSE /\ current' = [alert |-> a, ahead |-> plan]
                /\ UNCHANGED alerts
    /\ UNCHANGED <<notifier, log, dispatching, turns>>

(* The recipients cannot be loaded: the event is logged and passed over.   *)
LoadFails ==
    /\ notifier = "up" /\ ~Busy /\ inbox # <<>>
    /\ alerts[Head(inbox)].org
    /\ inbox' = Tail(inbox)
    /\ alerts' = [alerts EXCEPT ![Head(inbox)].fate = "unloaded"]
    /\ UNCHANGED <<notifier, current, log, dispatching, turns>>

(* deliver_to_recipient: one channel; an unwired one raises, any other may *)
(* raise, and the rest is tried all the same.                              *)
(* Mutant: the first channel that fails ends the alert.                    *)
GiveUpChannel == \E ok \in BOOLEAN :
    /\ notifier # "down" /\ Busy
    /\ LET call == Head(current.ahead)
           left == IF ok THEN Tail(current.ahead) ELSE <<>>
       IN  /\ ok => call[2] \in Wired
           /\ log' = Append(log, [alert |-> current.alert, user |-> call[1], channel |-> call[2]])
           /\ current' = IF left = <<>> THEN Nothing ELSE [current EXCEPT !.ahead = left]
           /\ alerts' = IF left = <<>> THEN [alerts EXCEPT ![current.alert].fate = "done"] ELSE alerts
    /\ UNCHANGED <<notifier, inbox, dispatching, turns>>
DeliverChannel == \E ok \in BOOLEAN :
    /\ notifier # "down" /\ Busy
    /\ LET call == Head(current.ahead)
           left == Tail(current.ahead)
       IN  /\ ok => call[2] \in Wired
           /\ log' = Append(log, [alert |-> current.alert, user |-> call[1], channel |-> call[2]])
           /\ current' = IF left = <<>> THEN Nothing ELSE [current EXCEPT !.ahead = left]
           /\ alerts' = IF left = <<>> THEN [alerts EXCEPT ![current.alert].fate = "done"] ELSE alerts
    /\ UNCHANGED <<notifier, inbox, dispatching, turns>>

-----------------------------------------------------------------------------
(* The Webhook_Dispatcher.  A request is on its way from Post to the end   *)
(* of the attempt; the endpoint may see it in between, or after the        *)
(* dispatcher has given it up (a stray).                                   *)

InTask(h) == dispatcher # "down" /\ hooks[h].phase \in {"ready", "posting", "waiting"}
Turn(h, hook) ==
    /\ hooks' = [hooks EXCEPT ![h] = hook]
    /\ UNCHANGED <<notifying, dispatcher, turns>>

Post(h) ==
    /\ InTask(h) /\ hooks[h].phase = "ready"
    /\ Turn(h, [hooks[h] EXCEPT !.phase = "posting", !.attempts = @ + 1, !.seen = FALSE])

(* The endpoint handles the request.                                       *)
EndpointHandles(h) ==
    /\ hooks[h].phase = "posting" /\ ~hooks[h].seen
    /\ Turn(h, [hooks[h] EXCEPT !.seen = TRUE, !.handled = @ + 1])
EndpointHandlesStray(h) ==
    /\ hooks[h].strays > 0
    /\ Turn(h, [hooks[h] EXCEPT !.strays = @ - 1, !.handled = @ + 1])

(* deliver_webhook: a 2xx status ends the delivery.                        *)
(* Mutant: the status is taken for a failure, and the event posted again.  *)
AnswerNotSuccess(h) ==
    LET k == hooks[h] IN
    /\ InTask(h) /\ k.phase = "posting" /\ k.seen
    /\ Turn(h, [k EXCEPT !.phase = IF k.attempts < AttemptsOf(k.policy) THEN "ready" ELSE "failed"])
Answer(h) ==
    LET k == hooks[h] IN
    /\ InTask(h) /\ k.phase = "posting" /\ k.seen
    /\ Turn(h, [k EXCEPT !.phase = "delivered"])

(* After a failed attempt: the backoff, if there is one, before the next.  *)
AfterFailure(k) ==
    IF k.attempts >= AttemptsOf(k.policy) THEN "failed"
    ELSE IF BackoffForRetry(k.policy, k.attempts - 1) > 0 THEN "waiting" ELSE "ready"

(* Another status; or a timeout or transport error, when the request may   *)
(* have been handled, may be later, or is gone.                            *)
Refuse(h) ==
    /\ InTask(h) /\ hooks[h].phase = "posting" /\ ~hooks[h].seen
    /\ Turn(h, [hooks[h] EXCEPT !.phase = AfterFailure(hooks[h])])
(* Mutant: an attempt that ends in an error is not counted.                *)
LoseAnswerUncounted(h) == \E stray \in BOOLEAN :
    /\ InTask(h) /\ hooks[h].phase = "posting"
    /\ stray => ~hooks[h].seen
    /\ Turn(h, [hooks[h] EXCEPT !.phase = AfterFailure([hooks[h] EXCEPT !.attempts = 1]), !.attempts = @ - 1])
LoseAnswer(h) == \E stray \in BOOLEAN :
    /\ InTask(h) /\ hooks[h].phase = "posting"
    /\ stray => ~hooks[h].seen
    /\ Turn(h, [hooks[h] EXCEPT !.phase = AfterFailure(hooks[h]),
                                !.strays = IF stray THEN @ + 1 ELSE @,
                                !.unanswered = @ + 1])

Wake(h) ==
    /\ InTask(h) /\ hooks[h].phase = "waiting"
    /\ Turn(h, [hooks[h] EXCEPT !.phase = "ready"])

-----------------------------------------------------------------------------
(* Processes.  A signal makes the notifier finish the alert in hand and    *)
(* the dispatcher drain its tasks, backoffs included.                      *)

Stop ==
    /\ turns < MaxTurns
    /\ turns' = turns + 1
    /\ \/ notifier = "up" /\ notifier' = "draining" /\ UNCHANGED dispatcher
       \/ dispatcher = "up" /\ dispatcher' = "draining" /\ UNCHANGED notifier
    /\ UNCHANGED <<inbox, current, alerts, log, hooks>>

(* The alerts that nobody will read any more.                              *)
Unread == [a \in DOMAIN alerts |->
              IF alerts[a].fate = "inbox" THEN [alerts[a] EXCEPT !.fate = "lost"] ELSE alerts[a]]

NotifierExits ==
    /\ notifier = "draining" /\ ~Busy
    /\ notifier' = "down"
    /\ inbox' = <<>> /\ alerts' = Unread
    /\ UNCHANGED <<current, log, dispatching, turns>>

DispatcherExits ==
    /\ dispatcher = "draining" /\ \A h \in DOMAIN hooks : ~InTask(h)
    /\ dispatcher' = "down"
    /\ UNCHANGED <<notifying, hooks, turns>>

(* Killed: what was in memory is lost; a request already sent is not.      *)
NotifierCrashes ==
    /\ notifier # "down" /\ turns < MaxTurns
    /\ turns' = turns + 1
    /\ notifier' = "down"
    /\ inbox' = <<>> /\ current' = Nothing /\ alerts' = Unread
    /\ UNCHANGED <<log, dispatching>>

DispatcherCrashes ==
    /\ dispatcher # "down" /\ turns < MaxTurns
    /\ turns' = turns + 1
    /\ dispatcher' = "down"
    /\ hooks' = [h \in DOMAIN hooks |->
                    IF ~InTask(h) THEN hooks[h]
                    ELSE [hooks[h] EXCEPT !.phase = "lost",
                             !.strays = IF hooks[h].phase = "posting" /\ ~hooks[h].seen THEN @ + 1 ELSE @,
                             !.unanswered = IF hooks[h].phase = "posting" THEN @ + 1 ELSE @]]
    /\ UNCHANGED notifying

(* supervisord: autorestart.                                               *)
Restart ==
    /\ \/ notifier = "down" /\ notifier' = "up" /\ UNCHANGED dispatcher
       \/ dispatcher = "down" /\ dispatcher' = "up" /\ UNCHANGED notifier
    /\ UNCHANGED <<inbox, current, alerts, log, hooks, turns>>

-----------------------------------------------------------------------------
Init ==
    /\ notifier = "up" /\ dispatcher = "up"
    /\ inbox = <<>> /\ current = Nothing
    /\ alerts = <<>> /\ log = <<>> /\ hooks = <<>>
    /\ turns = 0

NotifierStep == LoadRecipients \/ LoadFails \/ DeliverChannel \/ NotifierExits
AttemptEnds(h) == Answer(h) \/ Refuse(h) \/ LoseAnswer(h)
TaskStep(h) == Post(h) \/ AttemptEnds(h) \/ Wake(h)

Next ==
    \/ PublishAlert \/ PublishHook
    \/ NotifierStep \/ DispatcherExits
    \/ \E h \in DOMAIN hooks : TaskStep(h) \/ EndpointHandles(h) \/ EndpointHandlesStray(h)
    \/ Stop \/ NotifierCrashes \/ DispatcherCrashes \/ Restart

(* A call of a sender and an attempt end by their timeouts (SMTP, httpx),  *)
(* a backoff by the clock; the event loop serves every task.  Nothing is   *)
(* assumed of the endpoint, of stops, crashes or restarts.                 *)
Fairness ==
    /\ WF_vars(NotifierStep)
    /\ WF_vars(DispatcherExits)
    /\ \A h \in 1 .. MaxHooks : WF_vars(h \in DOMAIN hooks /\ TaskStep(h))

Spec == Init /\ [][Next]_vars /\ Fairness

-----------------------------------------------------------------------------
(* Properties.                                                             *)

TypeOK ==
    /\ {notifier, dispatcher} \subseteq {"up", "draining", "down"}
    /\ ToSet(inbox) = {a \in DOMAIN alerts : alerts[a].fate = "inbox"} \ {current.alert}
    /\ \A a \in DOMAIN alerts : alerts[a].fate \in {"missed", "inbox", "unloaded", "done", "lost"}
    /\ \A h \in DOMAIN hooks :
           /\ hooks[h].phase \in {"missed", "ready", "posting", "waiting", "delivered", "failed", "lost"}
           /\ hooks[h].attempts \in 0 .. AttemptsOf(hooks[h].policy)

(* An alert with an organization whose delivery ends has been given to     *)
(* every channel a user enabled and has an address for, once each and      *)
(* whatever the others did; every other alert, however far it got, has     *)
(* reached no channel twice and none that is not enabled; and the alerts   *)
(* go out in the order they were published (run, process_event).           *)
Wanted == UNION {{<<r.user, c>> : c \in {x \in r.enabled : x \in r.addresses \/ x = "in_app"}} : r \in Recipients}
EveryChannelTried ==
    /\ TypeOK
    /\ \A i, j \in DOMAIN log : i < j => log[i].alert <= log[j].alert /\ log[i] # log[j]
    /\ \A a \in DOMAIN alerts :
           LET calls == {<<log[i].user, log[i].channel>> : i \in {x \in DOMAIN log : log[x].alert = a}}
           IN  /\ calls \subseteq Wanted
               /\ alerts[a].fate = "done" /\ alerts[a].org => calls = Wanted

(* What the dispatcher concludes of a webhook is true of the endpoint: a   *)
(* delivered event was handled, a failed one was posted as often as its    *)
(* policy asks, and it is handled again only where an answer was lost      *)
(* (deliver_webhook retries with the same payload and no id).              *)
HandledOnceUnlessAnswerLost == \A h \in DOMAIN hooks :
    LET k == hooks[h]
        concluded == IF k.phase = "delivered" \/ (k.phase = "posting" /\ k.seen) THEN 1 ELSE 0
    IN  /\ k.phase = "delivered" => k.handled >= 1
        /\ k.phase = "failed" => k.attempts = AttemptsOf(k.policy)
        /\ k.handled <= k.unanswered + concluded

(* Whatever the endpoints and senders do, every delivery taken up ends:    *)
(* delivered, failed after its attempts, or lost in a crash; and a worker  *)
(* that is asked to stop gets to its end ("graceful shutdown").            *)
Pending(h) == h \in DOMAIN hooks /\ hooks[h].phase \in {"ready", "posting", "waiting"}
DeliveriesEnd ==
    /\ \A h \in 1 .. MaxHooks : Pending(h) ~> ~Pending(h)
    /\ (notifier = "draining") ~> (notifier = "down")
    /\ (dispatcher = "draining") ~> (dispatcher = "down")
=============================================================================
