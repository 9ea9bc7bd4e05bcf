--------------------------- MODULE CommandLifecycle ---------------------------
(***************************************************************************)
(* Commands to one device: the API requests that issue them, the ACK       *)
(* timers the API process arms, the MQTT listener that flushes the offline *)
(* queue and confirms ACKs, and the device behind the broker.  Every await *)
(* of Redis or of the broker is a step of its own, so the read-then-save   *)
(* pairs of services/command_service.py interleave as they do in the code. *)
(* Records, queues and presence are kept per device, so one device is      *)
(* enough; all of them are Redis keys shared by the two processes.         *)
(***************************************************************************)
EXTENDS Naturals, Sequences

CONSTANTS
  Commands,        \* ids of the commands users may issue to the device
  QueueCap,        \* the offline queue keeps this many entries (100)
  AckTimer,        \* BOOLEAN: command_ack_timeout_seconds > 0
  MaxConnects,     \* bound: connections the device opens after the start
  MaxFaults        \* bound: crashes and failing calls outside the requests

ASSUME QueueCapAssumption == QueueCap \in Nat \ {0}
ASSUME AckTimerAssumption == AckTimer \in BOOLEAN
ASSUME BoundsAssumption   == MaxConnects \in Nat /\ MaxFaults \in Nat

VARIABLES
  record,      \* record[c]: status in cmd:{c}, NoRecord when the key is absent
  queue,       \* cmdq:{device}: ids RPUSHed and not yet LPOPped
  online,      \* the device UUID is a member of ONLINE_DEVICES
  request,     \* request[c]: where the API request that issues c stands
  timers,      \* commands with an armed ACK timer in the API process
  expiring,    \* timers that have read SENT and not yet saved
  listener,    \* what the listener is about to do
  held,        \* the command the listener holds: at most one
  connected,   \* the device has a broker connection and its subscription
  inbox,       \* commands the broker forwarded and the device has not run
  uplink,      \* messages of the device waiting for the listener, in order
  retained,    \* the retained status message of the broker
  connects,    \* connections opened so far
  faults,      \* crashes and failing calls so far
  published,   \* history: the commands published to the broker, in order
  pushed,      \* history: the commands RPUSHed, in order
  executed     \* history: the commands the device handled and acknowledged

redisVars   == <<record, queue, online>>
apiVars     == <<request, timers, expiring>>
deviceVars  == <<connected, inbox, retained, connects>>
historyVars == <<published, pushed, executed>>
listenerVars == <<listener, held>>
vars == <<redisVars, apiVars, listenerVars, deviceVars, uplink, faults,
          historyVars>>

Promise == INSTANCE CommandStatus
             WITH status <- record, StaleSaves <- AckTimer

NoRecord == Promise!NoRecord

\* Where a request stands: the await it is about to perform, or how it ended.
Pending  == {"publish", "save_sent", "push", "trim", "save_queued", "commit"}
Outcomes == {"done", "rejected", "failed"}
Steps    == {"idle"} \cup Pending \cup Outcomes

\* What the listener is about to do; "load" to "confirm" with a held command.
FlushSteps == {"flush", "load", "publish", "save"}
ListenerSteps == {"idle", "confirm"} \cup FlushSteps

StatusMessage(up) == [type |-> "status", up |-> up]
Ack(c) == [type |-> "ack", cmd |-> c]
Messages == [type : {"status"}, up : BOOLEAN] \cup [type : {"ack"}, cmd : Commands]

Elements(s) == {s[i] : i \in 1..Len(s)}

\* LTRIM key -QueueCap -1: the last QueueCap entries stay.
LastEntries(s) ==
  IF Len(s) > QueueCap THEN SubSeq(s, Len(s) - QueueCap + 1, Len(s)) ELSE s

\* All values have their type; a timer that has read its record is still armed.
TypeOK ==
  /\ record \in [Commands -> Promise!Statuses]
  /\ queue \in Seq(Commands)
  /\ online \in BOOLEAN
  /\ request \in [Commands -> Steps]
  /\ timers \subseteq Commands /\ expiring \subseteq timers
  /\ listener \in ListenerSteps
  /\ held \in {{}} \cup {{c} : c \in Commands}
  /\ connected \in BOOLEAN
  /\ inbox \in Seq(Commands)
  /\ uplink \in Seq(Messages)
  /\ retained \in BOOLEAN
  /\ connects \in 0..MaxConnects
  /\ faults \in 0..MaxFaults
  /\ published \in Seq(Commands) /\ pushed \in Seq(Commands)
  /\ executed \subseteq Commands

\* No command yet; the device is offline, or online and known to be.
Init ==
  /\ connected \in BOOLEAN /\ inbox = <<>> /\ uplink = <<>>
  /\ retained = connected
  /\ record = [c \in Commands |-> NoRecord]
  /\ queue = <<>> /\ online = connected
  /\ request = [c \in Commands |-> "idle"]
  /\ timers = {} /\ expiring = {}
  /\ listener = "idle" /\ held = {}
  /\ connects = 0 /\ faults = 0
  /\ published = <<>> /\ pushed = <<>> /\ executed = {}

Fault == faults < MaxFaults /\ faults' = faults + 1

-------------------------------------------------------------------------------
(* The API request that issues command c: CommandService.issue_command.     *)

Advance(c, from, to) ==
  /\ request[c] = from
  /\ request' = [request EXCEPT ![c] = to]

SaveRecord(c, status) == record' = [record EXCEPT ![c] = status]

\* The broker forwards a command to the device only while it is subscribed.
\* One call of the publisher is one publish: what the API's connection pool
\* retries over a one-shot connection is not told apart.
PublishToBroker(c) ==
  /\ published' = Append(published, c)
  /\ inbox' = IF connected THEN Append(inbox, c) ELSE inbox

\* SISMEMBER ONLINE_DEVICES decides the branch once and for all.
CheckPresence(c) ==
  /\ Advance(c, "idle", IF online THEN "publish" ELSE "push")
  /\ UNCHANGED <<redisVars, timers, expiring, listenerVars, deviceVars, uplink,
                 faults, historyVars>>

\* Online: publish first.
IssuePublish(c) ==
  /\ Advance(c, "publish", "save_sent")
  /\ PublishToBroker(c)
  /\ UNCHANGED <<redisVars, timers, expiring, listenerVars, connected, retained,
                 connects, uplink, faults, pushed, executed>>

\* Then save SENT and, in the same step of the event loop, arm the timer.
IssueSaveSent(c) ==
  /\ Advance(c, "save_sent", "commit")
  /\ SaveRecord(c, "SENT")
  /\ timers' = IF AckTimer THEN timers \cup {c} ELSE timers
  /\ UNCHANGED <<queue, online, expiring, listenerVars, deviceVars, uplink,
                 faults, historyVars>>

\* Offline: RPUSH the queue entry ...
IssuePush(c) ==
  /\ Advance(c, "push", "trim")
  /\ queue' = Append(queue, c)
  /\ pushed' = Append(pushed, c)
  /\ UNCHANGED <<record, online, timers, expiring, listenerVars, deviceVars,
                 uplink, faults, published, executed>>

\* ... LTRIM it to the cap (and refresh its expiry) ...
IssueTrim(c) ==
  /\ Advance(c, "trim", "save_queued")
  /\ queue' = LastEntries(queue)
  /\ UNCHANGED <<record, online, timers, expiring, listenerVars, deviceVars,
                 uplink, faults, historyVars>>

\* ... and save QUEUED only now.
IssueSaveQueued(c) ==
  /\ Advance(c, "save_queued", "commit")
  /\ SaveRecord(c, "QUEUED")
  /\ UNCHANGED <<queue, online, timers, expiring, listenerVars, deviceVars,
                 uplink, faults, historyVars>>

\* Activity log and commit; the response carries the record.
IssueCommit(c) ==
  /\ Advance(c, "commit", "done")
  /\ UNCHANGED <<redisVars, timers, expiring, listenerVars, deviceVars, uplink,
                 faults, historyVars>>

\* A queue operation raises: CommandQueueError, whatever RPUSH already did.
IssueRejected(c) ==
  /\ \E from \in {"push", "trim"} : Advance(c, from, "rejected")
  /\ UNCHANGED <<redisVars, timers, expiring, listenerVars, deviceVars, uplink,
                 faults, historyVars>>

\* The publish, a save or the commit raises: the caller gets an error.
IssueFailed(c) ==
  /\ \E from \in {"publish", "save_sent", "save_queued", "commit"} :
       Advance(c, from, "failed")
  /\ UNCHANGED <<redisVars, timers, expiring, listenerVars, deviceVars, uplink,
                 faults, historyVars>>

-------------------------------------------------------------------------------
(* The ACK timer of command c: schedule_ack_timeout and expire_command.     *)

\* The sleep ends and the record is read: anything but SENT ends the timer.
TimerLoad(c) ==
  /\ c \in timers \ expiring
  /\ IF record[c] = "SENT"
       THEN expiring' = expiring \cup {c} /\ UNCHANGED timers
       ELSE timers' = timers \ {c} /\ UNCHANGED expiring
  /\ UNCHANGED <<redisVars, request, listenerVars, deviceVars, uplink, faults,
                 historyVars>>

\* Mutant: the updated record is returned without being saved.
TimerSaveDropped(c) ==
  /\ c \in expiring
  /\ timers' = timers \ {c} /\ expiring' = expiring \ {c}
  /\ UNCHANGED <<redisVars, request, listenerVars, deviceVars, uplink, faults,
                 historyVars>>

\* The record built from that read is saved.
TimerSave(c) ==
  /\ c \in expiring
  /\ SaveRecord(c, "UNACKNOWLEDGED")
  /\ timers' = timers \ {c} /\ expiring' = expiring \ {c}
  /\ UNCHANGED <<queue, online, request, listenerVars, deviceVars, uplink,
                 faults, historyVars>>

\* The API process dies: its requests end and its timers are gone.
ApiCrash ==
  /\ Fault
  /\ request' = [c \in Commands |->
                   IF request[c] \in Pending THEN "failed" ELSE request[c]]
  /\ timers' = {} /\ expiring' = {}
  /\ UNCHANGED <<redisVars, listenerVars, deviceVars, uplink, historyVars>>

-------------------------------------------------------------------------------
(* The MQTT listener: one message at a time, each handled to its end.       *)

NextMessage(m) ==
  /\ listener = "idle"
  /\ uplink # <<>> /\ Head(uplink) = m
  /\ uplink' = Tail(uplink)

Listener(step, commands) == listener' = step /\ held' = commands

\* handle_status "online": SADD, then flush_queued_commands.
HandleOnline ==
  /\ NextMessage(StatusMessage(TRUE))
  /\ online' = TRUE
  /\ Listener("flush", {})
  /\ UNCHANGED <<record, queue, apiVars, deviceVars, faults, historyVars>>

\* handle_status "offline": SREM.
HandleOffline ==
  /\ NextMessage(StatusMessage(FALSE))
  /\ online' = FALSE
  /\ UNCHANGED <<record, queue, apiVars, listenerVars, deviceVars, faults,
                 historyVars>>

\* The token is not resolved to a device (the lookup's exception is swallowed)
\* or a call raises: presence by UUID is untouched.  The flush makes its own
\* lookup: it may find the queue all the same.
HandleUnresolved ==
  /\ Fault
  /\ \/ \E up \in BOOLEAN : NextMessage(StatusMessage(up)) /\ UNCHANGED listenerVars
     \/ NextMessage(StatusMessage(TRUE)) /\ Listener("flush", {})
  /\ UNCHANGED <<redisVars, apiVars, deviceVars, historyVars>>

\* Mutant: the entry is read (LINDEX) and stays in the queue.
FlushPopPeeks ==
  /\ listener = "flush"
  /\ IF queue = <<>> THEN Listener("idle", {}) ELSE Listener("load", {Head(queue)})
  /\ UNCHANGED <<redisVars, apiVars, deviceVars, uplink, faults, historyVars>>

\* Mutant: RPOP takes the newest entry.
FlushPopNewest ==
  /\ listener = "flush"
  /\ IF queue = <<>>
       THEN Listener("idle", {}) /\ UNCHANGED queue
       ELSE /\ Listener("load", {queue[Len(queue)]})
            /\ queue' = SubSeq(queue, 1, Len(queue) - 1)
  /\ UNCHANGED <<record, online, apiVars, deviceVars, uplink, faults,
                 historyVars>>

\* LPOP the oldest entry, or leave the loop when there is none.
FlushPop ==
  /\ listener = "flush"
  /\ IF queue = <<>>
       THEN Listener("idle", {}) /\ UNCHANGED queue
       ELSE Listener("load", {Head(queue)}) /\ queue' = Tail(queue)
  /\ UNCHANGED <<record, online, apiVars, deviceVars, uplink, faults,
                 historyVars>>

\* Mutant: a skipped entry ends the loop (break for continue).
FlushLoadBreaks(c) ==
  /\ listener = "load" /\ c \in held
  /\ IF record[c] = "QUEUED" THEN Listener("publish", held)
                             ELSE Listener("idle", {})
  /\ UNCHANGED <<redisVars, apiVars, deviceVars, uplink, faults, historyVars>>

\* Read its record; without a QUEUED record the entry is skipped.
FlushLoad(c) ==
  /\ listener = "load" /\ c \in held
  /\ IF record[c] = "QUEUED" THEN Listener("publish", held)
                             ELSE Listener("flush", {})
  /\ UNCHANGED <<redisVars, apiVars, deviceVars, uplink, faults, historyVars>>

FlushPublish(c) ==
  /\ listener = "publish" /\ c \in held
  /\ PublishToBroker(c)
  /\ Listener("save", held)
  /\ UNCHANGED <<redisVars, apiVars, connected, retained, connects, uplink,
                 faults, pushed, executed>>

FlushSave(c) ==
  /\ listener = "save" /\ c \in held
  /\ SaveRecord(c, "SENT")
  /\ Listener("flush", {})
  /\ UNCHANGED <<queue, online, apiVars, deviceVars, uplink, faults,
                 historyVars>>

\* Mutant: a failing publish is swallowed and the record saved all the same.
FlushFailedSwallowed ==
  /\ Fault
  /\ listener = "publish"
  /\ Listener("save", held)
  /\ UNCHANGED <<redisVars, apiVars, deviceVars, uplink, historyVars>>

\* A call of the flush raises: handle_status logs it and goes on; the entry
\* already popped is not put back.
FlushFailed ==
  /\ Fault
  /\ listener \in FlushSteps
  /\ Listener("idle", {})
  /\ UNCHANGED <<redisVars, apiVars, deviceVars, uplink, historyVars>>

\* Mutant: any existing record is confirmed.
AckLoadUnchecked(c) ==
  /\ NextMessage(Ack(c))
  /\ IF record[c] # NoRecord THEN Listener("confirm", {c})
                             ELSE UNCHANGED listenerVars
  /\ UNCHANGED <<redisVars, apiVars, deviceVars, faults, historyVars>>

\* handle_ack / confirm_command: read the record; only SENT is confirmed.
AckLoad(c) ==
  /\ NextMessage(Ack(c))
  /\ IF record[c] = "SENT" THEN Listener("confirm", {c})
                           ELSE UNCHANGED listenerVars
  /\ UNCHANGED <<redisVars, apiVars, deviceVars, faults, historyVars>>

\* The record built from that read is saved.
AckSave(c) ==
  /\ listener = "confirm" /\ c \in held
  /\ SaveRecord(c, "CONFIRMED")
  /\ Listener("idle", {})
  /\ UNCHANGED <<queue, online, apiVars, deviceVars, uplink, faults,
                 historyVars>>

\* The save raises: handle_ack logs it, and the record stays as it is.
AckFailed ==
  /\ Fault
  /\ listener = "confirm"
  /\ Listener("idle", {})
  /\ UNCHANGED <<redisVars, apiVars, deviceVars, uplink, historyVars>>

\* The listener dies or loses the broker: what it was doing and what was on
\* its way to it is lost, and the subscription redelivers the retained status.
ListenerRestart ==
  /\ Fault
  /\ Listener("idle", {})
  /\ uplink' = <<StatusMessage(retained)>>
  /\ UNCHANGED <<redisVars, apiVars, deviceVars, historyVars>>

-------------------------------------------------------------------------------
(* The device (firmware) and the broker.                                    *)

Connect ==
  /\ ~connected /\ connects < MaxConnects
  /\ connected' = TRUE /\ connects' = connects + 1
  /\ retained' = TRUE
  /\ uplink' = Append(uplink, StatusMessage(TRUE))
  /\ UNCHANGED <<redisVars, apiVars, listenerVars, inbox, faults, historyVars>>

\* The connection drops; the broker publishes the retained last will.
Disconnect ==
  /\ connected
  /\ connected' = FALSE /\ inbox' = <<>>
  /\ retained' = FALSE
  /\ uplink' = Append(uplink, StatusMessage(FALSE))
  /\ UNCHANGED <<redisVars, apiVars, listenerVars, connects, faults, historyVars>>

\* onCommand: handle the command and publish its ACK, whatever came of it.
Execute ==
  /\ connected /\ inbox # <<>>
  /\ inbox' = Tail(inbox)
  /\ executed' = executed \cup {Head(inbox)}
  /\ uplink' = Append(uplink, Ack(Head(inbox)))
  /\ UNCHANGED <<redisVars, apiVars, listenerVars, connected, retained, connects,
                 faults, published, pushed>>

-------------------------------------------------------------------------------
(* Expiry of Redis keys.                                                    *)

\* A record outlives, by hours, every handler and timer that holds it.
RecordExpires(c) ==
  /\ record[c] # NoRecord
  /\ request[c] \notin Pending /\ c \notin timers /\ c \notin held
  /\ SaveRecord(c, NoRecord)
  /\ UNCHANGED <<queue, online, apiVars, listenerVars, deviceVars, uplink,
                 faults, historyVars>>

\* The queue lives 7 days after its last push, a record 48 hours.
QueueExpires ==
  /\ queue # <<>>
  /\ \A c \in Elements(queue) : record[c] = NoRecord
  /\ \A c \in Commands : request[c] \notin Pending
  /\ queue' = <<>>
  /\ UNCHANGED <<record, online, apiVars, listenerVars, deviceVars, uplink,
                 faults, historyVars>>

-------------------------------------------------------------------------------
Issue(c) ==
  \/ CheckPresence(c) \/ IssuePublish(c) \/ IssueSaveSent(c)
  \/ IssuePush(c) \/ IssueTrim(c) \/ IssueSaveQueued(c) \/ IssueCommit(c)
  \/ IssueRejected(c) \/ IssueFailed(c)

Timer(c) == TimerLoad(c) \/ TimerSave(c)

Listen ==
  \/ HandleOnline \/ HandleOffline \/ HandleUnresolved
  \/ FlushPop \/ FlushFailed \/ AckFailed
  \/ \E c \in Commands :
       \/ FlushLoad(c) \/ FlushPublish(c) \/ FlushSave(c)
       \/ AckLoad(c) \/ AckSave(c)

Device == Connect \/ Disconnect \/ Execute

Next ==
  \/ \E c \in Commands : Issue(c) \/ Timer(c) \/ RecordExpires(c)
  \/ Listen \/ Device
  \/ ApiCrash \/ ListenerRestart \/ QueueExpires

(***************************************************************************)
(* The event loops run every ready task: a request under way, a timer and  *)
(* the listener go on.  Users, devices, failures and expiry owe nothing.   *)
(***************************************************************************)
Fairness ==
  /\ \A c \in Commands : WF_vars(Timer(c))
  /\ \A c \in Commands : WF_vars(request[c] \in Pending /\ Issue(c))
  /\ WF_vars(Listen)

Spec == Init /\ [][Next]_vars

FairSpec == Spec /\ Fairness

-------------------------------------------------------------------------------
Published(c) == c \in Elements(published)

\* next_status and LEGAL_TRANSITIONS, with TTL expiry, and nothing else: every
\* save of every handler, whatever it interleaves with, is one transition of
\* CommandStatus; with AckTimer off not even a terminal overwrite is left.
KeepsPromise == Promise!Spec

\* A command is published to the broker at most once, although the API and the
\* listener both publish and either may die between a publish and its save.
PublishedAtMostOnce ==
  \A i, j \in 1..Len(published) : published[i] = published[j] => i = j

\* The status a user reads never claims more than happened: SENT and
\* UNACKNOWLEDGED only after the publish ("no phantom SENT"), CONFIRMED only
\* after the device handled the command and said so.
StatusTellsTruth ==
  \A c \in Commands :
    /\ record[c] \in {"SENT", "UNACKNOWLEDGED"} => Published(c)
    /\ record[c] = "CONFIRMED" => c \in executed

\* A command the API refused with CommandQueueError never reaches the device,
\* even when the queue entry was pushed before the refusal and a flush pops it.
RejectedNeverPublished ==
  \A c \in Commands : request[c] = "rejected" => ~Published(c)

\* What reaches the broker is what was promised: never a command twice, never one
\* that was refused, whatever interleaves with whatever.
PublishedAsPromised == TypeOK /\ PublishedAtMostOnce /\ RejectedNeverPublished

\* Commands that waited in the offline queue reach the broker in the order in
\* which they entered it, across flushes, failed flushes and restarts.
FlushKeepsOrder ==
  \A i, j \in 1..Len(published), k, l \in 1..Len(pushed) :
    /\ published[i] = pushed[k] /\ published[j] = pushed[l]
    /\ k < l
    => i < j

\* A command whose ACK timer is armed leaves SENT for a terminal status; only
\* a fault (the API process died with its timers) is an excuse.
ArmedTimerSettles ==
  \A c \in Commands :
    (c \in timers /\ record[c] = "SENT")
      ~> (record[c] \in Promise!Terminal \/ faults > 0)

\* QueueCap commands were pushed after c, enough for LTRIM to drop c.
Evictable(c) ==
  \E k \in 1..Len(pushed) : pushed[k] = c /\ Len(pushed) - k >= QueueCap

\* A flush under way delivers every command queued before it, unless a fault
\* cuts it short, the record's TTL has run out, or QueueCap newer commands
\* pushed it out of the capped queue.
FlushDelivers ==
  \A c \in Commands :
    (record[c] = "QUEUED" /\ c \in Elements(queue) /\ listener \in FlushSteps)
      ~> \/ Published(c) \/ faults > 0
         \/ record[c] = NoRecord \/ Evictable(c)
===============================================================================
