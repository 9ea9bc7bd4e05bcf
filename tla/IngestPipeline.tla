----------------------------- MODULE IngestPipeline -----------------------------
(***************************************************************************)
(* Telemetry from the broker to the hypertable: the MQTT listener handles  *)
(* one message at a time and LPUSHes it to the capped ingest queue; the    *)
(* batch writer, another process, LRANGEs a batch, inserts it and LTRIMs   *)
(* the queue by the batch's length; when the queue is empty it registers   *)
(* the datastreams the listener discovered.  Every await is a step, so the *)
(* two processes interleave on the Redis lists as they do in the code.     *)
(***************************************************************************)
EXTENDS Naturals, Sequences

CONSTANTS
  Messages,       \* telemetry messages the devices publish, each once (QoS 0)
  Keys,           \* values of the primary key (device_id, ts)
  Metrics,        \* telemetry keys, the datastreams of a device
  KeyOf,          \* KeyOf[m]: the row m goes to
  MetricsOf,      \* MetricsOf[m]: the metrics m carries
  Refused,        \* messages whose row the database refuses: a ts that is no
                  \* timestamp, or the org_id of a token topic, which is no UUID
  QueueCap,       \* MAX_QUEUE_SIZE (10000)
  BatchSize,      \* BATCH_SIZE (1000)
  InsertLimit,    \* rows one INSERT can carry (asyncpg: 32767 arguments, 4 a row)
  DiscoveryBatch, \* discoveries handled per idle round (50)
  BackoffInitial, BackoffMax, \* 0.5 s and 30 s, in half seconds
  MaxFaults,      \* bound: failing calls and crashes
  NoMessage, NoRow

ASSUME MessageAssumption ==
  /\ KeyOf \in [Messages -> Keys] /\ MetricsOf \in [Messages -> SUBSET Metrics]
  /\ Refused \subseteq Messages
  /\ NoMessage \notin Messages /\ NoRow \notin Messages
ASSUME SizeAssumption ==
  /\ {QueueCap, BatchSize, InsertLimit, DiscoveryBatch} \subseteq Nat \ {0}
  /\ {BackoffInitial, BackoffMax} \subseteq Nat \ {0} /\ BackoffInitial <= BackoffMax
ASSUME FaultAssumption == MaxFaults \in Nat

VARIABLES
  received,    \* messages the broker has delivered to the listener
  listener,    \* what the listener is about to do
  message,     \* the message it handles, NoMessage between two
  unresolved,  \* messages whose token lookup failed: their device_id is the token
  latest,      \* latest:{device}: the last value SET (its 5 min TTL is left out)
  shown,       \* history: messages published on the live channel
  ingest,      \* the ingest queue, newest first
  known,       \* iotaps:known_keys: datastreams seen in the last 24 h
  fresh,       \* new datastreams the listener has yet to announce
  discovery,   \* iotaps:datastream_discovery, newest first
  writer,      \* what the batch writer is about to do
  batch,       \* the entries it read
  backlog,     \* the LLEN it read
  backoff,     \* its next retry delay
  pops,        \* discoveries left in this idle round
  discovered,  \* the discovery it popped: at most one
  rows,        \* the hypertable: rows[k] is the message stored under k
  sensors,     \* datastreams registered as DeviceSensor rows
  window,      \* history: messages pushed since the batch was read
  raced,       \* history: messages pushed between the read and the trim of a batch
  evicted,     \* history: messages dropped by the listener's cap
  pushed,      \* history: messages LPUSHed
  faults       \* failing calls and crashes so far

listenerVars == <<received, listener, message, unresolved>>
liveVars     == <<latest, shown>>
discoveryVars == <<known, fresh, discovery>>
writerVars   == <<writer, batch, backlog, backoff, pops, discovered>>
tableVars    == <<rows, sensors>>
historyVars  == <<window, raced, evicted, pushed>>
vars == <<listenerVars, liveVars, ingest, discoveryVars, writerVars, tableVars,
          historyVars, faults>>

ListenerSteps == {"idle", "latest", "live", "push", "cap", "known", "announce"}
WriterSteps == {"poll", "len", "rest", "insert", "trim", "sleep", "discover",
                "register", "down"}

\* A datastream of a device, or of the token the lookup left unresolved.
Datastreams == BOOLEAN \X Metrics

Elements(s) == {s[i] : i \in 1..Len(s)}
FirstEntries(s, n) == SubSeq(s, 1, IF n < Len(s) THEN n ELSE Len(s))
WithoutFirst(s, n) == SubSeq(s, n + 1, Len(s))

\* All values have their type; the retry delay and the round stay within their bounds,
\* and only pushed messages are counted as raced or evicted.
TypeOK ==
  /\ received \subseteq Messages /\ unresolved \subseteq received
  /\ listener \in ListenerSteps
  /\ message \in Messages \cup {NoMessage}
  /\ (message = NoMessage) = (listener = "idle")
  /\ latest \in received \cup {NoMessage} /\ shown \subseteq received
  /\ ingest \in Seq(received)
  /\ known \subseteq Datastreams /\ fresh \subseteq Datastreams
  /\ discovery \in Seq(Datastreams)
  /\ writer \in WriterSteps
  /\ batch \in Seq(received) /\ backlog \in 0..(QueueCap + 1 + MaxFaults)
  /\ backoff \in BackoffInitial..BackoffMax /\ pops \in 0..DiscoveryBatch
  /\ discovered \in {{}} \cup {{d} : d \in Datastreams}
  /\ rows \in [Keys -> received \cup {NoRow}] /\ sensors \subseteq Metrics
  /\ pushed \subseteq received
  /\ window \subseteq pushed /\ raced \subseteq pushed /\ evicted \subseteq pushed
  /\ faults \in 0..MaxFaults

Init ==
  /\ received = {} /\ listener = "idle" /\ message = NoMessage /\ unresolved = {}
  /\ latest = NoMessage /\ shown = {}
  /\ ingest = <<>> /\ known = {} /\ fresh = {} /\ discovery = <<>>
  /\ writer = "poll" /\ batch = <<>> /\ backlog = 0
  /\ backoff = BackoffInitial /\ pops = 0 /\ discovered = {}
  /\ rows = [k \in Keys |-> NoRow] /\ sensors = {}
  /\ window = {} /\ raced = {} /\ evicted = {} /\ pushed = {}
  /\ faults = 0

Fault == faults < MaxFaults /\ faults' = faults + 1

Poison(m) == m \in Refused \cup unresolved
Persisted(m) == rows[KeyOf[m]] # NoRow

-------------------------------------------------------------------------------
(* The listener: handle_telemetry, one message at a time.                   *)

Handle(step) == listener' = step /\ UNCHANGED <<received, message, unresolved>>

Finish ==
  /\ listener' = "idle" /\ message' = NoMessage
  /\ UNCHANGED <<received, unresolved>>

\* The next message is validated and its token resolved to the device UUID; a
\* lookup that raises is swallowed and the token itself becomes the device_id.
Receive(m) ==
  /\ listener = "idle" /\ m \notin received
  /\ received' = received \cup {m} /\ message' = m
  /\ listener' = "latest"
  /\ \/ UNCHANGED <<unresolved, faults>>
     \/ Fault /\ unresolved' = unresolved \cup {m}
  /\ UNCHANGED <<liveVars, ingest, discoveryVars, writerVars, tableVars, historyVars>>

SetLatest ==
  /\ listener = "latest" /\ Handle("live")
  /\ latest' = message
  /\ UNCHANGED <<shown, ingest, discoveryVars, writerVars, tableVars, historyVars, faults>>

\* A failing PUBLISH is swallowed.
ShowLive ==
  /\ listener = "live" /\ Handle("push")
  /\ \/ shown' = shown \cup {message} /\ UNCHANGED faults
     \/ Fault /\ UNCHANGED shown
  /\ UNCHANGED <<latest, ingest, discoveryVars, writerVars, tableVars, historyVars>>

Push ==
  /\ listener = "push" /\ Handle("cap")
  /\ ingest' = <<message>> \o ingest
  /\ pushed' = pushed \cup {message}
  /\ window' = IF writer \in {"len", "rest", "insert", "trim"}
                 THEN window \cup {message} ELSE window
  /\ UNCHANGED <<liveVars, discoveryVars, writerVars, tableVars, raced, evicted, faults>>

\* LTRIM 0 QueueCap-1: the oldest entries, at the tail, go.
Cap ==
  /\ listener = "cap" /\ Handle("known")
  /\ ingest' = FirstEntries(ingest, QueueCap)
  /\ evicted' = evicted \cup Elements(WithoutFirst(ingest, QueueCap))
  /\ UNCHANGED <<liveVars, discoveryVars, writerVars, tableVars, window, raced,
                 pushed, faults>>

\* The datastreams of the message its device is not known to have.
NewDatastreams ==
  {message \notin unresolved} \X MetricsOf[message] \ known

\* SMEMBERS and SADD: what is new counts as known from here on.
MarkKnown ==
  /\ listener = "known"
  /\ known' = known \cup NewDatastreams /\ fresh' = NewDatastreams
  /\ IF NewDatastreams = {} THEN Finish ELSE Handle("announce")
  /\ UNCHANGED <<liveVars, ingest, discovery, writerVars, tableVars, historyVars, faults>>

\* LPUSH one discovery for each new datastream, in the order of a Python set.
Announce(d) ==
  /\ listener = "announce" /\ d \in fresh
  /\ discovery' = <<d>> \o discovery
  /\ fresh' = fresh \ {d}
  /\ IF fresh = {d} THEN Finish ELSE Handle("announce")
  /\ UNCHANGED <<liveVars, ingest, known, writerVars, tableVars, historyVars, faults>>

\* SET, LPUSH or LTRIM raises, or a call of the discovery does (swallowed), or
\* the listener dies: the rest of this message's handling is skipped.
AbandonMessage ==
  /\ Fault
  /\ listener # "idle" /\ Finish /\ fresh' = {}
  /\ UNCHANGED <<liveVars, ingest, known, discovery, writerVars, tableVars, historyVars>>

KnownExpires ==
  /\ listener = "idle" /\ known # {} /\ known' = {}
  /\ UNCHANGED <<listenerVars, liveVars, ingest, fresh, discovery, writerVars,
                 tableVars, historyVars, faults>>

-------------------------------------------------------------------------------
(* The batch writer: process_batch, run and the discovery round.            *)

\* A batch read anew: from here to the trim every push moves it down the queue.
ReadBatch(n) == batch' = FirstEntries(ingest, n) /\ window' = {}

\* process_batch returns or raises: its locals are gone.
EndBatch == batch' = <<>> /\ backlog' = 0 /\ window' = {}

\* LRANGE 0 BatchSize-1.
Poll ==
  /\ writer = "poll" /\ writer' = "len"
  /\ ReadBatch(BatchSize)
  /\ UNCHANGED <<listenerVars, liveVars, ingest, discoveryVars, backlog, backoff, pops,
                 discovered, tableVars, raced, evicted, pushed, faults>>

\* LLEN: a longer backlog is read whole; an empty batch starts an idle round.
Measure ==
  /\ writer = "len"
  /\ \/ /\ Len(ingest) > BatchSize
        /\ writer' = "rest" /\ backlog' = Len(ingest)
        /\ UNCHANGED <<batch, window, backoff, pops>>
     \/ /\ Len(ingest) <= BatchSize /\ batch = <<>>
        /\ writer' = "discover" /\ EndBatch
        /\ pops' = DiscoveryBatch /\ backoff' = BackoffInitial
     \/ /\ Len(ingest) <= BatchSize /\ batch # <<>>
        /\ writer' = "insert" /\ UNCHANGED <<batch, window, backlog, backoff, pops>>
  /\ UNCHANGED <<listenerVars, liveVars, ingest, discoveryVars, discovered, tableVars,
                 raced, evicted, pushed, faults>>

\* LRANGE 0 backlog-1.
ReadBacklog ==
  /\ writer = "rest" /\ writer' = "insert"
  /\ ReadBatch(backlog) /\ backlog' = 0
  /\ UNCHANGED <<listenerVars, liveVars, ingest, discoveryVars, backoff, pops, discovered,
                 tableVars, raced, evicted, pushed, faults>>

\* ON CONFLICT (device_id, ts) DO NOTHING: stored rows stay, and of two entries
\* of the batch with one key the first is stored.
InsertIgnoringConflicts ==
  [k \in Keys |->
    IF rows[k] = NoRow /\ \E i \in 1..Len(batch) : KeyOf[batch[i]] = k
      THEN batch[CHOOSE i \in 1..Len(batch) :
                   /\ KeyOf[batch[i]] = k
                   /\ \A j \in 1..(i - 1) : KeyOf[batch[j]] # k]
      ELSE rows[k]]

Insertable ==
  /\ Len(batch) <= InsertLimit
  /\ \A i \in 1..Len(batch) : ~Poison(batch[i])

\* Mutant: ON CONFLICT DO UPDATE.
InsertOverwriting ==
  /\ writer = "insert" /\ writer' = "trim"
  /\ Insertable
  /\ rows' = [k \in Keys |->
       IF \E i \in 1..Len(batch) : KeyOf[batch[i]] = k
         THEN batch[CHOOSE i \in 1..Len(batch) : KeyOf[batch[i]] = k]
         ELSE rows[k]]
  /\ UNCHANGED <<listenerVars, liveVars, ingest, discoveryVars, batch, backlog, backoff,
                 pops, discovered, sensors, historyVars, faults>>

Insert ==
  /\ writer = "insert" /\ writer' = "trim"
  /\ Insertable
  /\ rows' = InsertIgnoringConflicts
  /\ UNCHANGED <<listenerVars, liveVars, ingest, discoveryVars, batch, backlog, backoff,
                 pops, discovered, sensors, historyVars, faults>>

BackOff ==
  /\ writer' = "sleep" /\ EndBatch
  /\ backoff' = IF 2 * backoff < BackoffMax THEN 2 * backoff ELSE BackoffMax
  /\ UNCHANGED <<listenerVars, liveVars, ingest, discoveryVars, pops, discovered, sensors,
                 raced, evicted, pushed>>

\* Mutant: the batch counts as written when the database is unavailable.
InsertUnavailableTrims ==
  /\ writer = "insert" /\ Fault
  /\ writer' = "trim"
  /\ UNCHANGED <<listenerVars, liveVars, ingest, discoveryVars, batch, backlog, backoff,
                 pops, discovered, tableVars, historyVars>>

\* TimescaleUnavailable: keep the batch in the queue and retry later; when the
\* connection breaks at the commit the rows may be there all the same.
InsertUnavailable ==
  /\ writer = "insert" /\ Fault
  /\ rows' = rows \/ (Insertable /\ rows' = InsertIgnoringConflicts)
  /\ BackOff

\* Too many arguments for one statement is an InterfaceError, which counts as
\* an unavailable database.
InsertTooLarge ==
  /\ writer = "insert" /\ Len(batch) > InsertLimit
  /\ BackOff /\ UNCHANGED <<rows, faults>>

\* Any other error of the insert ends the process; nothing was trimmed.
InsertRefused ==
  /\ writer = "insert" /\ writer' = "down" /\ EndBatch
  /\ Len(batch) <= InsertLimit /\ ~Insertable
  /\ UNCHANGED <<listenerVars, liveVars, ingest, discoveryVars, backoff, pops, discovered,
                 tableVars, raced, evicted, pushed, faults>>

Wake ==
  /\ writer = "sleep" /\ writer' = "poll"
  /\ UNCHANGED <<listenerVars, liveVars, ingest, discoveryVars, batch, backlog, backoff,
                 pops, discovered, tableVars, historyVars, faults>>

\* Mutant: LTRIM 0 len(batch)-1 keeps what was written.
TrimKeepsHead ==
  /\ writer = "trim" /\ writer' = "poll"
  /\ ingest' = FirstEntries(ingest, Len(batch))
  /\ raced' = raced \cup window /\ EndBatch
  /\ backoff' = BackoffInitial
  /\ UNCHANGED <<listenerVars, liveVars, discoveryVars, pops, discovered, tableVars,
                 evicted, pushed, faults>>

\* LTRIM len(batch) -1: by position, whatever has been pushed meanwhile.
Trim ==
  /\ writer = "trim" /\ writer' = "poll"
  /\ ingest' = WithoutFirst(ingest, Len(batch))
  /\ raced' = raced \cup window /\ EndBatch
  /\ backoff' = BackoffInitial
  /\ UNCHANGED <<listenerVars, liveVars, discoveryVars, pops, discovered, tableVars,
                 evicted, pushed, faults>>

\* RPOP the oldest discovery, until there is none or the round is over.
PopDiscovery ==
  /\ writer = "discover"
  /\ IF pops = 0 \/ discovery = <<>>
       THEN writer' = "poll" /\ pops' = 0 /\ UNCHANGED <<discovered, discovery>>
       ELSE /\ writer' = "register" /\ pops' = pops - 1
            /\ discovered' = {discovery[Len(discovery)]}
            /\ discovery' = SubSeq(discovery, 1, Len(discovery) - 1)
  /\ UNCHANGED <<listenerVars, liveVars, ingest, known, fresh, batch, backlog, backoff,
                 tableVars, historyVars, faults>>

\* Mutant: the session is closed without a commit.
RegisterUncommitted(d) ==
  /\ writer = "register" /\ d \in discovered
  /\ writer' = "discover" /\ discovered' = {}
  /\ UNCHANGED <<listenerVars, liveVars, ingest, discoveryVars, batch, backlog, backoff,
                 pops, tableVars, historyVars, faults>>

\* One DeviceSensor per datastream; an unresolved device_id is skipped, and an
\* error is swallowed.
Register(d) ==
  /\ writer = "register" /\ d \in discovered
  /\ writer' = "discover" /\ discovered' = {}
  /\ \/ /\ sensors' = IF d[1] THEN sensors \cup {d[2]} ELSE sensors
        /\ UNCHANGED faults
     \/ Fault /\ UNCHANGED sensors
  /\ UNCHANGED <<listenerVars, liveVars, ingest, discoveryVars, batch, backlog, backoff,
                 pops, rows, historyVars>>

\* A Redis call raises or the process dies.
WriterDies ==
  /\ Fault
  /\ writer # "down" /\ writer' = "down" /\ EndBatch
  /\ pops' = 0 /\ discovered' = {}
  /\ UNCHANGED <<listenerVars, liveVars, ingest, discoveryVars, backoff, tableVars, raced,
                 evicted, pushed>>

\* supervisord: autorestart=true.
Restart ==
  /\ writer = "down" /\ writer' = "poll"
  /\ backoff' = BackoffInitial
  /\ UNCHANGED <<listenerVars, liveVars, ingest, discoveryVars, batch, backlog, pops,
                 discovered, tableVars, historyVars, faults>>

-------------------------------------------------------------------------------
Listen ==
  \/ SetLatest \/ ShowLive \/ Push \/ Cap \/ MarkKnown
  \/ \E d \in Datastreams : Announce(d)

Write ==
  \/ Poll \/ Measure \/ ReadBacklog \/ Insert \/ InsertTooLarge \/ InsertRefused
  \/ Wake \/ Trim \/ PopDiscovery \/ Restart
  \/ \E d \in Datastreams : Register(d)

Next ==
  \/ \E m \in Messages : Receive(m)
  \/ Listen \/ AbandonMessage \/ KnownExpires
  \/ Write \/ InsertUnavailable \/ WriterDies

Spec == Init /\ [][Next]_vars

(***************************************************************************)
(* Both processes run whatever is ready, and supervisord restarts the      *)
(* writer.  Devices, failures and expiry owe nothing.                      *)
(***************************************************************************)
FairSpec == Spec /\ WF_vars(Listen) /\ WF_vars(Write)

-------------------------------------------------------------------------------
\* A reading leaves the pipeline only as a row (or as a conflict with one): what
\* is neither stored nor queued fell to the listener's cap, or was pushed while a
\* batch was between its LRANGE and its LTRIM; crashes, retries and an unavailable
\* database lose nothing more.
NothingElseIsLost ==
  \A m \in pushed :
    m \in Elements(ingest) \/ Persisted(m) \/ m \in evicted \/ m \in raced

\* "Inserts use ON CONFLICT DO NOTHING so redeliveries and retries are idempotent":
\* a stored row is never replaced, however often its batch is inserted again.
RowsAreFinal ==
  [][\A k \in Keys : rows[k] # NoRow => rows'[k] = rows[k]]_vars

\* The queue exceeds MAX_QUEUE_SIZE by the entry just pushed, and by one for each
\* time the listener failed between its LPUSH and its LTRIM.
QueueStaysCapped == Len(ingest) <= QueueCap + faults + (IF listener = "cap" THEN 1 ELSE 0)

\* Dashboards see a reading before history does, unless its PUBLISH failed.
LiveBeforeHistory ==
  \A k \in Keys : rows[k] # NoRow => (rows[k] \in shown \/ faults > 0)

\* Every reading is accounted for at every step of either process: stored, queued
\* within bounds, shown before it is history, or lost in one of the two known ways.
ReadingsAccountedFor == TypeOK /\ NothingElseIsLost /\ QueueStaysCapped /\ LiveBeforeHistory

\* A queued reading is stored or dropped in the end: after finitely many faults the
\* writer drains the queue, as long as no refused row and no backlog beyond what
\* one INSERT can carry is in it.
QueueDrains ==
  \A m \in Messages :
    m \in Elements(ingest) ~>
      \/ m \notin Elements(ingest)
      \/ \E i \in 1..Len(ingest) : Poison(ingest[i])
      \/ Len(ingest) > InsertLimit

\* A datastream seen in telemetry gets its DeviceSensor row, unless a fault
\* dropped it between SADD and the commit, or the queue never empties.
DatastreamsGetRegistered ==
  \A k \in Metrics :
    <<TRUE, k>> \in known ~>
      \/ k \in sensors \/ faults > 0
      \/ \E i \in 1..Len(ingest) : Poison(ingest[i])
      \/ Len(ingest) > InsertLimit
===============================================================================
