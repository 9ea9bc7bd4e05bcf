----------------------------- MODULE TelemetryProofs -----------------------------
(***************************************************************************)
(* Where readings go, for any messages and keys, any queue cap, batch and  *)
(* insert sizes and any number of faults: every reading that was pushed is *)
(* stored, queued, cut off by the cap or caught in the race of a push with *)
(* a trim; the queue keeps its bound; rows are final.                      *)
(*                                                                         *)
(* The argument: while a batch is in hand, what the queue shows in the     *)
(* places the trim will cut is in the batch or was pushed since it was     *)
(* read; and by the time of the trim the batch is stored.                  *)
(*                                                                         *)
(* And how long rows stay, for any organizations, windows, views and       *)
(* lateness: a purge takes no row that the plan of the moment keeps,       *)
(* because a cutoff only gets older and a change of plan under the sweep   *)
(* is on record.                                                           *)
(***************************************************************************)
EXTENDS IngestPipeline, DataLifetime, WellFoundedInduction, TLAPS

InHand == {"len", "rest", "insert", "trim"}

\* What the next trim cuts off is in the batch, or was pushed since it was read.
CutIsKnown ==
  writer \in InHand =>
    \A i \in 1..Len(ingest) : i <= Len(batch) => ingest[i] \in window \cup Elements(batch)

\* A batch about to be trimmed is stored.
BatchIsStored == writer = "trim" => \A m \in Elements(batch) : Persisted(m)

\* Queue and batch hold pushed readings, and these were shown first.
PushedFirst ==
  /\ Elements(ingest) \subseteq pushed /\ Elements(batch) \subseteq pushed
  /\ \A m \in pushed : m \in shown \/ faults > 0
  /\ listener = "push" => message \in shown \/ faults > 0

\* The message in hand was delivered.
HandledWasReceived == listener # "idle" => message \in received

Accounts ==
  /\ HandledWasReceived
  /\ CutIsKnown
  /\ BatchIsStored
  /\ PushedFirst
  /\ writer = "rest" => backlog <= QueueCap + faults + 1

IInv == ReadingsAccountedFor /\ Accounts

-------------------------------------------------------------------------------
(* Sequences: what LPUSH, LRANGE and LTRIM do to the entries.               *)

LEMMA SeqFacts ==
    ASSUME NEW S, NEW s \in Seq(S)
    PROVE  /\ Len(s) \in Nat /\ DOMAIN s = 1..Len(s)
           /\ \A i \in 1..Len(s) : s[i] \in S
           /\ Elements(s) \subseteq S
  BY DEF Elements

\* LPUSH: one entry more, and the others move down.
LEMMA PushFacts ==
    ASSUME NEW S, NEW s \in Seq(S), NEW e \in S
    PROVE  /\ <<e>> \o s \in Seq(S) /\ Len(<<e>> \o s) = Len(s) + 1
           /\ (<<e>> \o s)[1] = e /\ \A i \in 1..Len(s) : (<<e>> \o s)[i + 1] = s[i]
           /\ \A i \in 2..(Len(s) + 1) : (<<e>> \o s)[i] = s[i - 1]
           /\ Elements(<<e>> \o s) = {e} \cup Elements(s)
<1>1. <<e>> \in Seq(S) /\ Len(<<e>>) = 1 /\ <<e>>[1] = e /\ Len(s) \in Nat
  OBVIOUS
<1>2. /\ <<e>> \o s \in Seq(S) /\ Len(<<e>> \o s) = Len(s) + 1
      /\ (<<e>> \o s)[1] = e
      /\ \A i \in 2..(Len(s) + 1) : (<<e>> \o s)[i] = s[i - 1]
  BY <1>1
<1>3. \A i \in 1..Len(s) : (<<e>> \o s)[i + 1] = s[i]
  <2> SUFFICES ASSUME NEW i \in 1..Len(s) PROVE (<<e>> \o s)[i + 1] = s[i]
    OBVIOUS
  <2>1. i + 1 \in 2..(Len(s) + 1) /\ (i + 1) - 1 = i
    BY <1>1
  <2> QED
    BY <1>2, <2>1
<1>4. PICK t : t = <<e>> \o s
  OBVIOUS
<1>5. Elements(t) \subseteq {e} \cup Elements(s)
  <2> SUFFICES ASSUME NEW i \in 1..Len(t) PROVE t[i] \in {e} \cup Elements(s)
    BY DEF Elements
  <2>1. i = 1 \/ (i \in 2..(Len(s) + 1) /\ i - 1 \in 1..Len(s))
    BY <1>1, <1>2, <1>4
  <2> QED
    BY <1>2, <1>4, <2>1 DEF Elements
<1>6. {e} \cup Elements(s) \subseteq Elements(t)
  <2>1. 1 \in 1..Len(t) /\ \A i \in 1..Len(s) : i + 1 \in 1..Len(t)
    BY <1>1, <1>2, <1>4
  <2> QED
    BY <1>2, <1>3, <1>4, <2>1 DEF Elements
<1> QED
  BY <1>2, <1>3, <1>4, <1>5, <1>6

\* LRANGE 0 n-1, LTRIM 0 n-1: the first n entries.
LEMMA FirstFacts ==
    ASSUME NEW S, NEW s \in Seq(S), NEW n \in Nat
    PROVE  LET f == FirstEntries(s, n)
           IN  /\ f \in Seq(S) /\ Len(f) <= n /\ Len(f) <= Len(s) /\ Len(f) \in Nat
               /\ \A i \in 1..Len(f) : f[i] = s[i]
               /\ \A i \in 1..Len(s) : i <= n => i \in 1..Len(f)
               /\ Elements(f) \subseteq Elements(s)
<1>1. PICK k : k = IF n < Len(s) THEN n ELSE Len(s)
  OBVIOUS
<1>2. k \in Nat /\ k <= Len(s) /\ k <= n /\ \A i \in 1..Len(s) : i <= n => i \in 1..k
  BY <1>1, SeqFacts
<1>3. PICK f : f = SubSeq(s, 1, k)
  OBVIOUS
<1>4. f \in Seq(S) /\ Len(f) = k /\ \A i \in 1..k : f[i] = s[i]
  BY <1>2, <1>3, SeqFacts
<1>5. Elements(f) \subseteq Elements(s)
  BY <1>2, <1>4, SeqFacts DEF Elements
<1> QED
  BY <1>1, <1>2, <1>3, <1>4, <1>5 DEF FirstEntries

\* LTRIM n -1: the entries after the first n.
LEMMA RestFacts ==
    ASSUME NEW S, NEW s \in Seq(S), NEW n \in Nat
    PROVE  LET r == WithoutFirst(s, n)
           IN  /\ r \in Seq(S) /\ Len(r) \in Nat /\ Len(r) <= Len(s)
               /\ Elements(r) \subseteq Elements(s)
               /\ \A i \in 1..Len(s) : i <= n \/ s[i] \in Elements(r)
<1>1. PICK r : r = SubSeq(s, n + 1, Len(s))
  OBVIOUS
<1>2. CASE n < Len(s)
  <2>1. /\ r \in Seq(S) /\ Len(r) = Len(s) - n
        /\ \A i \in 1..(Len(s) - n) : r[i] = s[i + n]
    BY <1>1, <1>2, SeqFacts
  <2>2. \A i \in 1..Len(r) : i + n \in 1..Len(s)
    BY <1>2, <2>1, SeqFacts
  <2>3. Elements(r) \subseteq Elements(s)
    BY <2>1, <2>2 DEF Elements
  <2>4. \A i \in 1..Len(s) : i > n => s[i] \in Elements(r)
    <3> SUFFICES ASSUME NEW i \in 1..Len(s), i > n PROVE s[i] \in Elements(r)
      OBVIOUS
    <3>1. PICK j : j = i - n
      OBVIOUS
    <3>2. j \in 1..Len(r) /\ j + n = i
      BY <1>2, <2>1, <3>1, SeqFacts
    <3>3. r[j] = s[i]
      BY <2>1, <3>2
    <3> QED
      BY <3>2, <3>3 DEF Elements
  <2> QED
    BY <1>1, <1>2, <2>1, <2>3, <2>4, SeqFacts DEF WithoutFirst
<1>3. CASE n >= Len(s)
  <2>1. r = << >>
    BY <1>1, <1>3, SeqFacts
  <2> QED
    BY <1>1, <1>3, <2>1, SeqFacts DEF WithoutFirst, Elements
<1> QED
  BY <1>2, <1>3, SeqFacts

LEMMA LargerSet ==
    ASSUME NEW S, NEW T, S \subseteq T, NEW s \in Seq(S)
    PROVE  s \in Seq(T)
  OBVIOUS

-------------------------------------------------------------------------------
LEMMA Sizes ==
    /\ QueueCap \in Nat /\ BatchSize \in Nat /\ InsertLimit \in Nat /\ MaxFaults \in Nat
    /\ DiscoveryBatch \in Nat /\ BackoffInitial \in Nat \ {0} /\ BackoffMax \in Nat
    /\ BackoffInitial <= BackoffMax
    /\ NoMessage \notin Messages /\ NoRow \notin Messages
    /\ \A m \in Messages : KeyOf[m] \in Keys
  BY MessageAssumption, SizeAssumption, FaultAssumption

LEMMA Basics ==
    ASSUME IInv
    PROVE  /\ TypeOK /\ NothingElseIsLost /\ QueueStaysCapped /\ LiveBeforeHistory /\ Accounts
           /\ faults \in Nat /\ Len(ingest) \in Nat /\ Len(batch) \in Nat /\ received \subseteq Messages
           /\ backlog \in Nat
<1>1. TypeOK
  BY DEF IInv, ReadingsAccountedFor
<1>2. ingest \in Seq(received) /\ batch \in Seq(received) /\ faults \in Nat /\ received \subseteq Messages
  BY <1>1, Sizes DEF TypeOK
<1>3. backlog \in Nat
  BY <1>1, Sizes DEF TypeOK
<1> QED
  BY <1>1, <1>2, <1>3, SeqFacts DEF IInv, ReadingsAccountedFor

\* A fault stays within its bound, and any step counts no fewer of them.
LEMMA Faults ==
    ASSUME faults \in 0..MaxFaults, Fault \/ UNCHANGED faults
    PROVE  /\ faults' \in 0..MaxFaults /\ faults' >= faults /\ faults' \in Nat
           /\ Fault => faults' = faults + 1 /\ faults' > 0
  BY Sizes DEF Fault

LEMMA InitIInv == Init => IInv
<1> SUFFICES ASSUME Init PROVE IInv
  OBVIOUS
<1> USE Sizes DEF Init
<1>1. << >> \in Seq({}) /\ Len(<< >>) = 0 /\ Elements(<< >>) = {} /\ << >> \in Seq(Datastreams)
  BY DEF Elements
<1>2. TypeOK
  BY <1>1 DEF TypeOK, ListenerSteps, WriterSteps
<1>3. NothingElseIsLost /\ QueueStaysCapped /\ LiveBeforeHistory
  BY <1>1 DEF NothingElseIsLost, QueueStaysCapped, LiveBeforeHistory
<1>4. Accounts
  BY <1>1 DEF Accounts, HandledWasReceived, CutIsKnown, BatchIsStored, PushedFirst, InHand
<1> QED
  BY <1>2, <1>3, <1>4 DEF IInv, ReadingsAccountedFor

\* What a step owes that touches neither queue, batch nor table: it shows no less,
\* is about to push nothing unshown and skips the cap only by a fault.
LEMMA QueueKept ==
    ASSUME IInv, TypeOK', UNCHANGED <<ingest, writer, batch, backlog, rows, historyVars>>,
           shown \subseteq shown', faults' >= faults,
           listener = "cap" /\ listener' # "cap" => faults' >= faults + 1,
           listener' = "push" => message' \in shown' \/ faults' > 0,
           HandledWasReceived'
    PROVE  IInv'
<1>1. /\ TypeOK /\ NothingElseIsLost /\ QueueStaysCapped /\ LiveBeforeHistory /\ Accounts
      /\ faults \in Nat /\ faults' \in Nat /\ Len(ingest) \in Nat
  BY Basics, Sizes DEF TypeOK
<1>2. NothingElseIsLost'
  BY <1>1 DEF NothingElseIsLost, Persisted, historyVars
<1>3. QueueStaysCapped'
  BY <1>1, Sizes DEF QueueStaysCapped
<1>4. LiveBeforeHistory'
  BY <1>1 DEF LiveBeforeHistory
<1>5. PushedFirst'
  BY <1>1 DEF Accounts, PushedFirst, historyVars
<1>6. CutIsKnown' /\ BatchIsStored'
  BY <1>1 DEF Accounts, CutIsKnown, BatchIsStored, Persisted, historyVars
<1>7. (writer = "rest" => backlog <= QueueCap + faults + 1)'
  <2>1. backlog \in Nat /\ QueueCap \in Nat
    BY Basics, Sizes
  <2>2. writer = "rest" => backlog <= QueueCap + faults + 1
    BY <1>1 DEF Accounts
  <2>3. writer' = writer /\ backlog' = backlog /\ faults' >= faults
    OBVIOUS
  <2>4. \A b, q, f, g \in Nat : b <= q + f + 1 /\ g >= f => b <= q + g + 1
    OBVIOUS
  <2> QED
    BY <1>1, <2>1, <2>2, <2>3, <2>4
<1> QED
  BY <1>2, <1>3, <1>4, <1>5, <1>6, <1>7 DEF IInv, ReadingsAccountedFor, Accounts

-------------------------------------------------------------------------------
(* The listener.                                                            *)

LEMMA StepReceive ==
    ASSUME IInv, NEW m \in Messages, Receive(m)
    PROVE  IInv'
<1>1. /\ TypeOK /\ received \subseteq Messages /\ listener = "idle" /\ listener' = "latest"
      /\ UNCHANGED <<liveVars, ingest, discoveryVars, writerVars, tableVars, historyVars>>
      /\ received' = received \cup {m} /\ message' = m
  BY Basics DEF Receive
<1>2. faults' \in 0..MaxFaults /\ faults' >= faults
  BY <1>1, Faults DEF Receive, TypeOK
<1>3. ingest' \in Seq(received') /\ batch' \in Seq(received')
  BY <1>1, LargerSet DEF TypeOK, writerVars
<1>4. unresolved' \subseteq received'
  BY <1>1 DEF Receive, TypeOK
<1>5. rows' \in [Keys -> received' \cup {NoRow}]
  BY <1>1 DEF TypeOK, tableVars
<1>6. TypeOK'
  BY <1>1, <1>2, <1>3, <1>4, <1>5, Sizes
     DEF TypeOK, ListenerSteps, liveVars, discoveryVars, writerVars, tableVars, historyVars
<1>7. HandledWasReceived'
  BY <1>1 DEF HandledWasReceived
<1> QED
  BY <1>1, <1>2, <1>6, <1>7, QueueKept DEF liveVars, writerVars, tableVars

LEMMA StepSetLatest == IInv /\ SetLatest => IInv'
<1> SUFFICES ASSUME IInv, SetLatest PROVE IInv'
  OBVIOUS
<1>1. /\ TypeOK /\ listener = "latest" /\ listener' = "live" /\ latest' = message
      /\ UNCHANGED <<received, message, unresolved, shown, ingest, discoveryVars, writerVars,
                     tableVars, historyVars, faults>>
      /\ message \in received
  BY Basics DEF SetLatest, Handle, Accounts, HandledWasReceived
<1>2. TypeOK'
  BY <1>1 DEF TypeOK, ListenerSteps, discoveryVars, writerVars, tableVars, historyVars
<1>3. HandledWasReceived'
  BY <1>1 DEF HandledWasReceived
<1> QED
  BY <1>1, <1>2, <1>3, QueueKept, Basics DEF writerVars, tableVars

LEMMA StepShowLive == IInv /\ ShowLive => IInv'
<1> SUFFICES ASSUME IInv, ShowLive PROVE IInv'
  OBVIOUS
<1>1. /\ TypeOK /\ listener = "live" /\ listener' = "push"
      /\ \/ shown' = shown \cup {message} /\ UNCHANGED faults
         \/ Fault /\ UNCHANGED shown
      /\ UNCHANGED <<received, message, unresolved, latest, ingest, discoveryVars, writerVars,
                     tableVars, historyVars>>
      /\ message \in received
  BY Basics DEF ShowLive, Handle, Accounts, HandledWasReceived
<1>2. /\ faults' \in 0..MaxFaults /\ faults' >= faults
      /\ shown \subseteq shown' /\ shown' \subseteq received
      /\ message' \in shown' \/ faults' > 0
  BY <1>1, Faults DEF TypeOK
<1>3. TypeOK'
  BY <1>1, <1>2 DEF TypeOK, ListenerSteps, discoveryVars, writerVars, tableVars, historyVars
<1>4. HandledWasReceived'
  BY <1>1 DEF HandledWasReceived
<1> QED
  BY <1>1, <1>2, <1>3, <1>4, QueueKept DEF writerVars, tableVars

LEMMA StepMarkKnown == IInv /\ MarkKnown => IInv'
<1> SUFFICES ASSUME IInv, MarkKnown PROVE IInv'
  OBVIOUS
<1>1. /\ TypeOK /\ listener = "known" /\ known' = known \cup NewDatastreams /\ fresh' = NewDatastreams
      /\ \/ listener' = "idle" /\ message' = NoMessage
         \/ listener' = "announce" /\ UNCHANGED message
      /\ UNCHANGED <<received, unresolved, liveVars, ingest, discovery, writerVars, tableVars,
                     historyVars, faults>>
      /\ message \in received /\ message \in Messages
  BY Basics DEF MarkKnown, Finish, Handle, Accounts, HandledWasReceived
<1>2. NewDatastreams \subseteq Datastreams
  BY <1>1, MessageAssumption DEF NewDatastreams, Datastreams
<1>3. TypeOK'
  BY <1>1, <1>2, Sizes DEF TypeOK, ListenerSteps, liveVars, writerVars, tableVars, historyVars
<1>4. HandledWasReceived'
  BY <1>1 DEF HandledWasReceived
<1> QED
  BY <1>1, <1>3, <1>4, QueueKept, Basics DEF liveVars, writerVars, tableVars

LEMMA StepAnnounce ==
    ASSUME IInv, NEW d \in Datastreams, Announce(d)
    PROVE  IInv'
<1>1. /\ TypeOK /\ listener = "announce" /\ fresh' = fresh \ {d}
      /\ discovery' = <<d>> \o discovery
      /\ \/ listener' = "idle" /\ message' = NoMessage
         \/ listener' = "announce" /\ UNCHANGED message
      /\ UNCHANGED <<received, unresolved, liveVars, ingest, known, writerVars, tableVars,
                     historyVars, faults>>
      /\ message \in received /\ message \in Messages
  BY Basics DEF Announce, Finish, Handle, Accounts, HandledWasReceived
<1>2. discovery' \in Seq(Datastreams)
  BY <1>1, PushFacts DEF TypeOK
<1>3. TypeOK'
  BY <1>1, <1>2, Sizes DEF TypeOK, ListenerSteps, liveVars, writerVars, tableVars, historyVars
<1>4. HandledWasReceived'
  BY <1>1 DEF HandledWasReceived
<1> QED
  BY <1>1, <1>3, <1>4, QueueKept, Basics DEF liveVars, writerVars, tableVars

LEMMA StepAbandon == IInv /\ AbandonMessage => IInv'
<1> SUFFICES ASSUME IInv, AbandonMessage PROVE IInv'
  OBVIOUS
<1>1. /\ TypeOK /\ Fault /\ listener' = "idle" /\ message' = NoMessage /\ fresh' = {}
      /\ UNCHANGED <<received, unresolved, liveVars, ingest, known, discovery, writerVars,
                     tableVars, historyVars>>
  BY Basics DEF AbandonMessage, Finish
<1>2. faults' \in 0..MaxFaults /\ faults' = faults + 1 /\ faults \in Nat
  BY <1>1, Faults, Basics DEF TypeOK
<1>3. TypeOK'
  BY <1>1, <1>2, Sizes DEF TypeOK, ListenerSteps, liveVars, writerVars, tableVars, historyVars
<1>4. HandledWasReceived'
  BY <1>1 DEF HandledWasReceived
<1> QED
  BY <1>1, <1>2, <1>3, <1>4, QueueKept DEF liveVars, writerVars, tableVars

LEMMA StepKnownExpires == IInv /\ KnownExpires => IInv'
<1> SUFFICES ASSUME IInv, KnownExpires PROVE IInv'
  OBVIOUS
<1>1. /\ TypeOK /\ HandledWasReceived /\ known' = {} /\ listener = "idle"
      /\ UNCHANGED <<listenerVars, liveVars, ingest, fresh, discovery, writerVars, tableVars,
                     historyVars, faults>>
  BY Basics DEF KnownExpires, Accounts
<1>2. TypeOK'
  BY <1>1 DEF TypeOK, listenerVars, liveVars, writerVars, tableVars, historyVars
<1>3. HandledWasReceived'
  BY <1>1 DEF HandledWasReceived, listenerVars
<1> QED
  BY <1>1, <1>2, <1>3, QueueKept, Basics DEF listenerVars, liveVars, writerVars, tableVars

\* A push: the queue moves down behind what was pushed since the batch was read.
LEMMA StepPush == IInv /\ Push => IInv'
<1> SUFFICES ASSUME IInv, Push PROVE IInv'
  OBVIOUS
<1>1. /\ TypeOK /\ NothingElseIsLost /\ QueueStaysCapped /\ LiveBeforeHistory
      /\ CutIsKnown /\ BatchIsStored /\ PushedFirst
      /\ faults \in Nat /\ Len(ingest) \in Nat /\ Len(batch) \in Nat /\ message \in received
      /\ ingest \in Seq(received)
  BY Basics DEF Accounts, HandledWasReceived, Push, TypeOK
<1>2. /\ listener = "push" /\ listener' = "cap" /\ UNCHANGED <<received, message, unresolved>>
      /\ ingest' = <<message>> \o ingest /\ pushed' = pushed \cup {message}
      /\ window' = IF writer \in InHand THEN window \cup {message} ELSE window
      /\ UNCHANGED <<latest, shown, known, fresh, discovery, writer, batch, backlog, backoff, pops,
                     discovered, rows, sensors, raced, evicted, faults>>
  BY DEF Push, Handle, InHand, liveVars, discoveryVars, writerVars, tableVars
<1>3. /\ ingest' \in Seq(received) /\ Len(ingest') = Len(ingest) + 1 /\ ingest'[1] = message
      /\ \A i \in 2..(Len(ingest) + 1) : ingest'[i] = ingest[i - 1]
      /\ Elements(ingest') = {message} \cup Elements(ingest)
  BY <1>1, <1>2, PushFacts
<1>4. TypeOK'
  BY <1>1, <1>2, <1>3 DEF TypeOK, ListenerSteps
<1>5. NothingElseIsLost'
  BY <1>1, <1>2, <1>3 DEF NothingElseIsLost, Persisted
<1>6. QueueStaysCapped'
  BY <1>1, <1>2, <1>3, Sizes DEF QueueStaysCapped
<1>7. LiveBeforeHistory'
  BY <1>1, <1>2 DEF LiveBeforeHistory
<1>8. CutIsKnown'
  <2> SUFFICES ASSUME writer \in InHand, NEW i \in 1..Len(ingest'), i <= Len(batch)
               PROVE  ingest'[i] \in window \cup {message} \cup Elements(batch)
    BY <1>2 DEF CutIsKnown
  <2>1. CASE i = 1
    BY <1>3, <2>1
  <2>2. CASE i # 1
    <3>1. PICK j : j = i - 1
      OBVIOUS
    <3>2. i \in 2..(Len(ingest) + 1) /\ j \in 1..Len(ingest) /\ j <= Len(batch)
      BY <1>1, <1>3, <2>2, <3>1
    <3>3. ingest'[i] = ingest[j]
      BY <1>3, <3>1, <3>2
    <3> QED
      BY <1>1, <3>2, <3>3 DEF CutIsKnown
  <2> QED
    BY <2>1, <2>2
<1>9. BatchIsStored' /\ HandledWasReceived' /\ PushedFirst'
  BY <1>1, <1>2, <1>3 DEF BatchIsStored, Persisted, HandledWasReceived, PushedFirst
<1>10. (writer = "rest" => backlog <= QueueCap + faults + 1)'
  BY <1>2, Basics DEF Accounts
<1> QED
  BY <1>4, <1>5, <1>6, <1>7, <1>8, <1>9, <1>10 DEF IInv, ReadingsAccountedFor, Accounts

\* The cap: what goes at the tail is known to be gone.
LEMMA StepCap == IInv /\ Cap => IInv'
<1> SUFFICES ASSUME IInv, Cap PROVE IInv'
  OBVIOUS
<1>1. /\ TypeOK /\ NothingElseIsLost /\ QueueStaysCapped /\ LiveBeforeHistory
      /\ CutIsKnown /\ BatchIsStored /\ PushedFirst
      /\ faults \in Nat /\ Len(ingest) \in Nat /\ Len(batch) \in Nat /\ message \in received
      /\ ingest \in Seq(received) /\ QueueCap \in Nat
  BY Basics, Sizes DEF Accounts, HandledWasReceived, Cap, TypeOK
<1>2. /\ listener = "cap" /\ listener' = "known" /\ UNCHANGED <<received, message, unresolved>>
      /\ ingest' = FirstEntries(ingest, QueueCap)
      /\ evicted' = evicted \cup Elements(WithoutFirst(ingest, QueueCap))
      /\ UNCHANGED <<latest, shown, known, fresh, discovery, writer, batch, backlog, backoff, pops,
                     discovered, rows, sensors, window, raced, pushed, faults>>
  BY DEF Cap, Handle, liveVars, discoveryVars, writerVars, tableVars
<1>3. /\ ingest' \in Seq(received) /\ Len(ingest') \in Nat /\ Len(ingest') <= QueueCap
      /\ Len(ingest') <= Len(ingest)
      /\ \A i \in 1..Len(ingest') : ingest'[i] = ingest[i]
      /\ \A i \in 1..Len(ingest) : i <= QueueCap => i \in 1..Len(ingest')
      /\ Elements(ingest') \subseteq Elements(ingest)
  BY <1>1, <1>2, FirstFacts
<1>4. /\ Elements(WithoutFirst(ingest, QueueCap)) \subseteq Elements(ingest)
      /\ \A i \in 1..Len(ingest) :
           i <= QueueCap \/ ingest[i] \in Elements(WithoutFirst(ingest, QueueCap))
  BY <1>1, RestFacts
<1>5. TypeOK'
  BY <1>1, <1>2, <1>3, <1>4 DEF TypeOK, ListenerSteps, PushedFirst
<1>6. NothingElseIsLost'
  <2>1. Elements(ingest) \subseteq Elements(ingest') \cup evicted'
    BY <1>2, <1>3, <1>4 DEF Elements
  <2> QED
    BY <1>1, <1>2, <2>1 DEF NothingElseIsLost, Persisted
<1>7. QueueStaysCapped'
  BY <1>1, <1>2, <1>3 DEF QueueStaysCapped
<1>8. LiveBeforeHistory'
  BY <1>1, <1>2 DEF LiveBeforeHistory
<1>9. CutIsKnown'
  BY <1>1, <1>2, <1>3 DEF CutIsKnown
<1>10. BatchIsStored' /\ HandledWasReceived' /\ PushedFirst'
  BY <1>1, <1>2, <1>3 DEF BatchIsStored, Persisted, HandledWasReceived, PushedFirst
<1>11. (writer = "rest" => backlog <= QueueCap + faults + 1)'
  BY <1>2, Basics DEF Accounts
<1> QED
  BY <1>5, <1>6, <1>7, <1>8, <1>9, <1>10, <1>11 DEF IInv, ReadingsAccountedFor, Accounts

-------------------------------------------------------------------------------
(* The batch writer.                                                        *)

LEMMA LeastNumber ==
    ASSUME NEW T, T \subseteq Nat, T # {}
    PROVE  \E m \in T : \A n \in T : m <= n
<1> DEFINE R == OpToRel(<, Nat)
<1>1. PICK m \in T : \A n \in T : ~ (<<n, m>> \in R)
  BY NatLessThanWellFounded, WFMin
<1>2. \A n \in T : <<n, m>> \in R <=> n < m
  BY DEF OpToRel
<1> HIDE DEF R
<1>3. \A n \in T : m <= n
  <2> SUFFICES ASSUME NEW n \in T PROVE m <= n
    OBVIOUS
  <2>1. ~(n < m)
    BY <1>1, <1>2
  <2>2. m \in Nat /\ n \in Nat
    OBVIOUS
  <2> QED
    BY <2>1, <2>2
<1> QED
  BY <1>3

\* The insert stores an entry for every key of the batch and replaces no row.
LEMMA InsertFacts ==
    ASSUME IInv, rows' = InsertIgnoringConflicts
    PROVE  /\ DOMAIN rows' = Keys
           /\ \A k \in Keys : rows[k] # NoRow => rows'[k] = rows[k]
           /\ \A k \in Keys : rows'[k] = rows[k] \/ rows'[k] \in Elements(batch)
           /\ \A m \in Elements(batch) : rows'[KeyOf[m]] # NoRow
<1>1. /\ batch \in Seq(received) /\ received \subseteq Messages /\ Len(batch) \in Nat
      /\ \A i \in 1..Len(batch) : batch[i] \in Elements(batch) /\ batch[i] # NoRow
  <2>1. batch \in Seq(received) /\ received \subseteq Messages
    BY Basics DEF TypeOK
  <2> QED
    BY <2>1, SeqFacts, Sizes DEF Elements
<1>2. ASSUME NEW k \in Keys
      PROVE  IF rows[k] = NoRow /\ \E i \in 1..Len(batch) : KeyOf[batch[i]] = k
             THEN rows'[k] \in Elements(batch) /\ rows'[k] # NoRow
             ELSE rows'[k] = rows[k]
  <2>1. CASE rows[k] = NoRow /\ \E i \in 1..Len(batch) : KeyOf[batch[i]] = k
    <3> DEFINE First(i) == /\ KeyOf[batch[i]] = k
                           /\ \A j \in 1..(i - 1) : KeyOf[batch[j]] # k
    <3>0. PICK places : places = {i \in 1..Len(batch) : KeyOf[batch[i]] = k}
      OBVIOUS
    <3>1. PICK m \in places : \A n \in places : m <= n
      <4>1. places \subseteq Nat /\ places # {}
        BY <1>1, <2>1, <3>0
      <4> QED
        BY <4>1, LeastNumber
    <3>2. \A j \in 1..(m - 1) : j \in 1..Len(batch) /\ ~(m <= j)
      BY <1>1, <3>0, <3>1
    <3>3. m \in 1..Len(batch) /\ First(m)
      BY <3>0, <3>1, <3>2
    <3>4. rows'[k] = batch[CHOOSE i \in 1..Len(batch) : First(i)]
      BY <2>1 DEF InsertIgnoringConflicts
    <3> HIDE DEF First
    <3>5. (CHOOSE i \in 1..Len(batch) : First(i)) \in 1..Len(batch)
      BY <3>3
    <3> QED
      BY <1>1, <2>1, <3>4, <3>5
  <2>2. CASE ~(rows[k] = NoRow /\ \E i \in 1..Len(batch) : KeyOf[batch[i]] = k)
    BY <2>2 DEF InsertIgnoringConflicts
  <2> QED
    BY <2>1, <2>2
<1>3. \A m \in Elements(batch) :
        m \in Messages /\ KeyOf[m] \in Keys /\ \E i \in 1..Len(batch) : KeyOf[batch[i]] = KeyOf[m]
  BY <1>1, SeqFacts, Sizes DEF Elements
<1>4. DOMAIN rows' = Keys
  BY DEF InsertIgnoringConflicts
<1> QED
  BY <1>2, <1>3, <1>4

\* A table that only gains entries of the batch keeps what is said of the table.
LEMMA TableGrows ==
    ASSUME IInv, rows' = rows \/ rows' = InsertIgnoringConflicts
    PROVE  /\ rows' \in [Keys -> received \cup {NoRow}]
           /\ \A m \in Messages : Persisted(m) => Persisted(m)'
           /\ \A k \in Keys : rows'[k] # NoRow => rows'[k] \in shown \/ faults > 0
           /\ \A k \in Keys : rows[k] # NoRow => rows'[k] = rows[k]
<1>1. /\ rows \in [Keys -> received \cup {NoRow}] /\ batch \in Seq(received) /\ PushedFirst
      /\ LiveBeforeHistory
  BY Basics DEF TypeOK, Accounts
<1>2. /\ DOMAIN rows' = Keys
      /\ \A k \in Keys : rows[k] # NoRow => rows'[k] = rows[k]
      /\ \A k \in Keys : rows'[k] = rows[k] \/ rows'[k] \in Elements(batch)
  BY <1>1, InsertFacts
<1>3. rows' \in [Keys -> received \cup {NoRow}]
  <2>1. \A k \in Keys : rows'[k] \in received \cup {NoRow}
    BY <1>1, <1>2, SeqFacts
  <2>2. rows' = rows \/ rows' = [k \in Keys |-> rows'[k]]
    BY DEF InsertIgnoringConflicts
  <2> QED
    BY <1>1, <2>1, <2>2
<1>4. \A m \in Messages : Persisted(m) => Persisted(m)'
  BY <1>2, Sizes DEF Persisted
<1>5. \A k \in Keys : rows'[k] # NoRow => rows'[k] \in shown \/ faults > 0
  BY <1>1, <1>2 DEF PushedFirst, LiveBeforeHistory
<1> QED
  BY <1>2, <1>3, <1>4, <1>5

\* What a step of the writer owes that has no batch in hand afterwards and cuts
\* nothing off the queue.
LEMMA BatchDropped ==
    ASSUME IInv, TypeOK', writer' \notin InHand, Elements(batch') \subseteq Elements(batch),
           UNCHANGED <<listenerVars, liveVars, ingest, raced, evicted, pushed>>,
           rows' = rows \/ rows' = InsertIgnoringConflicts, Fault \/ UNCHANGED faults
    PROVE  IInv'
<1>1. /\ TypeOK /\ NothingElseIsLost /\ QueueStaysCapped /\ PushedFirst /\ HandledWasReceived
      /\ faults \in Nat /\ faults' \in Nat /\ faults' >= faults /\ pushed \subseteq Messages
      /\ Len(ingest) \in Nat
  <2>1. faults \in 0..MaxFaults
    BY Basics DEF TypeOK
  <2>2. TypeOK /\ received \subseteq Messages
    BY Basics
  <2> QED
    BY <2>1, <2>2, Basics, Faults DEF TypeOK, Accounts
<1>2. NothingElseIsLost'
  BY <1>1, TableGrows DEF NothingElseIsLost
<1>3. QueueStaysCapped'
  BY <1>1, Sizes DEF QueueStaysCapped, listenerVars
<1>4. LiveBeforeHistory'
  BY <1>1, TableGrows DEF LiveBeforeHistory, liveVars
<1>5. PushedFirst' /\ HandledWasReceived'
  BY <1>1 DEF PushedFirst, HandledWasReceived, listenerVars, liveVars
<1>6. CutIsKnown' /\ BatchIsStored' /\ (writer = "rest" => backlog <= QueueCap + faults + 1)'
  BY DEF CutIsKnown, BatchIsStored, InHand
<1> QED
  BY <1>2, <1>3, <1>4, <1>5, <1>6 DEF IInv, ReadingsAccountedFor, Accounts

LEMMA EmptyBatch ==
    /\ Elements(<< >>) = {} /\ Len(<< >>) = 0 /\ \A S : << >> \in Seq(S)
  BY DEF Elements

LEMMA StepWake == IInv /\ Wake => IInv'
<1> SUFFICES ASSUME IInv, Wake PROVE IInv'
  OBVIOUS
<1>1. TypeOK /\ writer' = "poll"
      /\ UNCHANGED <<listenerVars, liveVars, ingest, discoveryVars, batch, backlog, backoff,
                     pops, discovered, tableVars, historyVars, faults>>
  BY Basics DEF Wake
<1>2. TypeOK'
  BY <1>1 DEF TypeOK, WriterSteps, listenerVars, liveVars, discoveryVars, tableVars, historyVars
<1> QED
  BY <1>1, <1>2, BatchDropped DEF InHand, tableVars, historyVars

LEMMA StepRestart == IInv /\ Restart => IInv'
<1> SUFFICES ASSUME IInv, Restart PROVE IInv'
  OBVIOUS
<1>1. TypeOK /\ writer' = "poll" /\ backoff' = BackoffInitial
      /\ UNCHANGED <<listenerVars, liveVars, ingest, discoveryVars, batch, backlog, pops,
                     discovered, tableVars, historyVars, faults>>
  BY Basics DEF Restart
<1>2. BackoffInitial \in BackoffInitial..BackoffMax
  BY Sizes
<1>3. TypeOK'
  BY <1>1, <1>2 DEF TypeOK, WriterSteps, listenerVars, liveVars, discoveryVars, tableVars, historyVars
<1> QED
  BY <1>1, <1>3, BatchDropped DEF InHand, tableVars, historyVars

LEMMA StepPopDiscovery == IInv /\ PopDiscovery => IInv'
<1> SUFFICES ASSUME IInv, PopDiscovery PROVE IInv'
  OBVIOUS
<1>1. TypeOK
      /\ UNCHANGED <<listenerVars, liveVars, ingest, known, fresh, batch, backlog, backoff,
                     tableVars, historyVars, faults>>
  BY Basics DEF PopDiscovery
<1>2. CASE pops = 0 \/ discovery = << >>
  <2>1. writer' = "poll" /\ pops' = 0 /\ UNCHANGED <<discovered, discovery>>
    BY <1>2 DEF PopDiscovery
  <2>2. TypeOK'
    BY <1>1, <2>1, Sizes
       DEF TypeOK, WriterSteps, listenerVars, liveVars, tableVars, historyVars
  <2> QED
    BY <1>1, <2>1, <2>2, BatchDropped DEF InHand, tableVars, historyVars
<1>3. CASE ~(pops = 0 \/ discovery = << >>)
  <2>1. /\ writer' = "register" /\ pops' = pops - 1 /\ discovered' = {discovery[Len(discovery)]}
        /\ discovery' = SubSeq(discovery, 1, Len(discovery) - 1)
    BY <1>3 DEF PopDiscovery
  <2>2. discovery \in Seq(Datastreams) /\ discovery # << >> /\ Len(discovery) \in 1..Len(discovery)
    <3>1. discovery \in Seq(Datastreams) /\ discovery # << >>
      BY <1>1, <1>3 DEF TypeOK
    <3> QED
      BY <3>1
  <2>3. discovery[Len(discovery)] \in Datastreams /\ discovery' \in Seq(Datastreams)
    BY <2>1, <2>2
  <2>4. pops' \in 0..DiscoveryBatch
    BY <1>1, <1>3, <2>1, Sizes DEF TypeOK
  <2>5. TypeOK'
    BY <1>1, <2>1, <2>3, <2>4
       DEF TypeOK, WriterSteps, listenerVars, liveVars, tableVars, historyVars
  <2> QED
    BY <1>1, <2>1, <2>5, BatchDropped DEF InHand, tableVars, historyVars
<1> QED
  BY <1>2, <1>3

LEMMA StepRegister ==
    ASSUME IInv, NEW d \in Datastreams, Register(d)
    PROVE  IInv'
<1>1. TypeOK /\ writer' = "discover" /\ discovered' = {}
      /\ UNCHANGED <<listenerVars, liveVars, ingest, discoveryVars, batch, backlog, backoff,
                     pops, rows, historyVars>>
  BY Basics DEF Register
<1>2. (Fault \/ UNCHANGED faults) /\ sensors' \subseteq Metrics
  <2>1. d[2] \in Metrics /\ sensors \subseteq Metrics
    BY <1>1 DEF Datastreams, TypeOK
  <2> QED
    BY <2>1 DEF Register
<1>3. faults' \in 0..MaxFaults
  BY <1>1, <1>2, Faults DEF TypeOK
<1>4. TypeOK'
  BY <1>1, <1>2, <1>3 DEF TypeOK, WriterSteps, listenerVars, liveVars, discoveryVars, historyVars
<1> QED
  BY <1>1, <1>2, <1>4, BatchDropped DEF InHand, historyVars

\* process_batch is over: its batch is empty and its queue as it was.
LEMMA BatchOver ==
    ASSUME IInv, EndBatch, writer' \notin InHand, writer' \in WriterSteps,
           backoff' \in BackoffInitial..BackoffMax, pops' \in 0..DiscoveryBatch,
           discovered' = discovered \/ discovered' = {},
           UNCHANGED <<listenerVars, liveVars, ingest, discoveryVars, sensors, raced, evicted, pushed>>,
           rows' = rows \/ rows' = InsertIgnoringConflicts, Fault \/ UNCHANGED faults
    PROVE  IInv'
<1>1. TypeOK /\ batch' = << >> /\ backlog' = 0 /\ window' = {}
  BY Basics DEF EndBatch
<1>2. faults' \in 0..MaxFaults
  BY <1>1, Faults DEF TypeOK
<1>3. rows' \in [Keys -> received \cup {NoRow}]
  BY TableGrows
<1>4. backlog' \in 0..(QueueCap + 1 + MaxFaults)
  BY <1>1, Sizes
<1>5. TypeOK'
  BY <1>1, <1>2, <1>3, <1>4, EmptyBatch DEF TypeOK, listenerVars, liveVars, discoveryVars
<1> QED
  BY <1>1, <1>5, EmptyBatch, BatchDropped

LEMMA StepInsertFails ==
    ASSUME IInv, InsertUnavailable \/ InsertTooLarge \/ InsertRefused \/ WriterDies
    PROVE  IInv'
<1>1. /\ TypeOK /\ BackoffInitial \in Nat \ {0} /\ BackoffMax \in Nat /\ DiscoveryBatch \in Nat
      /\ backoff \in BackoffInitial..BackoffMax /\ pops \in 0..DiscoveryBatch
  BY Basics, Sizes DEF TypeOK
<1>2. CASE InsertUnavailable \/ InsertTooLarge
  <2>1. BackOff
    BY <1>2 DEF InsertUnavailable, InsertTooLarge
  <2>2. backoff' \in BackoffInitial..BackoffMax
    BY <1>1, <2>1 DEF BackOff
  <2>3. /\ rows' = rows \/ rows' = InsertIgnoringConflicts
        /\ Fault \/ UNCHANGED faults
    BY <1>2 DEF InsertUnavailable, InsertTooLarge
  <2> QED
    BY <1>1, <2>1, <2>2, <2>3, BatchOver DEF BackOff, InHand, WriterSteps
<1>3. CASE InsertRefused
  BY <1>1, <1>3, BatchOver DEF InsertRefused, InHand, WriterSteps, tableVars
<1>4. CASE WriterDies
  BY <1>1, <1>4, BatchOver DEF WriterDies, InHand, WriterSteps, tableVars
<1> QED
  BY <1>2, <1>3, <1>4

\* A batch read from the head of the queue is what the trim would cut now.
LEMMA BatchRead ==
    ASSUME IInv, NEW n \in Nat, ReadBatch(n), writer' \in {"len", "insert"},
           backlog' \in 0..(QueueCap + 1 + MaxFaults),
           UNCHANGED <<listenerVars, liveVars, ingest, discoveryVars, backoff, pops, discovered,
                       tableVars, raced, evicted, pushed, faults>>
    PROVE  IInv'
<1>1. /\ TypeOK /\ NothingElseIsLost /\ QueueStaysCapped /\ LiveBeforeHistory
      /\ PushedFirst /\ HandledWasReceived
      /\ ingest \in Seq(received)
  BY Basics DEF TypeOK, Accounts
<1>2. /\ batch' \in Seq(received) /\ window' = {} /\ Len(batch') \in Nat
      /\ Len(batch') <= Len(ingest)
      /\ \A i \in 1..Len(batch') : batch'[i] = ingest[i]
      /\ Elements(batch') \subseteq Elements(ingest)
  BY <1>1, FirstFacts DEF ReadBatch
<1>3. TypeOK'
  BY <1>1, <1>2 DEF TypeOK, WriterSteps, listenerVars, liveVars, discoveryVars, tableVars
<1>4. CutIsKnown'
  <2> SUFFICES ASSUME NEW i \in 1..Len(ingest), i <= Len(batch')
               PROVE  ingest[i] \in Elements(batch')
    BY DEF CutIsKnown
  <2>1. i \in 1..Len(batch')
    BY <1>2
  <2> QED
    BY <1>2, <2>1 DEF Elements
<1>5. NothingElseIsLost' /\ QueueStaysCapped' /\ LiveBeforeHistory'
  BY <1>1 DEF NothingElseIsLost, Persisted, QueueStaysCapped, LiveBeforeHistory, listenerVars,
              liveVars, tableVars
<1>6. PushedFirst' /\ HandledWasReceived' /\ BatchIsStored'
  BY <1>1, <1>2 DEF PushedFirst, HandledWasReceived, BatchIsStored, listenerVars, liveVars
<1> QED
  BY <1>3, <1>4, <1>5, <1>6 DEF IInv, ReadingsAccountedFor, Accounts

LEMMA StepPoll == IInv /\ Poll => IInv'
<1> SUFFICES ASSUME IInv, Poll PROVE IInv'
  OBVIOUS
<1>1. TypeOK /\ BatchSize \in Nat
  BY Basics, Sizes
<1>2. backlog' \in 0..(QueueCap + 1 + MaxFaults)
  BY <1>1 DEF Poll, TypeOK
<1> QED
  BY <1>1, <1>2, BatchRead DEF Poll

LEMMA StepReadBacklog == IInv /\ ReadBacklog => IInv'
<1> SUFFICES ASSUME IInv, ReadBacklog PROVE IInv'
  OBVIOUS
<1>1. backlog \in Nat /\ backlog' \in 0..(QueueCap + 1 + MaxFaults)
  BY Basics, Sizes DEF ReadBacklog
<1> QED
  BY <1>1, BatchRead DEF ReadBacklog

\* What a step of the writer owes that keeps the batch in hand.
LEMMA BatchHeld ==
    ASSUME IInv, TypeOK', writer \in InHand, writer' \in InHand,
           UNCHANGED <<listenerVars, liveVars, ingest, batch, historyVars, faults>>,
           rows' = rows \/ rows' = InsertIgnoringConflicts,
           writer' = "rest" => backlog' <= QueueCap + faults + 1,
           BatchIsStored'
    PROVE  IInv'
<1>1. /\ TypeOK /\ NothingElseIsLost /\ QueueStaysCapped /\ CutIsKnown
      /\ PushedFirst /\ HandledWasReceived /\ pushed \subseteq Messages
  BY Basics DEF Accounts, TypeOK
<1>2. NothingElseIsLost'
  BY <1>1, TableGrows DEF NothingElseIsLost, historyVars
<1>3. LiveBeforeHistory'
  BY TableGrows DEF LiveBeforeHistory, liveVars
<1>4. QueueStaysCapped' /\ CutIsKnown' /\ PushedFirst' /\ HandledWasReceived'
  BY <1>1 DEF QueueStaysCapped, CutIsKnown, PushedFirst, HandledWasReceived, listenerVars, liveVars,
              historyVars
<1> QED
  BY <1>2, <1>3, <1>4 DEF IInv, ReadingsAccountedFor, Accounts

LEMMA StepMeasure == IInv /\ Measure => IInv'
<1> SUFFICES ASSUME IInv, Measure PROVE IInv'
  OBVIOUS
<1>1. /\ TypeOK /\ writer = "len" /\ Len(ingest) \in Nat
      /\ UNCHANGED <<listenerVars, liveVars, ingest, discoveryVars, discovered, tableVars,
                     raced, evicted, pushed, faults>>
  BY Basics DEF Measure
<1>2. CASE writer' = "rest" /\ backlog' = Len(ingest) /\ UNCHANGED <<batch, window, backoff, pops>>
  <2>1. Len(ingest) <= QueueCap + faults + 1
    BY <1>1, Basics, Sizes DEF QueueStaysCapped
  <2>2. backlog' \in 0..(QueueCap + 1 + MaxFaults)
    BY <1>1, <1>2, <2>1, Sizes DEF TypeOK
  <2>3. TypeOK'
    BY <1>1, <1>2, <2>2
       DEF TypeOK, WriterSteps, listenerVars, liveVars, discoveryVars, tableVars
  <2>4. BatchIsStored'
    BY <1>2 DEF BatchIsStored
  <2> QED
    BY <1>1, <1>2, <2>1, <2>3, <2>4, BatchHeld DEF InHand, historyVars, tableVars
<1>3. CASE writer' = "discover" /\ EndBatch /\ pops' = DiscoveryBatch /\ backoff' = BackoffInitial
  <2>1. pops' \in 0..DiscoveryBatch /\ backoff' \in BackoffInitial..BackoffMax
    BY <1>3, Sizes
  <2> QED
    BY <1>1, <1>3, <2>1, BatchOver DEF InHand, WriterSteps, tableVars
<1>4. CASE writer' = "insert" /\ UNCHANGED <<batch, window, backlog, backoff, pops>>
  <2>1. TypeOK'
    BY <1>1, <1>4 DEF TypeOK, WriterSteps, listenerVars, liveVars, discoveryVars, tableVars
  <2>2. BatchIsStored'
    BY <1>4 DEF BatchIsStored
  <2> QED
    BY <1>1, <1>4, <2>1, <2>2, BatchHeld DEF InHand, historyVars, tableVars
<1> QED
  BY <1>2, <1>3, <1>4 DEF Measure

LEMMA StepInsert == IInv /\ Insert => IInv'
<1> SUFFICES ASSUME IInv, Insert PROVE IInv'
  OBVIOUS
<1>1. /\ TypeOK /\ writer = "insert" /\ writer' = "trim" /\ rows' = InsertIgnoringConflicts
      /\ UNCHANGED <<listenerVars, liveVars, ingest, discoveryVars, batch, backlog, backoff,
                     pops, discovered, sensors, historyVars, faults>>
  BY Basics DEF Insert
<1>2. rows' \in [Keys -> received \cup {NoRow}]
  BY <1>1, TableGrows
<1>3. TypeOK'
  BY <1>1, <1>2 DEF TypeOK, WriterSteps, listenerVars, liveVars, discoveryVars, historyVars
<1>4. BatchIsStored'
  BY <1>1, InsertFacts DEF BatchIsStored, Persisted
<1> QED
  BY <1>1, <1>3, <1>4, BatchHeld DEF InHand

\* The trim cuts by position: what goes is stored, or raced the batch.
LEMMA StepTrim == IInv /\ Trim => IInv'
<1> SUFFICES ASSUME IInv, Trim PROVE IInv'
  OBVIOUS
<1>1. /\ TypeOK /\ NothingElseIsLost /\ QueueStaysCapped /\ LiveBeforeHistory
      /\ CutIsKnown /\ BatchIsStored /\ PushedFirst /\ HandledWasReceived
      /\ ingest \in Seq(received) /\ Len(batch) \in Nat /\ Len(ingest) \in Nat /\ faults \in Nat
  BY Basics DEF TypeOK, Accounts
<1>2. /\ writer = "trim" /\ writer' = "poll"
      /\ ingest' = WithoutFirst(ingest, Len(batch)) /\ raced' = raced \cup window
      /\ batch' = << >> /\ backlog' = 0 /\ window' = {} /\ backoff' = BackoffInitial
      /\ UNCHANGED <<listenerVars, liveVars, discoveryVars, pops, discovered, tableVars,
                     evicted, pushed, faults>>
  BY DEF Trim, EndBatch
<1>3. /\ ingest' \in Seq(received) /\ Len(ingest') \in Nat /\ Len(ingest') <= Len(ingest)
      /\ Elements(ingest') \subseteq Elements(ingest)
      /\ \A i \in 1..Len(ingest) : i <= Len(batch) \/ ingest[i] \in Elements(ingest')
  BY <1>1, <1>2, RestFacts
<1>4. backlog' \in 0..(QueueCap + 1 + MaxFaults) /\ backoff' \in BackoffInitial..BackoffMax
  BY <1>2, Sizes
<1>5. TypeOK'
  BY <1>1, <1>2, <1>3, <1>4, EmptyBatch
     DEF TypeOK, WriterSteps, listenerVars, liveVars, discoveryVars, tableVars
<1>6. NothingElseIsLost'
  <2>1. \A m \in Elements(ingest) : m \in Elements(ingest') \/ m \in window \/ Persisted(m)
    <3> SUFFICES ASSUME NEW i \in 1..Len(ingest)
                 PROVE  ingest[i] \in Elements(ingest') \/ ingest[i] \in window \/ Persisted(ingest[i])
      BY DEF Elements
    <3>1. i <= Len(batch) => ingest[i] \in window \cup Elements(batch)
      BY <1>1, <1>2 DEF CutIsKnown, InHand
    <3> QED
      BY <1>1, <1>2, <1>3, <3>1 DEF BatchIsStored
  <2>2. \A m \in Messages : Persisted(m)' = Persisted(m)
    BY <1>2 DEF Persisted, tableVars
  <2>3. \A m \in pushed : m \in Messages
    BY <1>1, Basics DEF TypeOK
  <2> QED
    BY <1>1, <1>2, <2>1, <2>2, <2>3 DEF NothingElseIsLost
<1>7. QueueStaysCapped'
  BY <1>1, <1>2, <1>3, Sizes DEF QueueStaysCapped, listenerVars
<1>8. LiveBeforeHistory' /\ HandledWasReceived'
  BY <1>1, <1>2 DEF LiveBeforeHistory, HandledWasReceived, liveVars, tableVars, listenerVars
<1>9. PushedFirst'
  BY <1>1, <1>2, <1>3, EmptyBatch DEF PushedFirst, liveVars, listenerVars
<1>10. CutIsKnown' /\ BatchIsStored'
  BY <1>2 DEF CutIsKnown, BatchIsStored, InHand
<1> QED
  BY <1>2, <1>5, <1>6, <1>7, <1>8, <1>9, <1>10 DEF IInv, ReadingsAccountedFor, Accounts

-------------------------------------------------------------------------------
LEMMA StepIInv == IInv /\ [Next]_vars => IInv'
<1> SUFFICES ASSUME IInv, [Next]_vars PROVE IInv'
  OBVIOUS
<1>1. CASE UNCHANGED vars
  <2>1. TypeOK'
    BY <1>1, Basics
       DEF vars, TypeOK, listenerVars, liveVars, discoveryVars, writerVars, tableVars, historyVars
  <2>2. HandledWasReceived'
    BY <1>1, Basics DEF vars, Accounts, HandledWasReceived, listenerVars
  <2>3. listener = "push" => message \in shown \/ faults > 0
    BY Basics DEF Accounts, PushedFirst
  <2> QED
    BY <1>1, <2>1, <2>2, <2>3, QueueKept, Basics
       DEF vars, listenerVars, liveVars, writerVars, tableVars
<1>2. CASE \/ \E m \in Messages : Receive(m)
           \/ Listen \/ AbandonMessage \/ KnownExpires
  BY <1>2, StepReceive, StepSetLatest, StepShowLive, StepPush, StepCap, StepMarkKnown, StepAnnounce,
     StepAbandon, StepKnownExpires DEF Listen
<1>3. CASE Write \/ InsertUnavailable \/ WriterDies
  BY <1>3, StepPoll, StepMeasure, StepReadBacklog, StepInsert, StepInsertFails, StepWake, StepTrim,
     StepPopDiscovery, StepRestart, StepRegister DEF Write
<1> QED
  BY <1>1, <1>2, <1>3 DEF Next

LEMMA Invariance == Spec => []IInv
<1>1. Init => IInv
  BY InitIInv
<1>2. IInv /\ [Next]_vars => IInv'
  BY StepIInv
<1> QED
  BY <1>1, <1>2, PTL DEF Spec

\* A reading that was pushed is stored, queued within the cap, or lost to the cap or
\* to a trim that raced it; it was shown before it is history (handle_telemetry,
\* process_batch).
THEOREM AccountedFor == Spec => []ReadingsAccountedFor
<1>1. IInv => ReadingsAccountedFor
  BY DEF IInv
<1> QED
  BY <1>1, Invariance, PTL

\* ON CONFLICT DO NOTHING: no step replaces a stored row (process_batch).
THEOREM Final == Spec => RowsAreFinal
<1> DEFINE Keeps == \A k \in Keys : rows[k] # NoRow => rows'[k] = rows[k]
<1>1. IInv /\ [Next]_vars => [Keeps]_vars
  <2> SUFFICES ASSUME IInv, Next PROVE Keeps
    OBVIOUS
  <2>1. rows' = rows \/ rows' = InsertIgnoringConflicts
    BY DEF Next, Listen, Write, Receive, SetLatest, ShowLive, Push, Cap, MarkKnown, Announce,
           AbandonMessage, KnownExpires, Poll, Measure, ReadBacklog, Insert, InsertTooLarge,
           InsertRefused, InsertUnavailable, Wake, Trim, PopDiscovery, Restart, Register, WriterDies,
           tableVars
  <2> QED
    BY <2>1, TableGrows
<1> QED
  BY <1>1, Invariance, PTL DEF Spec, RowsAreFinal

-------------------------------------------------------------------------------
(* The lifetime of rows.                                                    *)

\* The row a sweep is about to purge is too old for its plan.
CutoffsAreDue ==
  \A o \in sweep.orgs : o \in crossed \/ sweep.cutoff[o] <= now - PolicyFor(plan[o])

\* What the two workers remember.
WorkersTyped ==
  /\ round = [todo |-> round.todo, at |-> round.at] /\ round.at \in 0..now
  /\ sweep = [orgs |-> sweep.orgs, cutoff |-> sweep.cutoff] /\ sweep.cutoff \in [Orgs -> Int]

LifetimeInv == LifetimeTypeOK /\ WorkersTyped /\ CutoffsAreDue

LEMMA Windows ==
    /\ MaxNow \in Nat /\ Lateness \in Nat /\ "free" \in Plans /\ "pro" \in Plans
    /\ \A p \in Plans : PolicyFor(p) \in Nat
  BY DataLifetimeAssumption DEF Plans, PolicyFor

LEMMA InitLifetime == LifetimeInit => LifetimeInv
<1> SUFFICES ASSUME LifetimeInit PROVE LifetimeInv
  OBVIOUS
<1> USE Windows DEF LifetimeInit
<1>1. /\ round.at = 0 /\ round = [todo |-> round.todo, at |-> round.at]
      /\ sweep.orgs = {} /\ sweep.cutoff = [o \in Orgs |-> 0]
      /\ sweep = [orgs |-> sweep.orgs, cutoff |-> sweep.cutoff]
  BY DEF NoRound, NoSweep
<1>2. LifetimeTypeOK
  BY <1>1 DEF LifetimeTypeOK, Never
<1>3. WorkersTyped /\ CutoffsAreDue
  BY <1>1 DEF WorkersTyped, CutoffsAreDue
<1> QED
  BY <1>2, <1>3 DEF LifetimeInv

LEMMA LifetimeBasics ==
    ASSUME LifetimeInv
    PROVE  /\ LifetimeTypeOK /\ WorkersTyped /\ CutoffsAreDue
           /\ now \in Nat /\ now <= MaxNow /\ \A o \in Orgs : PolicyFor(plan[o]) \in Nat
           /\ sweep.orgs \subseteq Orgs
  BY Windows DEF LifetimeInv, LifetimeTypeOK

LEMMA StepTick == LifetimeInv /\ Tick => LifetimeInv'
<1> SUFFICES ASSUME LifetimeInv, Tick PROVE LifetimeInv'
  OBVIOUS
<1>1. /\ LifetimeTypeOK /\ WorkersTyped /\ CutoffsAreDue
      /\ now \in Nat /\ now' = now + 1 /\ now' <= MaxNow
      /\ \A o \in Orgs : PolicyFor(plan[o]) \in Nat
      /\ UNCHANGED <<plan, raw, view, refreshed, round, sweep, spent, crossed>>
      /\ sweep.orgs \subseteq Orgs
  BY LifetimeBasics, Windows DEF Tick
<1>2. 0..now \subseteq 0..now' /\ Never..now \subseteq Never..now' /\ now' \in 0..MaxNow
  BY <1>1, Windows DEF Never
<1>3. Orgs \X (0..now) \subseteq Orgs \X (0..now')
  BY <1>2
<1>4. view' \in [ViewNames -> SUBSET (Orgs \X (0..now'))] /\ refreshed' \in [ViewNames -> Never..now']
  BY <1>1, <1>2, <1>3 DEF LifetimeTypeOK
<1>5. LifetimeTypeOK'
  BY <1>1, <1>2, <1>3, <1>4 DEF LifetimeTypeOK
<1>6. WorkersTyped'
  BY <1>1, <1>2 DEF WorkersTyped
<1>7. CutoffsAreDue'
  <2>1. \A o \in sweep.orgs : PolicyFor(plan[o])' = PolicyFor(plan[o]) /\ sweep.cutoff[o] \in Int
    BY <1>1 DEF PolicyFor, WorkersTyped
  <2> QED
    BY <1>1, <2>1 DEF CutoffsAreDue
<1> QED
  BY <1>5, <1>6, <1>7 DEF LifetimeInv

\* What a step keeps that leaves time and the sweep alone.
LEMMA SweepKept ==
    ASSUME LifetimeInv, LifetimeTypeOK', UNCHANGED <<now, plan, sweep, crossed>>,
           round' = [todo |-> round'.todo, at |-> round'.at], round'.at \in 0..now
    PROVE  LifetimeInv'
<1>1. WorkersTyped'
  BY LifetimeBasics DEF WorkersTyped
<1>2. CutoffsAreDue'
  BY LifetimeBasics DEF CutoffsAreDue, PolicyFor
<1> QED
  BY <1>1, <1>2 DEF LifetimeInv

LEMMA StepInsertRow == LifetimeInv /\ InsertRow => LifetimeInv'
<1> SUFFICES ASSUME LifetimeInv, InsertRow PROVE LifetimeInv'
  OBVIOUS
<1>1. LifetimeTypeOK /\ WorkersTyped /\ now \in Nat
  BY LifetimeBasics
<1>2. PICK o \in Orgs, t \in now - Lateness..now :
        /\ t >= 0 /\ raw' = raw \union {<<o, t>>}
        /\ UNCHANGED <<now, plan, view, refreshed, round, sweep, crossed>>
  BY DEF InsertRow
<1>3. <<o, t>> \in Orgs \X (0..now)
  BY <1>1, <1>2, Windows
<1>4. LifetimeTypeOK'
  BY <1>1, <1>2, <1>3 DEF LifetimeTypeOK
<1> QED
  BY <1>1, <1>2, <1>4, SweepKept DEF WorkersTyped

LEMMA StepChangePlan == LifetimeInv /\ ChangePlan => LifetimeInv'
<1> SUFFICES ASSUME LifetimeInv, ChangePlan PROVE LifetimeInv'
  OBVIOUS
<1>1. LifetimeTypeOK /\ WorkersTyped /\ CutoffsAreDue /\ sweep.orgs \subseteq Orgs
  BY LifetimeBasics
<1>2. PICK o \in Orgs, p \in Plans :
        /\ plan' = [plan EXCEPT ![o] = p] /\ crossed' = crossed \union ({o} \intersect sweep.orgs)
        /\ UNCHANGED <<now, raw, view, refreshed, round, sweep>>
  BY DEF ChangePlan
<1>3. LifetimeTypeOK'
  BY <1>1, <1>2 DEF LifetimeTypeOK
<1>4. WorkersTyped'
  BY <1>1, <1>2 DEF WorkersTyped
<1>5. CutoffsAreDue'
  <2>1. \A u \in sweep.orgs \ {o} : plan'[u] = plan[u]
    BY <1>1, <1>2 DEF LifetimeTypeOK
  <2> QED
    BY <1>1, <1>2, <2>1 DEF CutoffsAreDue, PolicyFor
<1> QED
  BY <1>3, <1>4, <1>5 DEF LifetimeInv

LEMMA StepDownsampler ==
    ASSUME LifetimeInv, Downsample \/ RefreshFails \/ DownsamplerRestarts
    PROVE  LifetimeInv'
<1>1. LifetimeTypeOK /\ WorkersTyped /\ now \in Nat
  BY LifetimeBasics
<1>2. UNCHANGED <<now, plan, raw, sweep, crossed>>
  BY DEF Downsample, StartRound, RefreshView, RefreshFails, DownsamplerRestarts
<1>3. NoRound = [todo |-> NoRound.todo, at |-> NoRound.at] /\ NoRound.at \in 0..now
  BY <1>1 DEF NoRound
<1>4. CASE StartRound
  <2>1. round' = [todo |-> SelectSeq(Views, IsDue), at |-> now] /\ UNCHANGED <<view, refreshed>>
    BY <1>4 DEF StartRound
  <2>2. round' = [todo |-> round'.todo, at |-> round'.at] /\ round'.at \in 0..now
    BY <1>1, <2>1
  <2>3. LifetimeTypeOK'
    BY <1>1, <1>2, <2>1 DEF LifetimeTypeOK
  <2> QED
    BY <1>2, <2>2, <2>3, SweepKept
<1>5. CASE RefreshView
  <2>1. PICK v : /\ view' = [view EXCEPT ![v] = raw]
                 /\ refreshed' = [refreshed EXCEPT ![v] = round.at]
    BY <1>5 DEF RefreshView
  <2>2. round.at \in Never..now
    BY <1>1 DEF WorkersTyped, Never
  <2>3. LifetimeTypeOK'
    BY <1>1, <1>2, <2>1, <2>2 DEF LifetimeTypeOK
  <2>4. round' = NoRound \/ round' = [round EXCEPT !.todo = Tail(@)]
    BY <1>5 DEF RefreshView
  <2>5. round' = [todo |-> round'.todo, at |-> round'.at] /\ round'.at \in 0..now
    <3>1. CASE round' = NoRound
      BY <1>3, <3>1
    <3>2. CASE round' = [round EXCEPT !.todo = Tail(@)]
      <4>1. round = [todo |-> round.todo, at |-> round.at] /\ round.at \in 0..now
        BY <1>1 DEF WorkersTyped
      <4>2. round' = [todo |-> Tail(round.todo), at |-> round.at]
        BY <3>2, <4>1
      <4> QED
        BY <4>1, <4>2
    <3> QED
      BY <2>4, <3>1, <3>2
  <2> QED
    BY <1>2, <2>3, <2>5, SweepKept
<1>6. CASE RefreshFails
  <2>1. round' = NoRound /\ UNCHANGED <<view, refreshed>>
    BY <1>6 DEF RefreshFails
  <2>2. LifetimeTypeOK'
    BY <1>1, <1>2, <2>1 DEF LifetimeTypeOK
  <2> QED
    BY <1>2, <1>3, <2>1, <2>2, SweepKept
<1>7. CASE DownsamplerRestarts
  <2>1. round' = NoRound /\ UNCHANGED view /\ refreshed' = [v \in ViewNames |-> Never]
    BY <1>7 DEF DownsamplerRestarts
  <2>2. Never \in Never..now
    BY <1>1 DEF Never
  <2>3. LifetimeTypeOK'
    BY <1>1, <1>2, <2>1, <2>2 DEF LifetimeTypeOK
  <2> QED
    BY <1>2, <1>3, <2>1, <2>3, SweepKept
<1> QED
  BY <1>4, <1>5, <1>6, <1>7 DEF Downsample

LEMMA StepRetain ==
    ASSUME LifetimeInv, Retain \/ PurgeFails
    PROVE  LifetimeInv'
<1>1. /\ LifetimeTypeOK /\ WorkersTyped /\ CutoffsAreDue /\ now \in Nat
      /\ \A o \in Orgs : PolicyFor(plan[o]) \in Nat
  BY LifetimeBasics
<1>2. /\ NoSweep.orgs = {} /\ NoSweep.cutoff = [o \in Orgs |-> 0]
      /\ NoSweep = [orgs |-> NoSweep.orgs, cutoff |-> NoSweep.cutoff]
  BY DEF NoSweep
<1>3. /\ UNCHANGED <<now, plan, view, refreshed, round>>
      /\ raw' \subseteq raw /\ crossed' \subseteq crossed
  BY DEF Retain, LoadOrgs, Purge, PurgeFails
<1>4. CASE sweep' = NoSweep
  <2>1. LifetimeTypeOK' /\ WorkersTyped' /\ CutoffsAreDue'
    BY <1>1, <1>2, <1>3, <1>4 DEF LifetimeTypeOK, WorkersTyped, CutoffsAreDue
  <2> QED
    BY <2>1 DEF LifetimeInv
<1>5. CASE LoadOrgs
  <2>1. /\ sweep' = [orgs |-> Orgs, cutoff |-> [o \in Orgs |-> now - PolicyFor(plan[o])]]
    BY <1>5 DEF LoadOrgs
  <2>2. [o \in Orgs |-> now - PolicyFor(plan[o])] \in [Orgs -> Int]
    BY <1>1
  <2>3. LifetimeTypeOK'
    BY <1>1, <1>3, <2>1 DEF LifetimeTypeOK
  <2>4. WorkersTyped'
    BY <1>1, <1>3, <2>1, <2>2 DEF WorkersTyped
  <2>5. CutoffsAreDue'
    BY <1>1, <1>3, <2>1, <2>2 DEF CutoffsAreDue, PolicyFor
  <2> QED
    BY <2>3, <2>4, <2>5 DEF LifetimeInv
<1>6. ASSUME NEW o, sweep' = [sweep EXCEPT !.orgs = @ \ {o}], UNCHANGED crossed
      PROVE  LifetimeInv'
  <2>1. sweep' = [orgs |-> sweep.orgs \ {o}, cutoff |-> sweep.cutoff]
    BY <1>1, <1>6 DEF WorkersTyped
  <2>2. sweep'.orgs \subseteq sweep.orgs /\ sweep'.cutoff = sweep.cutoff
    BY <2>1
  <2>3. LifetimeTypeOK'
    BY <1>1, <1>3, <2>2 DEF LifetimeTypeOK
  <2>4. WorkersTyped'
    BY <1>1, <1>3, <2>1, <2>2 DEF WorkersTyped
  <2>5. CutoffsAreDue'
    BY <1>1, <1>3, <1>6, <2>2 DEF CutoffsAreDue, PolicyFor
  <2> QED
    BY <2>3, <2>4, <2>5 DEF LifetimeInv
<1>7. \/ LoadOrgs \/ sweep' = NoSweep
      \/ \E o : sweep' = [sweep EXCEPT !.orgs = @ \ {o}] /\ UNCHANGED crossed
  BY DEF Retain, Purge, PurgeFails
<1> QED
  BY <1>4, <1>5, <1>6, <1>7

\* A sweep deletes no row that the plan of the moment keeps, unless the plan changed
\* after the sweep had loaded it (purge_expired_telemetry).
THEOREM KeptForPlan == LifetimeSpec => RowsKeptForPlan
<1> DEFINE Keeps == \A r \in raw \ raw' : r[2] < now - PolicyFor(plan[r[1]]) \/ r[1] \in crossed
<1>1. LifetimeInv /\ [LifetimeNext]_lifetimeVars => LifetimeInv'
  <2>1. LifetimeInv /\ UNCHANGED lifetimeVars => LifetimeInv'
    BY DEF lifetimeVars, LifetimeInv, LifetimeTypeOK, WorkersTyped, CutoffsAreDue, PolicyFor
  <2> QED
    BY <2>1, StepTick, StepInsertRow, StepChangePlan, StepDownsampler, StepRetain DEF LifetimeNext
<1>2. LifetimeInv /\ [LifetimeNext]_lifetimeVars => [Keeps]_lifetimeVars
  <2> SUFFICES ASSUME LifetimeInv, LifetimeNext, NEW r \in raw \ raw'
               PROVE  r[2] < now - PolicyFor(plan[r[1]]) \/ r[1] \in crossed
    OBVIOUS
  <2>1. PICK o \in sweep.orgs : raw' = {x \in raw : x[1] = o => x[2] >= sweep.cutoff[o]}
    BY DEF LifetimeNext, Tick, InsertRow, ChangePlan, Downsample, StartRound, RefreshView,
           RefreshFails, DownsamplerRestarts, Retain, LoadOrgs, Purge, PurgeFails
  <2>2. r[1] = o /\ ~(r[2] >= sweep.cutoff[o])
    BY <2>1
  <2>3. /\ r[2] \in Int /\ sweep.cutoff[o] \in Int /\ now \in Int /\ PolicyFor(plan[o]) \in Int
        /\ o \in crossed \/ sweep.cutoff[o] <= now - PolicyFor(plan[o])
    <3>1. r \in Orgs \X (0..now) /\ o \in Orgs
      BY <2>1, LifetimeBasics DEF LifetimeTypeOK
    <3> QED
      BY <3>1, LifetimeBasics DEF WorkersTyped, CutoffsAreDue
  <2> QED
    BY <2>2, <2>3
<1>3. LifetimeInv => LifetimeTypeOK
  BY DEF LifetimeInv
<1> QED
  BY <1>1, <1>2, <1>3, InitLifetime, PTL DEF LifetimeSpec, RowsKeptForPlan
===============================================================================
