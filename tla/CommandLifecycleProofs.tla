------------------------ MODULE CommandLifecycleProofs ------------------------
(***************************************************************************)
(* What holds of CommandLifecycle for every set of commands, queue cap and *)
(* bound: its types, that a command is published at most once, that the    *)
(* status never claims more than happened, that a rejected command never   *)
(* reaches the device, that a flush keeps the order of the queue, and that *)
(* it implements CommandStatus.                                            *)
(***************************************************************************)
EXTENDS CommandLifecycle, TLAPS

\* A command no one but its request knows.
Fresh(c) ==
  /\ record[c] = NoRecord
  /\ c \notin Elements(queue) /\ c \notin held
  /\ ~Published(c)

\* Until the request has published or pushed its command, the command is fresh.
RequestsStartFresh ==
  \A c \in Commands : request[c] \in {"idle", "publish", "push"} => Fresh(c)

\* A record exists only once the request has saved it, and what a request that
\* stopped before its save pushed is never published.
RequestsSaveFirst ==
  \A c \in Commands :
    /\ record[c] # NoRecord => request[c] \in {"commit", "done", "failed"}
    /\ request[c] \in {"trim", "save_queued", "rejected"} => ~Published(c)
    /\ request[c] = "save_sent" => Published(c)

NoRepeats(s) == \A i, j \in 1..Len(s) : s[i] = s[j] => i = j

\* The queue has no duplicates, and nothing in it is published or held.
QueueIsFresh ==
  /\ NoRepeats(queue)
  /\ \A c \in Elements(queue) : ~Published(c) /\ c \notin held

\* What the listener knows of the command it holds.
HeldIsKnown ==
  \A c \in held :
    /\ listener \in {"load", "publish"} => ~Published(c)
    /\ listener = "save" => Published(c)
    /\ listener \in {"publish", "save"} => record[c] = "QUEUED"
    /\ listener = "confirm" =>
         /\ c \in executed
         /\ \/ record[c] = "SENT"
            \/ AckTimer /\ record[c] = "UNACKNOWLEDGED"

\* What the ACK timer knows of its command.
TimersAreKnown ==
  \A c \in timers :
    /\ AckTimer
    /\ record[c] \in {"SENT"} \cup Promise!Terminal
    /\ c \in expiring => record[c] \in {"SENT", "CONFIRMED"}

\* Commands travel broker -> device -> ACK, and were published first.
TravelIsCausal ==
  /\ \A c \in executed : Published(c)
  /\ \A c \in Elements(inbox) : Published(c)
  /\ \A c \in Commands : Ack(c) \in Elements(uplink) => c \in executed

Known ==
  /\ RequestsStartFresh
  /\ RequestsSaveFirst
  /\ QueueIsFresh
  /\ HeldIsKnown
  /\ TimersAreKnown
  /\ TravelIsCausal
  /\ StatusTellsTruth

IInv == TypeOK /\ Known /\ PublishedAtMostOnce
-------------------------------------------------------------------------------
(* Sequences: what Append, Tail and LTRIM do to the elements.               *)

LEMMA AppendElements ==
  ASSUME NEW S, NEW s \in Seq(S), NEW e \in S
  PROVE  /\ Append(s, e) \in Seq(S)
         /\ Elements(Append(s, e)) = Elements(s) \cup {e}
<1>1. /\ Append(s, e) \in Seq(S) /\ Len(Append(s, e)) = Len(s) + 1
      /\ Len(s) \in Nat
      /\ \A i \in 1..Len(s) : Append(s, e)[i] = s[i]
      /\ Append(s, e)[Len(s) + 1] = e
  OBVIOUS
<1>2. Elements(Append(s, e)) \subseteq Elements(s) \cup {e}
  BY <1>1 DEF Elements
<1>3. ASSUME NEW x \in Elements(s)
      PROVE  x \in Elements(Append(s, e))
  <2>1. PICK i \in 1..Len(s) : x = s[i]
    BY DEF Elements
  <2>2. i \in 1..Len(Append(s, e)) /\ x = Append(s, e)[i]
    BY <1>1, <2>1
  <2>3. QED
    BY <2>2 DEF Elements
<1>4. e \in Elements(Append(s, e))
  BY <1>1 DEF Elements
<1>5. QED
  BY <1>1, <1>2, <1>3, <1>4

LEMMA TailElements ==
  ASSUME NEW S, NEW s \in Seq(S), s # <<>>
  PROVE  /\ Tail(s) \in Seq(S) /\ Head(s) \in S
         /\ Head(s) \in Elements(s)
         /\ Elements(Tail(s)) \subseteq Elements(s)
         /\ Len(Tail(s)) = Len(s) - 1
         /\ \A i \in 1..Len(Tail(s)) : Tail(s)[i] = s[i + 1]
<1>1. /\ Tail(s) \in Seq(S) /\ Len(s) \in Nat \ {0}
      /\ Len(Tail(s)) = Len(s) - 1 /\ Head(s) = s[1] /\ Head(s) \in S
      /\ \A i \in 1..Len(Tail(s)) : Tail(s)[i] = s[i + 1]
  OBVIOUS
<1>2. Head(s) \in Elements(s)
  BY <1>1 DEF Elements
<1>3. ASSUME NEW x \in Elements(Tail(s))
      PROVE  x \in Elements(s)
  <2>1. PICK i \in 1..Len(Tail(s)) : x = Tail(s)[i]
    BY DEF Elements
  <2>2. i + 1 \in 1..Len(s) /\ x = s[i + 1]
    BY <1>1, <2>1
  <2>3. QED
    BY <2>2 DEF Elements
<1>4. QED
  BY <1>1, <1>2, <1>3

LEMMA LastEntriesElements ==
  ASSUME NEW S, NEW s \in Seq(S)
  PROVE  /\ LastEntries(s) \in Seq(S)
         /\ Elements(LastEntries(s)) \subseteq Elements(s)
         /\ \E d \in Nat : /\ Len(s) = Len(LastEntries(s)) + d
                           /\ \A i \in 1..Len(LastEntries(s)) :
                                LastEntries(s)[i] = s[i + d]
<1>1. CASE Len(s) <= QueueCap
  <2>1. LastEntries(s) = s
    BY <1>1, QueueCapAssumption DEF LastEntries
  <2>2. QED
    BY <2>1
<1>2. CASE Len(s) > QueueCap
  <2> DEFINE d == Len(s) - QueueCap
  <2>1. LastEntries(s) = SubSeq(s, d + 1, Len(s))
    BY <1>2 DEF LastEntries
  <2>2. d \in Nat /\ d + 1 \in 1..Len(s) /\ Len(s) \in Nat
    BY <1>2, QueueCapAssumption
  <2>3. /\ LastEntries(s) \in Seq(S)
        /\ Len(LastEntries(s)) = Len(s) - d
        /\ \A i \in 1..Len(LastEntries(s)) : LastEntries(s)[i] = s[i + d]
    BY <2>1, <2>2
  <2>4. Elements(LastEntries(s)) \subseteq Elements(s)
    <3>1. ASSUME NEW x \in Elements(LastEntries(s))
          PROVE  x \in Elements(s)
      <4>1. PICK i \in 1..Len(LastEntries(s)) : x = LastEntries(s)[i]
        BY DEF Elements
      <4>2. i + d \in 1..Len(s) /\ x = s[i + d]
        BY <2>2, <2>3, <4>1
      <4>3. QED
        BY <4>2 DEF Elements
    <3>2. QED
      BY <3>1
  <2>5. Len(s) = Len(LastEntries(s)) + d
    BY <2>2, <2>3
  <2>6. QED
    BY <2>2, <2>3, <2>4, <2>5
<1>3. Len(s) \in Nat /\ QueueCap \in Nat
  BY QueueCapAssumption
<1>4. Len(s) <= QueueCap \/ Len(s) > QueueCap
  BY <1>3
<1>5. QED
  BY ONLY <1>1, <1>2, <1>4

LEMMA SmallSequences ==
  /\ Elements(<<>>) = {} /\ NoRepeats(<<>>)
  /\ \A e : Elements(<<e>>) = {e}
<1>1. Elements(<<>>) = {} /\ NoRepeats(<<>>)
  BY DEF Elements, NoRepeats
<1>2. ASSUME NEW e
      PROVE  Elements(<<e>>) = {e}
  <2>1. Len(<<e>>) = 1 /\ <<e>>[1] = e
    OBVIOUS
  <2>2. QED
    BY <2>1 DEF Elements
<1>3. QED
  BY <1>1, <1>2

LEMMA AppendNoRepeats ==
  ASSUME NEW S, NEW s \in Seq(S), NEW e \in S, NoRepeats(s), e \notin Elements(s)
  PROVE  NoRepeats(Append(s, e))
<1>1. /\ Len(Append(s, e)) = Len(s) + 1 /\ Len(s) \in Nat
      /\ \A i \in 1..Len(s) : Append(s, e)[i] = s[i] /\ s[i] # e
      /\ Append(s, e)[Len(s) + 1] = e
  BY DEF Elements
<1>2. QED
  BY <1>1 DEF NoRepeats

LEMMA TailNoRepeats ==
  ASSUME NEW S, NEW s \in Seq(S), s # <<>>, NoRepeats(s)
  PROVE  NoRepeats(Tail(s)) /\ Head(s) \notin Elements(Tail(s))
<1>1. /\ Len(s) \in Nat \ {0} /\ Len(Tail(s)) = Len(s) - 1 /\ Head(s) = s[1]
      /\ \A i \in 1..Len(Tail(s)) : Tail(s)[i] = s[i + 1]
  OBVIOUS
<1>2. \A i \in 1..Len(Tail(s)) : s[1] # s[i + 1]
  BY <1>1 DEF NoRepeats
<1>3. QED
  BY <1>1, <1>2 DEF NoRepeats, Elements

LEMMA LastEntriesNoRepeats ==
  ASSUME NEW S, NEW s \in Seq(S), NoRepeats(s)
  PROVE  NoRepeats(LastEntries(s))
<1>1. PICK d \in Nat : /\ Len(s) = Len(LastEntries(s)) + d
                       /\ \A i \in 1..Len(LastEntries(s)) :
                            LastEntries(s)[i] = s[i + d]
  BY LastEntriesElements
<1>2. Len(s) \in Nat /\ Len(LastEntries(s)) \in Nat
  BY LastEntriesElements
<1>3. ASSUME NEW i \in 1..Len(LastEntries(s)), NEW j \in 1..Len(LastEntries(s)),
             LastEntries(s)[i] = LastEntries(s)[j]
      PROVE  i = j
  <2>1. i + d \in 1..Len(s) /\ j + d \in 1..Len(s) /\ s[i + d] = s[j + d]
    BY <1>1, <1>2, <1>3
  <2>2. QED
    BY <2>1 DEF NoRepeats
<1>4. QED
  BY <1>3 DEF NoRepeats

-------------------------------------------------------------------------------
(* Types.                                                                   *)

LEMMA StepTyped == TypeOK /\ [Next]_vars => TypeOK'
<1> SUFFICES ASSUME TypeOK, [Next]_vars
             PROVE  TypeOK'
  OBVIOUS
<1> USE BoundsAssumption
    DEF TypeOK, vars, redisVars, apiVars, listenerVars, deviceVars, historyVars,
        NoRecord, Promise!NoRecord, Promise!Statuses, Promise!CommandStates,
        Promise!Terminal, Steps, Pending, Outcomes, ListenerSteps, FlushSteps,
        Advance, SaveRecord, PublishToBroker, Listener, NextMessage, Fault,
        StatusMessage, Ack, Messages
<1>1. ASSUME NEW c \in Commands, CheckPresence(c) PROVE TypeOK'
  BY <1>1 DEF CheckPresence
<1>2. ASSUME NEW c \in Commands, IssuePublish(c) PROVE TypeOK'
  BY <1>2, AppendElements DEF IssuePublish
<1>3. ASSUME NEW c \in Commands, IssueSaveSent(c) PROVE TypeOK'
  BY <1>3 DEF IssueSaveSent
<1>4. ASSUME NEW c \in Commands, IssuePush(c) PROVE TypeOK'
  BY <1>4, AppendElements DEF IssuePush
<1>5. ASSUME NEW c \in Commands, IssueTrim(c) PROVE TypeOK'
  BY <1>5, LastEntriesElements DEF IssueTrim
<1>6. ASSUME NEW c \in Commands, IssueSaveQueued(c) PROVE TypeOK'
  BY <1>6 DEF IssueSaveQueued
<1>7. ASSUME NEW c \in Commands, IssueCommit(c) PROVE TypeOK'
  BY <1>7 DEF IssueCommit
<1>8. ASSUME NEW c \in Commands, IssueRejected(c) PROVE TypeOK'
  BY <1>8 DEF IssueRejected
<1>9. ASSUME NEW c \in Commands, IssueFailed(c) PROVE TypeOK'
  BY <1>9 DEF IssueFailed
<1>10. ASSUME NEW c \in Commands, TimerLoad(c) PROVE TypeOK'
  BY <1>10 DEF TimerLoad
<1>11. ASSUME NEW c \in Commands, TimerSave(c) PROVE TypeOK'
  BY <1>11 DEF TimerSave
<1>12. ASSUME NEW c \in Commands, RecordExpires(c) PROVE TypeOK'
  BY <1>12 DEF RecordExpires
<1>13. ASSUME NEW c \in Commands, FlushLoad(c) PROVE TypeOK'
  BY <1>13 DEF FlushLoad
<1>14. ASSUME NEW c \in Commands, FlushPublish(c) PROVE TypeOK'
  BY <1>14, AppendElements DEF FlushPublish
<1>15. ASSUME NEW c \in Commands, FlushSave(c) PROVE TypeOK'
  BY <1>15 DEF FlushSave
<1>16. ASSUME NEW c \in Commands, AckLoad(c) PROVE TypeOK'
  BY <1>16, TailElements DEF AckLoad
<1>17. ASSUME NEW c \in Commands, AckSave(c) PROVE TypeOK'
  BY <1>17 DEF AckSave
<1>18. CASE HandleOnline
  BY <1>18, TailElements DEF HandleOnline
<1>19. CASE HandleOffline
  BY <1>19, TailElements DEF HandleOffline
<1>20. CASE HandleUnresolved
  <2>1. /\ faults' \in 0..MaxFaults
        /\ uplink # <<>> /\ uplink' = Tail(uplink)
    BY <1>20 DEF HandleUnresolved
  <2>2. uplink' \in Seq(Messages)
    BY <2>1, TailElements
  <2>3. listener' \in ListenerSteps /\ held' \in {{}} \cup {{c} : c \in Commands}
    BY <1>20 DEF HandleUnresolved
  <2>4. QED
    BY <1>20, <2>1, <2>2, <2>3 DEF HandleUnresolved
<1>21. CASE FlushPop
  <2>1. CASE queue = <<>>
    BY <1>21, <2>1 DEF FlushPop
  <2>2. CASE queue # <<>>
    <3>1. Tail(queue) \in Seq(Commands) /\ Head(queue) \in Commands
      BY <2>2, TailElements
    <3>2. held' = {Head(queue)} /\ queue' = Tail(queue) /\ listener' = "load"
      BY <1>21, <2>2 DEF FlushPop
    <3>3. held' \in {{}} \cup {{c} : c \in Commands}
      BY <3>1, <3>2
    <3>4. QED
      BY <1>21, <3>1, <3>2, <3>3 DEF FlushPop
  <2>3. QED
    BY <2>1, <2>2
<1>22. CASE FlushFailed
  BY <1>22 DEF FlushFailed
<1>23. CASE AckFailed
  BY <1>23 DEF AckFailed
<1>24. CASE Connect
  BY <1>24, AppendElements DEF Connect
<1>25. CASE Disconnect
  <2>1. StatusMessage(FALSE) \in Messages
    OBVIOUS
  <2>2. uplink' \in Seq(Messages)
    BY <1>25, <2>1, AppendElements DEF Disconnect
  <2>3. <<>> \in Seq(Commands)
    OBVIOUS
  <2>4. inbox' \in Seq(Commands) /\ connected' \in BOOLEAN /\ retained' \in BOOLEAN
    BY <1>25, <2>3 DEF Disconnect
  <2>5. QED
    BY <1>25, <2>2, <2>4 DEF Disconnect
<1>26. CASE Execute
  BY <1>26, AppendElements, TailElements DEF Execute
<1>27. CASE ApiCrash
  BY <1>27 DEF ApiCrash
<1>28. CASE ListenerRestart
  BY <1>28 DEF ListenerRestart
<1>29. CASE QueueExpires
  BY <1>29 DEF QueueExpires
<1>30. CASE UNCHANGED vars
  BY <1>30
<1>31. QED
  BY <1>1, <1>2, <1>3, <1>4, <1>5, <1>6, <1>7, <1>8, <1>9, <1>10, <1>11, <1>12, <1>13, <1>14, <1>15, <1>16, <1>17, <1>18, <1>19, <1>20, <1>21, <1>22, <1>23, <1>24, <1>25, <1>26, <1>27, <1>28, <1>29, <1>30
  DEF Next, Issue, Timer, Listen, Device

\* Every variable keeps its type, whatever the bounds.
THEOREM TypeCorrect == Spec => []TypeOK
<1>1. Init => TypeOK
  BY BoundsAssumption
  DEF Init, TypeOK, NoRecord, Promise!NoRecord, Promise!Statuses, Steps,
      ListenerSteps
<1>2. QED
  BY <1>1, StepTyped, PTL DEF Spec
-------------------------------------------------------------------------------
(* The inductive invariant.                                                 *)

LEMMA MessageTaken ==
  ASSUME TypeOK, NEW m, NextMessage(m)
  PROVE  /\ m \in Elements(uplink)
         /\ Elements(uplink') \subseteq Elements(uplink)
<1>1. uplink \in Seq(Messages)
  BY DEF TypeOK
<1>2. uplink # <<>> /\ Head(uplink) = m /\ uplink' = Tail(uplink)
  BY DEF NextMessage
<1>3. Head(uplink) \in Elements(uplink) /\ Elements(Tail(uplink)) \subseteq Elements(uplink)
  BY <1>1, <1>2, TailElements
<1>4. QED
  BY <1>2, <1>3

\* AppendElements for the two element types there are.
LEMMA AppendCommand ==
  \A s \in Seq(Commands), c \in Commands :
    Append(s, c) \in Seq(Commands) /\ Elements(Append(s, c)) = Elements(s) \cup {c}
<1> SUFFICES ASSUME NEW s \in Seq(Commands), NEW c \in Commands
             PROVE  Append(s, c) \in Seq(Commands) /\ Elements(Append(s, c)) = Elements(s) \cup {c}
  OBVIOUS
<1> QED
  BY ONLY s \in Seq(Commands), c \in Commands, AppendElements

LEMMA AppendMessage ==
  \A s \in Seq(Messages), m \in Messages :
    Append(s, m) \in Seq(Messages) /\ Elements(Append(s, m)) = Elements(s) \cup {m}
<1> SUFFICES ASSUME NEW s \in Seq(Messages), NEW m \in Messages
             PROVE  Append(s, m) \in Seq(Messages) /\ Elements(Append(s, m)) = Elements(s) \cup {m}
  OBVIOUS
<1> QED
  BY ONLY s \in Seq(Messages), m \in Messages, AppendElements

LEMMA LastWillSent ==
  ASSUME TypeOK, Disconnect
  PROVE  Elements(uplink') = Elements(uplink) \cup {StatusMessage(FALSE)}
<1>1. uplink \in Seq(Messages)
  BY DEF TypeOK
<1>2. StatusMessage(FALSE) \in Messages
  BY DEF Messages, StatusMessage
<1>3. uplink' = Append(uplink, StatusMessage(FALSE))
  BY DEF Disconnect
<1>4. Elements(Append(uplink, StatusMessage(FALSE)))
        = Elements(uplink) \cup {StatusMessage(FALSE)}
  <2> HIDE DEF Elements, StatusMessage
  <2> QED
    BY ONLY <1>1, <1>2, AppendMessage
<1>5. QED
  BY ONLY <1>3, <1>4

LEMMA StepKnown == TypeOK /\ TypeOK' /\ Known /\ [Next]_vars => Known'
<1> SUFFICES ASSUME TypeOK, TypeOK', Known, [Next]_vars
             PROVE  Known'
  OBVIOUS
<1> USE DEF Known, RequestsStartFresh, RequestsSaveFirst, QueueIsFresh, HeldIsKnown,
        TimersAreKnown, TravelIsCausal, StatusTellsTruth, Fresh, Published,
        TypeOK, vars, redisVars, apiVars, listenerVars, deviceVars, historyVars,
        NoRecord, Promise!NoRecord, Promise!Terminal, Pending,
        ListenerSteps, FlushSteps, Advance, SaveRecord, PublishToBroker, Listener,
        NextMessage, StatusMessage, Ack
<1>1. ASSUME NEW c \in Commands, CheckPresence(c) PROVE Known'
  BY <1>1 DEF CheckPresence
<1>2. ASSUME NEW c \in Commands, IssuePublish(c) PROVE Known'
  BY <1>2, AppendElements DEF IssuePublish
<1>3. ASSUME NEW c \in Commands, IssueSaveSent(c) PROVE Known'
  BY <1>3 DEF IssueSaveSent
<1>4. ASSUME NEW c \in Commands, IssuePush(c) PROVE Known'
  BY <1>4, AppendElements, AppendNoRepeats DEF IssuePush
<1>5. ASSUME NEW c \in Commands, IssueTrim(c) PROVE Known'
  <2>1. /\ queue' = LastEntries(queue) /\ NoRepeats(queue')
        /\ Elements(queue') \subseteq Elements(queue)
    BY <1>5, LastEntriesElements, LastEntriesNoRepeats DEF IssueTrim
  <2>2. QED
    BY <1>5, <2>1 DEF IssueTrim
<1>6. ASSUME NEW c \in Commands, IssueSaveQueued(c) PROVE Known'
  BY <1>6 DEF IssueSaveQueued
<1>7. ASSUME NEW c \in Commands, IssueCommit(c) PROVE Known'
  BY <1>7 DEF IssueCommit
<1>8. ASSUME NEW c \in Commands, IssueRejected(c) PROVE Known'
  BY <1>8 DEF IssueRejected
<1>9. ASSUME NEW c \in Commands, IssueFailed(c) PROVE Known'
  BY <1>9 DEF IssueFailed
<1>10. ASSUME NEW c \in Commands, TimerLoad(c) PROVE Known'
  BY <1>10 DEF TimerLoad
<1>11. ASSUME NEW c \in Commands, TimerSave(c) PROVE Known'
  BY <1>11 DEF TimerSave
<1>12. ASSUME NEW c \in Commands, RecordExpires(c) PROVE Known'
  BY <1>12 DEF RecordExpires
<1>13. ASSUME NEW c \in Commands, FlushLoad(c) PROVE Known'
  BY <1>13 DEF FlushLoad
<1>14. ASSUME NEW c \in Commands, FlushPublish(c) PROVE Known'
  <2>1. /\ Elements(published') = Elements(published) \cup {c}
        /\ Elements(inbox') \subseteq Elements(inbox) \cup {c}
    <3>1. published' = Append(published, c) /\ inbox' \in {inbox, Append(inbox, c)}
      BY <1>14 DEF FlushPublish
    <3>2. published \in Seq(Commands) /\ inbox \in Seq(Commands)
      OBVIOUS
    <3> QED
      BY ONLY <3>1, <3>2, c \in Commands, AppendCommand
  <2>2. c \in held /\ listener = "publish" /\ held = {c} /\ record[c] = "QUEUED"
    BY <1>14 DEF FlushPublish
  <2> QED
    BY <1>14, <2>1, <2>2 DEF FlushPublish
<1>15. ASSUME NEW c \in Commands, FlushSave(c) PROVE Known'
  BY <1>15 DEF FlushSave
<1>16. ASSUME NEW c \in Commands, AckLoad(c) PROVE Known'
  <2>1. /\ Ack(c) \in Elements(uplink)
        /\ Elements(uplink') \subseteq Elements(uplink)
    <3>1. NextMessage(Ack(c))
      BY <1>16 DEF AckLoad
    <3>2. QED
      BY <3>1, MessageTaken
  <2>2. c \in executed /\ Published(c) /\ held' \in {held, {c}}
    BY <1>16, <2>1 DEF AckLoad
  <2>3. QED
    BY <1>16, <2>1, <2>2 DEF AckLoad
<1>17. ASSUME NEW c \in Commands, AckSave(c) PROVE Known'
  BY <1>17 DEF AckSave
<1>18. CASE HandleOnline
  BY <1>18, TailElements DEF HandleOnline
<1>19. CASE HandleOffline
  BY <1>19, TailElements DEF HandleOffline
<1>20. CASE HandleUnresolved
  BY <1>20, TailElements DEF HandleUnresolved
<1>21. CASE FlushPop
  <2>1. CASE queue = <<>>
    BY <1>21, <2>1 DEF FlushPop
  <2>2. CASE queue # <<>>
    <3>1. /\ listener' = "load" /\ held' = {Head(queue)} /\ queue' = Tail(queue)
          /\ UNCHANGED <<record, online, apiVars, deviceVars, uplink, historyVars>>
      BY <1>21, <2>2 DEF FlushPop
    <3>2. /\ Head(queue) \in Elements(queue) /\ Head(queue) \in Commands
          /\ Elements(queue') \subseteq Elements(queue)
          /\ NoRepeats(queue') /\ Head(queue) \notin Elements(queue')
      BY <2>2, <3>1, TailElements, TailNoRepeats
    <3>3. QED
      BY <3>1, <3>2
  <2>3. QED
    BY <2>1, <2>2
<1>22. CASE FlushFailed
  BY <1>22 DEF FlushFailed
<1>23. CASE AckFailed
  BY <1>23 DEF AckFailed
<1>24. CASE Connect
  BY <1>24, AppendElements DEF Connect
<1>25. CASE Disconnect
  <2>1. Elements(inbox') = {}
    BY <1>25, SmallSequences DEF Disconnect
  <2>2. Elements(uplink') = Elements(uplink) \cup {StatusMessage(FALSE)}
    BY <1>25, LastWillSent
  <2>3. \A c \in Commands : Ack(c) \in Elements(uplink') => Ack(c) \in Elements(uplink)
    BY <2>2
  <2>4. QED
    BY <1>25, <2>1, <2>3 DEF Disconnect
<1>26. CASE Execute
  BY <1>26, AppendElements, TailElements DEF Execute
<1>27. CASE ApiCrash
  BY <1>27 DEF ApiCrash
<1>28. CASE ListenerRestart
  <2>1. Elements(uplink') = {StatusMessage(retained)}
    BY <1>28, SmallSequences DEF ListenerRestart
  <2>2. \A c \in Commands : Ack(c) \notin Elements(uplink')
    BY <2>1
  <2>3. held' = {}
    BY <1>28 DEF ListenerRestart
  <2>4. QED
    BY <1>28, <2>2, <2>3 DEF ListenerRestart
<1>29. CASE QueueExpires
  BY <1>29, SmallSequences DEF QueueExpires
<1>30. CASE UNCHANGED vars
  BY <1>30
<1>31. QED
  BY <1>1, <1>2, <1>3, <1>4, <1>5, <1>6, <1>7, <1>8, <1>9, <1>10, <1>11, <1>12, <1>13, <1>14, <1>15, <1>16, <1>17, <1>18, <1>19, <1>20, <1>21, <1>22, <1>23, <1>24, <1>25, <1>26, <1>27, <1>28, <1>29, <1>30
  DEF Next, Issue, Timer, Listen, Device

LEMMA StepPublishesOnce ==
  TypeOK /\ Known /\ PublishedAtMostOnce /\ [Next]_vars => PublishedAtMostOnce'
<1> SUFFICES ASSUME TypeOK, Known, NoRepeats(published), [Next]_vars
             PROVE  NoRepeats(published)'
  BY DEF PublishedAtMostOnce, NoRepeats
<1> USE DEF TypeOK
<1>1. ASSUME NEW c \in Commands, ~Published(c), published' = Append(published, c)
      PROVE  NoRepeats(published)'
  <2>1. NoRepeats(Append(published, c))
    BY <1>1, AppendNoRepeats DEF Published
  <2>2. QED
    BY <1>1, <2>1 DEF NoRepeats
<1>2. ASSUME NEW c \in Commands, IssuePublish(c)
      PROVE  NoRepeats(published)'
  BY <1>1, <1>2
  DEF IssuePublish, Advance, PublishToBroker, Known, RequestsStartFresh, Fresh
<1>3. ASSUME NEW c \in Commands, FlushPublish(c)
      PROVE  NoRepeats(published)'
  BY <1>1, <1>3 DEF FlushPublish, PublishToBroker, Known, HeldIsKnown
<1>4. CASE UNCHANGED published
  BY <1>4 DEF NoRepeats
<1>5. UNCHANGED published \/ \E c \in Commands : IssuePublish(c) \/ FlushPublish(c)
  BY DEF Next, Issue, Timer, Listen, Device, vars, historyVars, CheckPresence,
     IssueSaveSent, IssuePush, IssueTrim, IssueSaveQueued, IssueCommit,
     IssueRejected, IssueFailed, TimerLoad, TimerSave, RecordExpires, ApiCrash,
     HandleOnline, HandleOffline, HandleUnresolved, FlushPop, FlushLoad,
     FlushSave, FlushFailed, AckLoad, AckSave, AckFailed, ListenerRestart,
     Connect, Disconnect, Execute, QueueExpires
<1>6. QED
  BY <1>2, <1>3, <1>4, <1>5

LEMMA Invariance == Spec => []IInv
<1>1. Init => IInv
  BY BoundsAssumption, SmallSequences
  DEF Init, IInv, TypeOK, NoRecord, Promise!NoRecord, Promise!Statuses, Steps,
      ListenerSteps, Known, RequestsStartFresh, Fresh, RequestsSaveFirst,
      QueueIsFresh, HeldIsKnown, TimersAreKnown, TravelIsCausal, StatusTellsTruth,
      Published, PublishedAtMostOnce
<1>2. IInv /\ [Next]_vars => IInv'
  BY StepTyped, StepKnown, StepPublishesOnce DEF IInv
<1>3. QED
  BY <1>1, <1>2, PTL DEF Spec

\* A command is published to the broker at most once, by the API request or by
\* the flush, whatever crashes and however often the device reconnects.
THEOREM AtMostOnce == Spec => []PublishedAtMostOnce
<1>1. IInv => PublishedAtMostOnce
  BY DEF IInv
<1>2. QED
  BY <1>1, Invariance, PTL

\* SENT and UNACKNOWLEDGED only after the publish, CONFIRMED only after the
\* device ran the command.
THEOREM Truthful == Spec => []StatusTellsTruth
<1>1. IInv => StatusTellsTruth
  BY DEF IInv, Known
<1>2. QED
  BY <1>1, Invariance, PTL

\* A command refused with CommandQueueError is never published, though its
\* queue entry may be left behind for a flush to pop.
THEOREM RejectedStaysHome == Spec => []RejectedNeverPublished
<1>1. IInv => RejectedNeverPublished
  BY DEF IInv, Known, RequestsSaveFirst, RejectedNeverPublished
<1>2. QED
  BY <1>1, Invariance, PTL

\* All of it together: the types, one publication at most, none of a refused
\* command (issue_command, flush_command_queue).
THEOREM PromisesHold == Spec => []PublishedAsPromised
  BY TypeCorrect, AtMostOnce, RejectedStaysHome, PTL DEF PublishedAsPromised
-------------------------------------------------------------------------------
(* The order of the offline queue: FlushKeepsOrder.                         *)

\* a stands before b in s.
Before(s, a, b) == \E k, l \in 1..Len(s) : k < l /\ s[k] = a /\ s[l] = b

\* The listener holds c and may still publish it.
Waiting(c) == c \in held /\ listener \in {"load", "publish"}

\* A command enters the queue once, by its own request.
PushedOnce ==
  /\ NoRepeats(pushed)
  /\ \A c \in Elements(pushed) : request[c] \notin {"idle", "publish", "push"}

\* The queue is in the order of the pushes, and after what the listener holds.
QueueInOrder ==
  /\ \A a, b \in Commands : Before(queue, a, b) => ~Before(pushed, b, a)
  /\ \A a \in Commands, b \in Elements(queue) : Waiting(a) => ~Before(pushed, b, a)

\* What was pushed before a published command waits no more.
NothingOvertakes ==
  \A a, b \in Commands :
    Before(pushed, a, b) /\ Published(b) => a \notin Elements(queue) /\ ~Waiting(a)

PublishedInOrder ==
  \A a, b \in Commands : Before(pushed, a, b) => ~Before(published, b, a)

OrderInv == PushedOnce /\ QueueInOrder /\ NothingOvertakes /\ PublishedInOrder

LEMMA BeforeElements ==
  ASSUME NEW s, NEW a, NEW b, Before(s, a, b)
  PROVE  a \in Elements(s) /\ b \in Elements(s)
BY DEF Before, Elements

LEMMA BeforeIsStrict ==
  ASSUME NEW S, NEW s \in Seq(S), NoRepeats(s), NEW a, NEW b, Before(s, a, b)
  PROVE  a # b /\ ~Before(s, b, a)
<1>1. PICK k \in 1..Len(s), l \in 1..Len(s) : k < l /\ s[k] = a /\ s[l] = b
  BY DEF Before
<1>2. \A i \in 1..Len(s) : (s[i] = a => i = k) /\ (s[i] = b => i = l)
  BY <1>1 DEF NoRepeats
<1>3. QED
  BY <1>1, <1>2 DEF Before

LEMMA BeforeAppended ==
  ASSUME NEW s \in Seq(Commands), NEW c \in Commands, NEW a, NEW b
  PROVE  Before(Append(s, c), a, b) <=> Before(s, a, b) \/ (a \in Elements(s) /\ b = c)
<1>1. /\ Len(Append(s, c)) = Len(s) + 1 /\ Len(s) \in Nat
      /\ \A i \in 1..Len(s) : Append(s, c)[i] = s[i]
      /\ Append(s, c)[Len(s) + 1] = c
  OBVIOUS
<1>2. ASSUME Before(Append(s, c), a, b)
      PROVE  Before(s, a, b) \/ (a \in Elements(s) /\ b = c)
  <2>1. PICK k \in 1..Len(Append(s, c)), l \in 1..Len(Append(s, c)) :
          k < l /\ Append(s, c)[k] = a /\ Append(s, c)[l] = b
    BY <1>2 DEF Before
  <2>2. k \in 1..Len(s) /\ s[k] = a
    BY <1>1, <2>1
  <2>3. CASE l = Len(s) + 1
    BY <1>1, <2>1, <2>2, <2>3 DEF Elements
  <2>4. CASE l \in 1..Len(s)
    BY <1>1, <2>1, <2>2, <2>4 DEF Before
  <2>5. QED
    BY <1>1, <2>3, <2>4
<1>3. ASSUME Before(s, a, b)
      PROVE  Before(Append(s, c), a, b)
  <2>1. PICK k \in 1..Len(s), l \in 1..Len(s) : k < l /\ s[k] = a /\ s[l] = b
    BY <1>3 DEF Before
  <2>2. /\ k \in 1..Len(Append(s, c)) /\ l \in 1..Len(Append(s, c))
        /\ Append(s, c)[k] = a /\ Append(s, c)[l] = b
    BY <1>1, <2>1
  <2>3. QED
    BY <2>1, <2>2 DEF Before
<1>4. ASSUME a \in Elements(s), b = c
      PROVE  Before(Append(s, c), a, b)
  <2>1. PICK k \in 1..Len(s) : s[k] = a
    BY <1>4 DEF Elements
  <2>2. /\ k \in 1..Len(Append(s, c)) /\ Len(s) + 1 \in 1..Len(Append(s, c))
        /\ k < Len(s) + 1 /\ Append(s, c)[k] = a /\ Append(s, c)[Len(s) + 1] = b
    BY <1>1, <1>4, <2>1
  <2>3. QED
    BY <2>2 DEF Before
<1>5. QED
  BY <1>2, <1>3, <1>4

LEMMA BeforeShifted ==
  ASSUME NEW s, NEW t, Len(s) \in Nat, Len(t) \in Nat, NEW d \in Nat, Len(s) = Len(t) + d,
         \A i \in 1..Len(t) : t[i] = s[i + d], NEW a, NEW b, Before(t, a, b)
  PROVE  Before(s, a, b)
<1>1. PICK k \in 1..Len(t), l \in 1..Len(t) : k < l /\ t[k] = a /\ t[l] = b
  BY DEF Before
<1>2. /\ k + d \in 1..Len(s) /\ l + d \in 1..Len(s) /\ k + d < l + d
      /\ s[k + d] = a /\ s[l + d] = b
  BY <1>1
<1>3. QED
  BY <1>2 DEF Before

\* LPOP keeps the order, and what it takes was before all that stays.
LEMMA TailInOrder ==
  ASSUME NEW s \in Seq(Commands), s # <<>>
  PROVE  /\ \A a, b : Before(Tail(s), a, b) => Before(s, a, b)
         /\ \A b \in Elements(Tail(s)) : Before(s, Head(s), b)
<1>1. /\ Len(s) \in Nat \ {0} /\ Len(Tail(s)) \in Nat /\ Len(s) = Len(Tail(s)) + 1
      /\ Head(s) = s[1] /\ \A i \in 1..Len(Tail(s)) : Tail(s)[i] = s[i + 1]
  OBVIOUS
<1>2. ASSUME NEW a, NEW b, Before(Tail(s), a, b) PROVE Before(s, a, b)
  BY <1>1, <1>2, BeforeShifted
<1>3. ASSUME NEW b \in Elements(Tail(s)) PROVE Before(s, Head(s), b)
  <2>1. PICK i \in 1..Len(Tail(s)) : b = Tail(s)[i]
    BY <1>3 DEF Elements
  <2>2. 1 \in 1..Len(s) /\ i + 1 \in 1..Len(s) /\ 1 < i + 1 /\ s[1] = Head(s) /\ s[i + 1] = b
    BY <1>1, <2>1
  <2>3. QED
    BY <2>2 DEF Before
<1>4. QED
  BY <1>2, <1>3

\* LTRIM keeps the order.
LEMMA LastEntriesInOrder ==
  ASSUME NEW s \in Seq(Commands)
  PROVE  \A a, b : Before(LastEntries(s), a, b) => Before(s, a, b)
<1>1. PICK d \in Nat : /\ Len(s) = Len(LastEntries(s)) + d
                       /\ \A i \in 1..Len(LastEntries(s)) : LastEntries(s)[i] = s[i + d]
  BY LastEntriesElements
<1>2. Len(s) \in Nat /\ Len(LastEntries(s)) \in Nat
  BY LastEntriesElements
<1>3. ASSUME NEW a, NEW b, Before(LastEntries(s), a, b) PROVE Before(s, a, b)
  BY <1>1, <1>2, <1>3, BeforeShifted
<1>4. QED
  BY <1>3

\* A step that neither pushes nor publishes: the queue is at most shortened.
LEMMA StepKeepsOrder ==
  ASSUME TypeOK, OrderInv, UNCHANGED <<pushed, published>>,
         \A c \in Commands : request'[c] \in {"idle", "publish", "push"}
                               => request[c] \in {"idle", "publish", "push"},
         Elements(queue') \subseteq Elements(queue),
         \A a, b \in Commands : Before(queue', a, b) => Before(queue, a, b),
         \A a \in Commands : Waiting(a)' =>
           \/ Waiting(a)
           \/ a \in Elements(queue) /\ \A b \in Elements(queue') : Before(queue, a, b)
  PROVE  OrderInv'
<1>1. Elements(pushed) \subseteq Commands /\ Elements(queue) \subseteq Commands
  BY DEF TypeOK, Elements
<1>2. PushedOnce'
  BY <1>1 DEF OrderInv, PushedOnce
<1>3. QueueInOrder'
  BY <1>1 DEF OrderInv, QueueInOrder
<1>4. NothingOvertakes'
  BY DEF OrderInv, NothingOvertakes, Published
<1>5. PublishedInOrder'
  BY DEF OrderInv, PublishedInOrder
<1>6. QED
  BY <1>2, <1>3, <1>4, <1>5 DEF OrderInv

LEMMA StepOrder == IInv /\ OrderInv /\ [Next]_vars => OrderInv'
<1> SUFFICES ASSUME IInv, OrderInv, [Next]_vars
             PROVE  OrderInv'
  OBVIOUS
<1>a. /\ TypeOK /\ Elements(pushed) \subseteq Commands /\ Elements(queue) \subseteq Commands
      /\ \A c \in Commands : request[c] \in {"idle", "publish", "push"} => Fresh(c)
  BY DEF IInv, TypeOK, Elements, Known, RequestsStartFresh
<1>b. \A c \in Commands : request[c] \in {"idle", "publish", "push"} => c \notin Elements(pushed)
  BY DEF OrderInv, PushedOnce
\* Published by its own request, a command was never pushed.
<1>1. ASSUME NEW c \in Commands, IssuePublish(c) PROVE OrderInv'
  <2>1. /\ UNCHANGED <<pushed, queue, listener, held>> /\ published' = Append(published, c)
        /\ c \notin Elements(pushed) /\ published \in Seq(Commands)
        /\ \A e \in Commands : request'[e] \in {"idle", "publish", "push"} => request'[e] = request[e]
    BY <1>a, <1>b, <1>1
    DEF IssuePublish, PublishToBroker, Advance, redisVars, listenerVars, TypeOK
  <2>2. PushedOnce' /\ QueueInOrder'
    BY <1>a, <2>1 DEF OrderInv, PushedOnce, QueueInOrder, Waiting
  <2>3. \A a, b \in Commands : Before(pushed, a, b) => a # c /\ b # c
    BY <2>1, BeforeElements
  <2>4. \A e \in Commands : Published(e)' => Published(e) \/ e = c
    BY <2>1, AppendCommand DEF Published
  <2>5. NothingOvertakes'
    BY <2>1, <2>3, <2>4 DEF OrderInv, NothingOvertakes, Waiting
  <2>6. PublishedInOrder'
    <3>1. \A a, b \in Commands : Before(published', b, a) => Before(published, b, a) \/ a = c
      BY <2>1, BeforeAppended
    <3>2. QED
      BY <2>1, <2>3, <3>1 DEF OrderInv, PublishedInOrder
  <2>7. QED
    BY <2>2, <2>5, <2>6 DEF OrderInv
\* Published by the flush, it was pushed before all the queue holds.
<1>2. ASSUME NEW c \in Commands, FlushPublish(c) PROVE OrderInv'
  <2>1. /\ UNCHANGED <<pushed, queue, request>> /\ published' = Append(published, c)
        /\ listener' = "save" /\ Waiting(c) /\ published \in Seq(Commands)
    BY <1>a, <1>2 DEF FlushPublish, PublishToBroker, Listener, Waiting, redisVars, apiVars, TypeOK
  <2>2. PushedOnce' /\ QueueInOrder'
    BY <2>1 DEF OrderInv, PushedOnce, QueueInOrder, Waiting
  <2>3. \A e \in Commands : Published(e)' => Published(e) \/ e = c
    BY <2>1, AppendCommand DEF Published
  <2>4. NothingOvertakes'
    <3>1. ASSUME NEW a \in Commands, Before(pushed, a, c) PROVE a \notin Elements(queue)
      BY <2>1, <3>1 DEF OrderInv, QueueInOrder
    <3>2. QED
      BY <2>1, <2>3, <3>1 DEF OrderInv, NothingOvertakes, Waiting
  <2>5. PublishedInOrder'
    <3>1. \A a, b \in Commands :
            Before(published', b, a) => Before(published, b, a) \/ (Published(b) /\ a = c)
      BY <2>1, BeforeAppended DEF Published
    <3>2. \A b \in Commands : Published(b) => ~Before(pushed, c, b)
      BY <2>1 DEF OrderInv, NothingOvertakes
    <3>3. QED
      BY <2>1, <3>1, <3>2 DEF OrderInv, PublishedInOrder
  <2>6. QED
    BY <2>2, <2>4, <2>5 DEF OrderInv
\* Pushed, it is the last of the queue and of all that was pushed.
<1>3. ASSUME NEW c \in Commands, IssuePush(c) PROVE OrderInv'
  <2>1. /\ UNCHANGED <<published, listener, held>>
        /\ pushed' = Append(pushed, c) /\ queue' = Append(queue, c)
        /\ pushed \in Seq(Commands) /\ queue \in Seq(Commands)
        /\ c \notin Elements(pushed) /\ Fresh(c)
    BY <1>a, <1>b, <1>3 DEF IssuePush, Advance, listenerVars, TypeOK
  <2>2. /\ Elements(pushed') = Elements(pushed) \cup {c} /\ Elements(queue') = Elements(queue) \cup {c}
        /\ \A a, b : Before(pushed', a, b) <=> Before(pushed, a, b) \/ (a \in Elements(pushed) /\ b = c)
        /\ \A a, b : Before(queue', a, b) <=> Before(queue, a, b) \/ (a \in Elements(queue) /\ b = c)
    BY <2>1, AppendCommand, BeforeAppended
  <2>3. /\ \A a, b : Before(pushed, a, b) => a # c /\ b # c
        /\ \A a, b : Before(queue, a, b) => a # c /\ b # c
        /\ c \notin Elements(queue) /\ ~Waiting(c) /\ ~Published(c)
    BY <2>1, BeforeElements DEF Fresh, Waiting
  <2>4. PushedOnce'
    <3>1. NoRepeats(pushed')
      BY <2>1, AppendNoRepeats DEF OrderInv, PushedOnce
    <3>2. request'[c] = "trim" /\ \A e \in Commands \ {c} : request'[e] = request[e]
      BY <1>a, <1>3 DEF IssuePush, Advance, TypeOK
    <3>3. QED
      BY <1>a, <2>2, <3>1, <3>2 DEF OrderInv, PushedOnce
  <2>5. QueueInOrder'
    <3>1. ASSUME NEW a, NEW b, Before(pushed', b, a) PROVE b # c /\ (Before(pushed, b, a) \/ a = c)
      BY <2>1, <2>2, <2>3, <3>1
    <3>2. ASSUME NEW a \in Commands, NEW b \in Commands, Before(queue', a, b)
          PROVE  ~Before(pushed', b, a)
      <4>1. a # c /\ (Before(queue, a, b) \/ b = c)
        BY <2>2, <2>3, <3>2
      <4>2. QED
        BY <3>1, <4>1 DEF OrderInv, QueueInOrder
    <3>3. ASSUME NEW a \in Commands, NEW b \in Elements(queue'), Waiting(a)'
          PROVE  ~Before(pushed', b, a)
      <4>1. Waiting(a) /\ a # c /\ (b \in Elements(queue) \/ b = c)
        BY <2>1, <2>2, <2>3, <3>3 DEF Waiting
      <4>2. QED
        BY <3>1, <4>1 DEF OrderInv, QueueInOrder
    <3>4. QED
      BY <3>2, <3>3 DEF QueueInOrder
  <2>6. NothingOvertakes'
    BY <2>1, <2>2, <2>3 DEF OrderInv, NothingOvertakes, Waiting, Published
  <2>7. PublishedInOrder'
    <3>1. \A a : ~Before(published, c, a)
      BY <2>3, BeforeElements DEF Published
    <3>2. QED
      BY <2>1, <2>2, <3>1 DEF OrderInv, PublishedInOrder
  <2>8. QED
    BY <2>4, <2>5, <2>6, <2>7 DEF OrderInv
<1>4. ASSUME NEW c \in Commands, IssueTrim(c) PROVE OrderInv'
  <2>1. /\ UNCHANGED <<pushed, published, listener, held>> /\ queue' = LastEntries(queue)
        /\ queue \in Seq(Commands)
        /\ \A e \in Commands : request'[e] \in {"idle", "publish", "push"} => request'[e] = request[e]
    BY <1>a, <1>4 DEF IssueTrim, Advance, listenerVars, historyVars, TypeOK
  <2>2. /\ Elements(queue') \subseteq Elements(queue)
        /\ \A a, b \in Commands : Before(queue', a, b) => Before(queue, a, b)
    BY <2>1, LastEntriesElements, LastEntriesInOrder
  <2>3. \A a \in Commands : Waiting(a)' => Waiting(a)
    BY <2>1 DEF Waiting
  <2>4. QED
    BY <1>a, <2>1, <2>2, <2>3, StepKeepsOrder
<1>5. CASE FlushPop
  <2>1. UNCHANGED <<pushed, published, request>> /\ queue \in Seq(Commands)
    BY <1>a, <1>5 DEF FlushPop, apiVars, historyVars, TypeOK
  <2>2. CASE queue = <<>>
    <3>1. UNCHANGED queue /\ \A a \in Commands : ~Waiting(a)'
      BY <1>5, <2>2 DEF FlushPop, Listener, Waiting
    <3>2. QED
      BY <1>a, <2>1, <3>1, StepKeepsOrder
  <2>3. CASE queue # <<>>
    <3>1. queue' = Tail(queue) /\ \A a \in Commands : Waiting(a)' => a = Head(queue)
      BY <1>5, <2>3 DEF FlushPop, Listener, Waiting
    <3>2. /\ Elements(queue') \subseteq Elements(queue) /\ Head(queue) \in Elements(queue)
          /\ \A a, b \in Commands : Before(queue', a, b) => Before(queue, a, b)
          /\ \A b \in Elements(queue') : Before(queue, Head(queue), b)
      BY <2>1, <2>3, <3>1, TailElements, TailInOrder
    <3>3. QED
      BY <1>a, <2>1, <3>1, <3>2, StepKeepsOrder
  <2>4. QED
    BY <2>2, <2>3
<1>6. CASE QueueExpires
  <2>1. UNCHANGED <<pushed, published, request, listener, held>> /\ queue' = <<>>
    BY <1>6 DEF QueueExpires, apiVars, listenerVars, historyVars
  <2>2. Elements(queue') = {}
    BY <2>1, SmallSequences
  <2>3. \A a, b : ~Before(queue', a, b)
    BY <2>2, BeforeElements
  <2>4. QED
    BY <1>a, <2>1, <2>2, <2>3, StepKeepsOrder DEF Waiting
\* Every other step leaves the queue and the histories alone.
<1>c. ASSUME UNCHANGED <<pushed, published, queue>>,
             \A c \in Commands : request'[c] \in {"idle", "publish", "push"}
                                   => request[c] \in {"idle", "publish", "push"},
             listener' \in {"load", "publish"} => held' = held /\ listener \in {"load", "publish"}
      PROVE  OrderInv'
  BY <1>a, <1>c, StepKeepsOrder DEF Waiting
<1> USE DEF TypeOK, vars, redisVars, apiVars, listenerVars, historyVars, Advance, Listener, NextMessage
<1>7. ASSUME NEW c \in Commands, CheckPresence(c) \/ IssueSaveSent(c) \/ IssueSaveQueued(c) PROVE OrderInv'
  BY <1>a, <1>c, <1>7 DEF CheckPresence, IssueSaveSent, IssueSaveQueued
<1>8. ASSUME NEW c \in Commands, IssueCommit(c) \/ IssueRejected(c) \/ IssueFailed(c) PROVE OrderInv'
  BY <1>a, <1>c, <1>8 DEF IssueCommit, IssueRejected, IssueFailed
<1>9. ASSUME NEW c \in Commands, TimerLoad(c) \/ TimerSave(c) \/ RecordExpires(c) PROVE OrderInv'
  BY <1>c, <1>9 DEF TimerLoad, TimerSave, RecordExpires
<1>10. ASSUME NEW c \in Commands, FlushLoad(c) \/ FlushSave(c) \/ AckLoad(c) \/ AckSave(c) PROVE OrderInv'
  BY <1>c, <1>10 DEF FlushLoad, FlushSave, AckLoad, AckSave
<1>11. CASE HandleOnline \/ HandleOffline \/ HandleUnresolved
  BY <1>c, <1>11 DEF HandleOnline, HandleOffline, HandleUnresolved
<1>12. CASE FlushFailed \/ AckFailed \/ ListenerRestart
  BY <1>c, <1>12 DEF FlushFailed, AckFailed, ListenerRestart
<1>13. CASE ApiCrash
  BY <1>a, <1>c, <1>13 DEF ApiCrash, Pending
<1>14. CASE Device
  BY <1>c, <1>14 DEF Device, Connect, Disconnect, Execute
<1>15. CASE UNCHANGED vars
  BY <1>c, <1>15
<1>16. QED
  BY <1>1, <1>2, <1>3, <1>4, <1>5, <1>6, <1>7, <1>8, <1>9, <1>10, <1>11, <1>12, <1>13, <1>14, <1>15
  DEF Next, Issue, Timer, Listen

LEMMA InOrder == Spec => []OrderInv
<1>1. Init => OrderInv
  <2> SUFFICES ASSUME Init PROVE OrderInv
    OBVIOUS
  <2>1. /\ pushed = <<>> /\ queue = <<>> /\ published = <<>> /\ held = {}
        /\ Elements(<<>>) = {} /\ NoRepeats(<<>>)
    BY SmallSequences DEF Init
  <2>2. \A a, b : ~Before(<<>>, a, b)
    BY <2>1, BeforeElements
  <2>3. QED
    BY <2>1, <2>2 DEF OrderInv, PushedOnce, QueueInOrder, NothingOvertakes, PublishedInOrder, Waiting
<1>2. QED
  BY <1>1, StepOrder, Invariance, PTL DEF Spec

\* Commands that waited in the offline queue reach the broker in the order of
\* their pushes (cmdq is RPUSHed and LPOPped), whatever interrupts the flush.
THEOREM OrderKept == Spec => []FlushKeepsOrder
<1>1. TypeOK /\ OrderInv => FlushKeepsOrder
  <2> SUFFICES ASSUME TypeOK, OrderInv, NEW i \in 1..Len(published), NEW j \in 1..Len(published),
                      NEW k \in 1..Len(pushed), NEW l \in 1..Len(pushed),
                      published[i] = pushed[k], published[j] = pushed[l], k < l
               PROVE  i < j
    BY DEF FlushKeepsOrder
  <2>1. /\ Before(pushed, pushed[k], pushed[l]) /\ pushed[k] \in Commands /\ pushed[l] \in Commands
        /\ pushed \in Seq(Commands)
    BY DEF Before, TypeOK
  <2>2. pushed[k] # pushed[l]
    BY <2>1, BeforeIsStrict DEF OrderInv, PushedOnce
  <2>3. ~Before(published, pushed[l], pushed[k])
    BY <2>1 DEF OrderInv, PublishedInOrder
  <2>4. ~(j < i)
    BY <2>3 DEF Before
  <2>5. i # j
    BY <2>2
  <2>6. QED
    BY <2>4, <2>5 DEF TypeOK
<1>2. QED
  BY <1>1, InOrder, TypeCorrect, PTL
-------------------------------------------------------------------------------
(* Refinement: every step is a transition of CommandStatus or a stutter.    *)

LEMMA StepRefines == IInv /\ [Next]_vars => [Promise!Next]_record
<1> SUFFICES ASSUME IInv, [Next]_vars
             PROVE  [Promise!Next]_record
  OBVIOUS
<1> USE DEF IInv, TypeOK, Promise!Move, SaveRecord
<1>1. ASSUME NEW c \in Commands, NEW event \in {"issue_online", "issue_offline",
               "reconnect_flush", "ack", "timeout"}, NEW new \in Promise!CommandStates,
             Promise!NextStatus(record[c], event, new), SaveRecord(c, new)
      PROVE  Promise!Next
  BY <1>1 DEF Promise!Next, Promise!Transition
<1>2. ASSUME NEW c \in Commands, NEW new \in Promise!Terminal, AckTimer,
             record[c] \in Promise!Terminal, SaveRecord(c, new)
      PROVE  Promise!Next
  BY <1>2 DEF Promise!Next, Promise!Overwrite
<1> USE DEF Promise!NextStatus, Promise!LegalTransitions, Promise!CommandStates,
        Promise!Terminal, NoRecord, Promise!NoRecord
<1>3. ASSUME NEW c \in Commands, IssueSaveSent(c) PROVE Promise!Next
  <2>1. record[c] = NoRecord /\ SaveRecord(c, "SENT")
    BY <1>3 DEF IssueSaveSent, Advance, Known, RequestsSaveFirst
  <2>2. QED
    BY <1>1, <2>1
<1>4. ASSUME NEW c \in Commands, IssueSaveQueued(c) PROVE Promise!Next
  <2>1. record[c] = NoRecord /\ SaveRecord(c, "QUEUED")
    BY <1>4 DEF IssueSaveQueued, Advance, Known, RequestsSaveFirst
  <2>2. QED
    BY <1>1, <2>1
<1>5. ASSUME NEW c \in Commands, FlushSave(c) PROVE Promise!Next
  <2>1. record[c] = "QUEUED" /\ SaveRecord(c, "SENT")
    BY <1>5 DEF FlushSave, Known, HeldIsKnown
  <2>2. QED
    BY <1>1, <2>1
<1>6. ASSUME NEW c \in Commands, TimerSave(c) PROVE Promise!Next
  <2>1. /\ record[c] \in {"SENT", "CONFIRMED"} /\ AckTimer
        /\ SaveRecord(c, "UNACKNOWLEDGED")
    BY <1>6 DEF TimerSave, Known, TimersAreKnown
  <2>2. QED
    BY <1>1, <1>2, <2>1
<1>7. ASSUME NEW c \in Commands, AckSave(c) PROVE Promise!Next
  <2>1. /\ record[c] = "SENT" \/ (AckTimer /\ record[c] = "UNACKNOWLEDGED")
        /\ SaveRecord(c, "CONFIRMED")
    BY <1>7 DEF AckSave, Known, HeldIsKnown
  <2>2. QED
    BY <1>1, <1>2, <2>1
<1>8. ASSUME NEW c \in Commands, RecordExpires(c) PROVE Promise!Next
  BY <1>8 DEF RecordExpires, Promise!Next, Promise!Forget
<1>9. \/ UNCHANGED record
      \/ \E c \in Commands :
           \/ IssueSaveSent(c) \/ IssueSaveQueued(c) \/ FlushSave(c)
           \/ TimerSave(c) \/ AckSave(c) \/ RecordExpires(c)
  BY DEF Next, Issue, Timer, Listen, Device, vars, redisVars, CheckPresence,
     IssuePublish, IssuePush, IssueTrim, IssueCommit, IssueRejected, IssueFailed,
     TimerLoad, ApiCrash, HandleOnline, HandleOffline, HandleUnresolved, FlushPop,
     FlushLoad, FlushPublish, FlushFailed, AckLoad, AckFailed, ListenerRestart,
     Connect, Disconnect, Execute, QueueExpires
<1>10. QED
  BY <1>3, <1>4, <1>5, <1>6, <1>7, <1>8, <1>9

\* Every save of every handler is one transition of LEGAL_TRANSITIONS, the
\* expiry of a record or, with ACK timers, a late save over a terminal status.
THEOREM Refinement == Spec => KeepsPromise
<1>1. Init => Promise!Init
  BY DEF Init, Promise!Init, NoRecord
<1>2. QED
  BY <1>1, StepRefines, Invariance, PTL DEF Spec, KeepsPromise, Promise!Spec
===============================================================================
