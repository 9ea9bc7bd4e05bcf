---------------------------- MODULE CommandStatus ----------------------------
(***************************************************************************)
(* What the command service promises about one status record: the table    *)
(* LEGAL_TRANSITIONS of services/command_service.py, and nothing else.     *)
(* StaleSaves says whether two handlers may both settle one command, each  *)
(* from the SENT record it read before the other one saved: the loser of   *)
(* that race overwrites a terminal status by the other terminal status.    *)
(***************************************************************************)
CONSTANTS
  Commands,    \* ids of the commands that may be issued (uuid4)
  StaleSaves   \* BOOLEAN: a terminal status may be overwritten by the other

VARIABLE status  \* status[c]: the record cmd:{c}, NoRecord when there is none

NoRecord == "NONE"
Terminal == {"CONFIRMED", "UNACKNOWLEDGED"}
CommandStates == {"SENT", "QUEUED"} \cup Terminal
Statuses == CommandStates \cup {NoRecord}

\* LEGAL_TRANSITIONS as <<from, event, to>>.
LegalTransitions ==
  { <<NoRecord, "issue_online",    "SENT">>,
    <<NoRecord, "issue_offline",   "QUEUED">>,
    <<"QUEUED", "reconnect_flush", "SENT">>,
    <<"SENT",   "ack",             "CONFIRMED">>,
    <<"SENT",   "timeout",         "UNACKNOWLEDGED">> }

\* next_status: the pair (status, event) has a successor, which is new.
NextStatus(current, event, new) == <<current, event, new>> \in LegalTransitions

Move(c, new) == status' = [status EXCEPT ![c] = new]

Transition(c) ==
  \E event \in {"issue_online", "issue_offline", "reconnect_flush",
                "ack", "timeout"}, new \in CommandStates :
    /\ NextStatus(status[c], event, new)
    /\ Move(c, new)

\* The record's TTL runs out (48 h in flight, 1 h once terminal).
Forget(c) == status[c] # NoRecord /\ Move(c, NoRecord)

Overwrite(c) ==
  /\ StaleSaves
  /\ status[c] \in Terminal
  /\ \E new \in Terminal : Move(c, new)

Init == status = [c \in Commands |-> NoRecord]

Next == \E c \in Commands : Transition(c) \/ Forget(c) \/ Overwrite(c)

Spec == Init /\ [][Next]_status
==============================================================================
