----------------------------- MODULE RuleEngine -----------------------------
(***************************************************************************)
(* The rules of one organization and the worker that runs them             *)
(* (src/app/services/rule_service.py, src/app/workers/alert_checker.py).   *)
(*                                                                         *)
(* API requests edit rules in transactions of several statements (READ     *)
(* COMMITTED); the Alert_Checker handles every telemetry event in a task   *)
(* of its own, which reads the maintenance flag, the enabled rules and the *)
(* rows of each graph one after the other, and then runs the plans.        *)
(***************************************************************************)
EXTENDS Integers, Sequences, FiniteSets, SequencesExt

CONSTANTS Clients,      \* the slots of concurrent API requests: numbers
          Rules,        \* rule ids, each used by one creation: numbers
          Graphs,       \* the graphs clients send: [nodes |-> Seq(spec), edges |-> set of <<from, to>>]
          Readings,     \* values of the one key of an event; NoReading: the key is absent
          NoReading,
          ActiveLimit,  \* FREE_PLAN_ACTIVE_RULE_LIMIT
          MaxRequests, MaxEvents, MaxSwitches   \* bounds of the exploration

ASSUME RuleEngineAssumption ==
    /\ ActiveLimit \in Nat \ {0}
    /\ Clients \subseteq Nat /\ Rules \subseteq Nat \ {0}
    /\ \A g \in Graphs : \A l \in g.edges : {l[1], l[2]} \subseteq DOMAIN g.nodes

VARIABLES plan,      \* organizations.plan, "free" or "pro": set when the organization is created
          status,    \* rules: "unborn", "enabled", "disabled" or "deleted"
          nodes,     \* rule_nodes of each rule; an id is <<save, position>>
          edges,     \* rule_edges of each rule: pairs of node ids
          req,       \* the open request of each client
          paused,    \* devices.maintenance_mode of the device
          worker,    \* the Alert_Checker process: "up", "draining" or "down"
          tasks,     \* one task per received event, oldest first
          spent,     \* requests, saves, and turns of maintenance and of the worker so far
          excused    \* history: activations and saves that overlapped

ruleVars == <<plan, status, nodes, edges, req, paused, worker, tasks, spent, excused>>
store == <<status, nodes, edges>>

None == "none"
NoRule == 0

-----------------------------------------------------------------------------
(* The pure core: predicates, chains and plans.                            *)

(* _OPERATORS: the comparison named by op; an unknown name is no comparator. *)
Compares(op, a, b) ==
    \/ op = "gt"  /\ a > b
    \/ op = "gte" /\ a >= b
    \/ op = "lt"  /\ a < b
    \/ op = "lte" /\ a <= b
    \/ op = "eq"  /\ a = b
    \/ op = "ne"  /\ a # b

(* evaluate_predicate: no key matches all, a key without op any reading.   *)
EvaluatePredicate(config, reading) ==
    \/ ~config.keyed
    \/ /\ reading # NoReading
       /\ \/ config.op = None
          \/ Compares(config.op, reading, config.value)

(* _coerce_node_type: rows of another type are skipped.                    *)
NodeTypes == {"trigger", "condition", "delay", "action"}

(* build_chain: from a trigger along the first out-edge of every node,      *)
(* until a node has none or it leads to a row that was skipped or visited.  *)
(* Rows come in no fixed order, so any trigger and any out-edge may be the  *)
(* first: the chains the rows can be read as.                               *)
Chains(rows, links) ==
    LET specs == {n \in rows : n.type \in NodeTypes}
        triggers == {n \in specs : n.type = "trigger"}
        Longer(path) ==
            LET next == {l[2] : l \in {x \in links : x[1] = path[Len(path)].id}}
                free == {n \in specs \ ToSet(path) : n.id \in next}
            IN  {Append(path, n) : n \in free}
                    \union (IF next \subseteq {n.id : n \in free} /\ next # {} THEN {} ELSE {path})
        walks[k \in 0 .. Cardinality(specs)] ==
            IF k = 0 THEN {<<t>> : t \in triggers}
            ELSE UNION {Longer(path) : path \in walks[k - 1]}
    IN  IF triggers = {} THEN {<<>>} ELSE walks[Cardinality(specs)]

(* plan_chain: the delays and actions up to the first false condition, or  *)
(* nothing when the trigger does not match.                                *)
(* Mutant: a false condition is passed over instead of ending the plan.     *)
PlanAll(chain, reading) ==
    IF chain = <<>> \/ ~EvaluatePredicate(chain[1].config, reading) THEN <<>>
    ELSE SelectSeq(Tail(chain), LAMBDA n : n.type \in {"delay", "action"})
PlanChain(chain, reading) ==
    IF chain = <<>> \/ ~EvaluatePredicate(chain[1].config, reading) THEN <<>>
    ELSE LET Stops(i) == chain[i].type = "condition" /\ ~EvaluatePredicate(chain[i].config, reading)
             cut == CHOOSE i \in 2 .. Len(chain) + 1 :
                        /\ i = Len(chain) + 1 \/ Stops(i)
                        /\ \A j \in 2 .. i - 1 : ~Stops(j)
         IN  SelectSeq(SubSeq(chain, 2, cut - 1), LAMBDA n : n.type \in {"delay", "action"})

(* parse_action: an action of an unknown kind is skipped.                  *)
ActionKinds == {"command", "notify", "webhook"}

-----------------------------------------------------------------------------
(* Requests.                                                               *)

Idle == [phase |-> "idle", rule |-> NoRule, want |-> "keep", saves |-> FALSE,
         was |-> "unborn", edges |-> {}, nodes |-> {}, stale |-> FALSE, crossed |-> FALSE]

Active == {r \in Rules : status[r] = "enabled"}
Open(c) == req[c].phase # "idle"
On(c, r) == req[c].phase # "idle" /\ req[c].rule = r

(* The request makes a rule active that it did not read as active.         *)
Activates(q) == q.want = "enabled" /\ q.was # "enabled"

(* The session holds a change of the rules row, flushed before its next    *)
(* SELECT and locked until the transaction ends.                           *)
WritesRow(q) == q.want # "keep" /\ q.want # q.was
RowLocked(c) == \E d \in Clients \ {c} :
    /\ On(d, req[c].rule)
    /\ WritesRow(req[d]) /\ req[d].want # "deleted"
    /\ req[d].phase = "selected" \/ (req[d].phase = "cleared" /\ req[d].saves)

(* _enforce_active_limit: the plan and the active rules, read before.      *)
(* Mutant: the count may reach the limit before the activation.            *)
WithinLimitLate(r) == plan = "pro" \/ Cardinality(Active \ {r}) <= ActiveLimit
WithinLimit(r) == plan = "pro" \/ Cardinality(Active \ {r}) < ActiveLimit

(* A node row per client node, edge rows by the ids the flush returned.    *)
Rows(g, save) ==
    {[id |-> <<save, i>>, type |-> g.nodes[i].type, config |-> g.nodes[i].config] : i \in DOMAIN g.nodes}
Links(g, save) == {<<<<save, l[1]>>, <<save, l[2]>>>> : l \in g.edges}

(* A request takes the first free slot, a creation the next fresh id.      *)
Begin(c, q) ==
    /\ ~Open(c) /\ \A d \in Clients : d < c => Open(d)
    /\ spent.requests < MaxRequests
    /\ Activates(q) => WithinLimit(q.rule)
    /\ req' = [req EXCEPT ![c] = q]
    /\ spent' = [spent EXCEPT !.requests = @ + 1]
    /\ UNCHANGED <<plan, store, paused, worker, tasks, excused>>

(* create_rule, create_rule_from_template: the limit is checked for a rule *)
(* created active, before anything is inserted.                            *)
BeginCreate(c) == \E r \in Rules, want \in {"enabled", "disabled"} :
    /\ \A x \in Rules : (status[x] = "unborn" /\ \A d \in Clients : ~On(d, x)) <=> x >= r
    /\ Begin(c, [Idle EXCEPT !.phase = "cleared", !.rule = r, !.want = want, !.saves = TRUE])

(* update_rule: enabling a rule read as disabled checks the limit.         *)
BeginUpdate(c) == \E r \in Rules, saves \in BOOLEAN, want \in {"enabled", "disabled", "keep"} :
    /\ status[r] \in {"enabled", "disabled"}
    /\ saves \/ want \notin {"keep", status[r]}
    /\ Begin(c, [Idle EXCEPT !.phase = IF saves THEN "begun" ELSE "cleared",
                             !.rule = r, !.want = want, !.saves = saves, !.was = status[r]])

(* delete_rule.                                                            *)
BeginDelete(c) == \E r \in Rules :
    /\ status[r] \in {"enabled", "disabled"}
    /\ Begin(c, [Idle EXCEPT !.phase = "begun", !.rule = r, !.want = "deleted", !.was = status[r]])

(* _delete_graph: the SELECT of the edges, before which an update of the   *)
(* rule row is flushed.                                                    *)
SelectEdges(c) ==
    /\ req[c].phase = "begun"
    /\ WritesRow(req[c]) /\ req[c].want # "deleted" => ~RowLocked(c)
    /\ req' = [req EXCEPT ![c].phase = "selected", ![c].edges = edges[req[c].rule]]
    /\ UNCHANGED <<plan, store, paused, worker, tasks, spent, excused>>

(* _delete_graph: the flush deletes the edges it read, waiting for another *)
(* transaction that deletes one of them; then the nodes are read.          *)
(* Mutant: the nodes of the replaced graph are left.                       *)
DeleteOnlyEdges(c) ==
    /\ req[c].phase = "selected"
    /\ \A d \in Clients \ {c} : req[d].phase = "cleared" => req[d].edges \intersect req[c].edges = {}
    /\ req' = [req EXCEPT ![c].phase = "cleared"]
    /\ UNCHANGED <<plan, store, paused, worker, tasks, spent, excused>>
DeleteEdges(c) ==
    /\ req[c].phase = "selected"
    /\ \A d \in Clients \ {c} : req[d].phase = "cleared" => req[d].edges \intersect req[c].edges = {}
    /\ req' = [req EXCEPT ![c].phase = "cleared", ![c].nodes = nodes[req[c].rule]]
    /\ UNCHANGED <<plan, store, paused, worker, tasks, spent, excused>>

(* The edges left when a transaction has deleted those it read and nodes   *)
(* are left of the rule: ON DELETE CASCADE takes the others.               *)
EdgesLeft(links, read, left) == {l \in links \ read : {l[1], l[2]} \subseteq {n.id : n \in left}}

(* Rule r is written: the tasks in flight may or may not see it.           *)
Disturbed(r) == [e \in DOMAIN tasks |->
                    IF tasks[e].phase \in {"done", "lost"} THEN tasks[e]
                    ELSE [tasks[e] EXCEPT !.disturbed = @ \union {r}]]

(* The rest of the transaction: delete the nodes read (the database takes  *)
(* their edges with them), insert the new graph, write the row, commit. A  *)
(* rule deleted in between fails the transaction. The graph of the request matters only here.      *)
Commit(c) == \E g \in Graphs :
    LET q == req[c]
        r == q.rule
        dropped == IF q.want = "deleted" THEN nodes[r] ELSE q.nodes
        kept == nodes[r] \ dropped
        new == IF q.saves THEN Rows(g, spent.saves + 1) ELSE {}
        newLinks == IF q.saves THEN Links(g, spent.saves + 1) ELSE {}
    IN
    /\ q.phase = "cleared"
    /\ ~RowLocked(c) \/ ~WritesRow(q)
    /\ \A d \in Clients \ {c} : \A l \in req[d].edges, n \in q.nodes :
           req[d].phase = "cleared" => n.id \notin {l[1], l[2]}
    /\ IF status[r] = "deleted"
       THEN /\ req' = [req EXCEPT ![c] = Idle]
            /\ UNCHANGED <<store, tasks, spent, excused>>
       ELSE /\ status' = [status EXCEPT ![r] = IF WritesRow(q) THEN q.want ELSE @]
            /\ nodes' = [nodes EXCEPT ![r] = kept \union new]
            /\ edges' = [edges EXCEPT ![r] = EdgesLeft(@, q.edges, kept) \union newLinks]
            /\ spent' = [spent EXCEPT !.saves = @ + 1]
            /\ req' = [d \in Clients |->
                   IF d = c THEN Idle
                   ELSE [req[d] EXCEPT
                       !.stale = @ \/ (Activates(q) /\ Open(d)),
                       !.crossed = @ \/ (On(d, r) /\ q.saves /\ req[d].phase = "cleared")]]
            /\ excused' = [excused EXCEPT
                   !.limit = @ \/ (Activates(q) /\ q.stale),
                   !.graph = IF ~q.saves THEN @
                             ELSE IF q.crossed THEN @ \union {r} ELSE @ \ {r}]
            /\ tasks' = Disturbed(r)
    /\ UNCHANGED <<plan, paused, worker>>

(* A statement fails, or the client goes away: the transaction rolls back. *)
Abort(c) ==
    /\ Open(c)
    /\ req' = [req EXCEPT ![c] = Idle]
    /\ UNCHANGED <<plan, store, paused, worker, tasks, spent, excused>>

(* update_device switches maintenance_mode.                                *)
ToggleMaintenance ==
    /\ spent.turns < MaxSwitches
    /\ paused' = ~paused
    /\ spent' = [spent EXCEPT !.turns = @ + 1]
    /\ tasks' = [e \in DOMAIN tasks |->
                    IF tasks[e].phase \in {"done", "lost"} THEN tasks[e]
                    ELSE [tasks[e] EXCEPT !.disturbed = Rules]]
    /\ UNCHANGED <<plan, store, req, worker, excused>>

-----------------------------------------------------------------------------
(* The Alert_Checker.                                                      *)

Live == {e \in DOMAIN tasks : tasks[e].phase \notin {"done", "lost"}}

(* run: an event becomes a task. The message names the organization, as    *)
(* the injected sources of the tests do, or not, as handle_telemetry does. *)
(* A device that is no UUID fails in the same way, before the load.        *)
Receive == \E reading \in Readings, org \in BOOLEAN :
    /\ worker = "up"
    /\ Len(tasks) < MaxEvents
    /\ tasks' = Append(tasks, [phase |-> "check", reading |-> reading, org |-> org, todo |-> {},
                               at |-> NoRule, rows |-> {}, plans |-> <<>>, fired |-> [r \in Rules |-> <<>>],
                               disturbed |-> {}])
    /\ UNCHANGED <<plan, store, req, paused, worker, spent, excused>>

Advance(e, task) ==
    /\ tasks' = [tasks EXCEPT ![e] = task]
    /\ UNCHANGED <<plan, store, req, paused, worker, spent, excused>>

(* _handle: maintenance suppresses the event, before any rule is loaded.   *)
CheckMaintenance(e) ==
    /\ tasks[e].phase = "check"
    /\ Advance(e, [tasks[e] EXCEPT !.phase = IF paused THEN "done" ELSE "load"])

(* _load_rules: UUID("") raises for an event without organization and the  *)
(* task ends; else the enabled rules are read, in no order.                *)
LoadRules(e) ==
    /\ tasks[e].phase = "load"
    /\ Advance(e, IF tasks[e].org
                  THEN [tasks[e] EXCEPT !.phase = "graphs", !.todo = Active]
                  ELSE [tasks[e] EXCEPT !.phase = "done"])

(* _load_rules: the nodes of the next rule, and then, in a statement of    *)
(* its own, its edges.                                                     *)
ReadNodes(e) == \E r \in tasks[e].todo :
    /\ tasks[e].phase = "graphs" /\ tasks[e].at = NoRule
    /\ Advance(e, [tasks[e] EXCEPT !.at = r, !.rows = nodes[r], !.todo = @ \ {r}])

(* The graph is planned as evaluate_event will: the rows do not change any *)
(* more. A rule with an empty plan is passed over.                         *)
ReadEdges(e) ==
    LET t == tasks[e] IN
    /\ t.phase = "graphs" /\ t.at # NoRule
    /\ \E chain \in Chains(t.rows, edges[t.at]) :
           LET steps == PlanChain(chain, t.reading) IN
           Advance(e, [t EXCEPT !.at = NoRule, !.rows = {},
                                !.plans = IF steps = <<>> THEN @
                                          ELSE Append(@, [rule |-> t.at, steps |-> steps])])

(* evaluate_event begins once all graphs are read.                         *)
Running(t) == t.phase = "graphs" /\ t.at = NoRule /\ t.todo = {}

(* The plans without the first step of the first one.                      *)
Rest(plans) == IF Len(plans[1].steps) = 1 THEN Tail(plans)
               ELSE [plans EXCEPT ![1].steps = Tail(@)]

(* execute_plan: a delay above zero is slept before anything after it.     *)
Sleep(e) ==
    /\ Running(tasks[e]) /\ tasks[e].plans # <<>>
    /\ LET step == tasks[e].plans[1].steps[1] IN step.type = "delay" /\ step.config.seconds > 0
    /\ Advance(e, [tasks[e] EXCEPT !.phase = "asleep"])

WakeTask(e) ==
    /\ tasks[e].phase = "asleep"
    /\ Advance(e, [tasks[e] EXCEPT !.phase = "graphs", !.plans = Rest(@)])

(* execute_plan: an action goes to the sink, whose failures are swallowed; *)
(* an unknown kind and a delay of zero are passed over.                    *)
RunStep(e) ==
    LET t == tasks[e]
        step == t.plans[1].steps[1]
        r == t.plans[1].rule
    IN
    /\ Running(t) /\ t.plans # <<>>
    /\ step.type = "delay" => step.config.seconds = 0
    /\ Advance(e, [t EXCEPT !.plans = Rest(@),
                            !.fired[r] = IF step.type = "action" /\ step.config.kind \in ActionKinds
                                         THEN Append(@, step.id) ELSE @])

FinishTask(e) ==
    /\ Running(tasks[e]) /\ tasks[e].plans = <<>>
    /\ Advance(e, [tasks[e] EXCEPT !.phase = "done"])

(* A signal: no further event is taken and the tasks are drained.          *)
StopChecker ==
    /\ worker = "up" /\ spent.turns < MaxSwitches
    /\ worker' = "draining"
    /\ spent' = [spent EXCEPT !.turns = @ + 1]
    /\ UNCHANGED <<plan, store, req, paused, tasks, excused>>

Exit ==
    /\ worker = "draining" /\ Live = {}
    /\ worker' = "down"
    /\ UNCHANGED <<plan, store, req, paused, tasks, spent, excused>>

(* The process dies, killed or on an error of its source: its tasks live   *)
(* only in its memory.                                                     *)
Crash ==
    /\ worker # "down" /\ spent.turns < MaxSwitches
    /\ worker' = "down"
    /\ tasks' = [e \in DOMAIN tasks |->
                    IF e \in Live THEN [tasks[e] EXCEPT !.phase = "lost", !.plans = <<>>, !.todo = {},
                                                        !.at = NoRule, !.rows = {}] ELSE tasks[e]]
    /\ spent' = [spent EXCEPT !.turns = @ + 1]
    /\ UNCHANGED <<plan, store, req, paused, excused>>

(* supervisord starts the worker again.                                    *)
RestartChecker ==
    /\ worker = "down"
    /\ worker' = "up"
    /\ UNCHANGED <<plan, store, req, paused, tasks, spent, excused>>

-----------------------------------------------------------------------------
RulesInit ==
    /\ plan \in {"free", "pro"}
    /\ status = [r \in Rules |-> "unborn"]
    /\ nodes = [r \in Rules |-> {}]
    /\ edges = [r \in Rules |-> {}]
    /\ req = [c \in Clients |-> Idle]
    /\ paused = FALSE
    /\ worker = "up"
    /\ tasks = <<>>
    /\ spent = [requests |-> 0, saves |-> 0, turns |-> 0]
    /\ excused = [limit |-> FALSE, graph |-> {}]

RequestStep(c) ==
    \/ BeginCreate(c) \/ BeginUpdate(c) \/ BeginDelete(c)
    \/ SelectEdges(c) \/ DeleteEdges(c) \/ Commit(c) \/ Abort(c)

EventStep(e) ==
    \/ CheckMaintenance(e) \/ LoadRules(e) \/ ReadNodes(e) \/ ReadEdges(e)
    \/ Sleep(e) \/ WakeTask(e) \/ RunStep(e) \/ FinishTask(e)

RulesNext ==
    \/ \E c \in Clients : RequestStep(c)
    \/ \E e \in DOMAIN tasks : EventStep(e)
    \/ ToggleMaintenance \/ Receive \/ StopChecker \/ Exit \/ Crash \/ RestartChecker

RulesSpec == RulesInit /\ [][RulesNext]_ruleVars

-----------------------------------------------------------------------------
(* Properties.                                                             *)

Saves(r) == {n.id[1] : n \in nodes[r]}

(* The type invariant; every edge joins two nodes of its rule.             *)
RulesTypeOK ==
    /\ plan \in {"free", "pro"} /\ paused \in BOOLEAN
    /\ worker \in {"up", "draining", "down"}
    /\ status \in [Rules -> {"unborn", "enabled", "disabled", "deleted"}]
    /\ \A r \in Rules, l \in UNION {edges[x] : x \in Rules} :
           l \in edges[r] => {l[1], l[2]} \subseteq {n.id : n \in nodes[r]}
    /\ \A c \in Clients : req[c].phase \in {"idle", "begun", "selected", "cleared"}
    /\ \A e \in DOMAIN tasks :
           tasks[e].phase \in {"check", "load", "graphs", "asleep", "done", "lost"}

(* A Free organization has no more active rules than its plan allows,      *)
(* unless a rule became active on a count that another activation had made *)
(* stale (_enforce_active_limit counts before the insert or update).       *)
RuleLimitUnlessRaced ==
    plan = "free" /\ Cardinality(Active) > ActiveLimit => excused.limit

(* A rule holds the rows of one saved graph, unless two saves overlapped   *)
(* so that neither deleted the nodes of the other (update_rule "replaces   *)
(* the stored graph atomically"; the next save alone heals it).            *)
OneGraphUnlessCrossed ==
    /\ RulesTypeOK
    /\ \A r \in Rules : Cardinality(Saves(r)) > 1 => r \in excused.graph

(* What the rows of r promise for a reading, said backwards from an action *)
(* and without chains or plans: it is due when a matching trigger leads to *)
(* it and no condition or skipped row on the way holds it up.              *)
Upstream(r, n) ==
    LET up[k \in 0 .. Cardinality(nodes[r])] ==
            IF k = 0 THEN {n}
            ELSE UNION {{x} \union {m \in nodes[r] : <<m.id, x.id>> \in edges[r]} : x \in up[k - 1]}
    IN  up[Cardinality(nodes[r])]
Due(r, reading) ==
    {n \in nodes[r] :
        /\ n.type = "action" /\ n.config.kind \in ActionKinds
        /\ \E t \in Upstream(r, n) : t.type = "trigger"
        /\ \A m \in Upstream(r, n) :
               /\ m.type \in NodeTypes
               /\ m.type \in {"trigger", "condition"} => EvaluatePredicate(m.config, reading)}
InChainOrder(r, ids) ==
    \A i, j \in DOMAIN ids : i < j =>
        \A n \in nodes[r] : n.id = ids[j] => ids[i] \in {m.id : m \in Upstream(r, n)}

(* An event whose task ends has run exactly the actions due, in the order  *)
(* of the chain, of every rule that nobody wrote while the task ran, and   *)
(* none at all of a disabled or deleted rule or of a device that was in    *)
(* maintenance all along: whatever other events, saves, delays and         *)
(* failing actions came in between (run, evaluate_event, execute_plan).    *)
UndisturbedRulesRun ==
    [][\A e \in DOMAIN tasks : \A r \in Rules \ tasks[e].disturbed :
          tasks[e].phase # "done" /\ tasks'[e].phase = "done" /\ r \notin excused.graph =>
              LET fired == tasks'[e].fired[r]
                  due == IF paused \/ status[r] # "enabled" \/ ~tasks[e].org
                         THEN {} ELSE {n.id : n \in Due(r, tasks[e].reading)}
              IN  ToSet(fired) = due /\ Len(fired) = Cardinality(due) /\ InChainOrder(r, fired)]_ruleVars
=============================================================================
