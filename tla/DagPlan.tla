-------------------------------- MODULE DagPlan --------------------------------
(***************************************************************************)
(* executable_dependency_dag_execution_plan.py: a graph of tasks is planned *)
(* twice, by Kahn's algorithm and by an independent reference; a fixture is *)
(* only built when the two plans agree.                                     *)
(*                                                                         *)
(* Nodes are numbered in the raw order of their names.  Parsing the four    *)
(* encodings of a graph and validating names is left out: Init is any graph *)
(* _build_dependency_graph may return.                                      *)
(***************************************************************************)
EXTENDS Integers, Sequences, FiniteSets, FiniteSetsExt, Functions

CONSTANTS
  NodeCount,             \* nodes are 1 .. NodeCount
  MaximumEdges,          \* DEPENDENCY_DAG_EXECUTION_PLAN_MAXIMUM_EDGES
  Priorities,            \* priorities that are tried
  DeclarationOrders      \* positions in the source that are tried

VARIABLES
  edges,                 \* pairs of a dependent and its prerequisite
  priority, declared,    \* of each node: priority, declaration_index
  tieBreak,              \* tie_break_policy
  indegrees, ready, depths, ordered,
  plan                   \* what the planner returns

dagVars == <<edges, priority, declared, tieBreak, indegrees, ready, depths,
             ordered, plan>>

Nodes == 1 .. NodeCount

(* Priorities and positions are integers. *)
ASSUME DagAssumption ==
  /\ NodeCount \in Nat
  /\ Priorities \subseteq Int /\ DeclarationOrders \subseteq [Nodes -> Int]

Policies == {"utf8-smallest", "declared-priority", "shortest-depth",
             "largest-fanout", "stable-input-order"}

Prerequisites(n) == {p \in Nodes : <<n, p>> \in edges}
Dependents(n)    == {d \in Nodes : <<d, n>> \in edges}

Planning == [status |-> "planning", plan |-> <<>>, blocked |-> {}, cyclic |-> {}]

(* Only the policy that reads priorities, or declaration order, is tried   *)
(* with more than one of them.                                             *)
DagInit ==
  /\ edges \in UNION {kSubset(k, Nodes \X Nodes) : k \in 0 .. MaximumEdges}
  /\ tieBreak \in Policies
  /\ priority \in IF tieBreak = "declared-priority" THEN [Nodes -> Priorities]
                  ELSE [Nodes -> {0}]
  /\ declared \in IF tieBreak = "stable-input-order" THEN DeclarationOrders
                  ELSE {[n \in Nodes |-> n]}
  /\ indegrees = [n \in Nodes |-> Cardinality(Prerequisites(n))]
  /\ ready = {n \in Nodes : Prerequisites(n) = {}}
  /\ depths = [n \in Nodes |-> 0]
  /\ ordered = <<>>
  /\ plan = Planning

Completed == {ordered[i] : i \in DOMAIN ordered}
Residual  == Nodes \ Completed

(* _selection_key: ties are broken by the raw name.                        *)
Key(n, depth) ==
  CASE tieBreak = "utf8-smallest"      -> 0
    [] tieBreak = "declared-priority"  -> 0 - priority[n]
    [] tieBreak = "shortest-depth"     -> depth[n]
    [] tieBreak = "largest-fanout"     -> 0 - Cardinality(Dependents(n))
    [] tieBreak = "stable-input-order" -> declared[n]

Precedes(m, n, depth) ==
  \/ Key(m, depth) < Key(n, depth)
  \/ Key(m, depth) = Key(n, depth) /\ m <= n

(* The body of the while loop of _derive_primary_plan.                     *)
SelectNode ==
  /\ plan = Planning
  /\ \E selected \in ready :
       /\ \A n \in ready : Precedes(selected, n, depths)
       /\ ordered' = Append(ordered, selected)
       /\ depths' = [n \in Nodes |->
                       IF n \in Dependents(selected)
                       THEN Max({depths[n], depths[selected] + 1}) ELSE depths[n]]
       /\ indegrees' = [n \in Nodes |->
                          IF n \in Dependents(selected)
                          THEN indegrees[n] - 1 ELSE indegrees[n]]
       /\ ready' = (ready \ {selected})
                     \cup {n \in Dependents(selected) : indegrees'[n] = 0}
  /\ UNCHANGED <<edges, priority, declared, tieBreak, plan>>

(* Mutant: what waits for a cycle counts as being on one. *)
AnyResidual(residual) == residual

(* _cyclic_nodes_by_return_reachability: the search from a node's           *)
(* dependents comes back to it.                                            *)
CyclicNodes(residual) ==
  LET found(origin) ==
        LET seen[k \in 0 .. NodeCount] ==
              IF k = 0 THEN Dependents(origin) \cap residual
              ELSE LET known == seen[k - 1] IN
                   known \cup UNION {Dependents(n) \cap residual : n \in known}
        IN seen[NodeCount]
  IN {origin \in residual : origin \in found(origin)}

FinishPlan ==
  /\ plan = Planning /\ ready = {}
  /\ plan' = IF Len(ordered) = NodeCount
             THEN [status |-> "valid", plan |-> ordered, blocked |-> {},
                   cyclic |-> {}]
             ELSE [status |-> "cycle", plan |-> <<>>, blocked |-> Residual,
                   cyclic |-> CyclicNodes(Residual)]
  /\ UNCHANGED <<edges, priority, declared, tieBreak, indegrees, ready, depths,
                 ordered>>

DagNext == SelectNode \/ FinishPlan

DagSpec == DagInit /\ [][DagNext]_dagVars

------------------------------------------------------------------------------
(* _derive_reference_plan.                                                 *)

(* _reference_kahn_residual: layers without a prerequisite are peeled off. *)
ReferenceResidual ==
  LET remaining[k \in 0 .. NodeCount] ==
        IF k = 0 THEN Nodes
        ELSE LET left == remaining[k - 1] IN
             {n \in left : Prerequisites(n) \cap left # {}}
  IN remaining[NodeCount]

(* _reference_cyclic_nodes: closure over one intermediate node at a time.  *)
ReferenceCyclic(residual) ==
  LET reach[k \in 0 .. NodeCount] ==
        IF k = 0 THEN [n \in residual |-> Prerequisites(n) \cap residual]
        ELSE LET direct == reach[k - 1] IN
             [n \in residual |-> IF k \in residual /\ k \in direct[n]
                                  THEN direct[n] \cup direct[k] ELSE direct[n]]
  IN {n \in residual : n \in reach[NodeCount][n]}

(* _reference_depths, of a graph without a cycle.                          *)
ReferenceDepths ==
  LET depth[k \in 0 .. NodeCount] ==
        IF k = 0 THEN [n \in Nodes |-> 0]
        ELSE LET shorter == depth[k - 1] IN
             [n \in Nodes |->
                IF Prerequisites(n) = {} THEN 0
                ELSE 1 + Max({shorter[p] : p \in Prerequisites(n)})]
  IN depth[NodeCount]

ReferenceFirst(candidates, depth) ==
  CHOOSE n \in candidates : \A m \in candidates : Precedes(n, m, depth)

ReferenceOrder ==
  LET depths_of == ReferenceDepths
      order[k \in 0 .. NodeCount] ==
        IF k = 0 THEN <<>>
        ELSE LET earlier == order[k - 1]
                 done    == Range(earlier)
             IN Append(earlier,
                       ReferenceFirst({n \in Nodes \ done :
                                         Prerequisites(n) \subseteq done}, depths_of))
  IN order[NodeCount]

ReferencePlan ==
  LET residual == ReferenceResidual IN
  IF residual # {}
  THEN [status |-> "cycle", plan |-> <<>>, blocked |-> residual,
        cyclic |-> ReferenceCyclic(residual)]
  ELSE [status |-> "valid", plan |-> ReferenceOrder, blocked |-> {}, cyclic |-> {}]

------------------------------------------------------------------------------
(* A set of nodes none of which can start before another one of the set.   *)
Stuck(S) == \A n \in S : Prerequisites(n) \cap S # {}

(* n waits for m, directly or through others: every set that holds n's      *)
(* prerequisites and those of its members holds m.                         *)
WaitsFor(n, m) ==
  \A S \in SUBSET Nodes :
    Prerequisites(n) \subseteq S /\ (\A k \in S : Prerequisites(k) \subseteq S)
      => m \in S

(* A plan holds every node once and puts it after its prerequisites; without*)
(* a plan, exactly the nodes that can never start are blocked.             *)
PlanSound ==
  /\ plan.status = "valid" =>
       /\ Completed = Nodes /\ plan.plan = ordered
       /\ \A i, j \in DOMAIN ordered : ordered[i] = ordered[j] => i = j
       /\ \A i \in DOMAIN ordered :
            Prerequisites(ordered[i]) \subseteq {ordered[j] : j \in 1 .. i - 1}
  /\ plan.status = "cycle" =>
       /\ plan.blocked # {} /\ Stuck(plan.blocked)
       /\ \A S \in SUBSET Nodes : Stuck(S) => S \subseteq plan.blocked

(* The planner's answer is sound and the reference's, and exactly the nodes *)
(* that wait for themselves are reported as cyclic.                        *)
PlanRight ==
  plan # Planning =>
    /\ PlanSound /\ plan = ReferencePlan
    /\ plan.status = "cycle" => plan.cyclic = {n \in Nodes : WaitsFor(n, n)}
=============================================================================
