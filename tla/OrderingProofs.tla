---------------------------- MODULE OrderingProofs -----------------------------
(***************************************************************************)
(* The proofs for the three components that put things in order: the plan   *)
(* of a task graph, the schedule of the training tokens, and the p-values   *)
(* that Holm's procedure judges.                                           *)
(***************************************************************************)
EXTENDS DagPlan, TokenSchedule, ConfirmatoryFamily, SequenceTheorems,
        FiniteSetTheorems, WellFoundedInduction, TLAPS

(* Induction, with a set in the place of a predicate. *)
LEMMA Induction ==
  ASSUME NEW N \in Nat, NEW S, 0 \in S, \A k \in 1 .. N : k - 1 \in S => k \in S
  PROVE  0 .. N \subseteq S
<1> DEFINE missing == (0 .. N) \ S
<1>1. SUFFICES ASSUME missing # {} PROVE FALSE
  OBVIOUS
<1>2. missing \subseteq Nat
  OBVIOUS
<1>3. PICK least \in missing : \A k \in missing : ~(<<k, least>> \in OpToRel(<, Nat))
  BY <1>1, <1>2, WFMin, NatLessThanWellFounded
<1>4. least \in missing /\ \A k \in missing : ~(k < least)
  BY <1>2, <1>3 DEF OpToRel
<1>5. least \in 1 .. N
  BY <1>4
<1>6. least - 1 \in S
  BY <1>4, <1>5
<1> QED
  BY <1>4, <1>5, <1>6

(* A function over 0 .. N that takes one step at a time. *)
Steps(f, N, T, base, G) ==
  /\ f \in [0 .. N -> T] /\ f[0] = base
  /\ \A k \in 1 .. N : f[k] = G[k][f[k - 1]]

(* There is one, whatever the steps are. *)
LEMMA Recursion ==
  ASSUME NEW N \in Nat, NEW T, NEW base \in T, NEW G \in [Nat -> [T -> T]]
  PROVE  \E f : Steps(f, N, T, base, G)
<1> DEFINE
     Right(f, n) == /\ f[0] = base
                    /\ \A k \in 1 .. n : f[k] = G[k][f[k - 1]]
     S == {n \in 0 .. N : \E f \in [0 .. N -> T] : Right(f, n)}
<1>1. 0 \in S
  <2> DEFINE f == [k \in 0 .. N |-> base]
  <2>1. f \in [0 .. N -> T] /\ f[0] = base /\ 1 .. 0 = {}
    OBVIOUS
  <2>2. Right(f, 0)
    <3> HIDE DEF f
    <3> QED
      BY <2>1
  <2> HIDE DEF f
  <2> QED
    BY <2>1, <2>2
<1>2. ASSUME NEW n \in 1 .. N, n - 1 \in S PROVE n \in S
  <2>1. PICK f \in [0 .. N -> T] : Right(f, n - 1)
    BY <1>2
  <2> DEFINE g == [f EXCEPT ![n] = G[n][f[n - 1]]]
  <2>2. f[n - 1] \in T /\ G[n] \in [T -> T] /\ n \in 0 .. N
    OBVIOUS
  <2>3. g \in [0 .. N -> T]
    BY <2>2
  <2>4. g[0] = base /\ g[n] = G[n][f[n - 1]] /\ \A k \in 0 .. N : k # n => g[k] = f[k]
    BY <2>1
  <2>5. Right(g, n)
    <3>1. ASSUME NEW k \in 1 .. n PROVE g[k] = G[k][g[k - 1]]
      <4>1. CASE k = n
        <5>1. g[k - 1] = f[n - 1]
          BY <2>4, <4>1
        <5> HIDE DEF g
        <5> QED
          BY <2>4, <4>1, <5>1
      <4>2. CASE k # n
        <5>1. k \in 1 .. n - 1 /\ k \in 0 .. N /\ k - 1 \in 0 .. N /\ k - 1 # n
          BY <4>2
        <5> QED
          BY <2>1, <2>4, <4>2, <5>1
      <4> QED
        BY <4>1, <4>2
    <3> QED
      BY <2>4, <3>1
  <2> HIDE DEF g
  <2> QED
    BY <2>3, <2>5
<1>3. N \in S
  <2> HIDE DEF S
  <2>1. \A k \in 1 .. N : k - 1 \in S => k \in S
    BY <1>2
  <2>2. 0 .. N \subseteq S
    BY <1>1, <2>1, Induction
  <2> QED
    BY <2>2
<1> QED
  BY <1>3 DEF Steps

(***************************************************************************)
(* DagPlan for graphs of any size and every policy.                         *)
(*                                                                         *)
(* First Kahn's algorithm by itself.  The invariant says what the loop's    *)
(* two books mean: a node's indegree is the number of its prerequisites     *)
(* still to come, and the ready nodes are those left that have none.  A set *)
(* of nodes each of which waits for another one of the set is never         *)
(* entered, which is why the residual is the largest such set.             *)
(*                                                                         *)
(* Then the reference, loop by loop.  Each is a recursive function over     *)
(* 0 .. NodeCount; Recursion shows that there is one, Induction what it     *)
(* comes to, and Saturation that a loop which has run once per node has     *)
(* nothing left to do.                                                     *)
(*                                                                         *)
(* Last, the planner's depths and choices: what it knew when it selected a  *)
(* node still holds at the end, so the reference, which knows every depth   *)
(* before it orders anything, takes the same nodes in the same order.      *)
(***************************************************************************)
USE DagAssumption

Types ==
  /\ edges \subseteq Nodes \X Nodes
  /\ indegrees \in [Nodes -> Int]
  /\ ready \subseteq Nodes
  /\ ordered \in Seq(Nodes)

Waiting(n) == Prerequisites(n) \ Completed

Books ==
  /\ \A n \in Nodes : indegrees[n] = Cardinality(Waiting(n))
  /\ ready = {n \in Residual : Waiting(n) = {}}

Order ==
  /\ Cardinality(Completed) = Len(ordered)
  /\ \A i, j \in DOMAIN ordered : ordered[i] = ordered[j] => i = j
  /\ \A i \in DOMAIN ordered :
       Prerequisites(ordered[i]) \subseteq {ordered[j] : j \in 1 .. i - 1}

NotEntered == \A S \in SUBSET Nodes : Stuck(S) => S \cap Completed = {}

Inv == Types /\ Books /\ Order /\ NotEntered /\ PlanSound

------------------------------------------------------------------------------
(* Nodes are finite, and so is everything below them.                      *)
LEMMA FiniteNodes ==
  /\ IsFiniteSet(Nodes) /\ Cardinality(Nodes) = NodeCount
  /\ \A S \in SUBSET Nodes : IsFiniteSet(S) /\ Cardinality(S) \in Nat
<1>1. IsFiniteSet(Nodes) /\ Cardinality(Nodes) = NodeCount
  BY FS_Interval DEF Nodes
<1>2. ASSUME NEW S \in SUBSET Nodes
      PROVE  IsFiniteSet(S) /\ Cardinality(S) \in Nat
  BY <1>1, FS_Subset, FS_CardinalityType
<1>3. QED
  BY <1>1, <1>2

(* What selecting a node does to the set of completed ones.                *)
LEMMA Append1 ==
  ASSUME ordered \in Seq(Nodes), NEW s \in Nodes, ordered' = Append(ordered, s)
  PROVE  /\ ordered' \in Seq(Nodes) /\ Len(ordered') = Len(ordered) + 1
         /\ DOMAIN ordered' = DOMAIN ordered \cup {Len(ordered) + 1}
         /\ \A i \in DOMAIN ordered : ordered'[i] = ordered[i]
         /\ ordered'[Len(ordered) + 1] = s
         /\ Completed' = Completed \cup {s}
<1>1. /\ ordered' \in Seq(Nodes) /\ Len(ordered') = Len(ordered) + 1
      /\ DOMAIN ordered' = DOMAIN ordered \cup {Len(ordered) + 1}
      /\ \A i \in DOMAIN ordered : ordered'[i] = ordered[i]
      /\ ordered'[Len(ordered) + 1] = s
  OBVIOUS
<1>2. Completed' = Completed \cup {s}
  BY <1>1 DEF Completed
<1>3. QED
  BY <1>1, <1>2

LEMMA InitInv ==
  ASSUME DagInit
  PROVE  Inv
<1>1. edges \subseteq Nodes \X Nodes
  BY DEF DagInit, kSubset
<1>2. Completed = {} /\ ordered = <<>> /\ plan = Planning
  BY DEF DagInit, Completed
<1>3. \A n \in Nodes : Waiting(n) = Prerequisites(n)
  BY <1>2 DEF Waiting
<1>4. \A n \in Nodes : Cardinality(Prerequisites(n)) \in Nat
  BY FiniteNodes DEF Prerequisites
<1>5. Types
  BY <1>1, <1>2, <1>4 DEF DagInit, Types
<1>6. Books
  BY <1>2, <1>3 DEF DagInit, Books, Residual
<1>7. Order
  BY <1>2, FS_EmptySet DEF Order
<1>8. NotEntered /\ PlanSound
  BY <1>2 DEF NotEntered, PlanSound, Planning
<1>9. QED
  BY <1>5, <1>6, <1>7, <1>8 DEF Inv

------------------------------------------------------------------------------
(* Selecting a ready node keeps the books and the order.                   *)
LEMMA SelectInv ==
  ASSUME Inv, SelectNode
  PROVE  Inv'
<1>1. PICK s \in ready :
        /\ ordered' = Append(ordered, s)
        /\ indegrees' = [n \in Nodes |-> IF n \in Dependents(s)
                                         THEN indegrees[n] - 1 ELSE indegrees[n]]
        /\ ready' = (ready \ {s}) \cup {n \in Dependents(s) : indegrees'[n] = 0}
  BY DEF SelectNode
<1>2. /\ plan = Planning /\ plan' = plan /\ edges' = edges
      /\ ordered \in Seq(Nodes) /\ ready \subseteq Nodes /\ s \in Nodes
  BY DEF SelectNode, Inv, Types
<1>3. /\ s \in Residual /\ Prerequisites(s) \subseteq Completed
      /\ Completed \subseteq Nodes
  BY <1>1, <1>2 DEF Inv, Books, Waiting, Completed
<1>4. /\ ordered' \in Seq(Nodes) /\ Len(ordered') = Len(ordered) + 1
      /\ DOMAIN ordered' = DOMAIN ordered \cup {Len(ordered) + 1}
      /\ \A i \in DOMAIN ordered : ordered'[i] = ordered[i]
      /\ ordered'[Len(ordered) + 1] = s
      /\ Completed' = Completed \cup {s}
  BY <1>1, <1>2, Append1
<1>5. \A n \in Nodes : Prerequisites(n)' = Prerequisites(n)
  BY <1>2 DEF Prerequisites
<1>6. \A n \in Nodes : n \in Dependents(s) <=> s \in Prerequisites(n)
  BY <1>2 DEF Dependents, Prerequisites
<1>7. \A n \in Nodes : Waiting(n)' = Waiting(n) \ {s}
  BY <1>4, <1>5 DEF Waiting
<1>8. \A n \in Nodes : s \in Waiting(n) <=> n \in Dependents(s)
  BY <1>3, <1>6 DEF Waiting, Residual
<1>9. \A n \in Nodes : IsFiniteSet(Waiting(n)) /\ Cardinality(Waiting(n)) \in Nat
  <2>1. \A n \in Nodes : Waiting(n) \in SUBSET Nodes
    BY DEF Waiting, Prerequisites
  <2>2. QED
    BY <2>1, FiniteNodes
<1>10. Types'
  <2>1. indegrees' \in [Nodes -> Int]
    BY <1>1 DEF Inv, Types
  <2>2. ready' \subseteq Nodes
    BY <1>1, <1>2 DEF Dependents
  <2>3. edges' \subseteq Nodes' \X Nodes'
    BY <1>2 DEF Inv, Types, Nodes
  <2>4. QED
    BY <1>4, <2>1, <2>2, <2>3 DEF Types, Nodes
<1>11. \A n \in Nodes : indegrees'[n] = Cardinality(Waiting(n)')
  <2>1. ASSUME NEW n \in Nodes PROVE indegrees'[n] = Cardinality(Waiting(n)')
    <3>1. Cardinality(Waiting(n) \ {s})
            = IF s \in Waiting(n) THEN Cardinality(Waiting(n)) - 1
              ELSE Cardinality(Waiting(n))
      BY <1>9, FS_RemoveElement
    <3>2. indegrees[n] = Cardinality(Waiting(n))
      BY DEF Inv, Books
    <3>3. indegrees'[n] = IF n \in Dependents(s) THEN indegrees[n] - 1 ELSE indegrees[n]
      BY <1>1
    <3>4. QED
      BY <1>7, <1>8, <3>1, <3>2, <3>3
  <2>2. QED
    BY <2>1
<1>12. ready' = {n \in Residual' : Waiting(n)' = {}}
  <2>1. Residual' = Residual \ {s}
    BY <1>4 DEF Residual, Nodes
  <2>2. \A n \in Nodes : IsFiniteSet(Waiting(n)')
    BY <1>7, <1>9, FS_RemoveElement
  <2>3. \A n \in Nodes : indegrees'[n] = 0 <=> Waiting(n)' = {}
    BY <1>11, <2>2, FS_EmptySet
  <2>4. ready = {n \in Residual : Waiting(n) = {}}
    BY DEF Inv, Books
  <2>5. \A n \in Nodes : n \in Dependents(s) => n \in Residual
    <3>1. ASSUME NEW n \in Nodes, n \in Dependents(s), n \in Completed PROVE FALSE
      <4>1. PICK i \in DOMAIN ordered : ordered[i] = n
        BY <3>1 DEF Completed
      <4>2. Prerequisites(n) \subseteq {ordered[j] : j \in 1 .. i - 1}
        BY <4>1 DEF Inv, Order
      <4>3. \A j \in 1 .. i - 1 : j \in DOMAIN ordered
        BY <1>2, <4>1
      <4>4. s \in Completed
        BY <1>6, <3>1, <4>2, <4>3 DEF Completed
      <4>5. QED
        BY <1>3, <4>4 DEF Residual
    <3>2. QED
      BY <3>1 DEF Residual
  <2>6. s \notin Dependents(s)
    BY <1>3, <1>6, <1>2 DEF Residual
  <2>7. \A n \in Residual \ {s} : Waiting(n)' = {} <=> n \in ready'
    <3>1. ASSUME NEW n \in Residual \ {s}, n \in Dependents(s)
          PROVE  Waiting(n)' = {} <=> n \in ready'
      <4>1. n \in Nodes
        BY DEF Residual
      <4>2. n \notin ready
        BY <1>8, <2>4, <3>1, <4>1
      <4>3. QED
        BY <1>1, <2>3, <3>1, <4>1, <4>2
    <3>2. ASSUME NEW n \in Residual \ {s}, n \notin Dependents(s)
          PROVE  Waiting(n)' = {} <=> n \in ready'
      <4>1. n \in Nodes
        BY DEF Residual
      <4>2. Waiting(n)' = Waiting(n)
        BY <1>7, <1>8, <3>2, <4>1
      <4>3. QED
        BY <1>1, <2>4, <3>2, <4>2
    <3>3. QED
      BY <3>1, <3>2
  <2>8. ready' \subseteq Residual \ {s}
    BY <1>1, <2>4, <2>5, <2>6 DEF Dependents
  <2>9. QED
    BY <2>1, <2>7, <2>8
<1>13. Books'
  BY <1>11, <1>12 DEF Books, Nodes
<1>14. Order'
  <2>1. Cardinality(Completed') = Len(ordered')
    <3>1. IsFiniteSet(Completed)
      BY <1>3, FiniteNodes
    <3>2. Cardinality(Completed \cup {s}) = Cardinality(Completed) + 1
      BY <1>3, <3>1, FS_AddElement DEF Residual
    <3>3. QED
      BY <1>4, <3>2 DEF Inv, Order
  <2>2. \A i \in DOMAIN ordered : ordered[i] # s
    BY <1>3 DEF Residual, Completed
  <2>3. \A i, j \in DOMAIN ordered' : ordered'[i] = ordered'[j] => i = j
    BY <1>4, <2>2 DEF Inv, Order
  <2>4. ASSUME NEW i \in DOMAIN ordered'
        PROVE  Prerequisites(ordered[i])' \subseteq {ordered'[j] : j \in 1 .. i - 1}
    <3>1. CASE i \in DOMAIN ordered
      <4>1. Prerequisites(ordered[i]) \subseteq {ordered[j] : j \in 1 .. i - 1}
        BY <3>1 DEF Inv, Order
      <4>2. \A j \in 1 .. i - 1 : ordered'[j] = ordered[j]
        BY <1>2, <1>4, <3>1
      <4>3. ordered'[i] = ordered[i] /\ ordered[i] \in Nodes
        BY <1>2, <1>4, <3>1
      <4>4. Prerequisites(ordered[i])' = Prerequisites(ordered[i])
        BY <1>2, <4>3 DEF Prerequisites, Nodes
      <4>5. QED
        BY <4>1, <4>2, <4>4
    <3>2. CASE i = Len(ordered) + 1
      <4>1. DOMAIN ordered = 1 .. i - 1
        BY <1>2, <3>2
      <4>2. Completed = {ordered'[j] : j \in 1 .. i - 1}
        BY <1>4, <4>1 DEF Completed
      <4>3. ordered'[i] = s
        BY <1>4, <3>2
      <4>4. Prerequisites(ordered[i])' = Prerequisites(s)
        BY <1>2, <4>3 DEF Prerequisites, Nodes
      <4>5. QED
        BY <1>3, <4>2, <4>4
    <3>3. QED
      BY <1>4, <3>1, <3>2
  <2>5. QED
    BY <2>1, <2>3, <2>4 DEF Order
<1>15. NotEntered'
  <2>1. ASSUME NEW S \in SUBSET Nodes, Stuck(S)' PROVE S \cap Completed' = {}
    <3>1. Stuck(S)
      BY <1>5, <2>1 DEF Stuck
    <3>2. S \cap Completed = {}
      BY <3>1 DEF Inv, NotEntered
    <3>3. s \notin S
      BY <1>3, <3>1, <3>2 DEF Stuck
    <3>4. QED
      BY <1>4, <3>2, <3>3
  <2>2. QED
    BY <2>1 DEF NotEntered, Nodes
<1>16. PlanSound'
  BY <1>2 DEF PlanSound, Planning
<1>17. QED
  BY <1>10, <1>13, <1>14, <1>15, <1>16 DEF Inv

(* When no node is ready, the residual is the largest set that is stuck.   *)
LEMMA FinishInv ==
  ASSUME Inv, FinishPlan
  PROVE  Inv'
<1>1. /\ edges' = edges /\ indegrees' = indegrees /\ ready' = ready
      /\ ordered' = ordered /\ ready = {}
  BY DEF FinishPlan
<1>2. Types' /\ Books' /\ Order' /\ NotEntered'
  <2>1. Types'
    BY <1>1 DEF Inv, Types, Nodes
  <2>2. Books'
    <3>1. \A n : Waiting(n)' = Waiting(n)
      BY <1>1 DEF Waiting, Prerequisites, Completed, Nodes
    <3>2. Residual' = Residual
      BY <1>1 DEF Residual, Completed, Nodes
    <3> QED
      BY <1>1, <3>1, <3>2 DEF Inv, Books, Nodes
  <2>3. Order'
    BY <1>1 DEF Inv, Order, Prerequisites, Completed, Nodes
  <2>4. NotEntered'
    BY <1>1 DEF Inv, NotEntered, Stuck, Prerequisites, Completed, Nodes
  <2>5. QED
    BY <2>1, <2>2, <2>3, <2>4
<1>3. Completed \subseteq Nodes
  BY DEF Inv, Types, Completed
<1>4. Len(ordered) = NodeCount <=> Completed = Nodes
  <2>1. Cardinality(Completed) = Len(ordered)
    BY DEF Inv, Order
  <2>2. QED
    BY <1>3, <2>1, FiniteNodes, FS_Subset
<1>5. CASE Len(ordered) = NodeCount
  <2>1. plan'.status = "valid" /\ plan'.plan = ordered
    BY <1>5 DEF FinishPlan
  <2>2. Completed' = Nodes' /\ plan'.plan = ordered'
    BY <1>1, <1>4, <1>5, <2>1 DEF Completed, Nodes
  <2>3. QED
    BY <1>2, <2>1, <2>2 DEF PlanSound, Order, Inv
<1>6. CASE Len(ordered) # NodeCount
  <2>1. plan'.status = "cycle" /\ plan'.blocked = Residual
    BY <1>6 DEF FinishPlan
  <2>2. Residual # {}
    BY <1>3, <1>4, <1>6 DEF Residual
  <2>3. \A n \in Residual : Waiting(n) # {}
    BY <1>1 DEF Inv, Books
  <2>4. Stuck(Residual)
    BY <2>3 DEF Stuck, Waiting, Residual, Prerequisites
  <2>5. \A S \in SUBSET Nodes : Stuck(S) => S \subseteq Residual
    BY DEF Inv, NotEntered, Residual
  <2>6. ASSUME NEW S \in SUBSET Nodes PROVE Stuck(S)' <=> Stuck(S)
    BY <1>1 DEF Stuck, Prerequisites, Nodes
  <2>7. Nodes' = Nodes /\ plan'.status # "valid"
    BY <2>1 DEF Nodes
  <2>8. Stuck(plan.blocked)'
    BY <1>1, <2>1, <2>4 DEF Stuck, Prerequisites, Residual, Nodes
  <2>9. \A S \in SUBSET Nodes : Stuck(S)' => S \subseteq plan'.blocked
    BY <2>1, <2>5, <2>6
  <2>10. PlanSound'
    BY <2>1, <2>2, <2>7, <2>8, <2>9 DEF PlanSound
  <2>11. QED
    BY <1>2, <2>10 DEF Inv
<1>7. QED
  BY <1>2, <1>5, <1>6 DEF Inv

------------------------------------------------------------------------------
(* The layers that are peeled off one after the other. *)
Peel(S) == {n \in S : Prerequisites(n) \cap S # {}}

(* The recursive function of ReferenceResidual. *)
IsPeeling(f) == f = [k \in 0 .. NodeCount |-> IF k = 0 THEN Nodes ELSE Peel(f[k - 1])]

(* What its equation says, layer by layer. *)
LEMMA PeelingIs ==
  ASSUME NEW f, IsPeeling(f)
  PROVE  /\ f \in [0 .. NodeCount -> SUBSET Nodes]
         /\ f[0] = Nodes /\ \A k \in 1 .. NodeCount : f[k] = Peel(f[k - 1])
<1>1. f = [k \in 0 .. NodeCount |-> f[k]]
  BY DEF IsPeeling
<1>2. f[0] = Nodes
  BY DEF IsPeeling
<1>3. \A k \in 1 .. NodeCount : f[k] = Peel(f[k - 1])
  BY DEF IsPeeling
<1>4. \A k \in 0 .. NodeCount : f[k] \in SUBSET Nodes
  <2> DEFINE S == {k \in 0 .. NodeCount : f[k] \in SUBSET Nodes}
  <2>1. 0 \in S
    BY <1>2
  <2>2. \A k \in 1 .. NodeCount : k - 1 \in S => k \in S
    BY <1>3 DEF Peel
  <2>3. 0 .. NodeCount \subseteq S
    <3> HIDE DEF S
    <3> QED
      BY <2>1, <2>2, Induction
  <2> QED
    BY <2>3
<1> QED
  BY <1>1, <1>2, <1>3, <1>4

(* There is such a function, and it is the one that is meant. *)
LEMMA Layers ==
  \E f : IsPeeling(f) /\ ReferenceResidual = f[NodeCount]
<1> DEFINE T == SUBSET Nodes
           G == [k \in Nat |-> [S \in T |-> Peel(S)]]
           remaining == CHOOSE f : IsPeeling(f)
<1>1. \E f : IsPeeling(f)
  <2>1. Nodes \in T /\ G \in [Nat -> [T -> T]]
    BY DEF Peel
  <2>2. \A k \in Nat, S \in T : G[k][S] = Peel(S)
    OBVIOUS
  <2>3. PICK f : Steps(f, NodeCount, T, Nodes, G)
    <3> HIDE DEF G, T
    <3> QED
      BY <2>1, Recursion
  <2>4. \A k \in 1 .. NodeCount : f[k] = Peel(f[k - 1])
    <3> HIDE DEF G, T
    <3> QED
      BY <2>2, <2>3 DEF Steps
  <2> QED
    BY <2>3, <2>4 DEF IsPeeling, Steps
<1>2. IsPeeling(remaining)
  BY <1>1, Zenon
<1>3. ReferenceResidual = remaining[NodeCount]
  BY DEF ReferenceResidual, IsPeeling, Peel
<1> HIDE DEF remaining
<1> QED
  BY <1>2, <1>3

(* Sets that only grow have stopped growing after as many steps as there are *)
(* nodes.                                                                    *)
LEMMA Saturation ==
  ASSUME NEW G \in [SUBSET Nodes -> SUBSET Nodes], \A S \in SUBSET Nodes : S \subseteq G[S],
         NEW f \in [0 .. NodeCount -> SUBSET Nodes],
         \A k \in 1 .. NodeCount : f[k] = G[f[k - 1]]
  PROVE  G[f[NodeCount]] = f[NodeCount]
<1> DEFINE S == {k \in 0 .. NodeCount : G[f[k]] = f[k] \/ Cardinality(f[k]) >= k}
<1>1. \A A \in SUBSET Nodes : IsFiniteSet(A) /\ Cardinality(A) \in Nat
  BY FiniteNodes
<1>2. 0 \in S
  BY <1>1
<1>3. ASSUME NEW k \in 1 .. NodeCount, k - 1 \in S PROVE k \in S
  <2>1. f[k] = G[f[k - 1]] /\ f[k - 1] \in SUBSET Nodes /\ f[k] \in SUBSET Nodes
    OBVIOUS
  <2>2. CASE G[f[k - 1]] = f[k - 1]
    BY <2>1, <2>2
  <2>3. CASE G[f[k - 1]] # f[k - 1] /\ Cardinality(f[k - 1]) >= k - 1
    <3>1. f[k - 1] \subseteq f[k] /\ f[k - 1] # f[k]
      BY <2>1, <2>3
    <3>2. Cardinality(f[k - 1]) <= Cardinality(f[k]) /\ Cardinality(f[k - 1]) # Cardinality(f[k])
      BY <1>1, <2>1, <3>1, FS_Subset
    <3>3. Cardinality(f[k - 1]) \in Nat /\ Cardinality(f[k]) \in Nat
      BY <1>1, <2>1
    <3>4. Cardinality(f[k]) >= k
      BY <2>3, <3>2, <3>3
    <3> QED
      BY <3>4
  <2> QED
    BY <1>3, <2>2, <2>3
<1>4. NodeCount \in S
  <2> HIDE DEF S
  <2>1. 0 .. NodeCount \subseteq S
    BY <1>2, <1>3, Induction
  <2> QED
    BY <2>1
<1>5. f[NodeCount] \in SUBSET Nodes
  OBVIOUS
<1>6. CASE Cardinality(f[NodeCount]) >= NodeCount
  <2>1. IsFiniteSet(Nodes) /\ Cardinality(Nodes) = NodeCount
    BY FiniteNodes
  <2>2. Cardinality(f[NodeCount]) <= NodeCount /\ Cardinality(f[NodeCount]) \in Nat
    BY <1>1, <1>5, <2>1, FS_Subset
  <2>3. Cardinality(f[NodeCount]) = NodeCount
    BY <1>6, <2>2
  <2>4. f[NodeCount] = Nodes
    BY <1>5, <2>1, <2>3, FS_Subset
  <2>5. Nodes \subseteq G[Nodes] /\ G[Nodes] \in SUBSET Nodes
    OBVIOUS
  <2> QED
    BY <2>4, <2>5
<1> QED
  BY <1>4, <1>6

(* What the layers leave is the largest stuck set. *)
LEMMA ResidualIs ==
  /\ ReferenceResidual \subseteq Nodes /\ Stuck(ReferenceResidual)
  /\ \A S \in SUBSET Nodes : Stuck(S) => S \subseteq ReferenceResidual
<1>1. PICK f : IsPeeling(f) /\ ReferenceResidual = f[NodeCount]
  BY Layers
<1>2. /\ f \in [0 .. NodeCount -> SUBSET Nodes]
      /\ f[0] = Nodes /\ \A k \in 1 .. NodeCount : f[k] = Peel(f[k - 1])
  BY <1>1, PeelingIs
<1>3. Peel(f[NodeCount]) = f[NodeCount]
  <2> DEFINE G == [S \in SUBSET Nodes |-> Nodes \ Peel(Nodes \ S)]
             h == [k \in 0 .. NodeCount |-> Nodes \ f[k]]
  <2>1. G \in [SUBSET Nodes -> SUBSET Nodes] /\ h \in [0 .. NodeCount -> SUBSET Nodes]
    OBVIOUS
  <2>2. \A S \in SUBSET Nodes : S \subseteq G[S]
    BY DEF Peel
  <2>3. \A S \in SUBSET Nodes : G[Nodes \ S] = Nodes \ Peel(S)
    <3>1. \A S \in SUBSET Nodes : Nodes \ (Nodes \ S) = S
      OBVIOUS
    <3> QED
      BY <3>1
  <2>4. ASSUME NEW k \in 0 .. NodeCount
        PROVE  f[k] \in SUBSET Nodes /\ h[k] = Nodes \ f[k] /\ G[h[k]] = Nodes \ Peel(f[k])
    <3>1. f[k] \in SUBSET Nodes /\ h[k] = Nodes \ f[k]
      BY <1>2
    <3> HIDE DEF G, h
    <3> QED
      BY <2>3, <3>1
  <2>5. \A k \in 1 .. NodeCount : h[k] = G[h[k - 1]]
    <3> HIDE DEF G, h
    <3>1. \A k \in 1 .. NodeCount : k - 1 \in 0 .. NodeCount /\ k \in 0 .. NodeCount
      OBVIOUS
    <3> QED
      BY <1>2, <2>4, <3>1
  <2>6. G[h[NodeCount]] = h[NodeCount]
    <3> HIDE DEF G, h
    <3> QED
      BY <2>1, <2>2, <2>5, Saturation
  <2>7. Nodes \ Peel(f[NodeCount]) = Nodes \ f[NodeCount] /\ f[NodeCount] \in SUBSET Nodes
    <3> HIDE DEF G, h
    <3> QED
      BY <2>4, <2>6
  <2> QED
    BY <2>7 DEF Peel
<1>4. \A S \in SUBSET Nodes : Stuck(S) => S \subseteq f[NodeCount]
  <2> SUFFICES ASSUME NEW S \in SUBSET Nodes, Stuck(S) PROVE S \subseteq f[NodeCount]
    OBVIOUS
  <2> DEFINE H == {k \in 0 .. NodeCount : S \subseteq f[k]}
  <2>1. 0 \in H
    BY <1>2
  <2>2. \A k \in 1 .. NodeCount : k - 1 \in H => k \in H
    BY <1>2 DEF Peel, Stuck
  <2>3. 0 .. NodeCount \subseteq H
    <3> HIDE DEF H
    <3> QED
      BY <2>1, <2>2, Induction
  <2> QED
    BY <2>3
<1>5. f[NodeCount] \subseteq Nodes /\ Stuck(f[NodeCount])
  BY <1>2, <1>3 DEF Peel, Stuck
<1> QED
  BY <1>1, <1>4, <1>5

(* Whoever waits for one who waits waits as well. *)
LEMMA WaitingOn ==
  ASSUME NEW n \in Nodes, NEW m \in Nodes, NEW k \in Nodes, WaitsFor(k, m),
         k \in Prerequisites(n) \/ WaitsFor(n, k)
  PROVE  WaitsFor(n, m)
<1> SUFFICES ASSUME NEW S \in SUBSET Nodes, Prerequisites(n) \subseteq S,
                    \A i \in S : Prerequisites(i) \subseteq S
             PROVE  m \in S
  BY DEF WaitsFor
<1>1. k \in S
  BY DEF WaitsFor
<1>2. Prerequisites(k) \subseteq S
  BY <1>1
<1> QED
  BY <1>2 DEF WaitsFor

(* A node waits for its prerequisites. *)
LEMMA WaitsForOwn ==
  \A n \in Nodes : \A m \in Prerequisites(n) : WaitsFor(n, m)
BY DEF WaitsFor

(* A set that holds what waits for m, directly or through others. *)
LEMMA WaitingBack ==
  ASSUME NEW n \in Nodes, NEW m \in Nodes, WaitsFor(n, m),
         NEW T, Dependents(m) \subseteq T, \A k \in T : Dependents(k) \subseteq T
  PROVE  n \in T
<1> SUFFICES ASSUME n \notin T PROVE FALSE
  OBVIOUS
<1> DEFINE S == {k \in Nodes : k \notin T /\ k # m}
<1>1. \A k \in Nodes, p \in Nodes : p \in Prerequisites(k) <=> k \in Dependents(p)
  BY DEF Prerequisites, Dependents
<1>2. \A k \in Nodes : k \notin T => Prerequisites(k) \subseteq S
  <2>1. ASSUME NEW k \in Nodes, k \notin T, NEW p \in Prerequisites(k) PROVE p \in S
    <3>1. p \in Nodes
      BY DEF Prerequisites
    <3>2. k \in Dependents(p)
      BY <1>1, <3>1
    <3> QED
      BY <2>1, <3>1, <3>2
  <2> QED
    BY <2>1
<1>3. S \in SUBSET Nodes /\ Prerequisites(n) \subseteq S /\ \A k \in S : Prerequisites(k) \subseteq S
  BY <1>2
<1>4. m \in S
  BY <1>3 DEF WaitsFor
<1> QED
  BY <1>4

(* The others need nothing of these. *)
Upwards(residual) ==
  residual \subseteq Nodes /\ \A n \in Nodes \ residual : Prerequisites(n) \cap residual = {}

------------------------------------------------------------------------------
(* The search of _cyclic_nodes_by_return_reachability.                     *)

(* One round of it. *)
Search(known, residual) == known \cup UNION {Dependents(n) \cap residual : n \in known}

(* The recursive function of CyclicNodes. *)
IsSearch(f, origin, residual) ==
  f = [k \in 0 .. NodeCount |-> IF k = 0 THEN Dependents(origin) \cap residual
                                ELSE Search(f[k - 1], residual)]

(* What the search from a node finds. *)
FoundBy(origin, residual) == (CHOOSE f : IsSearch(f, origin, residual))[NodeCount]

(* Its equation, round by round. *)
Rounds(f, origin, residual) ==
  /\ f \in [0 .. NodeCount -> SUBSET residual]
  /\ f[0] = Dependents(origin) \cap residual
  /\ \A k \in 1 .. NodeCount : f[k] = Search(f[k - 1], residual)

LEMMA SearchIs ==
  ASSUME NEW residual \in SUBSET Nodes, NEW origin,
         NEW f, IsSearch(f, origin, residual)
  PROVE  Rounds(f, origin, residual)
<1>0. \A k \in 0 .. NodeCount :
        f[k] = IF k = 0 THEN Dependents(origin) \cap residual ELSE Search(f[k - 1], residual)
  BY Zenon DEF IsSearch
<1>1. f = [k \in 0 .. NodeCount |-> f[k]]
  BY DEF IsSearch
<1>2. f[0] = Dependents(origin) \cap residual
  BY <1>0
<1>3. \A k \in 1 .. NodeCount : f[k] = Search(f[k - 1], residual)
  BY <1>0
<1>4. \A k \in 0 .. NodeCount : f[k] \in SUBSET residual
  <2> DEFINE S == {k \in 0 .. NodeCount : f[k] \in SUBSET residual}
  <2>1. 0 \in S
    BY <1>2
  <2>2. \A k \in 1 .. NodeCount : k - 1 \in S => k \in S
    BY <1>3 DEF Search
  <2>3. 0 .. NodeCount \subseteq S
    <3> HIDE DEF S
    <3> QED
      BY <2>1, <2>2, Induction
  <2> QED
    BY <2>3
<1> QED
  BY <1>1, <1>2, <1>3, <1>4 DEF Rounds

(* There is such a search. *)
LEMMA SearchGoes ==
  ASSUME NEW residual \in SUBSET Nodes, NEW origin
  PROVE  \E f : IsSearch(f, origin, residual) /\ FoundBy(origin, residual) = f[NodeCount]
<1> DEFINE T == SUBSET residual
           G == [k \in Nat |-> [S \in T |-> Search(S, residual)]]
           base == Dependents(origin) \cap residual
<1>1. \E f : IsSearch(f, origin, residual)
  <2>1. base \in T /\ G \in [Nat -> [T -> T]]
    BY DEF Search
  <2>2. \A k \in Nat, S \in T : G[k][S] = Search(S, residual)
    OBVIOUS
  <2>3. PICK f : Steps(f, NodeCount, T, base, G)
    <3> HIDE DEF G, T, base
    <3> QED
      BY <2>1, Recursion
  <2>4. \A k \in 1 .. NodeCount : f[k] = Search(f[k - 1], residual)
    <3> HIDE DEF G, T, base
    <3> QED
      BY <2>2, <2>3 DEF Steps
  <2> QED
    BY <2>3, <2>4 DEF IsSearch, Steps
<1> QED
  BY <1>1, Zenon DEF FoundBy

(* The search comes back to exactly the nodes that wait for themselves. *)
LEMMA CyclicIs ==
  ASSUME NEW residual, Upwards(residual)
  PROVE  CyclicNodes(residual) = {n \in residual : WaitsFor(n, n)}
<1>1. CyclicNodes(residual) = {origin \in residual : origin \in FoundBy(origin, residual)}
  BY DEF CyclicNodes, FoundBy, IsSearch, Search
<1>2. ASSUME NEW origin \in residual
      PROVE  origin \in FoundBy(origin, residual) <=> WaitsFor(origin, origin)
  <2>1. residual \in SUBSET Nodes /\ origin \in Nodes
    BY DEF Upwards
  <2>2. PICK f : IsSearch(f, origin, residual) /\ FoundBy(origin, residual) = f[NodeCount]
    BY <2>1, SearchGoes
  <2>3. /\ f \in [0 .. NodeCount -> SUBSET residual]
        /\ f[0] = Dependents(origin) \cap residual
        /\ \A k \in 1 .. NodeCount : f[k] = Search(f[k - 1], residual)
    <3>1. Rounds(f, origin, residual)
      BY <2>1, <2>2, SearchIs
    <3> QED
      BY <3>1 DEF Rounds
  <2>4. \A n \in residual : Dependents(n) \subseteq residual
    BY <2>1 DEF Upwards, Dependents, Prerequisites
  <2>5. ASSUME origin \in f[NodeCount] PROVE WaitsFor(origin, origin)
    <3> DEFINE S == {k \in 0 .. NodeCount : \A n \in f[k] : WaitsFor(n, origin)}
    <3>1. \A n \in Nodes : \A d \in Dependents(n) : d \in Nodes /\ n \in Prerequisites(d)
      BY DEF Dependents, Prerequisites
    <3>2. 0 \in S
      BY <2>1, <2>3, <3>1, WaitsForOwn
    <3>3. ASSUME NEW k \in 1 .. NodeCount, k - 1 \in S PROVE k \in S
      <4>1. f[k - 1] \in SUBSET residual /\ f[k] = Search(f[k - 1], residual)
        BY <2>3
      <4>2. ASSUME NEW n \in f[k - 1], NEW d \in Dependents(n) PROVE WaitsFor(d, origin)
        <5>1. n \in Nodes /\ d \in Nodes /\ n \in Prerequisites(d) /\ WaitsFor(n, origin)
          BY <2>1, <3>1, <3>3, <4>1, <4>2
        <5> QED
          BY <2>1, <5>1, WaitingOn
      <4>3. \A n \in f[k] : WaitsFor(n, origin)
        BY <3>3, <4>1, <4>2 DEF Search
      <4> QED
        BY <4>3
    <3>4. NodeCount \in S
      <4> HIDE DEF S
      <4>1. 0 .. NodeCount \subseteq S
        BY <3>2, <3>3, Induction
      <4> QED
        BY <4>1
    <3> QED
      BY <2>5, <3>4
  <2>6. ASSUME WaitsFor(origin, origin) PROVE origin \in f[NodeCount]
    <3> DEFINE G == [S \in SUBSET Nodes |-> Search(S, residual)]
    <3>1. G \in [SUBSET Nodes -> SUBSET Nodes] /\ \A S \in SUBSET Nodes : S \subseteq G[S]
      BY <2>1 DEF Search
    <3>2. f \in [0 .. NodeCount -> SUBSET Nodes] /\ \A k \in 1 .. NodeCount : f[k] = G[f[k - 1]]
      BY <2>1, <2>3
    <3>3. G[f[NodeCount]] = f[NodeCount]
      <4> HIDE DEF G
      <4> QED
        BY <3>1, <3>2, Saturation
    <3>4. f[NodeCount] \in SUBSET residual /\ f[NodeCount] \in SUBSET Nodes
      BY <2>3, <3>2
    <3>5. Search(f[NodeCount], residual) = f[NodeCount]
      BY <3>3, <3>4
    <3>6. \A n \in f[NodeCount] : Dependents(n) \subseteq f[NodeCount]
      BY <2>4, <3>4, <3>5 DEF Search
    <3>7. Dependents(origin) \subseteq f[NodeCount]
      <4> DEFINE S == {k \in 0 .. NodeCount : Dependents(origin) \subseteq f[k]}
      <4>1. 0 \in S
        BY <2>3, <2>4
      <4>2. \A k \in 1 .. NodeCount : k - 1 \in S => k \in S
        BY <2>3 DEF Search
      <4>3. 0 .. NodeCount \subseteq S
        <5> HIDE DEF S
        <5> QED
          BY <4>1, <4>2, Induction
      <4> QED
        BY <4>3
    <3> QED
      BY <2>1, <2>6, <3>6, <3>7, WaitingBack
  <2> QED
    BY <2>2, <2>5, <2>6
<1> QED
  BY <1>1, <1>2

------------------------------------------------------------------------------
(* The closure of _reference_cyclic_nodes.                                 *)

(* Node k as one more intermediate node. *)
Through(k, direct, residual) ==
  [n \in residual |-> IF k \in residual /\ k \in direct[n]
                      THEN direct[n] \cup direct[k] ELSE direct[n]]

(* The recursive function of ReferenceCyclic. *)
IsClosure(f, residual) ==
  f = [k \in 0 .. NodeCount |-> IF k = 0 THEN [n \in residual |-> Prerequisites(n) \cap residual]
                                ELSE Through(k, f[k - 1], residual)]

(* The equation, node by node. *)
LEMMA ClosureIs ==
  ASSUME NEW residual, NEW f, IsClosure(f, residual)
  PROVE  /\ \A k \in 0 .. NodeCount : f[k] \in [residual -> SUBSET residual]
         /\ \A n \in residual : f[0][n] = Prerequisites(n) \cap residual
         /\ \A k \in 1 .. NodeCount : f[k] = Through(k, f[k - 1], residual)
<1>1. \A k \in 0 .. NodeCount :
        f[k] = IF k = 0 THEN [n \in residual |-> Prerequisites(n) \cap residual]
               ELSE Through(k, f[k - 1], residual)
  BY Zenon DEF IsClosure
<1>2. f[0] = [n \in residual |-> Prerequisites(n) \cap residual]
  BY <1>1
<1>3. ASSUME NEW k \in 1 .. NodeCount PROVE f[k] = Through(k, f[k - 1], residual)
  <2>1. k \in 0 .. NodeCount /\ k # 0
    OBVIOUS
  <2> QED
    BY <1>1, <2>1, Zenon
<1>4. \A k \in 0 .. NodeCount : f[k] \in [residual -> SUBSET residual]
  <2> DEFINE S == {k \in 0 .. NodeCount : f[k] \in [residual -> SUBSET residual]}
  <2>1. 0 \in S
    BY <1>2
  <2>2. ASSUME NEW k \in 1 .. NodeCount, k - 1 \in S PROVE k \in S
    <3>1. f[k - 1] \in [residual -> SUBSET residual]
      BY <2>2
    <3>2. Through(k, f[k - 1], residual) \in [residual -> SUBSET residual]
      BY <3>1 DEF Through
    <3> QED
      BY <1>3, <3>2
  <2>3. 0 .. NodeCount \subseteq S
    <3> HIDE DEF S
    <3> QED
      BY <2>1, <2>2, Induction
  <2> QED
    BY <2>3
<1> QED
  BY <1>2, <1>3, <1>4

(* There is such a closure. *)
LEMMA ClosureGoes ==
  ASSUME NEW residual
  PROVE  \E f : IsClosure(f, residual)
                  /\ ReferenceCyclic(residual) = {n \in residual : n \in f[NodeCount][n]}
<1> DEFINE T == [residual -> SUBSET residual]
           G == [k \in Nat |-> [direct \in T |-> Through(k, direct, residual)]]
           base == [n \in residual |-> Prerequisites(n) \cap residual]
           reach == CHOOSE f : IsClosure(f, residual)
<1>1. \E f : IsClosure(f, residual)
  <2>1. base \in T
    OBVIOUS
  <2>2. \A k \in Nat, direct \in T : Through(k, direct, residual) \in T
    BY DEF Through
  <2>3. G \in [Nat -> [T -> T]] /\ \A k \in Nat, direct \in T : G[k][direct] = Through(k, direct, residual)
    <3> HIDE DEF T
    <3> QED
      BY <2>2
  <2>4. PICK f : Steps(f, NodeCount, T, base, G)
    <3> HIDE DEF G, T, base
    <3> QED
      BY <2>1, <2>3, Recursion
  <2>5. \A k \in 1 .. NodeCount : f[k] = Through(k, f[k - 1], residual)
    <3> HIDE DEF G, T, base
    <3> QED
      BY <2>3, <2>4 DEF Steps
  <2>6. f[0] = base /\ f = [k \in 0 .. NodeCount |-> f[k]]
    <3> HIDE DEF G, T, base
    <3> QED
      BY <2>4 DEF Steps
  <2>7. IsClosure(f, residual)
    <3> HIDE DEF G, T, base
    <3>1. ASSUME NEW k \in 0 .. NodeCount
          PROVE  f[k] = IF k = 0 THEN base ELSE Through(k, f[k - 1], residual)
      <4>1. CASE k = 0
        BY <2>6, <4>1
      <4>2. CASE k # 0
        <5>1. k \in 1 .. NodeCount
          BY <4>2
        <5> QED
          BY <2>5, <4>2, <5>1, Zenon
      <4> QED
        BY <4>1, <4>2
    <3>2. f = [k \in 0 .. NodeCount |-> IF k = 0 THEN base ELSE Through(k, f[k - 1], residual)]
      BY <2>6, <3>1
    <3> QED
      BY <3>2, Zenon DEF IsClosure, base
  <2> QED
    BY <2>7
<1>2. IsClosure(reach, residual)
  BY <1>1, Zenon
<1>3. ReferenceCyclic(residual) = {n \in residual : n \in reach[NodeCount][n]}
  BY DEF ReferenceCyclic, IsClosure, Through
<1> HIDE DEF reach
<1> QED
  BY <1>2, <1>3

(* It comes to the same set as the search. *)
LEMMA ReferenceCyclicIs ==
  ASSUME NEW residual, Upwards(residual)
  PROVE  ReferenceCyclic(residual) = {n \in residual : WaitsFor(n, n)}
<1>1. PICK f : IsClosure(f, residual)
                 /\ ReferenceCyclic(residual) = {n \in residual : n \in f[NodeCount][n]}
  BY ClosureGoes
<1>2. /\ \A k \in 0 .. NodeCount : f[k] \in [residual -> SUBSET residual]
      /\ \A n \in residual : f[0][n] = Prerequisites(n) \cap residual
      /\ \A k \in 1 .. NodeCount : f[k] = Through(k, f[k - 1], residual)
  BY <1>1, ClosureIs
<1>3. \A k \in 1 .. NodeCount : \A n \in residual :
        f[k][n] = IF k \in residual /\ k \in f[k - 1][n]
                  THEN f[k - 1][n] \cup f[k - 1][k] ELSE f[k - 1][n]
  <2>1. ASSUME NEW k \in 1 .. NodeCount, NEW n \in residual
        PROVE  f[k][n] = IF k \in residual /\ k \in f[k - 1][n]
                         THEN f[k - 1][n] \cup f[k - 1][k] ELSE f[k - 1][n]
    <3>1. f[k] = Through(k, f[k - 1], residual)
      BY <1>2
    <3> QED
      BY <3>1 DEF Through
  <2> QED
    BY <2>1
<1>4. residual \in SUBSET Nodes
  BY DEF Upwards
<1>5. \A k \in 0 .. NodeCount : \A n \in residual : \A m \in f[k][n] : WaitsFor(n, m)
  <2> DEFINE S == {k \in 0 .. NodeCount :
                     \A n \in residual : \A m \in f[k][n] : WaitsFor(n, m)}
  <2>1. 0 \in S
    BY <1>2, <1>4, WaitsForOwn
  <2>2. ASSUME NEW k \in 1 .. NodeCount, k - 1 \in S PROVE k \in S
    <3>1. ASSUME NEW n \in residual, NEW m \in f[k][n] PROVE WaitsFor(n, m)
      <4>1. f[k - 1] \in [residual -> SUBSET residual] /\ f[k] \in [residual -> SUBSET residual]
        BY <1>2
      <4>2. CASE m \in f[k - 1][n]
        BY <2>2, <4>2
      <4>3. CASE k \in residual /\ k \in f[k - 1][n] /\ m \in f[k - 1][k]
        <5>1. WaitsFor(n, k) /\ WaitsFor(k, m)
          BY <2>2, <4>3
        <5>2. n \in Nodes /\ m \in Nodes /\ k \in Nodes
          BY <1>4, <3>1, <4>1, <4>3
        <5> QED
          BY <5>1, <5>2, WaitingOn
      <4> QED
        BY <1>3, <3>1, <4>2, <4>3
    <3> QED
      BY <3>1
  <2>3. 0 .. NodeCount \subseteq S
    <3> HIDE DEF S
    <3> QED
      BY <2>1, <2>2, Induction
  <2> QED
    BY <2>3
<1>6. \A n \in residual : Prerequisites(n) \cap residual \subseteq f[NodeCount][n]
  <2> DEFINE S == {k \in 0 .. NodeCount :
                     \A n \in residual : Prerequisites(n) \cap residual \subseteq f[k][n]}
  <2>1. 0 \in S
    BY <1>2
  <2>2. ASSUME NEW k \in 1 .. NodeCount, k - 1 \in S PROVE k \in S
    <3>1. \A n \in residual : f[k - 1][n] \subseteq f[k][n]
      BY <1>3
    <3> QED
      BY <2>2, <3>1
  <2>3. 0 .. NodeCount \subseteq S
    <3> HIDE DEF S
    <3> QED
      BY <2>1, <2>2, Induction
  <2> QED
    BY <2>3
<1>7. \A n, j \in residual : j \in f[NodeCount][n] => f[NodeCount][j] \subseteq f[NodeCount][n]
  <2> DEFINE S == {k \in 0 .. NodeCount : \A n, j \in residual :
                     j <= k /\ j \in f[k][n] => f[k][j] \subseteq f[k][n]}
  <2>1. 0 \in S
    <3>1. \A j \in residual : ~(j <= 0)
      BY <1>4 DEF Nodes
    <3> QED
      BY <3>1
  <2>2. ASSUME NEW k \in 1 .. NodeCount, k - 1 \in S PROVE k \in S
    <3>1. ASSUME NEW n \in residual, NEW j \in residual, j <= k, j \in f[k][n]
          PROVE  f[k][j] \subseteq f[k][n]
      <4>1. j \in 1 .. NodeCount
        BY <1>4 DEF Nodes
      <4>2. CASE j = k
        BY <1>3, <3>1, <4>2
      <4>3. CASE j <= k - 1
        <5>1. \A i \in residual : j \in f[k - 1][i] => f[k - 1][j] \subseteq f[k - 1][i]
          BY <2>2, <4>3
        <5>2. /\ f[k - 1][n] \subseteq f[k][n]
              /\ k \in residual /\ k \in f[k - 1][n] => f[k - 1][k] \subseteq f[k][n]
          BY <1>3
        <5>3. f[k - 1][j] \subseteq f[k][n]
          <6>1. j \in f[k - 1][n] \/ (k \in residual /\ k \in f[k - 1][n] /\ j \in f[k - 1][k])
            BY <1>3, <3>1
          <6> QED
            BY <5>1, <5>2, <6>1
        <5>4. k \in residual /\ k \in f[k - 1][j] => f[k - 1][k] \subseteq f[k][n]
          <6>1. j \in f[k - 1][n] \/ (k \in residual /\ k \in f[k - 1][n])
            BY <1>3, <3>1
          <6> QED
            BY <5>1, <5>2, <6>1
        <5>5. f[k][j] \subseteq f[k - 1][j]
                \/ (k \in residual /\ k \in f[k - 1][j] /\ f[k][j] = f[k - 1][j] \cup f[k - 1][k])
          BY <1>3
        <5> QED
          BY <5>3, <5>4, <5>5
      <4> QED
        BY <3>1, <4>1, <4>2, <4>3
    <3> QED
      BY <3>1
  <2>3. 0 .. NodeCount \subseteq S
    <3> HIDE DEF S
    <3> QED
      BY <2>1, <2>2, Induction
  <2>4. \A j \in residual : j <= NodeCount
    BY <1>4 DEF Nodes
  <2> QED
    BY <2>3, <2>4
<1>8. ASSUME NEW n \in residual, WaitsFor(n, n) PROVE n \in f[NodeCount][n]
  <2> DEFINE S == f[NodeCount][n] \cup (Nodes \ residual)
  <2>1. f[NodeCount] \in [residual -> SUBSET residual] /\ n \in Nodes
    BY <1>2, <1>4
  <2>2. S \in SUBSET Nodes
    BY <1>4, <2>1
  <2>3. \A k \in Nodes : Prerequisites(k) \subseteq Nodes
    BY DEF Prerequisites
  <2>4. Prerequisites(n) \subseteq S
    BY <1>6, <2>1, <2>3
  <2>5. ASSUME NEW k \in S PROVE Prerequisites(k) \subseteq S
    <3>1. CASE k \in f[NodeCount][n]
      <4>1. k \in residual
        BY <2>1, <3>1
      <4>2. Prerequisites(k) \cap residual \subseteq f[NodeCount][n]
        BY <1>6, <1>7, <3>1, <4>1
      <4> QED
        BY <1>4, <2>3, <4>1, <4>2
    <3>2. CASE k \in Nodes \ residual
      BY <2>3, <3>2 DEF Upwards
    <3> QED
      BY <3>1, <3>2
  <2>6. n \in S
    <3> HIDE DEF S
    <3> QED
      BY <1>8, <2>2, <2>4, <2>5 DEF WaitsFor
  <2> QED
    BY <2>6
<1> QED
  BY <1>1, <1>5, <1>8

(* A finite set of naturals has a largest member. *)
LEMMA Largest ==
  ASSUME NEW A \in SUBSET Nat, IsFiniteSet(A), A # {}
  PROVE  \E x \in A : \A y \in A : x >= y
<1> DEFINE Bounded(B) == \E x \in B : \A y \in B : x >= y
           S == {k \in 0 .. Cardinality(A) : \A B \in SUBSET A :
                   Cardinality(B) = k /\ B # {} => Bounded(B)}
<1>1. \A B \in SUBSET A : IsFiniteSet(B) /\ Cardinality(B) \in Nat
  BY FS_Subset, FS_CardinalityType
<1>2. 0 \in S
  <2>1. \A B \in SUBSET A : Cardinality(B) = 0 => B = {}
    BY <1>1, FS_EmptySet
  <2>2. Cardinality(A) \in Nat
    BY <1>1
  <2>3. 0 \in 0 .. Cardinality(A)
    BY <2>2
  <2> HIDE DEF Bounded
  <2> QED
    BY <2>1, <2>3
<1>3. ASSUME NEW k \in 1 .. Cardinality(A), k - 1 \in S PROVE k \in S
  <2>1. ASSUME NEW B \in SUBSET A, Cardinality(B) = k, NEW b \in B PROVE Bounded(B)
    <3>1. Cardinality(B \ {b}) = k - 1 /\ B \ {b} \in SUBSET A
      BY <1>1, <2>1, FS_RemoveElement
    <3>2. CASE B \ {b} = {}
      BY <2>1, <3>2
    <3>3. CASE B \ {b} # {}
      <4>1. PICK x \in B \ {b} : \A y \in B \ {b} : x >= y
        <5>1. Bounded(B \ {b})
          <6> HIDE DEF Bounded
          <6> QED
            BY <1>3, <3>1, <3>3
        <5> QED
          BY <5>1
      <4>2. x \in Nat /\ b \in Nat /\ B \subseteq Nat
        BY <2>1
      <4>3. CASE x >= b
        BY <4>1, <4>2, <4>3
      <4>4. CASE b > x
        <5>1. \A y \in B : b >= y
          BY <4>1, <4>2, <4>4
        <5> QED
          BY <2>1, <5>1
      <4> QED
        BY <4>2, <4>3, <4>4
    <3> QED
      BY <3>2, <3>3
  <2>2. \A B \in SUBSET A : Cardinality(B) = k /\ B # {} => Bounded(B)
    <3> HIDE DEF Bounded
    <3> QED
      BY <2>1
  <2>3. k \in 0 .. Cardinality(A)
    BY <1>1
  <2> HIDE DEF Bounded
  <2> QED
    BY <2>2, <2>3
<1>4. 0 .. Cardinality(A) \subseteq S /\ Cardinality(A) \in Nat
  <2>1. Cardinality(A) \in Nat
    BY <1>1
  <2> HIDE DEF S
  <2> QED
    BY <1>2, <1>3, <2>1, Induction
<1>5. Cardinality(A) \in S
  <2> HIDE DEF S
  <2> QED
    BY <1>4
<1> QED
  BY <1>5

(* What the largest member is. *)
LEMMA MaxIs ==
  ASSUME NEW A \in SUBSET Nat, NEW x \in A, \A y \in A : x >= y
  PROVE  Max(A) = x
<1>1. Max(A) \in A /\ \A y \in A : Max(A) >= y
  BY DEF Max
<1>2. Max(A) >= x /\ x >= Max(A) /\ x \in Nat /\ Max(A) \in Nat
  BY <1>1
<1> QED
  BY <1>2

(* The larger one of two. *)
LEMMA MaxOfTwo ==
  ASSUME NEW a \in Nat, NEW b \in Nat
  PROVE  Max({a, b}) = IF a >= b THEN a ELSE b
<1>1. {a, b} \in SUBSET Nat
  OBVIOUS
<1>2. CASE a >= b
  BY <1>1, <1>2, MaxIs
<1>3. CASE ~(a >= b)
  <2>1. \A y \in {a, b} : b >= y
    BY <1>3
  <2> QED
    BY <1>1, <1>3, <2>1, MaxIs
<1> QED
  BY <1>2, <1>3

(* The values of a function at some nodes. *)
LEMMA ValuesHaveMax ==
  ASSUME NEW depth \in [Nodes -> Nat], NEW P \in SUBSET Nodes, P # {}
  PROVE  LET values == {depth[p] : p \in P} IN
         values \in SUBSET Nat /\ Max(values) \in values /\ \A y \in values : Max(values) >= y
<1> DEFINE values == {depth[p] : p \in P}
           g == [p \in P |-> depth[p]]
<1>1. IsFiniteSet(P)
  BY FiniteNodes
<1>2. g \in Surjection(P, values)
  BY DEF Surjection
<1>3. IsFiniteSet(values)
  <2> HIDE DEF g, values
  <2> QED
    BY <1>1, <1>2, FS_Surjection
<1>4. values \in SUBSET Nat /\ values # {}
  OBVIOUS
<1> HIDE DEF values
<1>5. \E x \in values : \A y \in values : x >= y
  BY <1>3, <1>4, Largest
<1>6. Max(values) \in values /\ \A y \in values : Max(values) >= y
  BY <1>5 DEF Max
<1> QED
  BY <1>4, <1>6 DEF values

------------------------------------------------------------------------------
(* The depths of _reference_depths.                                        *)

(* One step further. *)
Deeper(shorter) ==
  [n \in Nodes |-> IF Prerequisites(n) = {} THEN 0
                   ELSE 1 + Max({shorter[p] : p \in Prerequisites(n)})]

(* The recursive function of ReferenceDepths. *)
IsDepth(f) ==
  f = [k \in 0 .. NodeCount |-> IF k = 0 THEN [n \in Nodes |-> 0] ELSE Deeper(f[k - 1])]

(* A depth is a natural number. *)
LEMMA DeeperType ==
  ASSUME NEW shorter \in [Nodes -> Nat]
  PROVE  Deeper(shorter) \in [Nodes -> Nat]
<1>1. ASSUME NEW n \in Nodes, Prerequisites(n) # {}
      PROVE  1 + Max({shorter[p] : p \in Prerequisites(n)}) \in Nat
  <2>1. Prerequisites(n) \in SUBSET Nodes
    BY DEF Prerequisites
  <2>2. Max({shorter[p] : p \in Prerequisites(n)}) \in Nat
    BY <1>1, <2>1, ValuesHaveMax
  <2> QED
    BY <2>2
<1> QED
  BY <1>1 DEF Deeper

(* Its equation, step by step. *)
DepthSteps(f) ==
  /\ f[0] = [n \in Nodes |-> 0]
  /\ \A k \in 1 .. NodeCount : f[k] = Deeper(f[k - 1])
  /\ \A k \in 0 .. NodeCount : f[k] \in [Nodes -> Nat]

LEMMA DepthIs ==
  ASSUME NEW f, IsDepth(f)
  PROVE  DepthSteps(f)
<1>1. \A k \in 0 .. NodeCount :
        f[k] = IF k = 0 THEN [n \in Nodes |-> 0] ELSE Deeper(f[k - 1])
  BY Zenon DEF IsDepth
<1>2. f[0] = [n \in Nodes |-> 0]
  BY <1>1
<1>3. ASSUME NEW k \in 1 .. NodeCount PROVE f[k] = Deeper(f[k - 1])
  <2>1. k \in 0 .. NodeCount /\ k # 0
    OBVIOUS
  <2> QED
    BY <1>1, <2>1, Zenon
<1>4. \A k \in 0 .. NodeCount : f[k] \in [Nodes -> Nat]
  <2> DEFINE S == {k \in 0 .. NodeCount : f[k] \in [Nodes -> Nat]}
  <2>1. 0 \in S
    BY <1>2
  <2>2. \A k \in 1 .. NodeCount : k - 1 \in S => k \in S
    BY <1>3, DeeperType
  <2>3. 0 .. NodeCount \subseteq S
    <3> HIDE DEF S
    <3> QED
      BY <2>1, <2>2, Induction
  <2> QED
    BY <2>3
<1> QED
  BY <1>2, <1>3, <1>4 DEF DepthSteps

(* There is such a function, and it is the one that is meant. *)
LEMMA DepthGoes ==
  \E f : DepthSteps(f) /\ ReferenceDepths = f[NodeCount]
<1> DEFINE T == [Nodes -> Nat]
           G == [k \in Nat |-> [depth \in T |-> Deeper(depth)]]
           base == [n \in Nodes |-> 0]
           chosen == CHOOSE f : IsDepth(f)
<1>1. \E f : IsDepth(f)
  <2>1. base \in T
    OBVIOUS
  <2>2. \A depth \in T : Deeper(depth) \in T
    BY DeeperType
  <2>3. G \in [Nat -> [T -> T]] /\ \A k \in Nat, depth \in T : G[k][depth] = Deeper(depth)
    <3> HIDE DEF T
    <3> QED
      BY <2>2
  <2>4. PICK f : Steps(f, NodeCount, T, base, G)
    <3> HIDE DEF G, T, base
    <3> QED
      BY <2>1, <2>3, Recursion
  <2>5. \A k \in 1 .. NodeCount : f[k] = Deeper(f[k - 1])
    <3> HIDE DEF G, T, base
    <3> QED
      BY <2>3, <2>4 DEF Steps
  <2>6. f[0] = base /\ f = [k \in 0 .. NodeCount |-> f[k]]
    <3> HIDE DEF G, T, base
    <3> QED
      BY <2>4 DEF Steps
  <2>7. IsDepth(f)
    <3> HIDE DEF G, T, base
    <3>1. ASSUME NEW k \in 0 .. NodeCount
          PROVE  f[k] = IF k = 0 THEN base ELSE Deeper(f[k - 1])
      <4>1. CASE k = 0
        BY <2>6, <4>1
      <4>2. CASE k # 0
        <5>1. k \in 1 .. NodeCount
          BY <4>2
        <5> QED
          BY <2>5, <4>2, <5>1, Zenon
      <4> QED
        BY <4>1, <4>2
    <3>2. f = [k \in 0 .. NodeCount |-> IF k = 0 THEN base ELSE Deeper(f[k - 1])]
      BY <2>6, <3>1
    <3> QED
      BY <3>2, Zenon DEF IsDepth, base
  <2> QED
    BY <2>7
<1>2. IsDepth(chosen)
  BY <1>1, Zenon
<1>3. ReferenceDepths = chosen[NodeCount]
  BY DEF ReferenceDepths, IsDepth, Deeper
<1> HIDE DEF chosen
<1> QED
  BY <1>2, <1>3, DepthIs

(* What the loop reads and never writes. *)
Inputs ==
  /\ tieBreak \in Policies
  /\ priority \in [Nodes -> Int] /\ declared \in [Nodes -> Int]

(* A depth is the length of the longest chain of completed prerequisites. *)
DepthsTrue ==
  /\ depths \in [Nodes -> Nat]
  /\ \A n \in Nodes :
       /\ \A p \in Prerequisites(n) \cap Completed : depths[n] >= depths[p] + 1
       /\ \/ depths[n] = 0
          \/ \E p \in Prerequisites(n) \cap Completed : depths[n] = depths[p] + 1

(* What is selected before the i-th. *)
Before(i) == {ordered[j] : j \in 1 .. i - 1}

(* The nodes that could have been the i-th. *)
Open(i) == {n \in Nodes \ Before(i) : Prerequisites(n) \subseteq Before(i)}

(* Each node was the first of them by the policy. *)
Chosen ==
  \A i \in DOMAIN ordered : \A n \in Open(i) : Precedes(ordered[i], n, depths)

(* The two answers. *)
Answered ==
  plan # Planning =>
    /\ ready = {}
    /\ plan = IF Len(ordered) = NodeCount
              THEN [status |-> "valid", plan |-> ordered, blocked |-> {}, cyclic |-> {}]
              ELSE [status |-> "cycle", plan |-> <<>>, blocked |-> Residual,
                    cyclic |-> {n \in Residual : WaitsFor(n, n)}]

Exact == Inputs /\ DepthsTrue /\ Chosen /\ Answered

------------------------------------------------------------------------------
(* Keys are integers, so no two nodes precede each other. *)
LEMMA KeyIsInt ==
  ASSUME Inputs, NEW depth \in [Nodes -> Nat], NEW n \in Nodes
  PROVE  Key(n, depth) \in Int
<1>1. Dependents(n) \in SUBSET Nodes
  BY DEF Dependents
<1>2. Cardinality(Dependents(n)) \in Nat
  <2>1. \A S \in SUBSET Nodes : Cardinality(S) \in Nat
    BY FiniteNodes
  <2> QED
    BY <1>1, <2>1
<1>3. depth[n] \in Nat /\ priority[n] \in Int /\ declared[n] \in Int
  BY DEF Inputs
<1>4. CASE tieBreak = "utf8-smallest"
  BY <1>4 DEF Key
<1>5. CASE tieBreak = "declared-priority"
  BY <1>3, <1>5 DEF Key
<1>6. CASE tieBreak = "shortest-depth"
  BY <1>3, <1>6 DEF Key
<1>7. CASE tieBreak = "largest-fanout"
  BY <1>2, <1>7 DEF Key
<1>8. CASE tieBreak = "stable-input-order"
  BY <1>3, <1>8 DEF Key
<1> QED
  BY <1>4, <1>5, <1>6, <1>7, <1>8 DEF Inputs, Policies

LEMMA OneFirst ==
  ASSUME Inputs, NEW depth \in [Nodes -> Nat], NEW m \in Nodes, NEW n \in Nodes,
         Precedes(m, n, depth), Precedes(n, m, depth)
  PROVE  m = n
<1>1. Key(m, depth) \in Int /\ Key(n, depth) \in Int /\ m \in Int /\ n \in Int
  BY KeyIsInt DEF Nodes
<1> QED
  BY <1>1 DEF Precedes

(* A key depends on the depth of its own node alone. *)
LEMMA KeyOfDepth ==
  ASSUME Inputs, NEW n, NEW depth, NEW other, depth[n] = other[n]
  PROVE  Key(n, depth) = Key(n, other)
<1>4. CASE tieBreak = "utf8-smallest"
  BY <1>4 DEF Key
<1>5. CASE tieBreak = "declared-priority"
  BY <1>5 DEF Key
<1>6. CASE tieBreak = "shortest-depth"
  BY <1>6 DEF Key
<1>7. CASE tieBreak = "largest-fanout"
  BY <1>7 DEF Key
<1>8. CASE tieBreak = "stable-input-order"
  BY <1>8 DEF Key
<1> QED
  BY <1>4, <1>5, <1>6, <1>7, <1>8 DEF Inputs, Policies

------------------------------------------------------------------------------
(* A complete plan, seen from its end. *)
PlannedSoFar ==
  /\ ordered \in Seq(Nodes) /\ Len(ordered) = NodeCount /\ Completed = Nodes
  /\ Order /\ Inputs /\ DepthsTrue /\ Chosen

(* The planner's depths are the reference's. *)
LEMMA DepthsAgree ==
  ASSUME PlannedSoFar
  PROVE  depths = ReferenceDepths
<1>1. PICK f : DepthSteps(f) /\ ReferenceDepths = f[NodeCount]
  BY DepthGoes
<1>2. /\ f[0] = [n \in Nodes |-> 0]
      /\ \A k \in 1 .. NodeCount : f[k] = Deeper(f[k - 1])
      /\ \A k \in 0 .. NodeCount : f[k] \in [Nodes -> Nat]
  BY <1>1 DEF DepthSteps
<1>3. /\ DOMAIN ordered = 1 .. NodeCount /\ \A i \in 1 .. NodeCount : ordered[i] \in Nodes
      /\ depths \in [Nodes -> Nat]
  BY DEF PlannedSoFar, DepthsTrue
<1>4. ASSUME NEW i \in 1 .. NodeCount, NEW p \in Prerequisites(ordered[i])
      PROVE  \E j \in 1 .. i - 1 : p = ordered[j]
  <2>1. i \in DOMAIN ordered /\ Order
    BY <1>3 DEF PlannedSoFar
  <2>2. Prerequisites(ordered[i]) \subseteq {ordered[j] : j \in 1 .. i - 1}
    BY <2>1 DEF Order
  <2> QED
    BY <2>2
<1>5. \A n \in Nodes : Prerequisites(n) \subseteq Nodes
  BY DEF Prerequisites
<1>6. ASSUME NEW n \in Nodes, Prerequisites(n) = {} PROVE depths[n] = 0
  BY <1>6 DEF PlannedSoFar, DepthsTrue
<1>7. ASSUME NEW n \in Nodes, Prerequisites(n) # {}
      PROVE  depths[n] = 1 + Max({depths[p] : p \in Prerequisites(n)})
  <2>1. /\ \A p \in Prerequisites(n) : depths[n] >= depths[p] + 1
        /\ depths[n] = 0 \/ \E p \in Prerequisites(n) : depths[n] = depths[p] + 1
    BY <1>5 DEF PlannedSoFar, DepthsTrue
  <2>2. \A p \in Prerequisites(n) : depths[p] \in Nat
    BY <1>3, <1>5
  <2>3. depths[n] \in Nat
    BY <1>3
  <2>4. PICK q \in Prerequisites(n) : depths[n] = depths[q] + 1
    BY <1>7, <2>1, <2>2, <2>3
  <2>5. \A p \in Prerequisites(n) : depths[q] >= depths[p]
    BY <2>1, <2>2, <2>4
  <2>6. Max({depths[p] : p \in Prerequisites(n)}) = depths[q]
    <3> DEFINE A == {depths[p] : p \in Prerequisites(n)}
    <3>1. A \in SUBSET Nat /\ depths[q] \in A /\ \A y \in A : depths[q] >= y
      BY <2>2, <2>5
    <3> HIDE DEF A
    <3>2. Max(A) = depths[q]
      BY <3>1, MaxIs
    <3> QED
      BY <3>2 DEF A
  <2> QED
    BY <2>2, <2>4, <2>6
<1> DEFINE Known(k) == \A i \in 1 .. NodeCount :
                         i <= k + 1 => f[k][ordered[i]] = depths[ordered[i]]
           S == {k \in 0 .. NodeCount : Known(k)}
<1>8. 0 \in S
  <2>1. ASSUME NEW i \in 1 .. NodeCount, i <= 0 + 1 PROVE f[0][ordered[i]] = depths[ordered[i]]
    <3>1. Prerequisites(ordered[i]) = {}
      BY <1>4, <2>1
    <3> QED
      BY <1>2, <1>3, <1>6, <3>1
  <2>2. Known(0)
    BY <2>1, Zenon
  <2> HIDE DEF Known
  <2> QED
    BY <2>2
<1>9. ASSUME NEW k \in 1 .. NodeCount, k - 1 \in S PROVE k \in S
  <2>1. ASSUME NEW i \in 1 .. NodeCount, i <= k + 1 PROVE f[k][ordered[i]] = depths[ordered[i]]
    <3> DEFINE n == ordered[i]
    <3>1. n \in Nodes
      BY <1>3
    <3>2. f[k][n] = IF Prerequisites(n) = {} THEN 0
                    ELSE 1 + Max({f[k - 1][p] : p \in Prerequisites(n)})
      <4>1. f[k] = Deeper(f[k - 1])
        BY <1>2
      <4> HIDE DEF n
      <4> QED
        BY <3>1, <4>1 DEF Deeper
    <3>3. \A p \in Prerequisites(n) : f[k - 1][p] = depths[p]
      <4>1. ASSUME NEW p \in Prerequisites(n) PROVE f[k - 1][p] = depths[p]
        <5>1. PICK j \in 1 .. i - 1 : p = ordered[j]
          BY <1>4
        <5>2. j \in 1 .. NodeCount /\ j <= (k - 1) + 1
          BY <2>1, <5>1
        <5> QED
          BY <1>9, <5>1, <5>2
      <4> QED
        BY <4>1
    <3>4. {f[k - 1][p] : p \in Prerequisites(n)} = {depths[p] : p \in Prerequisites(n)}
      BY <3>3
    <3> HIDE DEF n
    <3>5. f[k][n] = depths[n]
      BY <1>6, <1>7, <3>1, <3>2, <3>4
    <3> QED
      BY <3>5 DEF n
  <2>2. Known(k)
    BY <2>1, Zenon
  <2> HIDE DEF Known
  <2> QED
    BY <2>2
<1>10. NodeCount \in S
  <2> HIDE DEF S, Known
  <2>1. 0 .. NodeCount \subseteq S
    BY <1>8, <1>9, Induction
  <2> QED
    BY <2>1
<1>11. \A n \in Nodes : f[NodeCount][n] = depths[n]
  <2>1. \A i \in 1 .. NodeCount : f[NodeCount][ordered[i]] = depths[ordered[i]]
    <3>1. \A i \in 1 .. NodeCount : i <= NodeCount + 1
      OBVIOUS
    <3> QED
      BY <1>10, <3>1
  <2>2. \A n \in Nodes : \E i \in 1 .. NodeCount : n = ordered[i]
    BY <1>3 DEF PlannedSoFar, Completed
  <2> QED
    BY <2>1, <2>2
<1>12. f[NodeCount] \in [Nodes -> Nat]
  <2>1. NodeCount \in 0 .. NodeCount
    OBVIOUS
  <2> QED
    BY <1>2, <2>1
<1> QED
  BY <1>1, <1>3, <1>11, <1>12

------------------------------------------------------------------------------
(* One more node by the reference. *)
Further(earlier, depth) ==
  Append(earlier, ReferenceFirst({n \in Nodes \ Range(earlier) :
                           Prerequisites(n) \subseteq Range(earlier)}, depth))

(* The recursive function of ReferenceOrder. *)
IsOrder(f, depth) ==
  f = [k \in 0 .. NodeCount |-> IF k = 0 THEN <<>> ELSE Further(f[k - 1], depth)]

(* What the reference takes next is what the planner took. *)
LEMMA Agrees ==
  ASSUME PlannedSoFar, NEW k \in 1 .. NodeCount
  PROVE  Further(SubSeq(ordered, 1, k - 1), depths) = SubSeq(ordered, 1, k)
<1> DEFINE earlier == SubSeq(ordered, 1, k - 1)
<1>1. /\ ordered \in Seq(Nodes) /\ Len(ordered) = NodeCount
      /\ DOMAIN ordered = 1 .. NodeCount /\ \A i \in 1 .. NodeCount : ordered[i] \in Nodes
  BY DEF PlannedSoFar
<1>2. earlier \in Seq(Nodes) /\ Len(earlier) = k - 1 /\ \A j \in 1 .. k - 1 : earlier[j] = ordered[j]
  BY <1>1
<1>3. DOMAIN earlier = 1 .. k - 1
  BY <1>2
<1> HIDE DEF earlier
<1>4. Range(earlier) = Before(k)
  BY <1>2, <1>3 DEF Range, Before
<1>5. ordered[k] \in Open(k)
  <2>1. Prerequisites(ordered[k]) \subseteq Before(k)
    BY <1>1 DEF PlannedSoFar, Order, Before
  <2>2. ordered[k] \notin Before(k)
    BY <1>1 DEF PlannedSoFar, Order, Before
  <2> QED
    BY <1>1, <2>1, <2>2 DEF Open
<1>6. \A n \in Open(k) : Precedes(ordered[k], n, depths)
  BY <1>1 DEF PlannedSoFar, Chosen
<1>7. \A n \in Open(k) : (\A m \in Open(k) : Precedes(n, m, depths)) => n = ordered[k]
  <2>1. depths \in [Nodes -> Nat] /\ Inputs /\ Open(k) \subseteq Nodes
    BY DEF PlannedSoFar, DepthsTrue, Open
  <2> QED
    BY <1>5, <1>6, <2>1, OneFirst
<1>8. ReferenceFirst(Open(k), depths) = ordered[k]
  BY <1>5, <1>6, <1>7 DEF ReferenceFirst
<1>9. Further(earlier, depths) = Append(earlier, ordered[k])
  BY <1>4, <1>8 DEF Further, Open
<1>10. Append(earlier, ordered[k]) = SubSeq(ordered, 1, k)
  <2>1. /\ SubSeq(ordered, 1, k) \in Seq(Nodes) /\ Len(SubSeq(ordered, 1, k)) = k
        /\ \A j \in 1 .. k : SubSeq(ordered, 1, k)[j] = ordered[j]
    BY <1>1
  <2>2. /\ Append(earlier, ordered[k]) \in Seq(Nodes) /\ Len(Append(earlier, ordered[k])) = k
        /\ \A j \in 1 .. k : Append(earlier, ordered[k])[j] = ordered[j]
    BY <1>1, <1>2
  <2> QED
    BY <2>1, <2>2, SeqEqual
<1> QED
  BY <1>9, <1>10 DEF earlier

(* The planner's order is the reference's. *)
LEMMA OrdersAgree ==
  ASSUME PlannedSoFar
  PROVE  ReferenceOrder = ordered
<1> DEFINE upTo == [k \in 0 .. NodeCount |-> SubSeq(ordered, 1, k)]
           reference == CHOOSE f : IsOrder(f, depths)
<1>1. ordered \in Seq(Nodes) /\ Len(ordered) = NodeCount
  BY DEF PlannedSoFar
<1>2. SubSeq(ordered, 1, 0) = <<>>
  BY <1>1
<1>3. IsOrder(upTo, depths)
  <2>1. ASSUME NEW k \in 0 .. NodeCount
        PROVE  upTo[k] = IF k = 0 THEN <<>> ELSE Further(upTo[k - 1], depths)
    <3>1. CASE k = 0
      BY <1>2, <3>1
    <3>2. CASE k # 0
      <4>1. k \in 1 .. NodeCount /\ k - 1 \in 0 .. NodeCount
        BY <3>2
      <4>2. upTo[k] = SubSeq(ordered, 1, k) /\ upTo[k - 1] = SubSeq(ordered, 1, k - 1)
        BY <4>1
      <4> HIDE DEF upTo
      <4>3. Further(SubSeq(ordered, 1, k - 1), depths) = SubSeq(ordered, 1, k)
        BY <4>1, Agrees
      <4> QED
        BY <3>2, <4>2, <4>3, Zenon
    <3> QED
      BY <3>1, <3>2
  <2>2. upTo = [k \in 0 .. NodeCount |-> upTo[k]]
    OBVIOUS
  <2> HIDE DEF upTo
  <2>3. upTo = [k \in 0 .. NodeCount |->
                  IF k = 0 THEN <<>> ELSE Further(upTo[k - 1], depths)]
    BY <2>1, <2>2
  <2> QED
    BY <2>3, Zenon DEF IsOrder
<1>4. IsOrder(reference, depths)
  <2> HIDE DEF upTo
  <2> QED
    BY <1>3, Zenon
<1>5. ReferenceOrder = reference[NodeCount]
  <2>1. ReferenceDepths = depths
    BY DepthsAgree
  <2>2. ReferenceOrder = (CHOOSE f : IsOrder(f, ReferenceDepths))[NodeCount]
    BY DEF ReferenceOrder, IsOrder, Further
  <2> QED
    BY <2>1, <2>2
<1> HIDE DEF reference, upTo
<1>6. \A k \in 0 .. NodeCount :
        reference[k] = IF k = 0 THEN <<>> ELSE Further(reference[k - 1], depths)
  BY <1>4, Zenon DEF IsOrder
<1> DEFINE S == {k \in 0 .. NodeCount : reference[k] = SubSeq(ordered, 1, k)}
<1>7. 0 \in S
  <2>1. 0 \in 0 .. NodeCount
    OBVIOUS
  <2>2. reference[0] = <<>>
    BY <1>6, <2>1, Zenon
  <2> QED
    BY <1>2, <2>1, <2>2
<1>8. ASSUME NEW k \in 1 .. NodeCount, k - 1 \in S PROVE k \in S
  <2>1. k \in 0 .. NodeCount /\ k # 0 /\ reference[k - 1] = SubSeq(ordered, 1, k - 1)
    BY <1>8
  <2>2. reference[k] = Further(reference[k - 1], depths)
    BY <1>6, <2>1, Zenon
  <2>3. Further(SubSeq(ordered, 1, k - 1), depths) = SubSeq(ordered, 1, k)
    BY Agrees
  <2> QED
    BY <2>1, <2>2, <2>3
<1>9. NodeCount \in S
  <2> HIDE DEF S
  <2>1. 0 .. NodeCount \subseteq S
    BY <1>7, <1>8, Induction
  <2> QED
    BY <2>1
<1>10. SubSeq(ordered, 1, NodeCount) = ordered
  <2>1. /\ SubSeq(ordered, 1, NodeCount) \in Seq(Nodes)
        /\ Len(SubSeq(ordered, 1, NodeCount)) = NodeCount
        /\ \A j \in 1 .. NodeCount : SubSeq(ordered, 1, NodeCount)[j] = ordered[j]
    BY <1>1
  <2> QED
    BY <1>1, <2>1, SeqEqual
<1> QED
  BY <1>5, <1>9, <1>10

------------------------------------------------------------------------------
(* What is left over is closed upwards, and a node that waits for itself is *)
(* never entered.                                                          *)
LEMMA ResidualUpwards ==
  ASSUME Types, Order
  PROVE  Upwards(Residual) /\ \A n \in Nodes : WaitsFor(n, n) => n \in Residual
<1>1. /\ ordered \in Seq(Nodes) /\ Completed \subseteq Nodes
      /\ \A i, j \in DOMAIN ordered : ordered[i] = ordered[j] => i = j
      /\ \A i \in DOMAIN ordered : Prerequisites(ordered[i]) \subseteq Before(i)
  BY DEF Types, Order, Completed, Before
<1>2. \A i \in DOMAIN ordered : Before(i) \subseteq Completed /\ Before(i) \in SUBSET Nodes
  BY <1>1 DEF Before, Completed
<1>3. ASSUME NEW n \in Completed PROVE Prerequisites(n) \subseteq Completed
  BY <1>1, <1>2 DEF Completed
<1>4. ASSUME NEW n \in Nodes, WaitsFor(n, n), n \in Completed PROVE FALSE
  <2>1. PICK i \in DOMAIN ordered : n = ordered[i]
    BY <1>4 DEF Completed
  <2>2. ASSUME NEW k \in Before(i) PROVE Prerequisites(k) \subseteq Before(i)
    <3>1. PICK j \in 1 .. i - 1 : k = ordered[j]
      BY DEF Before
    <3>2. j \in DOMAIN ordered /\ j \in Nat /\ i \in Nat /\ j <= i
      BY <1>1, <2>1, <3>1
    <3>3. Prerequisites(k) \subseteq Before(j)
      BY <1>1, <3>1, <3>2
    <3>4. Before(j) \subseteq Before(i)
      BY <3>2 DEF Before
    <3> QED
      BY <3>3, <3>4
  <2>3. Prerequisites(n) \subseteq Before(i) /\ Before(i) \in SUBSET Nodes
    BY <1>1, <1>2, <2>1
  <2>4. n \in Before(i)
    BY <1>4, <2>2, <2>3 DEF WaitsFor
  <2>5. PICK j \in 1 .. i - 1 : n = ordered[j]
    BY <2>4 DEF Before
  <2>6. j \in DOMAIN ordered /\ j # i
    BY <1>1, <2>1, <2>5
  <2> QED
    BY <1>1, <2>1, <2>5, <2>6
<1> QED
  BY <1>1, <1>3, <1>4 DEF Upwards, Residual

(* An answer is the reference's, and reports what it should. *)
LEMMA AnswerRight ==
  ASSUME Inv, Exact
  PROVE  PlanRight
<1> SUFFICES ASSUME plan # Planning PROVE PlanRight
  BY DEF PlanRight
<1>1. /\ ordered \in Seq(Nodes) /\ Completed \subseteq Nodes
      /\ Types /\ Order /\ NotEntered /\ PlanSound /\ Inputs /\ DepthsTrue /\ Chosen
  BY DEF Inv, Exact, Types, Completed
<1>2. Len(ordered) = NodeCount <=> Completed = Nodes
  <2>1. Cardinality(Completed) = Len(ordered)
    BY <1>1 DEF Order
  <2> QED
    BY <1>1, <2>1, FiniteNodes, FS_Subset
<1>3. /\ ReferenceResidual \subseteq Nodes /\ Stuck(ReferenceResidual)
      /\ \A S \in SUBSET Nodes : Stuck(S) => S \subseteq ReferenceResidual
  BY ResidualIs
<1>4. Upwards(Residual) /\ \A n \in Nodes : WaitsFor(n, n) => n \in Residual
  BY <1>1, ResidualUpwards
<1>5. CASE Len(ordered) = NodeCount
  <2>1. plan = [status |-> "valid", plan |-> ordered, blocked |-> {}, cyclic |-> {}]
    BY <1>5 DEF Exact, Answered
  <2>2. ReferenceResidual = {}
    BY <1>1, <1>2, <1>3, <1>5 DEF NotEntered
  <2>3. PlannedSoFar
    BY <1>1, <1>2, <1>5 DEF PlannedSoFar
  <2>4. ReferenceOrder = ordered
    BY <2>3, OrdersAgree
  <2>5. plan = ReferencePlan
    BY <2>1, <2>2, <2>4 DEF ReferencePlan
  <2> QED
    BY <1>1, <2>1, <2>5 DEF PlanRight
<1>6. CASE Len(ordered) # NodeCount
  <2>1. plan = [status |-> "cycle", plan |-> <<>>, blocked |-> Residual,
                cyclic |-> {n \in Residual : WaitsFor(n, n)}]
    BY <1>6 DEF Exact, Answered
  <2>2. Residual # {} /\ Residual \in SUBSET Nodes
    BY <1>1, <1>2, <1>6 DEF Residual
  <2>3. Stuck(Residual) /\ \A S \in SUBSET Nodes : Stuck(S) => S \subseteq Residual
    <3>1. plan.status = "cycle" /\ plan.blocked = Residual
      BY <2>1
    <3> QED
      BY <1>1, <3>1 DEF PlanSound
  <2>4. ReferenceResidual = Residual
    BY <1>3, <2>2, <2>3
  <2>5. ReferenceCyclic(Residual) = {n \in Residual : WaitsFor(n, n)}
    BY <1>4, ReferenceCyclicIs
  <2>6. plan = ReferencePlan
    BY <2>1, <2>2, <2>4, <2>5 DEF ReferencePlan
  <2>7. plan.cyclic = {n \in Nodes : WaitsFor(n, n)}
    <3>1. plan.cyclic = {n \in Residual : WaitsFor(n, n)}
      BY <2>1
    <3> QED
      BY <1>4, <2>2, <3>1
  <2> QED
    BY <1>1, <2>1, <2>6, <2>7 DEF PlanRight
<1> QED
  BY <1>5, <1>6

------------------------------------------------------------------------------
LEMMA InitExact ==
  ASSUME DagInit
  PROVE  Exact
<1>1. Inputs
  <2>1. tieBreak \in Policies
    BY DEF DagInit
  <2>2. priority \in [Nodes -> Int]
    <3>1. priority \in [Nodes -> Priorities] \/ priority \in [Nodes -> {0}]
      BY DEF DagInit
    <3>2. Priorities \subseteq Int
      BY DagAssumption
    <3>3. CASE priority \in [Nodes -> Priorities]
      BY <3>2, <3>3
    <3>4. CASE priority \in [Nodes -> {0}]
      BY <3>4
    <3> QED
      BY <3>1, <3>3, <3>4
  <2>3. declared \in [Nodes -> Int]
    <3>1. declared \in DeclarationOrders \/ declared = [n \in Nodes |-> n]
      BY DEF DagInit
    <3>2. \A n \in Nodes : n \in Int
      BY DEF Nodes
    <3> QED
      BY <3>1, <3>2
  <2> QED
    BY <2>1, <2>2, <2>3 DEF Inputs
<1>2. ordered = <<>> /\ Completed = {} /\ plan = Planning /\ depths = [n \in Nodes |-> 0]
  BY DEF DagInit, Completed
<1>3. DepthsTrue
  BY <1>2 DEF DepthsTrue
<1>4. Chosen /\ Answered
  BY <1>2 DEF Chosen, Answered
<1> QED
  BY <1>1, <1>3, <1>4 DEF Exact

(* What nothing changes. *)
LEMMA KeysStay ==
  ASSUME UNCHANGED <<edges, priority, declared, tieBreak>>
  PROVE  \A m, n : Precedes(m, n, depths)' <=> Precedes(m, n, depths')
<1>1. \A n : Dependents(n)' = Dependents(n)
  BY DEF Dependents, Nodes
<1>2. ASSUME NEW n PROVE Key(n, depths)' = Key(n, depths')
  <2>1. /\ tieBreak' = tieBreak /\ priority' = priority /\ declared' = declared
        /\ Dependents(n)' = Dependents(n)
    BY <1>1
  <2> QED
    BY <2>1, Zenon DEF Key
<1>3. ASSUME NEW m, NEW n PROVE Precedes(m, n, depths)' <=> Precedes(m, n, depths')
  <2>1. Key(m, depths)' = Key(m, depths') /\ Key(n, depths)' = Key(n, depths')
    BY <1>2
  <2> QED
    BY <2>1 DEF Precedes
<1> QED
  BY <1>3, Zenon

(* Selecting a node leaves what is settled: a node whose prerequisites are  *)
(* completed keeps its depth, hence its key.                               *)
LEMMA SelectExact ==
  ASSUME Inv, Exact, SelectNode
  PROVE  Exact'
<1>1. PICK s \in ready :
        /\ \A n \in ready : Precedes(s, n, depths)
        /\ ordered' = Append(ordered, s)
        /\ depths' = [n \in Nodes |-> IF n \in Dependents(s)
                                      THEN Max({depths[n], depths[s] + 1}) ELSE depths[n]]
  BY DEF SelectNode
<1>2. /\ UNCHANGED <<edges, priority, declared, tieBreak>> /\ plan = Planning /\ plan' = plan
      /\ ordered \in Seq(Nodes) /\ s \in Nodes
  BY DEF SelectNode, Inv, Types
<1>3. /\ s \in Residual /\ Prerequisites(s) \subseteq Completed /\ Completed \subseteq Nodes
      /\ ready = {n \in Residual : Prerequisites(n) \ Completed = {}}
  BY <1>1, <1>2 DEF Inv, Books, Waiting, Completed
<1>4. /\ ordered' \in Seq(Nodes) /\ Len(ordered') = Len(ordered) + 1
      /\ DOMAIN ordered' = DOMAIN ordered \cup {Len(ordered) + 1}
      /\ \A i \in DOMAIN ordered : ordered'[i] = ordered[i]
      /\ ordered'[Len(ordered) + 1] = s
      /\ Completed' = Completed \cup {s}
  BY <1>1, <1>2, Append1
<1>5. /\ \A n : Prerequisites(n)' = Prerequisites(n)
      /\ \A n \in Nodes : n \in Dependents(s) <=> s \in Prerequisites(n)
      /\ \A n : Prerequisites(n) \subseteq Nodes
  BY <1>2 DEF Dependents, Prerequisites, Nodes
<1>6. depths \in [Nodes -> Nat]
  BY DEF Exact, DepthsTrue
<1>7. \A n \in Nodes : depths'[n] = IF n \in Dependents(s)
                                    THEN IF depths[n] >= depths[s] + 1 THEN depths[n]
                                         ELSE depths[s] + 1
                                    ELSE depths[n]
  <2>1. ASSUME NEW n \in Nodes
        PROVE  Max({depths[n], depths[s] + 1})
                 = IF depths[n] >= depths[s] + 1 THEN depths[n] ELSE depths[s] + 1
    <3>1. depths[n] \in Nat /\ depths[s] + 1 \in Nat
      BY <1>2, <1>6
    <3> QED
      BY <3>1, MaxOfTwo
  <2>2. \A n \in Nodes : depths'[n] = IF n \in Dependents(s)
                                      THEN Max({depths[n], depths[s] + 1}) ELSE depths[n]
    BY <1>1
  <2> QED
    BY <2>1, <2>2
<1>8. depths' \in [Nodes -> Nat]
  <2>1. DOMAIN depths' = Nodes /\ depths' = [n \in Nodes |-> depths'[n]]
    BY <1>1
  <2>2. \A n \in Nodes : depths'[n] \in Nat
    BY <1>2, <1>6, <1>7
  <2> QED
    BY <2>1, <2>2
<1>9. ASSUME NEW n \in Nodes, Prerequisites(n) \subseteq Completed
      PROVE  depths'[n] = depths[n]
  BY <1>3, <1>5, <1>7, <1>9 DEF Residual
<1>10. \A n \in Completed : Prerequisites(n) \subseteq Completed
  BY <1>2 DEF Inv, Order, Completed
<1>11. \A p \in Completed' : p \in Nodes /\ depths'[p] = depths[p]
  BY <1>2, <1>3, <1>4, <1>9, <1>10
<1>12. Inputs'
  <2>1. tieBreak' = tieBreak /\ priority' = priority /\ declared' = declared /\ Inputs
    BY <1>2 DEF Exact
  <2> QED
    BY <2>1 DEF Inputs, Policies, Nodes
<1>13. DepthsTrue'
  <2>1. ASSUME NEW n \in Nodes
        PROVE  /\ \A p \in Prerequisites(n) \cap Completed' : depths'[n] >= depths'[p] + 1
               /\ \/ depths'[n] = 0
                  \/ \E p \in Prerequisites(n) \cap Completed' : depths'[n] = depths'[p] + 1
    <3>1. /\ \A p \in Prerequisites(n) \cap Completed : depths[n] >= depths[p] + 1
          /\ \/ depths[n] = 0
             \/ \E p \in Prerequisites(n) \cap Completed : depths[n] = depths[p] + 1
      BY DEF Exact, DepthsTrue
    <3>2. /\ depths[n] \in Nat /\ depths[s] \in Nat
          /\ \A p \in Completed' : depths'[p] = depths[p] /\ depths[p] \in Nat
      BY <1>2, <1>6, <1>11
    <3>3. s \in Completed' /\ Completed \subseteq Completed'
      BY <1>4
    <3>4. CASE n \in Dependents(s)
      <4>1. s \in Prerequisites(n) \cap Completed'
        BY <1>5, <3>3, <3>4
      <4>2. depths'[n] = IF depths[n] >= depths[s] + 1 THEN depths[n] ELSE depths[s] + 1
        BY <1>7, <3>4
      <4>3. \A p \in Prerequisites(n) \cap Completed' : depths'[n] >= depths[p] + 1
        BY <1>4, <3>1, <3>2, <4>2
      <4>4. CASE depths[n] >= depths[s] + 1
        BY <3>1, <3>2, <3>3, <4>2, <4>3, <4>4
      <4>5. CASE ~(depths[n] >= depths[s] + 1)
        BY <3>2, <4>1, <4>2, <4>3, <4>5
      <4> QED
        BY <4>4, <4>5
    <3>5. CASE n \notin Dependents(s)
      <4>1. Prerequisites(n) \cap Completed' = Prerequisites(n) \cap Completed
        BY <1>4, <1>5, <3>5
      <4>2. depths'[n] = depths[n]
        BY <1>7, <3>5
      <4> QED
        BY <3>1, <3>2, <3>3, <4>1, <4>2
    <3> QED
      BY <3>4, <3>5
  <2>2. Nodes' = Nodes
    BY DEF Nodes
  <2> QED
    BY <1>5, <1>8, <2>1, <2>2 DEF DepthsTrue
<1>14. \A i \in DOMAIN ordered : ordered[i] \in Completed /\ Before(i) \subseteq Completed
  BY <1>2 DEF Completed, Before
<1>15. \A i \in DOMAIN ordered' : Before(i)' = IF i \in DOMAIN ordered THEN Before(i) ELSE Completed
  <2>1. ASSUME NEW i \in DOMAIN ordered PROVE Before(i)' = Before(i)
    <3>1. \A j \in 1 .. i - 1 : ordered'[j] = ordered[j]
      BY <1>2, <1>4
    <3> QED
      BY <3>1 DEF Before
  <2>2. ASSUME NEW i, i = Len(ordered) + 1 PROVE Before(i)' = Completed
    <3>1. DOMAIN ordered = 1 .. i - 1
      BY <1>2, <2>2
    <3> QED
      BY <1>4, <3>1 DEF Before, Completed
  <2>3. Len(ordered) + 1 \notin DOMAIN ordered
    BY <1>2
  <2> QED
    BY <1>4, <2>1, <2>2, <2>3
<1>16. ASSUME NEW m \in Nodes, NEW n \in Nodes, Precedes(m, n, depths),
              depths'[m] = depths[m], depths'[n] = depths[n]
       PROVE  Precedes(m, n, depths)'
  <2>1. Key(m, depths') = Key(m, depths) /\ Key(n, depths') = Key(n, depths)
    BY <1>16, KeyOfDepth DEF Exact
  <2>2. Precedes(m, n, depths')
    BY <1>16, <2>1 DEF Precedes
  <2> QED
    BY <1>2, <2>2, KeysStay
<1>17. Chosen'
  <2>1. ASSUME NEW i \in DOMAIN ordered', NEW n \in Open(i)'
        PROVE  Precedes(ordered[i], n, depths)'
    <3>1. CASE i \in DOMAIN ordered
      <4>1. n \in Open(i)
        BY <1>5, <1>15, <2>1, <3>1 DEF Open, Nodes
      <4>2. Precedes(ordered[i], n, depths)
        BY <3>1, <4>1 DEF Exact, Chosen
      <4>3. n \in Nodes /\ Prerequisites(n) \subseteq Completed
        BY <1>14, <3>1, <4>1 DEF Open
      <4>4. ordered[i] \in Nodes /\ ordered[i] \in Completed /\ ordered'[i] = ordered[i]
        BY <1>2, <1>4, <1>14, <3>1
      <4>5. depths'[n] = depths[n] /\ depths'[ordered[i]] = depths[ordered[i]]
        BY <1>9, <1>10, <4>3, <4>4
      <4> QED
        BY <1>16, <4>2, <4>3, <4>4, <4>5
    <3>2. CASE i \notin DOMAIN ordered
      <4>1. ordered'[i] = s /\ Before(i)' = Completed
        BY <1>4, <1>15, <2>1, <3>2
      <4>2. n \in Nodes \ Completed /\ Prerequisites(n) \subseteq Completed
        BY <1>5, <2>1, <4>1 DEF Open, Nodes
      <4>3. n \in ready
        BY <1>3, <4>2 DEF Residual
      <4>4. Precedes(s, n, depths) /\ depths'[n] = depths[n] /\ depths'[s] = depths[s]
        BY <1>1, <1>2, <1>3, <1>9, <4>2, <4>3
      <4> QED
        BY <1>2, <1>16, <4>1, <4>2, <4>4
    <3> QED
      BY <3>1, <3>2
  <2> QED
    BY <2>1 DEF Chosen
<1>18. Answered'
  BY <1>2 DEF Answered, Planning
<1> QED
  BY <1>12, <1>13, <1>17, <1>18 DEF Exact

(* What is not written keeps its meaning. *)
LEMMA ExactStays ==
  ASSUME Exact, UNCHANGED <<edges, priority, declared, tieBreak, depths, ordered>>
  PROVE  Inputs' /\ DepthsTrue' /\ Chosen'
<1>1. /\ edges' = edges /\ priority' = priority /\ declared' = declared
      /\ tieBreak' = tieBreak /\ depths' = depths /\ ordered' = ordered
  OBVIOUS
<1>2. /\ Nodes' = Nodes /\ Completed' = Completed
      /\ \A n : Prerequisites(n)' = Prerequisites(n)
  BY <1>1 DEF Nodes, Completed, Prerequisites
<1>3. Inputs'
  BY <1>1 DEF Exact, Inputs, Policies, Nodes
<1>4. DepthsTrue'
  BY <1>1, <1>2 DEF Exact, DepthsTrue
<1>5. Chosen'
  <2>1. \A i : Before(i)' = Before(i)
    BY <1>1 DEF Before
  <2>2. \A i : Open(i)' = Open(i)
    BY <1>2, <2>1 DEF Open
  <2>3. \A m, n : Precedes(m, n, depths)' <=> Precedes(m, n, depths)
    BY <1>1, KeysStay
  <2> QED
    BY <1>1, <2>2, <2>3 DEF Exact, Chosen
<1> QED
  BY <1>3, <1>4, <1>5

(* The planner stops with one of the two answers. *)
LEMMA FinishExact ==
  ASSUME Inv, Exact, FinishPlan
  PROVE  Exact'
<1>1. UNCHANGED <<edges, priority, declared, tieBreak, ready, depths, ordered>> /\ ready = {}
  BY DEF FinishPlan
<1>2. Upwards(Residual)
  BY ResidualUpwards DEF Inv
<1>3. CyclicNodes(Residual) = {n \in Residual : WaitsFor(n, n)}
  BY <1>2, CyclicIs
<1>4. plan' = IF Len(ordered) = NodeCount
              THEN [status |-> "valid", plan |-> ordered, blocked |-> {}, cyclic |-> {}]
              ELSE [status |-> "cycle", plan |-> <<>>, blocked |-> Residual,
                    cyclic |-> {n \in Residual : WaitsFor(n, n)}]
  BY <1>3 DEF FinishPlan
<1>5. Residual' = Residual /\ Nodes' = Nodes /\ \A n : Prerequisites(n)' = Prerequisites(n)
  BY <1>1 DEF Residual, Completed, Nodes, Prerequisites
<1>6. \A n : WaitsFor(n, n)' <=> WaitsFor(n, n)
  BY <1>5 DEF WaitsFor
<1>7. Answered'
  <2>1. {n \in Residual : WaitsFor(n, n)}' = {n \in Residual : WaitsFor(n, n)}
    BY <1>5, <1>6
  <2> QED
    BY <1>1, <1>4, <1>5, <2>1 DEF Answered
<1> QED
  BY <1>1, <1>7, ExactStays DEF Exact

LEMMA StutterExact ==
  ASSUME Exact, UNCHANGED dagVars
  PROVE  Exact'
<1>1. /\ UNCHANGED <<edges, priority, declared, tieBreak, ready, depths, ordered>>
      /\ plan' = plan
  BY DEF dagVars
<1>2. /\ Residual' = Residual /\ Nodes' = Nodes /\ ready' = ready /\ ordered' = ordered
      /\ Planning' = Planning /\ \A n : Prerequisites(n)' = Prerequisites(n)
  BY <1>1 DEF Residual, Completed, Nodes, Prerequisites, Planning
<1>3. \A n : WaitsFor(n, n)' <=> WaitsFor(n, n)
  BY <1>2 DEF WaitsFor
<1>4. {n \in Residual : WaitsFor(n, n)}' = {n \in Residual : WaitsFor(n, n)}
  BY <1>2, <1>3
<1>5. Answered'
  BY <1>1, <1>2, <1>4 DEF Exact, Answered
<1> QED
  BY <1>1, <1>5, ExactStays DEF Exact

------------------------------------------------------------------------------
LEMMA StutterInv ==
  ASSUME Inv, UNCHANGED dagVars
  PROVE  Inv'
<1>1. /\ edges' = edges /\ indegrees' = indegrees /\ ready' = ready
      /\ ordered' = ordered /\ plan' = plan
  BY DEF dagVars
<1>2. Types'
  BY <1>1 DEF Inv, Types, Nodes
<1>3. Books'
  BY <1>1 DEF Inv, Books, Waiting, Prerequisites, Residual, Completed, Nodes
<1>4. Order'
  BY <1>1 DEF Inv, Order, Prerequisites, Completed, Nodes
<1>5. /\ Completed' = Completed /\ Nodes' = Nodes
      /\ \A n : Prerequisites(n)' = Prerequisites(n)
  BY <1>1 DEF Completed, Nodes, Prerequisites
<1>6. \A S : Stuck(S)' <=> Stuck(S)
  BY <1>5 DEF Stuck
<1>7. NotEntered'
  <2>1. NotEntered
    BY DEF Inv
  <2> QED
    BY <1>5, <1>6, <2>1 DEF NotEntered
<1>8. PlanSound'
  <2>1. PlanSound
    BY DEF Inv
  <2> QED
    BY <1>1, <1>5, <1>6, <2>1 DEF PlanSound
<1> QED
  BY <1>2, <1>3, <1>4, <1>7, <1>8 DEF Inv

(* Every answer of the planner is sound, whatever the graph and the policy. *)
THEOREM PlanIsSound ==
  DagSpec => []PlanSound
<1>1. DagInit => Inv
  BY InitInv
<1>2. Inv /\ [DagNext]_dagVars => Inv'
  BY SelectInv, FinishInv, StutterInv DEF DagNext
<1>3. Inv => PlanSound
  BY DEF Inv
<1> QED
  BY <1>1, <1>2, <1>3, PTL DEF DagSpec

(* Every answer is the one the independent reference derives, node by node, *)
(* and reports exactly the nodes that wait for themselves as cyclic.       *)
THEOREM PlanRightCorrect ==
  DagSpec => []PlanRight
<1>1. DagInit => Inv /\ Exact
  BY InitInv, InitExact
<1>2. Inv /\ Exact /\ [DagNext]_dagVars => (Inv /\ Exact)'
  <2>1. ASSUME Inv, Exact, SelectNode PROVE Inv' /\ Exact'
    BY <2>1, SelectInv, SelectExact
  <2>2. ASSUME Inv, Exact, FinishPlan PROVE Inv' /\ Exact'
    BY <2>2, FinishInv, FinishExact
  <2>3. ASSUME Inv, Exact, UNCHANGED dagVars PROVE Inv' /\ Exact'
    BY <2>3, StutterInv, StutterExact
  <2> QED
    BY <2>1, <2>2, <2>3 DEF DagNext
<1>3. Inv /\ Exact => PlanRight
  BY AnswerRight
<1> QED
  BY <1>1, <1>2, <1>3, PTL DEF DagSpec

(***************************************************************************)
(* TokenSchedule for all records, budgets and sizes.                        *)
(*                                                                         *)
(* First the folds: Total, Placed, the table of reachable sums and what the *)
(* validator adds up are folds, and FlattenSeq is a recursive function.     *)
(* Expanded, each is a recursive function that Recursion shows to be there; *)
(* Ends is what its steps come to.                                         *)
(*                                                                         *)
(* Then the selection: why the table has every sum that some choice of      *)
(* candidates makes, and why the way back from a sum is such a choice.      *)
(* Then the order (what was placed of a partition is how its selection      *)
(* begins), the packs (they hold the first places, in order), and the       *)
(* ledger (row u's cumulative count is the width of the packs up to the     *)
(* edge of update u).                                                      *)
(***************************************************************************)
HIDE DagAssumption
USE ScheduleAssumption

------------------------------------------------------------------------------
(* Folds of the community modules.  A fold over 1 .. n takes its elements    *)
(* from above; what it comes to is the last of n steps from below.          *)

(* Two functions that take the same steps agree. *)
LEMMA StepsAgree ==
  ASSUME NEW N \in Nat, NEW M \in Nat, N <= M, NEW T, NEW base,
         NEW G, NEW H, \A k \in 1 .. N : \A x \in T : G[k][x] = H[k][x],
         NEW f, NEW g, Steps(f, N, T, base, G), Steps(g, M, T, base, H)
  PROVE  f[N] = g[N]
<1> DEFINE S == {k \in 0 .. N : f[k] = g[k]}
<1>1. /\ f \in [0 .. N -> T] /\ f[0] = base /\ \A k \in 1 .. N : f[k] = G[k][f[k - 1]]
      /\ g \in [0 .. M -> T] /\ g[0] = base /\ \A k \in 1 .. M : g[k] = H[k][g[k - 1]]
  BY DEF Steps
<1>2. 0 \in S
  BY <1>1
<1>3. ASSUME NEW k \in 1 .. N, k - 1 \in S PROVE k \in S
  <2>1. f[k - 1] = g[k - 1] /\ f[k - 1] \in T /\ k \in 1 .. M
    BY <1>1, <1>3
  <2> QED
    BY <1>1, <2>1
<1>4. N \in S
  <2> HIDE DEF S
  <2>1. 0 .. N \subseteq S
    BY <1>2, <1>3, Induction
  <2> QED
    BY <2>1
<1> QED
  BY <1>4

(* What n steps come to. *)
Ends(N, T, base, G) == (CHOOSE f : Steps(f, N, T, base, G))[N]

(* It does not matter which function takes these steps. *)
LEMMA EndsIs ==
  ASSUME NEW N \in Nat, NEW T, NEW base \in T, NEW G \in [Nat -> [T -> T]],
         NEW f, Steps(f, N, T, base, G)
  PROVE  Ends(N, T, base, G) = f[N]
<1> DEFINE g == CHOOSE h : Steps(h, N, T, base, G)
<1>1. Steps(g, N, T, base, G)
  BY Zenon
<1> HIDE DEF g
<1>2. g[N] = f[N]
  BY <1>1, StepsAgree
<1> QED
  BY <1>2 DEF g, Ends

(* All steps stay in T. *)
LEMMA EndsType ==
  ASSUME NEW N \in Nat, NEW T, NEW base \in T, NEW G \in [Nat -> [T -> T]]
  PROVE  Ends(N, T, base, G) \in T
<1>1. PICK f : Steps(f, N, T, base, G)
  BY Recursion
<1>2. Ends(N, T, base, G) = f[N]
  BY <1>1, EndsIs
<1> QED
  BY <1>1, <1>2 DEF Steps

(* No step leaves the start. *)
LEMMA NoStep ==
  ASSUME NEW T, NEW base \in T, NEW G \in [Nat -> [T -> T]]
  PROVE  Ends(0, T, base, G) = base
<1>1. PICK f : Steps(f, 0, T, base, G)
  BY Recursion
<1>2. Ends(0, T, base, G) = f[0]
  BY <1>1, EndsIs
<1> QED
  BY <1>1, <1>2 DEF Steps

(* One more step. *)
LEMMA OneStep ==
  ASSUME NEW N \in Nat, NEW T, NEW base \in T, NEW G \in [Nat -> [T -> T]]
  PROVE  Ends(N + 1, T, base, G) = G[N + 1][Ends(N, T, base, G)]
<1>1. PICK f : Steps(f, N + 1, T, base, G)
  <2>1. N + 1 \in Nat
    OBVIOUS
  <2> QED
    BY <2>1, Recursion, Zenon
<1>2. PICK g : Steps(g, N, T, base, G)
  BY Recursion, Zenon
<1>3. g[N] = f[N]
  BY <1>1, <1>2, StepsAgree
<1>4. Ends(N + 1, T, base, G) = f[N + 1] /\ Ends(N, T, base, G) = g[N]
  BY <1>1, <1>2, EndsIs
<1>5. f[N + 1] = G[N + 1][f[(N + 1) - 1]]
  BY <1>1 DEF Steps
<1> QED
  BY <1>3, <1>4, <1>5

(* The recursive function of a fold over 1 .. N. *)
IsFold(f, N, base, G) ==
  f = [d \in SUBSET (1 .. N) |-> IF d = {} THEN base ELSE G[Max(d)][f[d \ {Max(d)}]]]

(* The largest of a set of places. *)
LEMMA MaxOfPlaces ==
  ASSUME NEW N \in Nat, NEW d \in SUBSET (1 .. N), d # {}
  PROVE  Max(d) \in d /\ \A y \in d : Max(d) >= y
<1>1. IsFiniteSet(d) /\ d \in SUBSET Nat
  <2>1. IsFiniteSet(1 .. N)
    BY FS_Interval
  <2>2. IsFiniteSet(d)
    BY <2>1, FS_Subset, Zenon
  <2> QED
    BY <2>2
<1>2. PICK x \in d : \A y \in d : x >= y
  BY <1>1, Largest
<1> QED
  BY <1>1, <1>2, MaxIs

(* The largest of 1 .. k, and what is left without it. *)
LEMMA MaxOfInterval ==
  ASSUME NEW k \in Nat \ {0}
  PROVE  Max(1 .. k) = k /\ (1 .. k) \ {k} = 1 .. k - 1
<1>1. (1 .. k) \in SUBSET Nat /\ k \in 1 .. k /\ \A y \in 1 .. k : k >= y
  OBVIOUS
<1> QED
  BY <1>1, MaxIs

(* There is such a function. *)
LEMMA FoldGoes ==
  ASSUME NEW N \in Nat, NEW T, NEW base \in T, NEW G \in [Nat -> [T -> T]]
  PROVE  \E f \in [SUBSET (1 .. N) -> T] : IsFold(f, N, base, G)
<1> DEFINE D == SUBSET (1 .. N)
           U == [D -> T]
           H == [k \in Nat |-> [g \in U |->
                   [d \in D |-> IF k \in d THEN G[k][g[d]] ELSE g[d]]]]
           start == [d \in D |-> base]
<1>1. start \in U /\ H \in [Nat -> [U -> U]]
  <2>1. ASSUME NEW k \in Nat, NEW g \in U
        PROVE  [d \in D |-> IF k \in d THEN G[k][g[d]] ELSE g[d]] \in U
    <3> HIDE DEF D
    <3> QED
      OBVIOUS
  <2>2. start \in U
    OBVIOUS
  <2> HIDE DEF U, D
  <2> QED
    BY <2>1, <2>2
<1>2. PICK e : Steps(e, N, U, start, H)
  <2> HIDE DEF H, U, start
  <2> QED
    BY <1>1, Recursion
<1>3. /\ \A k \in 0 .. N : e[k] \in U
      /\ \A d \in D : e[0][d] = base
  BY <1>2 DEF Steps
<1>4. ASSUME NEW k \in 1 .. N, NEW d \in D
      PROVE  e[k][d] = IF k \in d THEN G[k][e[k - 1][d]] ELSE e[k - 1][d]
  <2>1. e[k] = H[k][e[k - 1]] /\ e[k - 1] \in U
    <3> HIDE DEF H, U
    <3> QED
      BY <1>2, <1>3 DEF Steps
  <2> HIDE DEF U
  <2> QED
    BY <2>1
<1> HIDE DEF H, start
<1>5. \A k \in 0 .. N : \A c, d \in D : c \cap (1 .. k) = d \cap (1 .. k) => e[k][c] = e[k][d]
  <2> DEFINE S == {k \in 0 .. N : \A c, d \in D :
                     c \cap (1 .. k) = d \cap (1 .. k) => e[k][c] = e[k][d]}
  <2>1. 0 \in S
    BY <1>3
  <2>2. ASSUME NEW k \in 1 .. N, k - 1 \in S PROVE k \in S
    <3>1. ASSUME NEW c \in D, NEW d \in D, c \cap (1 .. k) = d \cap (1 .. k)
          PROVE  e[k][c] = e[k][d]
      <4>1. c \cap (1 .. k - 1) = d \cap (1 .. k - 1) /\ (k \in c <=> k \in d)
        BY <3>1
      <4>2. e[k - 1][c] = e[k - 1][d]
        BY <2>2, <4>1
      <4> QED
        BY <1>4, <4>1, <4>2
    <3> QED
      BY <3>1
  <2>3. 0 .. N \subseteq S
    <3> HIDE DEF S
    <3> QED
      BY <2>1, <2>2, Induction
  <2> QED
    BY <2>3
<1>6. ASSUME NEW d \in D, NEW m \in 0 .. N, \A y \in d : m >= y
      PROVE  e[N][d] = e[m][d]
  <2> DEFINE S == {k \in 0 .. N : k >= m => e[k][d] = e[m][d]}
  <2>1. 0 \in S
    OBVIOUS
  <2>2. ASSUME NEW k \in 1 .. N, k - 1 \in S PROVE k \in S
    <3>1. CASE k <= m
      BY <3>1
    <3>2. CASE k > m
      <4>1. k \notin d /\ k - 1 >= m
        BY <1>6, <3>2
      <4> QED
        BY <1>4, <2>2, <4>1
    <3> QED
      BY <3>1, <3>2
  <2>3. 0 .. N \subseteq S
    <3> HIDE DEF S
    <3> QED
      BY <2>1, <2>2, Induction
  <2> QED
    BY <2>3
<1>7. ASSUME NEW d \in D, d # {} PROVE e[N][d] = G[Max(d)][e[N][d \ {Max(d)}]]
  <2> DEFINE m == Max(d)
  <2>1. m \in d /\ \A y \in d : m >= y
    BY <1>7, MaxOfPlaces
  <2> HIDE DEF m
  <2>2. m \in 1 .. N /\ m - 1 \in 0 .. N /\ d \ {m} \in D /\ \A y \in d \ {m} : m - 1 >= y
    BY <2>1
  <2>3. e[N][d] = e[m][d] /\ e[N][d \ {m}] = e[m - 1][d \ {m}]
    BY <1>6, <2>1, <2>2
  <2>4. e[m - 1][d] = e[m - 1][d \ {m}]
    <3>1. d \cap (1 .. m - 1) = (d \ {m}) \cap (1 .. m - 1)
      BY <2>2
    <3> QED
      BY <1>5, <2>2, <3>1
  <2>5. e[N][d] = G[m][e[N][d \ {m}]]
    BY <1>4, <2>1, <2>2, <2>3, <2>4
  <2> QED
    BY <2>5 DEF m
<1>8. e[N][{}] = base
  <2>1. {} \in D /\ 0 \in 0 .. N /\ \A y \in {} : 0 >= y
    OBVIOUS
  <2>2. e[N][{}] = e[0][{}]
    BY <1>6, <2>1
  <2> QED
    BY <1>3, <2>1, <2>2
<1> DEFINE f == e[N]
<1>9. f = [d \in D |-> f[d]] /\ f \in [D -> T]
  BY <1>3
<1> HIDE DEF f, D
<1>10. ASSUME NEW d \in D
       PROVE  f[d] = IF d = {} THEN base ELSE G[Max(d)][f[d \ {Max(d)}]]
  BY <1>7, <1>8 DEF f
<1>11. f = [d \in D |-> IF d = {} THEN base ELSE G[Max(d)][f[d \ {Max(d)}]]]
  BY <1>9, <1>10
<1>12. IsFold(f, N, base, G)
  BY <1>11, Zenon DEF IsFold, D
<1> QED
  BY <1>9, <1>12 DEF D

(* A function of sets of places that takes the steps from 1 .. k - 1 to 1 .. k. *)
StepsUp(f, N, T, base, G) ==
  /\ f[{}] = base
  /\ \A k \in 1 .. N : f[1 .. k - 1] \in T => f[1 .. k] = G[k][f[1 .. k - 1]]

(* What a fold comes to. *)
LEMMA FoldValue ==
  ASSUME NEW N \in Nat, NEW T, NEW base \in T, NEW G \in [Nat -> [T -> T]],
         NEW f, StepsUp(f, N, T, base, G)
  PROVE  f[1 .. N] = Ends(N, T, base, G)
<1> DEFINE e == [k \in 0 .. N |-> f[1 .. k]]
           S == {k \in 0 .. N : e[k] \in T}
<1>1. \A k \in 0 .. N : e[k] = f[1 .. k]
  OBVIOUS
<1>2. e = [k \in 0 .. N |-> e[k]] /\ N \in 0 .. N /\ 0 \in 0 .. N /\ 1 .. 0 = {}
  OBVIOUS
<1>3. \A k \in 1 .. N : k \in 0 .. N /\ k - 1 \in 0 .. N
  OBVIOUS
<1> HIDE DEF e
<1>4. e[0] = base
  BY <1>1, <1>2 DEF StepsUp
<1>5. ASSUME NEW k \in 1 .. N, e[k - 1] \in T PROVE e[k] = G[k][e[k - 1]] /\ e[k] \in T
  <2>1. e[k] = f[1 .. k] /\ e[k - 1] = f[1 .. k - 1]
    BY <1>1, <1>3
  <2>2. e[k] = G[k][e[k - 1]]
    BY <1>5, <2>1 DEF StepsUp
  <2> QED
    BY <1>5, <2>2
<1>6. 0 .. N \subseteq S
  <2>1. 0 \in S
    BY <1>2, <1>4
  <2>2. \A k \in 1 .. N : k - 1 \in S => k \in S
    BY <1>3, <1>5
  <2> HIDE DEF S
  <2> QED
    BY <2>1, <2>2, Induction
<1>7. e \in [0 .. N -> T]
  BY <1>2, <1>6
<1>8. Steps(e, N, T, base, G)
  <2>1. \A k \in 1 .. N : e[k] = G[k][e[k - 1]]
    BY <1>3, <1>5, <1>7
  <2> QED
    BY <1>4, <1>7, <2>1 DEF Steps
<1>9. Ends(N, T, base, G) = e[N]
  <2> DEFINE g == CHOOSE h : Steps(h, N, T, base, G)
  <2>1. Steps(g, N, T, base, G)
    BY <1>8, Zenon
  <2> HIDE DEF g
  <2>2. N <= N /\ \A k \in 1 .. N : \A x \in T : G[k][x] = G[k][x]
    OBVIOUS
  <2>3. g[N] = e[N]
    BY <1>8, <2>1, <2>2, StepsAgree
  <2> QED
    BY <2>3, Zenon DEF g, Ends
<1> QED
  BY <1>1, <1>2, <1>9

(* What is summed: functions of places. *)
Weights == [Nat -> Nat]

(* The sum of the first n values of w. *)
Adds(w) == [k \in Nat |-> [x \in Nat |-> x + w[k]]]
SumTo(w, n) == Ends(n, Nat, 0, Adds(w))

(* Each step adds one value. *)
LEMMA AddsType ==
  ASSUME NEW w \in Weights
  PROVE  /\ Adds(w) \in [Nat -> [Nat -> Nat]]
         /\ \A k, x \in Nat : Adds(w)[k][x] = x + w[k]
BY DEF Adds, Weights

(* The sum of nothing is 0; one more value is one more summand. *)
LEMMA SumLaws ==
  ASSUME NEW w \in Weights
  PROVE  /\ SumTo(w, 0) = 0
         /\ \A n \in Nat : SumTo(w, n) \in Nat /\ SumTo(w, n + 1) = SumTo(w, n) + w[n + 1]
<1>1. Adds(w) \in [Nat -> [Nat -> Nat]] /\ \A k, x \in Nat : Adds(w)[k][x] = x + w[k]
  BY AddsType
<1>2. SumTo(w, 0) = 0
  BY <1>1, NoStep DEF SumTo
<1>3. ASSUME NEW n \in Nat
      PROVE  SumTo(w, n) \in Nat /\ SumTo(w, n + 1) = SumTo(w, n) + w[n + 1]
  <2>1. SumTo(w, n) \in Nat
    BY <1>1, EndsType DEF SumTo
  <2>2. SumTo(w, n + 1) = Adds(w)[n + 1][SumTo(w, n)]
    <3> DEFINE T == Nat
               G == Adds(w)
    <3>1. G \in [Nat -> [T -> T]] /\ 0 \in T
      BY <1>1
    <3> HIDE DEF T, G
    <3>2. Ends(n + 1, T, 0, G) = G[n + 1][Ends(n, T, 0, G)]
      BY <3>1, OneStep
    <3> QED
      BY <3>2, Zenon DEF SumTo, T, G
  <2>3. n + 1 \in Nat
    OBVIOUS
  <2> QED
    BY <1>1, <2>1, <2>2, <2>3
<1> QED
  BY <1>2, <1>3

(* It depends on these values alone. *)
LEMMA SumSame ==
  ASSUME NEW w \in Weights, NEW v \in Weights, NEW n \in Nat,
         \A k \in 1 .. n : w[k] = v[k]
  PROVE  SumTo(w, n) = SumTo(v, n)
<1> DEFINE S == {k \in 0 .. n : SumTo(w, k) = SumTo(v, k)}
<1>1. 0 \in S
  BY SumLaws
<1>2. ASSUME NEW k \in 1 .. n, k - 1 \in S PROVE k \in S
  <2>1. k - 1 \in Nat /\ (k - 1) + 1 = k /\ w[k] = v[k]
    OBVIOUS
  <2>2. SumTo(w, k) = SumTo(w, k - 1) + w[k] /\ SumTo(v, k) = SumTo(v, k - 1) + v[k]
    BY <2>1, SumLaws
  <2> QED
    BY <1>2, <2>1, <2>2
<1>3. n \in S
  <2> HIDE DEF S
  <2>1. 0 .. n \subseteq S
    BY <1>1, <1>2, Induction
  <2> QED
    BY <2>1
<1> QED
  BY <1>3

(* The recursive function of a fold that adds. *)
IsSumFold(f, n, w) ==
  f = [d \in SUBSET (1 .. n) |-> IF d = {} THEN 0 ELSE f[d \ {Max(d)}] + w[Max(d)]]

(* There is such a function, and over 1 .. n it comes to the sum. *)
LEMMA SumFold ==
  ASSUME NEW n \in Nat, NEW w \in Weights
  PROVE  /\ \E f : IsSumFold(f, n, w)
         /\ \A f : IsSumFold(f, n, w) => f[1 .. n] = SumTo(w, n)
<1>1. Adds(w) \in [Nat -> [Nat -> Nat]] /\ \A k, x \in Nat : Adds(w)[k][x] = x + w[k]
  BY AddsType
<1>2. \E f : IsSumFold(f, n, w)
  <2>1. PICK f \in [SUBSET (1 .. n) -> Nat] : IsFold(f, n, 0, Adds(w))
    BY <1>1, FoldGoes
  <2>2. ASSUME NEW d \in SUBSET (1 .. n)
        PROVE  f[d] = IF d = {} THEN 0 ELSE f[d \ {Max(d)}] + w[Max(d)]
    <3>1. f[d] = IF d = {} THEN 0 ELSE Adds(w)[Max(d)][f[d \ {Max(d)}]]
      BY <2>1, Zenon DEF IsFold
    <3>2. CASE d = {}
      BY <3>1, <3>2
    <3>3. CASE d # {}
      <4>1. Max(d) \in 1 .. n
        BY <3>3, MaxOfPlaces
      <4>2. f[d \ {Max(d)}] \in Nat
        OBVIOUS
      <4>3. Max(d) \in Nat
        BY <4>1
      <4>4. Adds(w)[Max(d)][f[d \ {Max(d)}]] = f[d \ {Max(d)}] + w[Max(d)]
        BY <1>1, <4>2, <4>3, Zenon
      <4> QED
        BY <3>1, <3>3, <4>4
    <3> QED
      BY <3>2, <3>3
  <2>3. f = [d \in SUBSET (1 .. n) |-> f[d]]
    OBVIOUS
  <2>4. f = [d \in SUBSET (1 .. n) |-> IF d = {} THEN 0 ELSE f[d \ {Max(d)}] + w[Max(d)]]
    BY <2>2, <2>3
  <2> QED
    BY <2>4, Zenon DEF IsSumFold
<1>3. ASSUME NEW f, IsSumFold(f, n, w) PROVE f[1 .. n] = SumTo(w, n)
  <2>1. \A d \in SUBSET (1 .. n) :
          f[d] = IF d = {} THEN 0 ELSE f[d \ {Max(d)}] + w[Max(d)]
    BY <1>3, Zenon DEF IsSumFold
  <2>2. f[{}] = 0
    <3>1. {} \in SUBSET (1 .. n)
      OBVIOUS
    <3> QED
      BY <2>1, <3>1, Zenon
  <2>3. ASSUME NEW k \in 1 .. n, f[1 .. k - 1] \in Nat
        PROVE  f[1 .. k] = Adds(w)[k][f[1 .. k - 1]]
    <3>1. 1 .. k \in SUBSET (1 .. n) /\ 1 .. k # {} /\ k \in Nat \ {0}
      <4>1. k \in 1 .. k /\ k \in Nat \ {0} /\ \A j \in 1 .. k : j \in 1 .. n
        OBVIOUS
      <4>2. 1 .. k # {}
        BY <4>1, Zenon
      <4>3. 1 .. k \subseteq 1 .. n
        BY <4>1, Zenon
      <4> QED
        BY <4>1, <4>2, <4>3
    <3>2. Max(1 .. k) = k /\ (1 .. k) \ {k} = 1 .. k - 1
      BY <3>1, MaxOfInterval
    <3>3. f[1 .. k] = f[(1 .. k) \ {Max(1 .. k)}] + w[Max(1 .. k)]
      BY <2>1, <3>1, Zenon
    <3> QED
      BY <1>1, <2>3, <3>1, <3>2, <3>3
  <2> DEFINE T == Nat
             G == Adds(w)
  <2>4. G \in [Nat -> [T -> T]] /\ 0 \in T
    BY <1>1
  <2>5. StepsUp(f, n, T, 0, G)
    BY <2>2, <2>3 DEF StepsUp
  <2> HIDE DEF T, G
  <2>6. f[1 .. n] = Ends(n, T, 0, G)
    BY <2>4, <2>5, FoldValue
  <2> QED
    BY <2>6, Zenon DEF SumTo, T, G
<1> QED
  BY <1>2, <1>3

------------------------------------------------------------------------------
(* Occurrences and their total width. *)
Items ==
  [partition : Partitions, record : Records, ordinal : Nat, width : 1 .. SequenceLength]

(* Their widths, and 0 elsewhere. *)
Widths(s) == [k \in Nat |-> IF k \in DOMAIN s THEN s[k].width ELSE 0]

(* The widths of a sequence's occurrences. *)
LEMMA WidthsType ==
  ASSUME NEW s \in Seq(Items)
  PROVE  /\ Widths(s) \in Weights
         /\ \A k \in 1 .. Len(s) : Widths(s)[k] = s[k].width
<1>1. \A k \in DOMAIN s : s[k] \in Items
  OBVIOUS
<1>2. \A k \in DOMAIN s : s[k].width \in Nat
  BY <1>1 DEF Items
<1>3. DOMAIN s = 1 .. Len(s)
  OBVIOUS
<1> QED
  BY <1>2, <1>3 DEF Widths, Weights

(* The recursive function of Total. *)
IsTotal(f, s) ==
  f = [d \in SUBSET DOMAIN s |-> IF d = {} THEN 0 ELSE f[d \ {Max(d)}] + s[Max(d)].width]

(* Total, a fold, is a sum. *)
LEMMA TotalIs ==
  ASSUME NEW s \in Seq(Items)
  PROVE  Total(s) = SumTo(Widths(s), Len(s))
<1> DEFINE f == CHOOSE g : IsTotal(g, s)
<1>1. Total(s) = f[DOMAIN s]
  BY DEF Total, FoldLeft, MapThenFoldSet, IsTotal
<1>2. DOMAIN s = 1 .. Len(s) /\ Len(s) \in Nat
  OBVIOUS
<1>3. \A g : IsTotal(g, s) <=> IsSumFold(g, Len(s), Widths(s))
  <2>1. \A d \in SUBSET (1 .. Len(s)) : d # {} => Max(d) \in 1 .. Len(s)
    BY <1>2, MaxOfPlaces
  <2>2. \A d \in SUBSET (1 .. Len(s)) : d # {} => Widths(s)[Max(d)] = s[Max(d)].width
    BY <2>1, WidthsType
  <2>3. ASSUME NEW g
        PROVE  [d \in SUBSET (1 .. Len(s)) |->
                  IF d = {} THEN 0 ELSE g[d \ {Max(d)}] + s[Max(d)].width]
                 = [d \in SUBSET (1 .. Len(s)) |->
                      IF d = {} THEN 0 ELSE g[d \ {Max(d)}] + Widths(s)[Max(d)]]
    BY <2>2
  <2> QED
    BY <1>2, <2>3, Zenon DEF IsTotal, IsSumFold
<1>4. IsTotal(f, s)
  BY <1>2, <1>3, SumFold, WidthsType, Zenon
<1> HIDE DEF f
<1> QED
  BY <1>1, <1>2, <1>3, <1>4, SumFold, WidthsType

(* The first m values of w are its first a ones and n of v. *)
Splits(w, m, a, v, n) == m = a + n /\ \A k \in 1 .. n : v[k] = w[a + k]

(* The sum of the first a values and of the n that follow. *)
LEMMA SumShift ==
  ASSUME NEW w \in Weights, NEW v \in Weights, NEW a \in Nat, NEW n \in Nat,
         NEW m \in Nat, Splits(w, m, a, v, n)
  PROVE  SumTo(w, m) = SumTo(w, a) + SumTo(v, n)
<1> DEFINE S == {k \in 0 .. n : SumTo(w, a + k) = SumTo(w, a) + SumTo(v, k)}
<1>1. 0 \in S
  <2>1. SumTo(w, a) \in Nat /\ SumTo(v, 0) = 0
    BY SumLaws
  <2>2. a + 0 = a
    OBVIOUS
  <2> QED
    BY <2>1, <2>2
<1>2. ASSUME NEW k \in 1 .. n, k - 1 \in S PROVE k \in S
  <2>1. k - 1 \in Nat /\ (k - 1) + 1 = k /\ a + (k - 1) \in Nat /\ (a + (k - 1)) + 1 = a + k
    OBVIOUS
  <2>2. /\ SumTo(w, a + k) = SumTo(w, a + (k - 1)) + w[a + k]
        /\ SumTo(v, k) = SumTo(v, k - 1) + v[k]
        /\ SumTo(w, a) \in Nat /\ SumTo(v, k - 1) \in Nat
    BY <2>1, SumLaws
  <2>3. v[k] = w[a + k] /\ v[k] \in Nat
    BY DEF Splits, Weights
  <2>4. SumTo(w, a + (k - 1)) = SumTo(w, a) + SumTo(v, k - 1)
    BY <1>2
  <2>5. SumTo(w, a + k) = SumTo(w, a) + SumTo(v, k)
    BY <2>2, <2>3, <2>4
  <2> QED
    BY <2>5
<1>3. 0 .. n \subseteq S
  <2> HIDE DEF S
  <2> QED
    BY <1>1, <1>2, Induction
<1>4. n \in 0 .. n
  OBVIOUS
<1> QED
  BY <1>3, <1>4 DEF Splits

(* More values never sum to less. *)
LEMMA SumGrows ==
  ASSUME NEW w \in Weights, NEW a \in Nat, NEW b \in Nat, a <= b
  PROVE  SumTo(w, a) <= SumTo(w, b)
<1> DEFINE v == [k \in Nat |-> w[a + k]]
           n == b - a
<1>1. v \in Weights /\ n \in Nat /\ Splits(w, b, a, v, n)
  BY DEF Splits, Weights
<1> HIDE DEF v, n
<1>2. SumTo(w, b) = SumTo(w, a) + SumTo(v, n)
  BY <1>1, SumShift
<1>3. SumTo(w, a) \in Nat /\ SumTo(v, n) \in Nat
  BY <1>1, SumLaws
<1> QED
  BY <1>2, <1>3

(* Nothing has no width. *)
LEMMA TotalEmpty == Total(<<>>) = 0
<1> DEFINE e == <<>>
<1>1. e \in Seq(Items) /\ Len(e) = 0
  OBVIOUS
<1> HIDE DEF e
<1>2. Widths(e) \in Weights
  BY <1>1, WidthsType
<1>3. Total(e) = 0
  BY <1>1, <1>2, TotalIs, SumLaws
<1> QED
  BY <1>3 DEF e

(* A total is a natural number. *)
LEMMA TotalType ==
  ASSUME NEW s \in Seq(Items)
  PROVE  Total(s) \in Nat
BY TotalIs, WidthsType, SumLaws, LenProperties

(* The total of a beginning of a sequence. *)
LEMMA TotalPrefix ==
  ASSUME NEW s \in Seq(Items), NEW n \in 0 .. Len(s)
  PROVE  SubSeq(s, 1, n) \in Seq(Items) /\ Total(SubSeq(s, 1, n)) = SumTo(Widths(s), n)
<1> DEFINE t == SubSeq(s, 1, n)
<1>1. t \in Seq(Items) /\ Len(t) = n /\ n \in Nat /\ \A k \in 1 .. n : t[k] = s[k]
  OBVIOUS
<1>a. \A k \in 1 .. n : k \in 1 .. Len(s) /\ k \in 1 .. Len(t)
  BY <1>1
<1> HIDE DEF t
<1>2. Total(t) = SumTo(Widths(t), n)
  BY <1>1, TotalIs
<1>3. /\ Widths(t) \in Weights /\ Widths(s) \in Weights
      /\ \A k \in 1 .. n : Widths(t)[k] = Widths(s)[k]
  BY <1>1, <1>a, WidthsType
<1> QED
  BY <1>1, <1>2, <1>3, SumSame DEF t

(* The total of two sequences, one after the other. *)
LEMMA TotalConcat ==
  ASSUME NEW s \in Seq(Items), NEW t \in Seq(Items)
  PROVE  s \o t \in Seq(Items) /\ Total(s \o t) = Total(s) + Total(t)
<1> DEFINE c == s \o t
<1>1. /\ c \in Seq(Items) /\ Len(c) = Len(s) + Len(t)
      /\ \A k \in 1 .. Len(s) : c[k] = s[k]
      /\ \A k \in 1 .. Len(t) : c[Len(s) + k] = t[k]
  OBVIOUS
<1>2. Len(s) \in Nat /\ Len(t) \in Nat /\ Len(c) \in Nat
  BY <1>1
<1> HIDE DEF c
<1>3. /\ Widths(s) \in Weights /\ Widths(t) \in Weights
      /\ Widths(c) \in Weights
  BY <1>1, WidthsType
<1>4. \A k \in 1 .. Len(s) : Widths(c)[k] = Widths(s)[k]
  <2>1. \A k \in 1 .. Len(s) : k \in 1 .. Len(c)
    BY <1>1, <1>2
  <2>2. \A k \in 1 .. Len(s) : Widths(s)[k] = s[k].width
    BY WidthsType
  <2>3. \A k \in 1 .. Len(c) : Widths(c)[k] = c[k].width
    BY <1>1, WidthsType
  <2> QED
    BY <1>1, <2>1, <2>2, <2>3
<1>5. Splits(Widths(c), Len(c), Len(s), Widths(t), Len(t))
  <2>1. \A k \in 1 .. Len(t) : Len(s) + k \in 1 .. Len(c)
    BY <1>1, <1>2
  <2>2. \A k \in 1 .. Len(t) : Widths(t)[k] = t[k].width
    BY WidthsType
  <2>3. \A k \in 1 .. Len(c) : Widths(c)[k] = c[k].width
    BY <1>1, WidthsType
  <2>4. \A k \in 1 .. Len(t) : Widths(c)[Len(s) + k] = c[Len(s) + k].width
    BY <2>1, <2>3
  <2> QED
    BY <1>1, <2>2, <2>4 DEF Splits
<1>6. SumTo(Widths(c), Len(s)) = SumTo(Widths(s), Len(s))
  BY <1>2, <1>3, <1>4, SumSame
<1>7. SumTo(Widths(c), Len(c)) = SumTo(Widths(c), Len(s)) + SumTo(Widths(t), Len(t))
  BY <1>1, <1>2, <1>3, <1>5, SumShift
<1>8. /\ Total(c) = SumTo(Widths(c), Len(c))
      /\ Total(s) = SumTo(Widths(s), Len(s)) /\ Total(t) = SumTo(Widths(t), Len(t))
  BY <1>1, TotalIs
<1> QED
  BY <1>1, <1>6, <1>7, <1>8 DEF c

(* The total with one more occurrence. *)
LEMMA TotalAppend ==
  ASSUME NEW s \in Seq(Items), NEW o \in Items
  PROVE  Append(s, o) \in Seq(Items) /\ Total(Append(s, o)) = Total(s) + o.width
<1> DEFINE c == Append(s, o)
<1>1. /\ c \in Seq(Items) /\ Len(c) = Len(s) + 1 /\ c[Len(s) + 1] = o
      /\ \A k \in 1 .. Len(s) : c[k] = s[k]
  OBVIOUS
<1>2. Len(s) \in Nat /\ Len(s) + 1 \in 1 .. (Len(s) + 1)
  OBVIOUS
<1> HIDE DEF c
<1>3. /\ Widths(s) \in Weights /\ Widths(c) \in Weights
  BY <1>1, WidthsType
<1>4. \A k \in 1 .. Len(s) : Widths(c)[k] = Widths(s)[k]
  <2>1. \A k \in 1 .. Len(s) : k \in 1 .. Len(c)
    BY <1>1, <1>2
  <2>2. \A k \in 1 .. Len(s) : Widths(s)[k] = s[k].width
    BY WidthsType
  <2>3. \A k \in 1 .. Len(c) : Widths(c)[k] = c[k].width
    BY <1>1, WidthsType
  <2> QED
    BY <1>1, <2>1, <2>2, <2>3
<1>5. Widths(c)[Len(s) + 1] = o.width
  BY <1>1, <1>2, WidthsType
<1>6. SumTo(Widths(c), Len(s)) = SumTo(Widths(s), Len(s))
  BY <1>2, <1>3, <1>4, SumSame
<1>7. SumTo(Widths(c), Len(s) + 1) = SumTo(Widths(c), Len(s)) + Widths(c)[Len(s) + 1]
  BY <1>2, <1>3, SumLaws
<1>8. Total(c) = SumTo(Widths(c), Len(s) + 1) /\ Total(s) = SumTo(Widths(s), Len(s))
  BY <1>1, TotalIs
<1> QED
  BY <1>1, <1>5, <1>6, <1>7, <1>8 DEF c

(* Every occurrence has a token and fits in a sequence. *)
LEMMA ItemWidth ==
  ASSUME NEW o \in Items
  PROVE  o.width \in Nat /\ o.width >= 1 /\ o.width <= SequenceLength
BY DEF Items

(* There are no more occurrences than tokens. *)
LEMMA TotalAtLeast ==
  ASSUME NEW s \in Seq(Items)
  PROVE  Len(s) <= Total(s)
<1> DEFINE w == Widths(s)
           S == {k \in 0 .. Len(s) : k <= SumTo(w, k)}
<1>1. w \in Weights /\ \A k \in 1 .. Len(s) : w[k] = s[k].width
  BY WidthsType
<1>2. Len(s) \in Nat /\ \A k \in 1 .. Len(s) : s[k] \in Items
  OBVIOUS
<1>3. \A k \in 1 .. Len(s) : w[k] \in Nat /\ w[k] >= 1
  BY <1>1, <1>2, ItemWidth
<1> HIDE DEF w
<1>4. 0 \in S
  BY <1>1, <1>2, SumLaws
<1>5. ASSUME NEW k \in 1 .. Len(s), k - 1 \in S PROVE k \in S
  <2>1. k \in Nat /\ k - 1 \in Nat /\ (k - 1) + 1 = k
    BY <1>2
  <2>2. SumTo(w, k - 1) \in Nat /\ SumTo(w, k) = SumTo(w, k - 1) + w[k]
    BY <1>1, <2>1, SumLaws
  <2>3. w[k] \in Nat /\ w[k] >= 1
    BY <1>3
  <2>4. k - 1 <= SumTo(w, k - 1)
    BY <1>5
  <2> QED
    BY <2>1, <2>2, <2>3, <2>4
<1> HIDE DEF S
<1>6. 0 .. Len(s) \subseteq S
  BY <1>2, <1>4, <1>5, Induction
<1>7. Len(s) <= SumTo(w, Len(s))
  BY <1>2, <1>6 DEF S
<1> QED
  BY <1>7, TotalIs DEF w

(* The ceiling is a number. *)
LEMMA MaxOccurrencesType == MaxOccurrences \in Nat
BY ScheduleAssumption

------------------------------------------------------------------------------
(* The sums that the window's candidates reach. *)

(* Tables of sums up to the target. *)
Tables(target) == UNION {[D -> Nat] : D \in SUBSET (0 .. target)}

(* The table at first: the empty choice. *)
Nothing == [s \in {0} |-> 0]

(* One step of the table per candidate. *)
ReachSteps(target) ==
  [k \in Nat |-> [r \in Tables(target) |->
     IF k \in DOMAIN tail THEN Reach(r, k, target) ELSE r]]

(* What a table is. *)
LEMMA TableType ==
  ASSUME NEW target \in Nat, NEW r
  PROVE  r \in Tables(target) <=>
           /\ r = [s \in DOMAIN r |-> r[s]] /\ DOMAIN r \subseteq 0 .. target
           /\ \A s \in DOMAIN r : r[s] \in Nat
<1>1. ASSUME r \in Tables(target)
      PROVE  /\ r = [s \in DOMAIN r |-> r[s]] /\ DOMAIN r \subseteq 0 .. target
             /\ \A s \in DOMAIN r : r[s] \in Nat
  <2>1. PICK D \in SUBSET (0 .. target) : r \in [D -> Nat]
    BY <1>1 DEF Tables
  <2> QED
    BY <2>1
<1>2. ASSUME r = [s \in DOMAIN r |-> r[s]], DOMAIN r \subseteq 0 .. target,
             \A s \in DOMAIN r : r[s] \in Nat
      PROVE  r \in Tables(target)
  <2>1. r \in [DOMAIN r -> Nat] /\ DOMAIN r \in SUBSET (0 .. target)
    BY <1>2
  <2> QED
    BY <2>1 DEF Tables
<1> QED
  BY <1>1, <1>2

(* What a step does to a table. *)
Newly(r, i, target) ==
  ({s + tail[i].width : s \in DOMAIN r} \cap 0 .. target) \ DOMAIN r

(* Reach, in terms of the sums it adds. *)
LEMMA ReachIs ==
  ASSUME tail \in Seq(Items), NEW target \in Nat, NEW r \in Tables(target),
         NEW i \in DOMAIN tail
  PROVE  /\ Reach(r, i, target) \in Tables(target)
         /\ target \in DOMAIN r => Reach(r, i, target) = r
         /\ target \notin DOMAIN r =>
              /\ DOMAIN Reach(r, i, target) = DOMAIN r \cup Newly(r, i, target)
              /\ \A s \in DOMAIN r : Reach(r, i, target)[s] = r[s]
              /\ \A s \in Newly(r, i, target) : Reach(r, i, target)[s] = i
<1> DEFINE N == Newly(r, i, target)
<1>1. i \in Nat /\ N \subseteq 0 .. target /\ N \cap DOMAIN r = {}
  BY DEF Newly
<1>2. /\ r = [s \in DOMAIN r |-> r[s]] /\ DOMAIN r \subseteq 0 .. target
      /\ \A s \in DOMAIN r : r[s] \in Nat
  BY TableType
<1>3. Reach(r, i, target) = IF target \in DOMAIN r THEN r
                            ELSE [s \in DOMAIN r \cup N |-> IF s \in N THEN i ELSE r[s]]
  BY DEF Reach, Newly
<1> HIDE DEF N
<1>4. CASE target \in DOMAIN r
  BY <1>3, <1>4
<1>5. CASE target \notin DOMAIN r
  <2> DEFINE q == [s \in DOMAIN r \cup N |-> IF s \in N THEN i ELSE r[s]]
  <2>1. /\ DOMAIN q = DOMAIN r \cup N /\ q = [s \in DOMAIN q |-> q[s]]
        /\ \A s \in DOMAIN r : q[s] = r[s]
        /\ \A s \in N : q[s] = i
    BY <1>1
  <2> HIDE DEF q
  <2>2. DOMAIN q \subseteq 0 .. target /\ \A s \in DOMAIN q : q[s] \in Nat
    BY <1>1, <1>2, <2>1
  <2>3. q \in Tables(target)
    BY <2>1, <2>2, TableType
  <2>4. Reach(r, i, target) = q
    BY <1>3, <1>5 DEF q
  <2> QED
    BY <1>5, <2>1, <2>3, <2>4 DEF N
<1> QED
  BY <1>4, <1>5

(* The recursive function of Reached. *)
IsReached(f, target) ==
  f = [d \in SUBSET DOMAIN [i \in DOMAIN tail |-> i] |->
         IF d = {} THEN Nothing
         ELSE Reach(f[d \ {Max(d)}], [i \in DOMAIN tail |-> i][Max(d)], target)]

(* The tables on the way. *)
ReachedSteps(e, target) ==
  /\ e \in [0 .. Len(tail) -> Tables(target)] /\ e[0] = Nothing
  /\ \A k \in 1 .. Len(tail) : e[k] = Reach(e[k - 1], k, target)
  /\ e[Len(tail)] = Reached(target)

(* Reached, a fold over the window, is the last of the steps of Reach. *)
LEMMA ReachedIs ==
  ASSUME tail \in Seq(Items), NEW target \in Nat
  PROVE  \E e : ReachedSteps(e, target)
<1> DEFINE f == CHOOSE g : IsReached(g, target)
           T == Tables(target)
           G == ReachSteps(target)
           N == Len(tail)
<1>1. Reached(target) = f[DOMAIN [i \in DOMAIN tail |-> i]]
  BY DEF Reached, FoldLeft, MapThenFoldSet, IsReached, Nothing
<1>2. DOMAIN [i \in DOMAIN tail |-> i] = 1 .. N /\ DOMAIN tail = 1 .. N /\ N \in Nat
  OBVIOUS
<1>3. \A i \in 1 .. N : [j \in DOMAIN tail |-> j][i] = i
  BY <1>2
<1>4. Nothing \in T
  BY TableType DEF Nothing
<1>5. /\ G \in [Nat -> [T -> T]]
      /\ \A k \in 1 .. N : \A r \in T : G[k][r] = Reach(r, k, target)
  <2>1. \A k \in 1 .. N : \A r \in T : Reach(r, k, target) \in T
    BY <1>2, ReachIs
  <2>2. ASSUME NEW k \in Nat, NEW r \in T
        PROVE  (IF k \in DOMAIN tail THEN Reach(r, k, target) ELSE r) \in T
    BY <1>2, <2>1
  <2>3. \A k \in 1 .. N : k \in Nat /\ k \in DOMAIN tail
    BY <1>2
  <2> HIDE DEF T, N
  <2> QED
    BY <2>2, <2>3 DEF ReachSteps, T
<1>6. \A d \in SUBSET (1 .. N) : d # {} => Max(d) \in 1 .. N
  BY <1>2, MaxOfPlaces
<1> HIDE DEF T, G, N
<1>7. \A g : IsReached(g, target) <=>
         g = [d \in SUBSET (1 .. N) |->
                IF d = {} THEN Nothing ELSE Reach(g[d \ {Max(d)}], Max(d), target)]
  <2> DEFINE ix == [i \in DOMAIN tail |-> i]
  <2>a. \A d \in SUBSET (1 .. N) : d # {} => ix[Max(d)] = Max(d)
    BY <1>3, <1>6, Zenon
  <2> HIDE DEF ix
  <2>b. ASSUME NEW g
        PROVE  [d \in SUBSET (1 .. N) |->
                  IF d = {} THEN Nothing ELSE Reach(g[d \ {Max(d)}], ix[Max(d)], target)]
                = [d \in SUBSET (1 .. N) |->
                     IF d = {} THEN Nothing ELSE Reach(g[d \ {Max(d)}], Max(d), target)]
    BY <2>a
  <2>1. ASSUME NEW g
        PROVE  [d \in SUBSET (1 .. N) |->
                  IF d = {} THEN Nothing
                  ELSE Reach(g[d \ {Max(d)}], [i \in DOMAIN tail |-> i][Max(d)], target)]
                = [d \in SUBSET (1 .. N) |->
                     IF d = {} THEN Nothing ELSE Reach(g[d \ {Max(d)}], Max(d), target)]
    BY <2>b, Zenon DEF ix
  <2> QED
    BY <1>2, <2>1, Zenon DEF IsReached
<1>8. \E g : IsReached(g, target)
  <2>1. PICK g \in [SUBSET (1 .. N) -> T] : IsFold(g, N, Nothing, G)
    BY <1>2, <1>4, <1>5, FoldGoes
  <2>2. ASSUME NEW d \in SUBSET (1 .. N)
        PROVE  g[d] = IF d = {} THEN Nothing ELSE Reach(g[d \ {Max(d)}], Max(d), target)
    <3>1. g[d] = IF d = {} THEN Nothing ELSE G[Max(d)][g[d \ {Max(d)}]]
      BY <2>1, Zenon DEF IsFold
    <3>2. g[d \ {Max(d)}] \in T
      BY <2>1
    <3> QED
      BY <1>5, <1>6, <3>1, <3>2
  <2>3. g = [d \in SUBSET (1 .. N) |-> g[d]]
    BY <2>1
  <2>4. g = [d \in SUBSET (1 .. N) |->
               IF d = {} THEN Nothing ELSE Reach(g[d \ {Max(d)}], Max(d), target)]
    BY <2>2, <2>3
  <2> QED
    BY <1>7, <2>4, Zenon
<1>9. IsReached(f, target)
  BY <1>8
<1> HIDE DEF f
<1>10. \A d \in SUBSET (1 .. N) :
         f[d] = IF d = {} THEN Nothing ELSE Reach(f[d \ {Max(d)}], Max(d), target)
  <2>1. f = [d \in SUBSET (1 .. N) |->
               IF d = {} THEN Nothing ELSE Reach(f[d \ {Max(d)}], Max(d), target)]
    BY <1>7, <1>9, Zenon
  <2> QED
    BY <2>1, Zenon
<1>11. StepsUp(f, N, T, Nothing, G)
  <2>1. f[{}] = Nothing
    <3>1. {} \in SUBSET (1 .. N)
      OBVIOUS
    <3> QED
      BY <1>10, <3>1, Zenon
  <2>2. ASSUME NEW k \in 1 .. N, f[1 .. k - 1] \in T
        PROVE  f[1 .. k] = G[k][f[1 .. k - 1]]
    <3>1. 1 .. k \in SUBSET (1 .. N) /\ 1 .. k # {} /\ k \in Nat \ {0}
      <4>1. k \in 1 .. k /\ k \in Nat \ {0} /\ \A j \in 1 .. k : j \in 1 .. N
        BY <1>2
      <4>2. 1 .. k # {}
        BY <4>1, Zenon
      <4>3. 1 .. k \subseteq 1 .. N
        BY <4>1, Zenon
      <4> QED
        BY <4>1, <4>2, <4>3
    <3>2. Max(1 .. k) = k /\ (1 .. k) \ {k} = 1 .. k - 1
      BY <3>1, MaxOfInterval
    <3>3. f[1 .. k] = Reach(f[(1 .. k) \ {Max(1 .. k)}], Max(1 .. k), target)
      BY <1>10, <3>1, Zenon
    <3> QED
      BY <1>5, <2>2, <3>2, <3>3
  <2> QED
    BY <2>1, <2>2 DEF StepsUp
<1>12. f[1 .. N] = Ends(N, T, Nothing, G)
  BY <1>2, <1>4, <1>5, <1>11, FoldValue
<1>13. PICK e : Steps(e, N, T, Nothing, G)
  BY <1>2, <1>4, <1>5, Recursion
<1>14. e[N] = Reached(target)
  <2>1. Ends(N, T, Nothing, G) = e[N]
    BY <1>2, <1>4, <1>5, <1>13, EndsIs
  <2> QED
    BY <1>1, <1>2, <1>12, <2>1
<1>15. e \in [0 .. N -> T] /\ e[0] = Nothing /\ \A k \in 1 .. N : e[k] = G[k][e[k - 1]]
  BY <1>13 DEF Steps
<1>16. ASSUME NEW k \in 1 .. N PROVE e[k] = Reach(e[k - 1], k, target)
  <2>1. k - 1 \in 0 .. N
    BY <1>2
  <2>2. e[k - 1] \in T
    BY <1>15, <2>1
  <2> QED
    BY <1>5, <1>15, <2>2
<1> QED
  BY <1>14, <1>15, <1>16, Zenon DEF ReachedSteps, T, N

(* A table that is right about the first k candidates: from every sum but 0 *)
(* a candidate leads back to a smaller sum that an earlier one reached.     *)
Leads(r, s, k) ==
  /\ r[s] \in 1 .. k /\ tail[r[s]].width <= s
  /\ s - tail[r[s]].width \in DOMAIN r
  /\ r[s - tail[r[s]].width] < r[s]

(* Every sum of the table leads back to 0. *)
LeadsBack(r, k) ==
  /\ 0 \in DOMAIN r /\ r[0] = 0
  /\ \A s \in DOMAIN r : s # 0 => Leads(r, s, k)

(* A step keeps every entry's way back and gives each new one its own. *)
LEMMA ReachLeads ==
  ASSUME tail \in Seq(Items), NEW target \in Nat, NEW r \in Tables(target),
         NEW i \in DOMAIN tail, LeadsBack(r, i - 1)
  PROVE  LeadsBack(Reach(r, i, target), i)
<1> DEFINE q == Reach(r, i, target)
           N == Newly(r, i, target)
           w == tail[i].width
<1>1. i \in Nat /\ i >= 1 /\ tail[i] \in Items
  OBVIOUS
<1>2. w \in Nat /\ w >= 1
  BY <1>1, ItemWidth
<1>3. /\ DOMAIN r \subseteq Nat /\ \A s \in DOMAIN r : r[s] \in Nat
  BY TableType
<1>4. \A s \in N : w <= s /\ s - w \in DOMAIN r /\ s \notin DOMAIN r
  BY <1>2, <1>3 DEF Newly
<1>5. ASSUME NEW s \in DOMAIN r, s # 0
      PROVE  /\ r[s] \in 1 .. i - 1 /\ tail[r[s]].width <= s
             /\ s - tail[r[s]].width \in DOMAIN r
             /\ r[s - tail[r[s]].width] < r[s]
  BY <1>5 DEF LeadsBack, Leads
<1>6. CASE target \in DOMAIN r
  <2>1. q = r
    BY <1>6, ReachIs
  <2>2. \A s \in DOMAIN r : s # 0 => Leads(r, s, i)
    BY <1>1, <1>5 DEF Leads
  <2> QED
    BY <2>1, <2>2 DEF LeadsBack
<1>7. CASE target \notin DOMAIN r
  <2>1. /\ DOMAIN q = DOMAIN r \cup N
        /\ \A s \in DOMAIN r : q[s] = r[s]
        /\ \A s \in N : q[s] = i
    BY <1>7, ReachIs
  <2> HIDE DEF q, N
  <2>2. 0 \in DOMAIN q /\ q[0] = 0
    BY <2>1 DEF LeadsBack
  <2>3. \A s \in DOMAIN r : r[s] <= i - 1
    BY <1>1, <1>3, <1>5 DEF LeadsBack
  <2>4. ASSUME NEW s \in DOMAIN r, s # 0 PROVE Leads(q, s, i)
    <3>1. q[s] = r[s] /\ r[s] \in 1 .. i
      BY <1>1, <1>5, <2>1, <2>4
    <3>2. s - tail[r[s]].width \in DOMAIN r /\ tail[r[s]].width <= s
      BY <1>5, <2>4
    <3>3. q[s - tail[r[s]].width] = r[s - tail[r[s]].width]
      BY <2>1, <3>2
    <3>4. r[s - tail[r[s]].width] < r[s]
      BY <1>5, <2>4
    <3> QED
      BY <2>1, <3>1, <3>2, <3>3, <3>4 DEF Leads
  <2>5. ASSUME NEW s \in N PROVE Leads(q, s, i)
    <3>1. q[s] = i /\ tail[q[s]].width = w
      BY <2>1
    <3>2. s - w \in DOMAIN r /\ w <= s
      BY <1>4 DEF N
    <3>3. q[s - w] = r[s - w] /\ r[s - w] <= i - 1 /\ r[s - w] \in Nat
      BY <1>3, <2>1, <2>3, <3>2
    <3>4. q[s - w] < i
      BY <1>1, <3>3
    <3> QED
      BY <1>1, <2>1, <3>1, <3>2, <3>4 DEF Leads
  <2> QED
    BY <2>1, <2>2, <2>4, <2>5 DEF LeadsBack, q
<1> QED
  BY <1>6, <1>7

(* Every sum in the table leads back to 0 by earlier and earlier candidates. *)
LEMMA ReachedLeads ==
  ASSUME tail \in Seq(Items), NEW target \in Nat
  PROVE  Reached(target) \in Tables(target) /\ LeadsBack(Reached(target), Len(tail))
<1>1. PICK e : ReachedSteps(e, target)
  BY ReachedIs
<1> DEFINE N == Len(tail)
           S == {k \in 0 .. N : LeadsBack(e[k], k)}
<1>2. DOMAIN tail = 1 .. N /\ N \in Nat
  OBVIOUS
<1>3. /\ e \in [0 .. N -> Tables(target)] /\ e[0] = Nothing
      /\ \A k \in 1 .. N : e[k] = Reach(e[k - 1], k, target)
      /\ e[N] = Reached(target)
  BY <1>1 DEF ReachedSteps
<1> HIDE DEF N
<1>4. 0 \in S
  BY <1>2, <1>3 DEF LeadsBack, Nothing
<1>5. ASSUME NEW k \in 1 .. N, k - 1 \in S PROVE k \in S
  <2>1. k - 1 \in 0 .. N /\ k \in 0 .. N
    BY <1>2
  <2>2. e[k - 1] \in Tables(target) /\ LeadsBack(e[k - 1], k - 1)
    BY <1>3, <1>5, <2>1
  <2>3. LeadsBack(Reach(e[k - 1], k, target), k)
    BY <1>2, <2>2, ReachLeads
  <2> QED
    BY <1>3, <2>1, <2>3
<1>6. 0 .. N \subseteq S
  <2> HIDE DEF S
  <2> QED
    BY <1>2, <1>4, <1>5, Induction
<1>7. N \in 0 .. N
  BY <1>2
<1> QED
  BY <1>3, <1>6, <1>7 DEF N

(* What the chosen among the candidates are worth, at their places. *)
Picked(chosen) ==
  [k \in Nat |-> IF k \in DOMAIN tail /\ k \in chosen THEN tail[k].width ELSE 0]

(* The widths of what was chosen. *)
LEMMA PickedType ==
  ASSUME tail \in Seq(Items), NEW chosen
  PROVE  /\ Picked(chosen) \in Weights
         /\ \A k \in 1 .. Len(tail) :
              Picked(chosen)[k] = IF k \in chosen THEN tail[k].width ELSE 0
<1>1. \A k \in DOMAIN tail : tail[k].width \in Nat
  <2>1. \A k \in DOMAIN tail : tail[k] \in Items
    OBVIOUS
  <2> QED
    BY <2>1, ItemWidth
<1>2. DOMAIN tail = 1 .. Len(tail) /\ \A k \in 1 .. Len(tail) : k \in Nat
  OBVIOUS
<1> QED
  BY <1>1, <1>2 DEF Picked, Weights

(* Every sum of chosen candidates is in the table, unless the target is. *)
Covers(r, target, k) ==
  \/ target \in DOMAIN r
  \/ \A chosen \in SUBSET DOMAIN tail :
       SumTo(Picked(chosen), k) <= target => SumTo(Picked(chosen), k) \in DOMAIN r

(* A target that the table lacks is the sum of no choice of candidates. *)
LEMMA ReachedCovers ==
  ASSUME tail \in Seq(Items), NEW target \in Nat
  PROVE  Covers(Reached(target), target, Len(tail))
<1>1. PICK e : ReachedSteps(e, target)
  BY ReachedIs
<1> DEFINE N == Len(tail)
           S == {k \in 0 .. N : Covers(e[k], target, k)}
<1>2. DOMAIN tail = 1 .. N /\ N \in Nat
  OBVIOUS
<1>3. /\ e \in [0 .. N -> Tables(target)] /\ e[0] = Nothing
      /\ \A k \in 1 .. N : e[k] = Reach(e[k - 1], k, target)
      /\ e[N] = Reached(target)
  BY <1>1 DEF ReachedSteps
<1>4. \A chosen : /\ Picked(chosen) \in Weights
                  /\ \A k \in 1 .. N :
                       Picked(chosen)[k] = IF k \in chosen THEN tail[k].width ELSE 0
  BY PickedType
<1> HIDE DEF N
<1>5. 0 \in S
  <2>1. \A chosen : SumTo(Picked(chosen), 0) = 0
    BY <1>4, SumLaws
  <2>2. 0 \in DOMAIN e[0]
    BY <1>3 DEF Nothing
  <2> QED
    BY <1>2, <2>1, <2>2 DEF Covers
<1>6. ASSUME NEW k \in 1 .. N, k - 1 \in S PROVE k \in S
  <2>1. k - 1 \in 0 .. N /\ k \in 0 .. N /\ k \in DOMAIN tail /\ k - 1 \in Nat /\ (k - 1) + 1 = k
    BY <1>2
  <2>2. e[k - 1] \in Tables(target) /\ Covers(e[k - 1], target, k - 1)
    BY <1>3, <1>6, <2>1
  <2>3. e[k] = Reach(e[k - 1], k, target)
    BY <1>3
  <2>4. CASE target \in DOMAIN e[k - 1]
    <3>1. e[k] = e[k - 1]
      BY <2>1, <2>2, <2>3, <2>4, ReachIs
    <3> QED
      BY <2>1, <2>4, <3>1 DEF Covers
  <2>5. CASE target \notin DOMAIN e[k - 1]
    <3>1. DOMAIN e[k] = DOMAIN e[k - 1] \cup Newly(e[k - 1], k, target)
      BY <2>1, <2>2, <2>3, <2>5, ReachIs
    <3>2. ASSUME NEW chosen \in SUBSET DOMAIN tail, SumTo(Picked(chosen), k) <= target
          PROVE  SumTo(Picked(chosen), k) \in DOMAIN e[k]
      <4> DEFINE before == SumTo(Picked(chosen), k - 1)
                 now == SumTo(Picked(chosen), k)
                 w == tail[k].width
      <4>1. before \in Nat /\ now = before + Picked(chosen)[k]
        <5> DEFINE p == Picked(chosen)
        <5>1. p \in Weights
          BY <1>4
        <5> HIDE DEF p
        <5>2. /\ SumTo(p, k - 1) \in Nat
              /\ SumTo(p, k) = SumTo(p, k - 1) + p[k]
          BY <2>1, <5>1, SumLaws
        <5> QED
          BY <5>2 DEF p
      <4>2. w \in Nat
        <5>1. tail[k] \in Items
          BY <2>1
        <5> QED
          BY <5>1, ItemWidth
      <4>3. Picked(chosen)[k] = IF k \in chosen THEN w ELSE 0
        BY <1>4
      <4>4. now = (IF k \in chosen THEN before + w ELSE before) /\ before <= target
        BY <3>2, <4>1, <4>2, <4>3
      <4>5. before \in DOMAIN e[k - 1]
        BY <2>2, <2>5, <4>4 DEF Covers
      <4> HIDE DEF before, now, w
      <4>6. CASE k \in chosen
        <5>1. now = before + w /\ now \in 0 .. target
          BY <3>2, <4>1, <4>2, <4>4, <4>6 DEF now
        <5>2. now \in DOMAIN e[k - 1] \cup Newly(e[k - 1], k, target)
          BY <4>5, <5>1 DEF Newly, w
        <5> QED
          BY <3>1, <5>2 DEF now
      <4>7. CASE k \notin chosen
        BY <3>1, <4>4, <4>5, <4>7 DEF now
      <4> QED
        BY <4>6, <4>7
    <3> QED
      BY <2>1, <3>2 DEF Covers
  <2> QED
    BY <2>4, <2>5
<1>7. 0 .. N \subseteq S
  <2> HIDE DEF S
  <2> QED
    BY <1>2, <1>5, <1>6, Induction
<1>8. N \in 0 .. N
  BY <1>2
<1> QED
  BY <1>3, <1>7, <1>8 DEF N

(* The recursive function of WidthOf. *)
IsWidthOf(f, chosen) ==
  f = [d \in SUBSET DOMAIN [i \in DOMAIN tail |-> i] |->
         IF d = {} THEN 0
         ELSE f[d \ {Max(d)}] + IF [i \in DOMAIN tail |-> i][Max(d)] \in chosen
                                THEN tail[[i \in DOMAIN tail |-> i][Max(d)]].width ELSE 0]

(* WidthOf, a fold over the window, is the sum of what was picked. *)
LEMMA WidthOfIs ==
  ASSUME tail \in Seq(Items), NEW chosen
  PROVE  WidthOf(chosen) = SumTo(Picked(chosen), Len(tail))
<1> DEFINE f == CHOOSE g : IsWidthOf(g, chosen)
           N == Len(tail)
           w == Picked(chosen)
           ix == [i \in DOMAIN tail |-> i]
<1>1. WidthOf(chosen) = f[DOMAIN ix]
  BY DEF WidthOf, FoldLeft, MapThenFoldSet, IsWidthOf
<1>2. DOMAIN ix = 1 .. N /\ DOMAIN tail = 1 .. N /\ N \in Nat
  OBVIOUS
<1>3. \A i \in 1 .. N : ix[i] = i
  BY <1>2
<1>4. w \in Weights /\ \A k \in 1 .. N : w[k] = IF k \in chosen THEN tail[k].width ELSE 0
  BY PickedType
<1>5. \A g : IsWidthOf(g, chosen) <=> IsSumFold(g, N, w)
  <2>1. \A d \in SUBSET (1 .. N) : d # {} => Max(d) \in 1 .. N
    BY <1>2, MaxOfPlaces
  <2>2. \A d \in SUBSET (1 .. N) : d # {} =>
          w[Max(d)] = IF ix[Max(d)] \in chosen THEN tail[ix[Max(d)]].width ELSE 0
    BY <1>3, <1>4, <2>1, Zenon
  <2> HIDE DEF ix, N, w
  <2>3. ASSUME NEW g
        PROVE  [d \in SUBSET (1 .. N) |->
                  IF d = {} THEN 0
                  ELSE g[d \ {Max(d)}] + IF ix[Max(d)] \in chosen
                                         THEN tail[ix[Max(d)]].width ELSE 0]
                 = [d \in SUBSET (1 .. N) |->
                      IF d = {} THEN 0 ELSE g[d \ {Max(d)}] + w[Max(d)]]
    BY <2>2
  <2>4. \A g : IsWidthOf(g, chosen) <=>
          g = [d \in SUBSET DOMAIN ix |->
                  IF d = {} THEN 0
                  ELSE g[d \ {Max(d)}] + IF ix[Max(d)] \in chosen
                                         THEN tail[ix[Max(d)]].width ELSE 0]
    BY Zenon DEF IsWidthOf, ix
  <2>5. DOMAIN ix = 1 .. N
    BY <1>2
  <2>6. ASSUME NEW g PROVE IsWidthOf(g, chosen) <=> IsSumFold(g, N, w)
    <3>1. IsWidthOf(g, chosen) <=>
            g = [d \in SUBSET (1 .. N) |->
                  IF d = {} THEN 0
                  ELSE g[d \ {Max(d)}] + IF ix[Max(d)] \in chosen
                                         THEN tail[ix[Max(d)]].width ELSE 0]
      BY <2>4, <2>5, Zenon
    <3>2. IsSumFold(g, N, w) <=>
            g = [d \in SUBSET (1 .. N) |->
                   IF d = {} THEN 0 ELSE g[d \ {Max(d)}] + w[Max(d)]]
      BY Zenon DEF IsSumFold
    <3> QED
      BY <2>3, <3>1, <3>2, Zenon
  <2> QED
    BY <2>6, Zenon
<1> HIDE DEF w, N, ix
<1>6. IsWidthOf(f, chosen)
  BY <1>2, <1>4, <1>5, SumFold, Zenon
<1> HIDE DEF f
<1> QED
  BY <1>1, <1>2, <1>4, <1>5, <1>6, SumFold, Zenon DEF w, N

(* No choice of candidates is worth a target that the table does not have. *)
LEMMA Unreachable ==
  ASSUME tail \in Seq(Items), NEW target \in Nat, target \notin DOMAIN Reached(target),
         NEW chosen \in SUBSET DOMAIN tail
  PROVE  target # WidthOf(chosen)
<1>1. Covers(Reached(target), target, Len(tail))
  BY ReachedCovers
<1>2. WidthOf(chosen) = SumTo(Picked(chosen), Len(tail))
  BY WidthOfIs
<1> QED
  BY <1>1, <1>2 DEF Covers

------------------------------------------------------------------------------
(* The way back from the target. *)
IsBack(f, r) ==
  f = [s \in DOMAIN r |->
         IF s = 0 THEN <<>> ELSE Append(f[s - tail[r[s]].width], tail[r[s]])]

(* There is such a function: each sum leads to a smaller one. *)
LEMMA BackGoes ==
  ASSUME tail \in Seq(Items), NEW target \in Nat, NEW r \in Tables(target),
         LeadsBack(r, Len(tail))
  PROVE  \E f : IsBack(f, r)
<1> DEFINE D == DOMAIN r
           T == [D -> Seq(Items)]
           start == [s \in D |-> <<>>]
           G == [k \in Nat |-> [x \in T |->
                   [s \in D |-> IF s = k /\ k # 0
                                THEN Append(x[k - tail[r[k]].width], tail[r[k]])
                                ELSE x[s]]]]
<1>1. ASSUME NEW s \in D, s # 0
      PROVE  /\ s - tail[r[s]].width \in D /\ s - tail[r[s]].width < s
             /\ tail[r[s]] \in Items
  <2>1. Leads(r, s, Len(tail))
    BY <1>1 DEF LeadsBack
  <2>2. r[s] \in 1 .. Len(tail) /\ s - tail[r[s]].width \in D
    BY <2>1 DEF Leads
  <2>3. tail[r[s]] \in Items
    BY <2>2
  <2>4. tail[r[s]].width \in Nat /\ tail[r[s]].width >= 1
    BY <2>3, ItemWidth
  <2>5. s \in Nat
    BY TableType
  <2> QED
    BY <2>2, <2>3, <2>4, <2>5
<1>2. start \in T /\ G \in [Nat -> [T -> T]]
  <2>1. start \in T
    OBVIOUS
  <2>2. ASSUME NEW k \in Nat, NEW x \in T
        PROVE  [s \in D |-> IF s = k /\ k # 0
                            THEN Append(x[k - tail[r[k]].width], tail[r[k]])
                            ELSE x[s]] \in T
    <3>1. ASSUME NEW s \in D
          PROVE (IF s = k /\ k # 0 THEN Append(x[k - tail[r[k]].width], tail[r[k]])
                 ELSE x[s]) \in Seq(Items)
      <4>1. \A y \in D : x[y] \in Seq(Items)
        OBVIOUS
      <4>2. CASE s = k /\ k # 0
        <5>1. x[k - tail[r[k]].width] \in Seq(Items) /\ tail[r[k]] \in Items
          BY <1>1, <4>1, <4>2
        <5> QED
          BY <4>2, <5>1
      <4>3. CASE ~(s = k /\ k # 0)
        BY <4>1, <4>3
      <4> QED
        BY <4>2, <4>3
    <3> HIDE DEF D
    <3> QED
      BY <3>1
  <2> HIDE DEF T
  <2> QED
    BY <2>1, <2>2
<1>3. PICK e : Steps(e, target, T, start, G)
  <2> HIDE DEF T, start, G
  <2> QED
    BY <1>2, Recursion
<1>4. /\ e \in [0 .. target -> T] /\ e[0] = start
      /\ \A k \in 1 .. target : e[k] = G[k][e[k - 1]]
  <2> HIDE DEF T, start, G
  <2> QED
    BY <1>3 DEF Steps
<1>5. ASSUME NEW k \in 1 .. target, NEW s \in D
      PROVE  e[k][s] = IF s = k THEN Append(e[k - 1][k - tail[r[k]].width], tail[r[k]])
                       ELSE e[k - 1][s]
  <2>1. e[k - 1] \in T /\ k \in Nat /\ k # 0
    BY <1>4
  <2>2. e[k] = G[k][e[k - 1]]
    BY <1>4
  <2> DEFINE x == e[k - 1]
  <2> HIDE DEF T, x
  <2>3. G[k][x] = [y \in D |-> IF y = k /\ k # 0
                               THEN Append(x[k - tail[r[k]].width], tail[r[k]])
                               ELSE x[y]]
    BY <2>1 DEF x
  <2> HIDE DEF G
  <2> QED
    BY <2>1, <2>2, <2>3 DEF x
<1>6. D \subseteq 0 .. target /\ r[0] = 0
  BY TableType DEF LeadsBack
<1>7. ASSUME NEW s \in D PROVE \A k \in 0 .. target : k >= s => e[k][s] = e[s][s]
  <2> DEFINE S == {k \in 0 .. target : k >= s => e[k][s] = e[s][s]}
  <2>1. s \in 0 .. target
    BY <1>6
  <2>2. 0 \in S
    BY <2>1
  <2>3. ASSUME NEW k \in 1 .. target, k - 1 \in S PROVE k \in S
    <3>1. CASE k > s
      <4>1. e[k][s] = e[k - 1][s]
        BY <1>5, <2>1, <3>1
      <4> QED
        BY <2>1, <2>3, <3>1, <4>1
    <3>2. CASE k <= s
      BY <2>1, <3>2
    <3> QED
      BY <2>1, <3>1, <3>2
  <2>4. 0 .. target \subseteq S
    <3> HIDE DEF S
    <3> QED
      BY <2>2, <2>3, Induction
  <2> QED
    BY <2>4
<1> DEFINE f == e[target]
<1>8. ASSUME NEW s \in D
      PROVE  f[s] = IF s = 0 THEN <<>> ELSE Append(f[s - tail[r[s]].width], tail[r[s]])
  <2>1. s \in 0 .. target /\ target \in 0 .. target
    BY <1>6
  <2>2. f[s] = e[s][s]
    BY <1>7, <2>1
  <2>3. CASE s = 0
    <3>1. e[0][s] = <<>>
      BY <1>4
    <3> QED
      BY <2>2, <2>3, <3>1
  <2>4. CASE s # 0
    <3> DEFINE t == s - tail[r[s]].width
    <3>1. t \in D /\ t < s /\ t \in 0 .. target
      BY <1>1, <1>6, <2>4
    <3>2. s \in 1 .. target /\ s - 1 \in 0 .. target /\ s - 1 >= t
      BY <2>1, <2>4, <3>1
    <3>3. e[s][s] = Append(e[s - 1][t], tail[r[s]])
      BY <1>5, <3>2
    <3>4. e[s - 1][t] = e[t][t] /\ f[t] = e[t][t]
      BY <1>7, <2>1, <3>1, <3>2
    <3> QED
      BY <2>2, <2>4, <3>3, <3>4
  <2> QED
    BY <2>3, <2>4
<1>9. f = [s \in D |-> f[s]]
  <2>1. target \in 0 .. target
    OBVIOUS
  <2>2. f \in T
    BY <1>4, <2>1
  <2> QED
    BY <2>2
<1> HIDE DEF f
<1>10. f = [s \in D |->
              IF s = 0 THEN <<>> ELSE Append(f[s - tail[r[s]].width], tail[r[s]])]
  BY <1>8, <1>9
<1> QED
  BY <1>10, Zenon DEF IsBack

(* Every occurrence is a later one of the stream than the one before it. *)
Rising(s) == \A i \in 1 .. Len(s) - 1 : s[i].ordinal < s[i + 1].ordinal

(* All of one partition, from places first to before last in the stream. *)
Within(s, p, first, last) ==
  \A i \in 1 .. Len(s) :
    s[i].partition = p /\ first <= s[i].ordinal /\ s[i].ordinal < last

(* The window holds what the stream gave after first. *)
Windowed(first) ==
  \A i \in 1 .. Len(tail) : tail[i].partition = current /\ tail[i].ordinal = first + (i - 1)

(* What the way back from the sum s has to be. *)
Way(c, s, first, k) ==
  c \in Seq(Items) /\ Total(c) = s /\ Rising(c) /\ Within(c, current, first, first + k)

(* An occurrence that comes later in the stream. *)
LEMMA RisingAppend ==
  ASSUME NEW c \in Seq(Items), NEW o \in Items, Rising(c),
         NEW p, NEW first \in Nat, NEW last \in Nat, NEW further \in Nat,
         Within(c, p, first, last), last <= o.ordinal, first <= o.ordinal,
         o.ordinal < further, o.partition = p
  PROVE  Rising(Append(c, o)) /\ Within(Append(c, o), p, first, further)
<1> DEFINE e == Append(c, o)
<1>1. /\ Len(c) \in Nat /\ Len(e) = Len(c) + 1 /\ e[Len(c) + 1] = o
      /\ \A i \in 1 .. Len(c) : e[i] = c[i]
  OBVIOUS
<1>2. \A i \in 1 .. Len(c) : c[i].ordinal \in Nat /\ o.ordinal \in Nat
  <2>1. \A i \in 1 .. Len(c) : c[i] \in Items
    OBVIOUS
  <2> QED
    BY <2>1 DEF Items
<1> HIDE DEF e
<1>3. ASSUME NEW i \in 1 .. Len(e) - 1 PROVE e[i].ordinal < e[i + 1].ordinal
  <2>1. CASE i = Len(c)
    <3>1. e[i] = c[i] /\ e[i + 1] = o /\ i \in 1 .. Len(c)
      BY <1>1, <2>1
    <3>2. c[i].ordinal < last
      BY <3>1 DEF Within
    <3> QED
      BY <1>2, <3>1, <3>2
  <2>2. CASE i # Len(c)
    <3>1. i \in 1 .. Len(c) - 1 /\ i \in 1 .. Len(c) /\ i + 1 \in 1 .. Len(c)
      BY <1>1, <2>2
    <3> QED
      BY <1>1, <3>1 DEF Rising
  <2> QED
    BY <2>1, <2>2
<1>4. ASSUME NEW i \in 1 .. Len(e)
      PROVE  e[i].partition = p /\ first <= e[i].ordinal /\ e[i].ordinal < further
  <2>1. CASE i = Len(c) + 1
    BY <1>1, <2>1
  <2>2. CASE i # Len(c) + 1
    <3>1. i \in 1 .. Len(c) /\ e[i] = c[i]
      BY <1>1, <2>2
    <3>2. c[i].partition = p /\ first <= c[i].ordinal /\ c[i].ordinal < last
      BY <3>1 DEF Within
    <3>3. c[i].ordinal \in Nat /\ o.ordinal \in Nat
      BY <1>2, <3>1
    <3> QED
      BY <3>1, <3>2, <3>3
  <2> QED
    BY <2>1, <2>2
<1> QED
  BY <1>3, <1>4 DEF Rising, Within, e

(* The way back from a sum is worth that sum, in the order of the stream. *)
LEMMA BackRight ==
  ASSUME tail \in Seq(Items), NEW target \in Nat, NEW r \in Tables(target),
         LeadsBack(r, Len(tail)), NEW first \in Nat, Windowed(first),
         NEW f, IsBack(f, r)
  PROVE  \A s \in DOMAIN r : Way(f[s], s, first, r[s])
<1> DEFINE S == {k \in 0 .. target : \A s \in DOMAIN r : s <= k => Way(f[s], s, first, r[s])}
<1>1. DOMAIN r \subseteq 0 .. target /\ \A s \in DOMAIN r : r[s] \in Nat
  BY TableType
<1>2. \A s \in DOMAIN r :
        f[s] = IF s = 0 THEN <<>> ELSE Append(f[s - tail[r[s]].width], tail[r[s]])
  BY Zenon DEF IsBack
<1>3. ASSUME 0 \in DOMAIN r PROVE Way(f[0], 0, first, r[0])
  <2> DEFINE c == f[0]
  <2>1. c = <<>>
    BY <1>2, <1>3
  <2>2. c \in Seq(Items) /\ Len(c) = 0
    BY <2>1
  <2>3. Total(c) = 0
    BY <2>1, TotalEmpty
  <2>4. Rising(c) /\ Within(c, current, first, first + r[0])
    BY <2>2 DEF Rising, Within
  <2> QED
    BY <2>2, <2>3, <2>4 DEF Way
<1>4. 0 \in S
  BY <1>1, <1>3
<1>5. ASSUME NEW k \in 1 .. target, k - 1 \in S PROVE k \in S
  <2>1. ASSUME k \in DOMAIN r PROVE Way(f[k], k, first, r[k])
    <3> DEFINE i == r[k]
               o == tail[r[k]]
               t == k - o.width
    <3>1. Leads(r, k, Len(tail))
      BY <2>1 DEF LeadsBack
    <3>2. i \in 1 .. Len(tail) /\ o.width <= k /\ t \in DOMAIN r /\ r[t] < i
      BY <3>1 DEF Leads
    <3>3. o \in Items
      BY <3>2
    <3>4. o.width \in Nat /\ o.width >= 1 /\ o.ordinal \in Nat
      BY <3>3, ItemWidth DEF Items
    <3>5. o.partition = current /\ o.ordinal = first + (i - 1)
      BY <3>2 DEF Windowed
    <3>6. r[t] \in Nat /\ i \in Nat /\ t \in Nat /\ t <= k - 1 /\ k = t + o.width
      BY <1>1, <3>2, <3>4
    <3>7. f[k] = Append(f[t], o)
      <4>1. k # 0
        OBVIOUS
      <4> QED
        BY <1>2, <2>1, <4>1, Zenon
    <3>8. Way(f[t], t, first, r[t])
      BY <1>5, <3>2, <3>6
    <3> HIDE DEF i, o, t
    <3>9. /\ f[t] \in Seq(Items) /\ Total(f[t]) = t /\ Rising(f[t])
          /\ Within(f[t], current, first, first + r[t])
      BY <3>8 DEF Way
    <3>10. Append(f[t], o) \in Seq(Items) /\ Total(Append(f[t], o)) = k
      BY <3>3, <3>6, <3>9, TotalAppend
    <3>11. /\ first + r[t] \in Nat /\ first + i \in Nat /\ first + r[t] <= o.ordinal
           /\ first <= o.ordinal /\ o.ordinal < first + i
      BY <3>2, <3>5, <3>6
    <3>12. /\ Rising(Append(f[t], o))
           /\ Within(Append(f[t], o), current, first, first + i)
      <4> DEFINE last == first + r[t]
                 further == first + i
      <4>1. last \in Nat /\ further \in Nat /\ last <= o.ordinal /\ o.ordinal < further
        BY <3>11
      <4>2. Within(f[t], current, first, last)
        BY <3>9
      <4> HIDE DEF last, further
      <4>3. Rising(Append(f[t], o)) /\ Within(Append(f[t], o), current, first, further)
        BY <3>3, <3>5, <3>9, <3>11, <4>1, <4>2, RisingAppend
      <4> QED
        BY <4>3 DEF further
    <3> QED
      BY <3>7, <3>10, <3>12 DEF Way, i
  <2>2. \A s \in DOMAIN r : s <= k => s <= k - 1 \/ s = k
    BY <1>1
  <2>3. k \in 0 .. target
    OBVIOUS
  <2> QED
    BY <1>5, <2>1, <2>2, <2>3
<1>6. 0 .. target \subseteq S
  <2> HIDE DEF S
  <2> QED
    BY <1>4, <1>5, Induction
<1>7. ASSUME NEW s \in DOMAIN r PROVE Way(f[s], s, first, r[s])
  <2>1. s \in 0 .. target /\ s <= s
    BY <1>1
  <2> QED
    BY <1>6, <2>1
<1> QED
  BY <1>7

(* The chosen candidates are worth the target, and as far apart in the       *)
(* stream as they were in the window.                                      *)
LEMMA ChosenTailRight ==
  ASSUME tail \in Seq(Items), NEW target \in Nat, target \in DOMAIN Reached(target),
         NEW first \in Nat, Windowed(first)
  PROVE  Way(ChosenTail(target), target, first, Len(tail))
<1> DEFINE r == Reached(target)
           f == CHOOSE g : IsBack(g, r)
<1>1. r \in Tables(target) /\ LeadsBack(r, Len(tail))
  BY ReachedLeads
<1>2. ChosenTail(target) = f[target]
  BY DEF ChosenTail, IsBack
<1> HIDE DEF r
<1>3. IsBack(f, r)
  <2>1. \E g : IsBack(g, r)
    BY <1>1, BackGoes
  <2> QED
    BY <2>1
<1> HIDE DEF f
<1>4. target \in DOMAIN r
  BY DEF r
<1>5. Way(f[target], target, first, r[target])
  BY <1>1, <1>3, <1>4, BackRight
<1>6. r[target] \in Nat /\ r[target] <= Len(tail) /\ Len(tail) \in Nat
  <2>1. target = 0 => r[target] = 0
    BY <1>1 DEF LeadsBack
  <2>2. target # 0 => r[target] \in 1 .. Len(tail)
    BY <1>1, <1>4 DEF LeadsBack, Leads
  <2>3. Len(tail) \in Nat
    OBVIOUS
  <2> QED
    BY <2>1, <2>2, <2>3
<1> DEFINE c == f[target]
<1>7. c \in Seq(Items) /\ Total(c) = target /\ Rising(c)
      /\ Within(c, current, first, first + r[target])
  BY <1>5 DEF Way
<1>8. Within(c, current, first, first + Len(tail))
  <2>1. \A i \in 1 .. Len(c) : c[i].ordinal \in Nat
    <3>1. \A i \in 1 .. Len(c) : c[i] \in Items
      BY <1>7
    <3> QED
      BY <3>1 DEF Items
  <2> HIDE DEF c
  <2> QED
    BY <1>6, <1>7, <2>1 DEF Within
<1> QED
  BY <1>2, <1>7, <1>8 DEF Way

(* The same steps up to N. *)
SameSteps(G, H, N, T) == \A k \in 1 .. N : \A x \in T : G[k][x] = H[k][x]

(* Steps on a set. *)
StepsOn(T) == [Nat -> [T -> T]]

(* The same steps come to the same. *)
LEMMA EndsSame ==
  ASSUME NEW N \in Nat, NEW T, NEW base \in T, NEW G \in StepsOn(T),
         NEW H \in StepsOn(T), SameSteps(G, H, N, T)
  PROVE  Ends(N, T, base, G) = Ends(N, T, base, H)
<1>1. G \in [Nat -> [T -> T]] /\ H \in [Nat -> [T -> T]]
  BY DEF StepsOn
<1>2. PICK f : Steps(f, N, T, base, G)
  BY <1>1, Recursion, Zenon
<1>3. PICK g : Steps(g, N, T, base, H)
  BY <1>1, Recursion, Zenon
<1>4. f[N] = g[N]
  <2>1. N <= N
    OBVIOUS
  <2> QED
    BY <1>2, <1>3, <2>1, StepsAgree DEF SameSteps
<1>5. Ends(N, T, base, G) = f[N]
  BY <1>1, <1>2, EndsIs
<1>6. Ends(N, T, base, H) = g[N]
  BY <1>1, <1>3, EndsIs
<1> QED
  BY <1>4, <1>5, <1>6

------------------------------------------------------------------------------
(* Sequences that are joined. *)
Lists(T) == Seq(T)

(* One step per sequence. *)
Joins(ss, T) ==
  [k \in Nat |-> [x \in Lists(T) |-> IF k \in DOMAIN ss THEN x \o ss[k] ELSE x]]

(* Each step joins one sequence. *)
LEMMA JoinsType ==
  ASSUME NEW T, NEW ss \in Seq(Lists(T))
  PROVE  /\ Joins(ss, T) \in StepsOn(Lists(T))
         /\ \A k \in 1 .. Len(ss) : \A x \in Lists(T) : Joins(ss, T)[k][x] = x \o ss[k]
         /\ \A k \in 1 .. Len(ss) : ss[k] \in Lists(T)
         /\ <<>> \in Lists(T)
<1>1. \A k \in DOMAIN ss : ss[k] \in Lists(T)
  OBVIOUS
<1>2. DOMAIN ss = 1 .. Len(ss) /\ \A k \in 1 .. Len(ss) : k \in Nat
  OBVIOUS
<1>3. \A x, y \in Lists(T) : x \o y \in Lists(T)
  BY DEF Lists
<1>4. <<>> \in Lists(T)
  BY DEF Lists
<1>5. ASSUME NEW k \in Nat, NEW x \in Lists(T)
      PROVE  (IF k \in DOMAIN ss THEN x \o ss[k] ELSE x) \in Lists(T)
  BY <1>1, <1>3
<1>6. Joins(ss, T) \in [Nat -> [Lists(T) -> Lists(T)]]
  BY <1>5 DEF Joins
<1> QED
  BY <1>1, <1>2, <1>4, <1>6 DEF Joins, StepsOn

(* FlattenSeq, a recursive function, is the last of the steps that join. *)
LEMMA FlattenIs ==
  ASSUME NEW T, NEW ss \in Seq(Lists(T))
  PROVE  FlattenSeq(ss) = Ends(Len(ss), Lists(T), <<>>, Joins(ss, T))
<1> DEFINE N == Len(ss)
           L == Lists(T)
           G == Joins(ss, T)
<1>1. N \in Nat
  OBVIOUS
<1>2. /\ G \in StepsOn(L) /\ \A k \in 1 .. N : \A x \in L : G[k][x] = x \o ss[k]
      /\ \A k \in 1 .. N : ss[k] \in L
      /\ <<>> \in L
  BY JoinsType
<1>3. G \in [Nat -> [L -> L]]
  BY <1>2 DEF StepsOn
<1>4. CASE N = 0
  <2>1. ss = <<>>
    BY <1>4
  <2>2. FlattenSeq(ss) = <<>>
    BY <1>4, <2>1 DEF FlattenSeq
  <2> HIDE DEF G, L
  <2>3. Ends(0, L, <<>>, G) = <<>>
    BY <1>2, <1>3, NoStep
  <2> QED
    BY <1>4, <2>2, <2>3 DEF G, L
<1>5. CASE N # 0
  <2> DEFINE f == CHOOSE g : g = [i \in 1 .. N |-> IF i = 1 THEN ss[i] ELSE g[i - 1] \o ss[i]]
  <2>1. FlattenSeq(ss) = f[N]
    BY <1>5 DEF FlattenSeq
  <2> HIDE DEF G, L
  <2>2. PICK e : Steps(e, N, L, <<>>, G)
    BY <1>1, <1>2, <1>3, Recursion
  <2>3. e \in [0 .. N -> L] /\ e[0] = <<>> /\ \A k \in 1 .. N : e[k] = G[k][e[k - 1]]
    BY <2>2 DEF Steps
  <2>4. ASSUME NEW k \in 1 .. N PROVE e[k] = e[k - 1] \o ss[k]
    <3>1. k - 1 \in 0 .. N
      BY <1>1
    <3>2. e[k - 1] \in L
      BY <2>3, <3>1
    <3> QED
      BY <1>2, <2>3, <3>2
  <2>5. e[1] = ss[1]
    <3>1. 1 \in 1 .. N /\ 1 - 1 = 0
      BY <1>1, <1>5
    <3>2. e[1] = <<>> \o ss[1]
      BY <2>3, <2>4, <3>1
    <3>3. ss[1] \in Seq(T)
      BY <1>2, <3>1 DEF L, Lists
    <3>4. <<>> \o ss[1] = ss[1]
      BY <3>3
    <3> QED
      BY <3>2, <3>4
  <2>6. \E g : g = [i \in 1 .. N |-> IF i = 1 THEN ss[i] ELSE g[i - 1] \o ss[i]]
    <3> DEFINE g == [i \in 1 .. N |-> e[i]]
    <3>1. ASSUME NEW i \in 1 .. N
          PROVE  g[i] = IF i = 1 THEN ss[i] ELSE g[i - 1] \o ss[i]
      <4>1. g[i] = e[i]
        OBVIOUS
      <4>2. CASE i = 1
        BY <2>5, <4>1, <4>2
      <4>3. CASE i # 1
        <5>1. i - 1 \in 1 .. N
          BY <1>1, <4>3
        <5>2. g[i - 1] = e[i - 1]
          BY <5>1
        <5> QED
          BY <2>4, <4>1, <4>3, <5>2
      <4> QED
        BY <4>2, <4>3
    <3>2. g = [i \in 1 .. N |-> g[i]]
      OBVIOUS
    <3> HIDE DEF g
    <3>3. g = [i \in 1 .. N |-> IF i = 1 THEN ss[i] ELSE g[i - 1] \o ss[i]]
      BY <3>1, <3>2
    <3> QED
      BY <3>3
  <2>7. f = [i \in 1 .. N |-> IF i = 1 THEN ss[i] ELSE f[i - 1] \o ss[i]]
    BY <2>6, Zenon
  <2> HIDE DEF f
  <2>8. \A i \in 1 .. N : f[i] = IF i = 1 THEN ss[i] ELSE f[i - 1] \o ss[i]
    BY <2>7, Zenon
  <2> DEFINE S == {k \in 0 .. N : k # 0 => f[k] = e[k]}
  <2>9. 0 \in S
    BY <1>1
  <2>10. ASSUME NEW k \in 1 .. N, k - 1 \in S PROVE k \in S
    <3>1. CASE k = 1
      BY <1>1, <2>5, <2>8, <3>1
    <3>2. CASE k # 1
      <4>1. f[k - 1] = e[k - 1]
        BY <2>10, <3>2
      <4>2. f[k] = f[k - 1] \o ss[k] /\ e[k] = e[k - 1] \o ss[k]
        BY <2>4, <2>8, <3>2
      <4>3. f[k] = e[k] /\ k \in 0 .. N
        <5>1. f[k] = e[k]
          BY <4>1, <4>2, Zenon
        <5>2. k \in 0 .. N
          BY <1>1
        <5> QED
          BY <5>1, <5>2
      <4> QED
        BY <4>3
    <3> QED
      BY <3>1, <3>2
  <2>11. 0 .. N \subseteq S
    <3> HIDE DEF S
    <3> QED
      BY <1>1, <2>9, <2>10, Induction
  <2>12. f[N] = e[N]
    BY <1>1, <1>5, <2>11
  <2>13. Ends(N, L, <<>>, G) = e[N]
    BY <1>1, <1>2, <1>3, <2>2, EndsIs
  <2> QED
    BY <2>1, <2>12, <2>13 DEF G, L
<1> QED
  BY <1>4, <1>5

(* Nothing, flattened. *)
LEMMA FlattenEmpty == FlattenSeq(<<>>) = <<>>
<1>1. Len(<<>>) = 0
  OBVIOUS
<1> QED
  BY <1>1 DEF FlattenSeq

(* What a sequence of sequences is when it is flattened. *)
LEMMA FlattenType ==
  ASSUME NEW T, NEW ss \in Seq(Lists(T))
  PROVE  FlattenSeq(ss) \in Lists(T)
<1>1. Len(ss) \in Nat
  OBVIOUS
<1>2. Joins(ss, T) \in [Nat -> [Lists(T) -> Lists(T)]] /\ <<>> \in Lists(T)
  BY JoinsType DEF StepsOn
<1>3. FlattenSeq(ss) = Ends(Len(ss), Lists(T), <<>>, Joins(ss, T))
  BY FlattenIs
<1> QED
  BY <1>1, <1>2, <1>3, EndsType

(* One more sequence is joined at the end. *)
LEMMA FlattenAppend ==
  ASSUME NEW T, NEW ss \in Seq(Lists(T)), NEW x \in Lists(T)
  PROVE  /\ Append(ss, x) \in Seq(Lists(T))
         /\ FlattenSeq(Append(ss, x)) = FlattenSeq(ss) \o x
<1> DEFINE zz == Append(ss, x)
           L == Lists(T)
           N == Len(ss)
           G == Joins(zz, T)
           H == Joins(ss, T)
<1>1. /\ N \in Nat /\ zz \in Seq(L) /\ Len(zz) = N + 1 /\ zz[N + 1] = x
      /\ \A k \in 1 .. N : zz[k] = ss[k] /\ k \in 1 .. N + 1
      /\ N + 1 \in 1 .. N + 1
  OBVIOUS
<1> HIDE DEF zz, L
<1>2. /\ G \in StepsOn(L) /\ \A k \in 1 .. N + 1 : \A y \in L : G[k][y] = y \o zz[k]
      /\ <<>> \in L
  <2>1. zz \in Seq(Lists(T))
    BY <1>1 DEF L
  <2>2. /\ G \in StepsOn(Lists(T)) /\ <<>> \in Lists(T)
        /\ \A k \in 1 .. Len(zz) : \A y \in Lists(T) : G[k][y] = y \o zz[k]
    BY <2>1, JoinsType, Zenon
  <2> QED
    BY <1>1, <2>2 DEF L
<1>3. H \in StepsOn(L) /\ \A k \in 1 .. N : \A y \in L : H[k][y] = y \o ss[k]
  BY JoinsType DEF L
<1> HIDE DEF G, H
<1>4. SameSteps(G, H, N, L)
  <2>1. ASSUME NEW k \in 1 .. N, NEW y \in L PROVE G[k][y] = H[k][y]
    <3>1. k \in 1 .. N + 1 /\ zz[k] = ss[k]
      BY <1>1
    <3>2. G[k][y] = y \o zz[k]
      BY <1>2, <3>1
    <3>3. H[k][y] = y \o ss[k]
      BY <1>3
    <3> QED
      BY <3>1, <3>2, <3>3, Zenon
  <2> QED
    BY <2>1 DEF SameSteps
<1>5. Ends(N, L, <<>>, G) = Ends(N, L, <<>>, H)
  BY <1>1, <1>2, <1>3, <1>4, EndsSame
<1>6. FlattenSeq(ss) = Ends(N, L, <<>>, H) /\ FlattenSeq(ss) \in L
  BY FlattenIs, FlattenType DEF L, H
<1>7. FlattenSeq(zz) = Ends(N + 1, L, <<>>, G)
  BY <1>1, FlattenIs DEF L, G
<1>8. Ends(N + 1, L, <<>>, G) = G[N + 1][Ends(N, L, <<>>, G)]
  <2> DEFINE base == <<>>
  <2>1. G \in [Nat -> [L -> L]] /\ N \in Nat /\ base \in L
    BY <1>1, <1>2 DEF StepsOn
  <2> HIDE DEF N, base
  <2>2. Ends(N + 1, L, base, G) = G[N + 1][Ends(N, L, base, G)]
    BY <2>1, OneStep
  <2> QED
    BY <2>2 DEF base, N
<1> QED
  BY <1>1, <1>2, <1>5, <1>6, <1>7, <1>8 DEF zz, L

(* Placed, of any sequence of occurrences. *)
PlacedOf(s, p) ==
  FoldLeft(LAMBDA placed, o : IF o.partition = p THEN Append(placed, o) ELSE placed,
           <<>>, s)

(* p's occurrences are kept. *)
Place(x, o, p) == IF o.partition = p THEN Append(x, o) ELSE x

(* One step per occurrence. *)
PlaceStepsOf(s, p) ==
  [k \in Nat |-> [x \in Lists(Items) |-> IF k \in DOMAIN s THEN Place(x, s[k], p) ELSE x]]

(* Each step keeps an occurrence or skips it. *)
LEMMA PlaceSteps ==
  ASSUME NEW s \in Seq(Items), NEW p
  PROVE  /\ PlaceStepsOf(s, p) \in StepsOn(Lists(Items))
         /\ \A k \in 1 .. Len(s) : \A x \in Lists(Items) :
              PlaceStepsOf(s, p)[k][x] = Place(x, s[k], p)
         /\ <<>> \in Lists(Items)
<1> DEFINE L == Lists(Items)
<1>1. \A k \in DOMAIN s : s[k] \in Items
  OBVIOUS
<1>2. DOMAIN s = 1 .. Len(s) /\ \A k \in 1 .. Len(s) : k \in Nat
  OBVIOUS
<1>3. \A x \in L : \A o \in Items : Place(x, o, p) \in L
  BY DEF Place, Lists
<1>4. <<>> \in L
  BY DEF Lists
<1> HIDE DEF L
<1>5. ASSUME NEW k \in Nat, NEW x \in L
      PROVE  (IF k \in DOMAIN s THEN Place(x, s[k], p) ELSE x) \in L
  BY <1>1, <1>3
<1>6. PlaceStepsOf(s, p) = [k \in Nat |-> [x \in L |-> IF k \in DOMAIN s THEN Place(x, s[k], p) ELSE x]]
  BY DEF PlaceStepsOf, L
<1>7. PlaceStepsOf(s, p) \in [Nat -> [L -> L]]
  BY <1>5, <1>6
<1>8. ASSUME NEW k \in 1 .. Len(s), NEW x \in L PROVE PlaceStepsOf(s, p)[k][x] = Place(x, s[k], p)
  BY <1>2, <1>6
<1> QED
  BY <1>4, <1>7, <1>8 DEF StepsOn, L

(* The recursive function of PlacedOf. *)
IsPlaced(f, s, p) ==
  f = [d \in SUBSET DOMAIN s |->
         IF d = {} THEN <<>>
         ELSE IF s[Max(d)].partition = p
              THEN Append(f[d \ {Max(d)}], s[Max(d)]) ELSE f[d \ {Max(d)}]]

(* Placed, a fold, is the last of the steps that keep or skip. *)
LEMMA PlacedIs ==
  ASSUME NEW s \in Seq(Items), NEW p
  PROVE  PlacedOf(s, p) = Ends(Len(s), Lists(Items), <<>>, PlaceStepsOf(s, p))
<1> DEFINE f == CHOOSE g : IsPlaced(g, s, p)
           L == Lists(Items)
           G == PlaceStepsOf(s, p)
           N == Len(s)
           base == <<>>
<1>1. PlacedOf(s, p) = f[DOMAIN s]
  BY DEF PlacedOf, FoldLeft, MapThenFoldSet, IsPlaced
<1>2. DOMAIN s = 1 .. N /\ N \in Nat
  OBVIOUS
<1>3. /\ G \in [Nat -> [L -> L]] /\ base \in L
      /\ \A k \in 1 .. N : \A x \in L : G[k][x] = Place(x, s[k], p)
  BY PlaceSteps DEF StepsOn
<1>4. \A d \in SUBSET (1 .. N) : d # {} => Max(d) \in 1 .. N
  BY <1>2, MaxOfPlaces
<1> HIDE DEF L, G, N, base
<1>5. \A g : IsPlaced(g, s, p) <=>
         g = [d \in SUBSET (1 .. N) |->
                IF d = {} THEN base ELSE Place(g[d \ {Max(d)}], s[Max(d)], p)]
  BY <1>2, Zenon DEF IsPlaced, Place, base
<1>6. \E g : IsPlaced(g, s, p)
  <2>1. PICK g \in [SUBSET (1 .. N) -> L] : IsFold(g, N, base, G)
    BY <1>2, <1>3, FoldGoes
  <2>2. ASSUME NEW d \in SUBSET (1 .. N)
        PROVE  g[d] = IF d = {} THEN base ELSE Place(g[d \ {Max(d)}], s[Max(d)], p)
    <3>1. g[d] = IF d = {} THEN base ELSE G[Max(d)][g[d \ {Max(d)}]]
      BY <2>1, Zenon DEF IsFold
    <3>2. g[d \ {Max(d)}] \in L
      BY <2>1
    <3> QED
      BY <1>3, <1>4, <3>1, <3>2
  <2>3. g = [d \in SUBSET (1 .. N) |-> g[d]]
    BY <2>1
  <2>4. g = [d \in SUBSET (1 .. N) |->
               IF d = {} THEN base ELSE Place(g[d \ {Max(d)}], s[Max(d)], p)]
    BY <2>2, <2>3
  <2> QED
    BY <1>5, <2>4, Zenon
<1>7. IsPlaced(f, s, p)
  BY <1>6
<1> HIDE DEF f
<1>8. \A d \in SUBSET (1 .. N) :
         f[d] = IF d = {} THEN base ELSE Place(f[d \ {Max(d)}], s[Max(d)], p)
  <2>1. f = [d \in SUBSET (1 .. N) |->
               IF d = {} THEN base ELSE Place(f[d \ {Max(d)}], s[Max(d)], p)]
    BY <1>5, <1>7, Zenon
  <2> QED
    BY <2>1, Zenon
<1>9. StepsUp(f, N, L, base, G)
  <2>1. f[{}] = base
    <3>1. {} \in SUBSET (1 .. N)
      OBVIOUS
    <3> QED
      BY <1>8, <3>1, Zenon
  <2>2. ASSUME NEW k \in 1 .. N, f[1 .. k - 1] \in L
        PROVE  f[1 .. k] = G[k][f[1 .. k - 1]]
    <3>1. 1 .. k \in SUBSET (1 .. N) /\ 1 .. k # {} /\ k \in Nat \ {0}
      <4>1. k \in 1 .. k /\ k \in Nat \ {0} /\ \A j \in 1 .. k : j \in 1 .. N
        BY <1>2
      <4>2. 1 .. k # {}
        BY <4>1, Zenon
      <4>3. 1 .. k \subseteq 1 .. N
        BY <4>1, Zenon
      <4> QED
        BY <4>1, <4>2, <4>3
    <3>2. Max(1 .. k) = k /\ (1 .. k) \ {k} = 1 .. k - 1
      BY <3>1, MaxOfInterval
    <3>3. f[1 .. k] = Place(f[(1 .. k) \ {Max(1 .. k)}], s[Max(1 .. k)], p)
      BY <1>8, <3>1, Zenon
    <3> QED
      BY <1>3, <2>2, <3>2, <3>3
  <2> QED
    BY <2>1, <2>2 DEF StepsUp
<1>10. f[1 .. N] = Ends(N, L, base, G)
  BY <1>2, <1>3, <1>9, FoldValue
<1> QED
  BY <1>1, <1>2, <1>10 DEF N, L, base, G

(* What was placed of a partition is a sequence of occurrences. *)
LEMMA PlacedType ==
  ASSUME NEW s \in Seq(Items), NEW p
  PROVE  PlacedOf(s, p) \in Seq(Items)
<1>1. Len(s) \in Nat
  OBVIOUS
<1>2. PlaceStepsOf(s, p) \in [Nat -> [Lists(Items) -> Lists(Items)]] /\ <<>> \in Lists(Items)
  BY PlaceSteps DEF StepsOn
<1>3. PlacedOf(s, p) = Ends(Len(s), Lists(Items), <<>>, PlaceStepsOf(s, p))
  BY PlacedIs
<1>4. PlacedOf(s, p) \in Lists(Items)
  BY <1>1, <1>2, <1>3, EndsType
<1> QED
  BY <1>4 DEF Lists

(* Nothing was placed in an empty order. *)
LEMMA PlacedEmpty == \A p : PlacedOf(<<>>, p) = <<>>
<1> SUFFICES ASSUME NEW p PROVE PlacedOf(<<>>, p) = <<>>
  OBVIOUS
<1> DEFINE s == <<>>
           base == <<>>
           L == Lists(Items)
           G == PlaceStepsOf(s, p)
<1>1. s \in Seq(Items) /\ Len(s) = 0
  OBVIOUS
<1> HIDE DEF s
<1>2. G \in [Nat -> [L -> L]] /\ base \in L
  BY <1>1, PlaceSteps DEF StepsOn
<1>3. PlacedOf(s, p) = Ends(0, L, base, G)
  BY <1>1, PlacedIs
<1> HIDE DEF L, G, base
<1>4. Ends(0, L, base, G) = base
  BY <1>2, NoStep
<1> QED
  BY <1>3, <1>4 DEF s, base

(* One more occurrence in the order is placed for its own partition only. *)
LEMMA PlacedAppend ==
  ASSUME NEW s \in Seq(Items), NEW o \in Items, NEW p
  PROVE  PlacedOf(Append(s, o), p) =
           IF o.partition = p THEN Append(PlacedOf(s, p), o) ELSE PlacedOf(s, p)
<1> DEFINE zz == Append(s, o)
           L == Lists(Items)
           N == Len(s)
           G == PlaceStepsOf(zz, p)
           H == PlaceStepsOf(s, p)
           base == <<>>
<1>1. /\ N \in Nat /\ zz \in Seq(Items) /\ Len(zz) = N + 1 /\ zz[N + 1] = o
      /\ \A k \in 1 .. N : zz[k] = s[k] /\ k \in 1 .. N + 1
      /\ N + 1 \in 1 .. N + 1
  OBVIOUS
<1> HIDE DEF zz, L
<1>2. /\ G \in StepsOn(L) /\ \A k \in 1 .. N + 1 : \A y \in L : G[k][y] = Place(y, zz[k], p)
      /\ base \in L
  BY <1>1, PlaceSteps DEF L
<1>3. H \in StepsOn(L) /\ \A k \in 1 .. N : \A y \in L : H[k][y] = Place(y, s[k], p)
  BY PlaceSteps DEF L
<1>6. PlacedOf(s, p) = Ends(N, L, base, H)
  BY PlacedIs DEF L, H
<1>7. PlacedOf(zz, p) = Ends(N + 1, L, base, G)
  BY <1>1, PlacedIs DEF L, G
<1> HIDE DEF G, H
<1>4. SameSteps(G, H, N, L)
  <2>1. ASSUME NEW k \in 1 .. N, NEW y \in L PROVE G[k][y] = H[k][y]
    <3>1. k \in 1 .. N + 1 /\ zz[k] = s[k]
      BY <1>1
    <3>2. G[k][y] = Place(y, zz[k], p)
      BY <1>2, <3>1
    <3>3. H[k][y] = Place(y, s[k], p)
      BY <1>3
    <3> QED
      BY <3>1, <3>2, <3>3, Zenon
  <2> QED
    BY <2>1 DEF SameSteps
<1>5. Ends(N, L, base, G) = Ends(N, L, base, H)
  <2> HIDE DEF base, N
  <2>1. N \in Nat
    BY <1>1
  <2> QED
    BY <2>1, <1>2, <1>3, <1>4, EndsSame
<1>8. G \in [Nat -> [L -> L]] /\ N \in Nat /\ base \in L
  BY <1>1, <1>2 DEF StepsOn
<1>9. Ends(N + 1, L, base, G) = G[N + 1][Ends(N, L, base, G)] /\ Ends(N, L, base, G) \in L
  <2> HIDE DEF N, base
  <2>1. Ends(N + 1, L, base, G) = G[N + 1][Ends(N, L, base, G)]
    BY <1>8, OneStep
  <2>2. Ends(N, L, base, G) \in L
    BY <1>8, EndsType
  <2> QED
    BY <2>1, <2>2
<1>10. G[N + 1][Ends(N, L, base, G)] = Place(Ends(N, L, base, G), zz[N + 1], p)
  BY <1>1, <1>2, <1>9
<1>11. PlacedOf(zz, p) = Place(PlacedOf(s, p), o, p)
  BY <1>1, <1>5, <1>6, <1>7, <1>9, <1>10
<1> QED
  BY <1>11 DEF Place, zz

------------------------------------------------------------------------------
(* Types. *)
Unfinished == {"prefix", "window", "tail", "unreachable"}
Selection == Unfinished \cup {"ceiling"}
Later == {"interleave", "pack", "materialize", "train", "trained", "rejected"}

(* The types of what decides a schedule. *)
ScheduleTypeOK ==
  /\ phase \in Selection \cup Later /\ current \in Partitions
  /\ widths \in [Partitions -> [Records -> 1 .. SequenceLength]]
  /\ budget \in [Partitions -> Nat \ {0}]
  /\ drawn \in Nat
  /\ tail \in Seq(Items)
  /\ selected \in [Partitions -> Seq(Items)]

(* The partition that is being selected: what was taken came first in the    *)
(* stream, the window comes next, and once it is open the reserve is used.   *)
Selecting(p) ==
  /\ \A i \in 1 .. Len(selected[p]) :
       selected[p][i].partition = p /\ selected[p][i].ordinal = i - 1
  /\ drawn = Len(selected[p]) + Len(tail)
  /\ Windowed(Len(selected[p]))
  /\ Total(selected[p]) <= budget[p]
  /\ phase = "prefix" => tail = <<>>
  /\ phase # "prefix" => Total(selected[p]) + Reserve + SequenceLength > budget[p]

(* An occurrence is skipped only when the window is open. *)
SkipsLate(s, b) ==
  \A i \in 1 .. Len(s) :
    s[i].ordinal >= i => Total(SubSeq(s, 1, i - 1)) + Reserve + SequenceLength > b

(* A partition that was selected. *)
Finished(p) ==
  /\ Total(selected[p]) = budget[p] /\ Len(selected[p]) <= MaxOccurrences
  /\ Rising(selected[p]) /\ SkipsLate(selected[p], budget[p])
  /\ \A i \in 1 .. Len(selected[p]) : selected[p][i].partition = p

(* A partition that was refused: too many occurrences for the tokens allowed. *)
Excessive(p) ==
  Len(selected[p]) > MaxOccurrences /\ Total(selected[p]) <= budget[p]

(* One partition after the other; what is missing cannot be had. *)
SelectionInv ==
  /\ phase \in Unfinished =>
       /\ Selecting(current)
       /\ current = "support" => Finished("target")
       /\ current = "target" => selected["support"] = <<>>
  /\ phase \in Later => Finished("target") /\ Finished("support")
  /\ phase = "ceiling" => Excessive(current)
  /\ phase = "unreachable" => Remainder \notin DOMAIN Reached(Remainder)

(* The types hold at first. *)
LEMMA ScheduleInitType == ScheduleInit => ScheduleTypeOK
<1> SUFFICES ASSUME ScheduleInit PROVE ScheduleTypeOK
  OBVIOUS
<1>1. budget \in [Partitions -> Nat \ {0}]
  BY DEF ScheduleInit
<1>2. selected \in [Partitions -> Seq(Items)]
  BY DEF ScheduleInit
<1>3. tail \in Seq(Items)
  BY DEF ScheduleInit
<1> QED
  BY <1>1, <1>2, <1>3 DEF ScheduleTypeOK, ScheduleInit, Selection, Unfinished, Partitions

(* Nothing is selected at first. *)
LEMMA ScheduleInitSelection == ScheduleInit => SelectionInv
<1> SUFFICES ASSUME ScheduleInit PROVE SelectionInv
  OBVIOUS
<1>1. /\ phase = "prefix" /\ current = "target" /\ drawn = 0 /\ tail = <<>>
      /\ selected["target"] = <<>> /\ selected["support"] = <<>>
      /\ budget["target"] \in Nat
  BY DEF ScheduleInit, Partitions
<1>2. Total(selected["target"]) = 0
  BY <1>1, TotalEmpty
<1>3. Selecting("target")
  BY <1>1, <1>2 DEF Selecting, Windowed
<1> QED
  BY <1>1, <1>3 DEF SelectionInv, Unfinished, Later

(* The next occurrence of the stream. *)
LEMMA Drawn ==
  ASSUME ScheduleTypeOK, NEW o \in Occurrences, Draw(o)
  PROVE  /\ o \in Items /\ o.partition = current /\ o.ordinal = drawn
         /\ drawn' = drawn + 1 /\ drawn' \in Nat
<1>1. PICK r \in cycle :
        /\ o = [partition |-> current, record |-> r, ordinal |-> drawn,
                width |-> widths[current][r]]
        /\ drawn' = drawn + 1
  BY DEF Draw
<1>2. o \in Items
  BY DEF Occurrences, Items, ScheduleTypeOK
<1> QED
  BY <1>1, <1>2 DEF ScheduleTypeOK

(* The window gets one more. *)
LEMMA WindowGrows ==
  ASSUME ScheduleTypeOK, NEW first \in Nat, Windowed(first), NEW o \in Items,
         o.partition = current, o.ordinal = first + Len(tail),
         tail' = Append(tail, o), current' = current
  PROVE  Windowed(first)' /\ Len(tail') = Len(tail) + 1 /\ tail' \in Seq(Items)
<1>1. tail \in Seq(Items)
  BY DEF ScheduleTypeOK
<1>2. /\ Len(tail) \in Nat /\ Len(tail') = Len(tail) + 1 /\ tail'[Len(tail) + 1] = o
      /\ \A i \in 1 .. Len(tail) : tail'[i] = tail[i]
      /\ tail' \in Seq(Items)
  BY <1>1
<1>3. ASSUME NEW i \in 1 .. Len(tail')
      PROVE  tail'[i].partition = current' /\ tail'[i].ordinal = first + (i - 1)
  <2>1. CASE i = Len(tail) + 1
    BY <1>2, <2>1
  <2>2. CASE i # Len(tail) + 1
    <3>1. i \in 1 .. Len(tail) /\ tail'[i] = tail[i]
      BY <1>2, <2>2
    <3> QED
      BY <3>1 DEF Windowed
  <2> QED
    BY <2>1, <2>2
<1> QED
  BY <1>2, <1>3 DEF Windowed

(* A finished partition stays finished. *)
LEMMA StaysFinished ==
  ASSUME NEW p, selected'[p] = selected[p], budget' = budget
  PROVE  Finished(p) => Finished(p)'
BY DEF Finished

(* The prefix keeps the selection right. *)
LEMMA PrefixSelection ==
  ASSUME ScheduleTypeOK, SelectionInv, Prefix
  PROVE  ScheduleTypeOK' /\ SelectionInv'
<1> DEFINE s == selected[current]
<1>1. /\ phase = "prefix" /\ current' = current /\ budget' = budget /\ widths' = widths
      /\ order' = order
  BY DEF Prefix
<1>2. /\ Selecting(current)
      /\ current = "support" => Finished("target")
      /\ current = "target" => selected["support"] = <<>>
  BY <1>1 DEF SelectionInv, Unfinished
<1>3. /\ s \in Seq(Items) /\ Len(s) \in Nat /\ current \in Partitions
      /\ budget[current] \in Nat /\ drawn \in Nat
  BY DEF ScheduleTypeOK
<1>4. /\ \A i \in 1 .. Len(s) : s[i].partition = current /\ s[i].ordinal = i - 1
      /\ drawn = Len(s) /\ tail = <<>>
      /\ Total(s) <= budget[current]
  BY <1>1, <1>2, <1>3 DEF Selecting
<1>5. Total(s) \in Nat
  BY <1>3, TotalType
<1> DEFINE room == budget[current] - Total(s)
<1>6. CASE ~(room > Reserve)
  <2>1. phase' = "window" /\ drawn' = drawn /\ selected' = selected /\ tail' = tail
    BY <1>6 DEF Prefix, Visible, streamVars
  <2>2. ScheduleTypeOK'
    BY <1>1, <2>1 DEF ScheduleTypeOK, Selection, Unfinished
  <2>3. Total(s) + Reserve + SequenceLength > budget[current]
    BY <1>3, <1>5, <1>6
  <2>4. Selecting(current)'
    BY <1>1, <1>2, <1>4, <2>1, <2>3 DEF Selecting, Windowed
  <2> QED
    BY <1>1, <1>2, <2>1, <2>2, <2>4, StaysFinished DEF SelectionInv, Unfinished, Later
<1>7. CASE room > Reserve
  <2>1. PICK o \in Occurrences :
          /\ Draw(o)
          /\ IF o.width <= room - Reserve
             THEN /\ selected' = [selected EXCEPT ![current] = Append(@, o)]
                  /\ phase' = IF Len(selected'[current]) > MaxOccurrences
                              THEN "ceiling" ELSE phase
                  /\ UNCHANGED tail
             ELSE tail' = <<o>> /\ phase' = "window" /\ UNCHANGED selected
    BY <1>7 DEF Prefix, Visible
  <2>2. /\ o \in Items /\ o.partition = current /\ o.ordinal = drawn
        /\ drawn' = drawn + 1 /\ drawn' \in Nat
    BY <2>1, Drawn
  <2>3. o.width \in Nat /\ o.width <= SequenceLength
    BY <2>2, ItemWidth
  <2>4. CASE o.width <= room - Reserve
    <3>1. /\ selected' = [selected EXCEPT ![current] = Append(@, o)]
          /\ phase' = IF Len(selected'[current]) > MaxOccurrences
                      THEN "ceiling" ELSE phase
          /\ tail' = tail
      BY <2>1, <2>4
    <3> DEFINE t == Append(s, o)
    <3>2. /\ t \in Seq(Items) /\ Len(t) = Len(s) + 1 /\ t[Len(s) + 1] = o
          /\ \A i \in 1 .. Len(s) : t[i] = s[i]
      BY <1>3, <2>2
    <3>3. Total(t) = Total(s) + o.width
      BY <1>3, <2>2, TotalAppend
    <3> HIDE DEF t
    <3>4. /\ selected'[current] = t
          /\ \A q \in Partitions : q # current => selected'[q] = selected[q]
          /\ selected' \in [Partitions -> Seq(Items)]
      BY <1>3, <3>1, <3>2 DEF ScheduleTypeOK, t
    <3> HIDE DEF s
    <3>5. \A i \in 1 .. Len(t) : t[i].partition = current /\ t[i].ordinal = i - 1
      <4> SUFFICES ASSUME NEW i \in 1 .. Len(t)
                   PROVE  t[i].partition = current /\ t[i].ordinal = i - 1
        OBVIOUS
      <4>1. CASE i = Len(s) + 1
        BY <1>3, <1>4, <2>2, <3>2, <4>1
      <4>2. CASE i # Len(s) + 1
        <5>1. i \in 1 .. Len(s) /\ t[i] = s[i]
          BY <1>3, <3>2, <4>2
        <5> QED
          BY <1>4, <5>1
      <4> QED
        BY <4>1, <4>2
    <3>6. Total(t) <= budget[current]
      BY <1>3, <1>5, <2>3, <2>4, <3>3
    <3>7. drawn' = Len(t) + Len(tail') /\ Len(tail') = 0
      BY <1>3, <1>4, <2>2, <3>1, <3>2
    <3>8. ASSUME phase' = phase PROVE Selecting(current)'
      <4>1. Windowed(Len(selected[current]))'
        BY <3>7 DEF Windowed
      <4>2. /\ selected'[current'] = t /\ budget'[current'] = budget[current]
            /\ phase' = "prefix" /\ tail' = <<>> /\ current' = current
        BY <1>1, <1>4, <3>1, <3>4, <3>8
      <4> QED
        BY <3>5, <3>6, <3>7, <4>1, <4>2 DEF Selecting
    <3>9. ScheduleTypeOK'
      BY <1>1, <2>2, <3>1, <3>4 DEF ScheduleTypeOK, Selection, Unfinished
    <3>10. current = "support" => Finished("target")'
      BY <1>1, <1>2, <3>4, StaysFinished DEF Partitions
    <3>11. current = "target" => selected'["support"] = <<>>
      BY <1>2, <3>4 DEF Partitions
    <3>12. CASE Len(selected'[current]) > MaxOccurrences
      <4>1. phase' = "ceiling"
        BY <3>1, <3>12
      <4>2. Excessive(current)'
        BY <1>1, <3>4, <3>6, <3>12 DEF Excessive
      <4> QED
        BY <3>9, <4>1, <4>2 DEF SelectionInv, Unfinished, Later
    <3>13. CASE ~(Len(selected'[current]) > MaxOccurrences)
      <4>1. phase' = phase
        BY <3>1, <3>13
      <4> QED
        BY <1>1, <3>8, <3>9, <3>10, <3>11, <4>1 DEF SelectionInv, Unfinished, Later
    <3> QED
      BY <3>12, <3>13
  <2>5. CASE ~(o.width <= room - Reserve)
    <3>1. tail' = <<o>> /\ phase' = "window" /\ selected' = selected
      BY <2>1, <2>5
    <3>2. tail' = Append(tail, o)
      BY <1>4, <3>1
    <3>3. Windowed(Len(s))
      BY <1>4 DEF Windowed
    <3>4. o.ordinal = Len(s) + Len(tail) /\ Len(tail) = 0
      BY <1>3, <1>4, <2>2
    <3>5. Windowed(Len(s))' /\ Len(tail') = 1 /\ tail' \in Seq(Items)
      <4> DEFINE first == Len(s)
      <4>1. first \in Nat /\ Windowed(first) /\ o.ordinal = first + Len(tail)
        BY <1>3, <3>3, <3>4
      <4>2. tail' \in Seq(Items) /\ Len(tail') = 1 /\ tail'[1] = o
        BY <2>2, <3>1
      <4>3. \A i \in 1 .. Len(tail') : i = 1
        BY <4>2
      <4> QED
        BY <1>1, <1>3, <2>2, <3>1, <3>4, <4>2, <4>3 DEF Windowed
    <3>6. Total(s) + Reserve + SequenceLength > budget[current]
      BY <1>3, <1>5, <2>3, <2>5
    <3>7. drawn' = Len(s) + Len(tail')
      BY <1>3, <1>4, <2>2, <3>5
    <3>8. Selecting(current)'
      BY <1>1, <1>4, <3>1, <3>5, <3>6, <3>7 DEF Selecting
    <3>9. ScheduleTypeOK'
      BY <1>1, <2>2, <3>1, <3>5 DEF ScheduleTypeOK, Selection, Unfinished
    <3> QED
      BY <1>1, <1>2, <3>1, <3>8, <3>9, StaysFinished DEF SelectionInv, Unfinished, Later
  <2> QED
    BY <2>4, <2>5
<1> QED
  BY <1>6, <1>7

(* So does filling the window. *)
LEMMA WindowSelection ==
  ASSUME ScheduleTypeOK, SelectionInv, Window
  PROVE  ScheduleTypeOK' /\ SelectionInv'
<1> DEFINE s == selected[current]
<1>1. /\ phase = "window" /\ current' = current /\ budget' = budget /\ widths' = widths
      /\ selected' = selected
  BY DEF Window
<1>2. /\ Selecting(current)
      /\ current = "support" => Finished("target")
      /\ current = "target" => selected["support"] = <<>>
  BY <1>1 DEF SelectionInv, Unfinished
<1>3. /\ s \in Seq(Items) /\ Len(s) \in Nat /\ tail \in Seq(Items) /\ Len(tail) \in Nat
      /\ drawn \in Nat
  BY DEF ScheduleTypeOK
<1>4. CASE ~(Len(tail) < CandidateOccurrences)
  <2>1. phase' = "tail" /\ drawn' = drawn /\ tail' = tail
    BY <1>4 DEF Window, streamVars
  <2>2. ScheduleTypeOK'
    BY <1>1, <2>1 DEF ScheduleTypeOK, Selection, Unfinished
  <2>3. Selecting(current)'
    BY <1>1, <1>2, <2>1 DEF Selecting, Windowed
  <2> QED
    BY <1>1, <1>2, <2>1, <2>2, <2>3, StaysFinished DEF SelectionInv, Unfinished, Later
<1>5. CASE Len(tail) < CandidateOccurrences
  <2>1. PICK o \in Occurrences :
          Draw(o) /\ tail' = Append(tail, o) /\ phase' = phase
    BY <1>5 DEF Window
  <2>2. /\ o \in Items /\ o.partition = current /\ o.ordinal = drawn
        /\ drawn' = drawn + 1 /\ drawn' \in Nat
    BY <2>1, Drawn
  <2>3. Windowed(Len(s)) /\ drawn = Len(s) + Len(tail)
    BY <1>2 DEF Selecting
  <2>4. Windowed(Len(s))' /\ Len(tail') = Len(tail) + 1 /\ tail' \in Seq(Items)
    <3> DEFINE first == Len(s)
    <3>1. first \in Nat /\ Windowed(first) /\ o.ordinal = first + Len(tail)
      BY <1>3, <2>2, <2>3
    <3>2. first' = first
      BY <1>1
    <3> HIDE DEF first
    <3>3. ASSUME NEW f, f = first
          PROVE  Windowed(f)' /\ Len(tail') = Len(tail) + 1 /\ tail' \in Seq(Items)
      BY <1>1, <2>1, <2>2, <3>1, <3>3, WindowGrows
    <3> QED
      BY <1>1, <3>3 DEF Windowed, first
  <2>5. Selecting(current)'
    <3>1. Windowed(Len(selected[current]))'
      BY <2>4
    <3>2. /\ selected'[current'] = s /\ budget'[current'] = budget[current]
          /\ phase' = "window" /\ current' = current
      BY <1>1, <2>1
    <3>3. drawn' = Len(s) + Len(tail')
      <4>1. drawn' = drawn + 1 /\ drawn = Len(s) + Len(tail) /\ Len(tail') = Len(tail) + 1
        BY <2>2, <2>3, <2>4
      <4>2. Len(s) \in Nat /\ Len(tail) \in Nat
        BY <1>3
      <4> HIDE DEF s
      <4> QED
        BY <4>1, <4>2
    <3>4. /\ \A i \in 1 .. Len(s) : s[i].partition = current /\ s[i].ordinal = i - 1
          /\ Total(s) <= budget[current]
          /\ Total(s) + Reserve + SequenceLength > budget[current]
      BY <1>1, <1>2 DEF Selecting
    <3> QED
      BY <3>1, <3>2, <3>3, <3>4 DEF Selecting
  <2>6. ScheduleTypeOK'
    BY <1>1, <2>1, <2>2, <2>4 DEF ScheduleTypeOK
  <2> QED
    BY <1>1, <1>2, <2>1, <2>5, <2>6, StaysFinished DEF SelectionInv, Unfinished, Later
<1> QED
  BY <1>4, <1>5

(* What came first in the stream, and then what was chosen in the window. *)
LEMMA SelectionComplete ==
  ASSUME NEW p \in Partitions, NEW b \in Nat, NEW s \in Seq(Items), NEW c \in Seq(Items),
         \A i \in 1 .. Len(s) : s[i].partition = p /\ s[i].ordinal = i - 1,
         Rising(c), NEW last, Within(c, p, Len(s), last),
         Total(s) + Total(c) = b, Total(s) + Reserve + SequenceLength > b
  PROVE  /\ s \o c \in Seq(Items) /\ Total(s \o c) = b
         /\ Rising(s \o c) /\ SkipsLate(s \o c, b)
         /\ \A i \in 1 .. Len(s \o c) : (s \o c)[i].partition = p
<1> DEFINE t == s \o c
           m == Len(s)
<1>1. /\ m \in Nat /\ Len(c) \in Nat /\ Len(t) = m + Len(c)
      /\ t \in Seq(Items)
  OBVIOUS
<1>2. \A i \in 1 .. m : t[i] = s[i]
  OBVIOUS
<1>3. \A i \in 1 .. Len(t) : i > m => i - m \in 1 .. Len(c) /\ t[i] = c[i - m]
  OBVIOUS
<1>4. Total(t) = b /\ Total(s) \in Nat
  BY TotalConcat, TotalType
<1>5. \A i \in 1 .. m : t[i].partition = p /\ t[i].ordinal = i - 1
  BY <1>2
<1>6. \A i \in 1 .. Len(c) : c[i].partition = p /\ m <= c[i].ordinal
  BY DEF Within
<1> HIDE DEF t, m
<1>7. \A i \in 1 .. Len(t) : i > m => t[i].partition = p /\ m <= t[i].ordinal
  BY <1>3, <1>6
<1>8. \A i \in 1 .. Len(t) : t[i].partition = p
  BY <1>1, <1>5, <1>7
<1>9. ASSUME NEW i \in 1 .. Len(t) - 1 PROVE t[i].ordinal < t[i + 1].ordinal
  <2>1. i \in 1 .. Len(t) /\ i + 1 \in 1 .. Len(t)
    BY <1>1
  <2>2. CASE i + 1 <= m
    <3>1. i \in 1 .. m /\ i + 1 \in 1 .. m
      BY <1>1, <2>2
    <3>2. t[i].ordinal = i - 1 /\ t[i + 1].ordinal = (i + 1) - 1
      BY <1>5, <3>1
    <3> QED
      BY <3>2
  <2>3. CASE i = m
    <3>1. t[i].ordinal = i - 1
      BY <1>5, <2>3
    <3>2. m <= t[i + 1].ordinal
      BY <1>1, <1>7, <2>1, <2>3
    <3>3. t[i + 1].ordinal \in Nat
      <4>1. t[i + 1] \in Items
        BY <1>1, <2>1
      <4> QED
        BY <4>1 DEF Items
    <3> QED
      BY <1>1, <2>3, <3>1, <3>2, <3>3
  <2>4. CASE i > m
    <3>1. t[i] = c[i - m] /\ t[i + 1] = c[(i + 1) - m]
      BY <1>1, <1>3, <2>1, <2>4
    <3>2. i - m \in 1 .. Len(c) - 1 /\ (i + 1) - m = (i - m) + 1
      BY <1>1, <2>4
    <3>3. c[i - m].ordinal < c[(i - m) + 1].ordinal
      BY <3>2 DEF Rising
    <3> QED
      BY <3>1, <3>2, <3>3
  <2> QED
    BY <1>1, <2>2, <2>3, <2>4
<1>10. ASSUME NEW i \in 1 .. Len(t), t[i].ordinal >= i
       PROVE  Total(SubSeq(t, 1, i - 1)) + Reserve + SequenceLength > b
  <2>1. i > m
    <3>1. CASE i <= m
      <4>1. i \in 1 .. m
        BY <1>1, <3>1
      <4>2. t[i].ordinal = i - 1
        BY <1>5, <4>1
      <4> QED
        BY <1>10, <4>2
    <3> QED
      BY <1>1, <3>1
  <2>2. i - 1 \in 0 .. Len(t) /\ m \in 0 .. Len(t) /\ i - 1 \in Nat /\ m <= i - 1
    BY <1>1, <2>1
  <2>3. Total(SubSeq(t, 1, i - 1)) = SumTo(Widths(t), i - 1)
    BY <1>1, <2>2, TotalPrefix
  <2>4. Widths(t) \in Weights
    BY <1>1, WidthsType
  <2>5. SumTo(Widths(t), m) = Total(s)
    <3>1. SubSeq(t, 1, m) = s
      BY DEF t, m
    <3>2. Total(SubSeq(t, 1, m)) = SumTo(Widths(t), m)
      BY <1>1, <2>2, TotalPrefix
    <3> QED
      BY <3>1, <3>2
  <2>6. SumTo(Widths(t), m) <= SumTo(Widths(t), i - 1)
    BY <1>1, <2>2, <2>4, SumGrows
  <2>7. SumTo(Widths(t), i - 1) \in Nat
    BY <2>2, <2>4, SumLaws
  <2> QED
    BY <1>4, <2>3, <2>5, <2>6, <2>7
<1> QED
  BY <1>1, <1>4, <1>8, <1>9, <1>10 DEF Rising, SkipsLate, t

(* Reached, of any window. *)
ReachOf(window, reached, i, target) ==
  LET w == window[i].width
      newly == ({s + w : s \in DOMAIN reached} \cap 0 .. target) \ DOMAIN reached
  IN IF target \in DOMAIN reached THEN reached
     ELSE [s \in DOMAIN reached \cup newly |->
             IF s \in newly THEN i ELSE reached[s]]

(* Reached of a window. *)
ReachedOf(window, target) ==
  FoldLeft(LAMBDA reached, i : ReachOf(window, reached, i, target), [s \in {0} |-> 0],
           [i \in DOMAIN window |-> i])

(* The table depends on the window alone. *)
LEMMA ReachedSame ==
  ASSUME tail' = tail, Remainder' = Remainder
  PROVE  Reached(Remainder)' = Reached(Remainder)
<1>1. Reached(Remainder) = ReachedOf(tail, Remainder)
  BY DEF Reached, ReachedOf, Reach, ReachOf
<1>2. Reached(Remainder)' = ReachedOf(tail', Remainder')
  BY DEF Reached, ReachedOf, Reach, ReachOf, FoldLeft, MapThenFoldSet
<1> QED
  BY <1>1, <1>2

(* The tail completes a partition, or nothing in the window would have. *)
LEMMA TailSelection ==
  ASSUME ScheduleTypeOK, SelectionInv, TailSelect
  PROVE  ScheduleTypeOK' /\ SelectionInv'
<1> DEFINE s == selected[current]
           b == budget[current]
           c == ChosenTail(Remainder)
<1>1. phase = "tail" /\ budget' = budget /\ widths' = widths
  BY DEF TailSelect
<1>2. /\ Selecting(current)
      /\ current = "support" => Finished("target")
      /\ current = "target" => selected["support"] = <<>>
  BY <1>1 DEF SelectionInv, Unfinished
<1>3. /\ s \in Seq(Items) /\ Len(s) \in Nat /\ tail \in Seq(Items)
      /\ current \in Partitions /\ b \in Nat
  BY DEF ScheduleTypeOK
<1>4. /\ \A i \in 1 .. Len(s) : s[i].partition = current /\ s[i].ordinal = i - 1
      /\ Windowed(Len(s)) /\ Total(s) <= b
      /\ Total(s) + Reserve + SequenceLength > b
  BY <1>1, <1>2 DEF Selecting
<1>5. Total(s) \in Nat
  BY <1>3, TotalType
<1>6. Remainder = b - Total(s)
  BY DEF Remainder, Visible
<1>7. Remainder \in Nat
  BY <1>3, <1>4, <1>5, <1>6
<1>8. CASE Remainder \notin DOMAIN Reached(Remainder)
  <2>1. /\ phase' = "unreachable" /\ current' = current /\ drawn' = drawn
        /\ tail' = tail /\ selected' = selected
    BY <1>8 DEF TailSelect, streamVars
  <2>2. ScheduleTypeOK'
    BY <1>1, <2>1 DEF ScheduleTypeOK, Selection, Unfinished
  <2>3. Selecting(current)'
    BY <1>1, <1>2, <2>1 DEF Selecting, Windowed
  <2>4. (Remainder \notin DOMAIN Reached(Remainder))'
    <3>1. Remainder' = Remainder
      BY <1>1, <2>1 DEF Remainder, Visible
    <3>2. Reached(Remainder)' = Reached(Remainder)
      BY <2>1, <3>1, ReachedSame
    <3> QED
      BY <1>8, <3>1, <3>2
  <2> QED
    BY <1>1, <1>2, <2>1, <2>2, <2>3, <2>4, StaysFinished DEF SelectionInv, Unfinished, Later
<1>9. CASE Remainder \in DOMAIN Reached(Remainder)
  <2>1. /\ selected' = [selected EXCEPT ![current] = @ \o c]
        /\ IF Len(selected'[current]) > MaxOccurrences
           THEN phase' = "ceiling" /\ UNCHANGED <<current, drawn, tail>>
           ELSE /\ tail' = <<>> /\ drawn' = 0 /\ current' = "support"
                /\ phase' = IF current = "target" THEN "prefix" ELSE "interleave"
    BY <1>9 DEF TailSelect, streamVars
  <2>2. Way(c, Remainder, Len(s), Len(tail))
    BY <1>3, <1>4, <1>7, <1>9, ChosenTailRight
  <2>3. /\ c \in Seq(Items) /\ Total(c) = Remainder /\ Rising(c)
        /\ Within(c, current, Len(s), Len(s) + Len(tail))
    BY <2>2 DEF Way
  <2> DEFINE t == s \o c
  <2>4. /\ t \in Seq(Items) /\ Total(t) = b /\ Rising(t) /\ SkipsLate(t, b)
        /\ \A i \in 1 .. Len(t) : t[i].partition = current
    <3>1. Total(s) + Total(c) = b
      BY <1>3, <1>5, <1>6, <2>3
    <3> HIDE DEF s, c, b
    <3> QED
      BY <1>3, <1>4, <2>3, <3>1, SelectionComplete
  <2> HIDE DEF c
  <2>5. /\ selected'[current] = t
        /\ \A q \in Partitions : q # current => selected'[q] = selected[q]
        /\ selected' \in [Partitions -> Seq(Items)]
    BY <1>3, <2>1, <2>4 DEF ScheduleTypeOK
  <2> HIDE DEF t
  <2>6. ScheduleTypeOK'
    <3>1. <<>> \in Seq(Items) /\ tail \in Seq(Items) /\ drawn \in Nat
      BY DEF ScheduleTypeOK
    <3>2. tail' \in Seq(Items) /\ drawn' \in Nat /\ current' \in Partitions
      <4>1. \/ tail' = tail /\ drawn' = drawn /\ current' = current
            \/ tail' = <<>> /\ drawn' = 0 /\ current' = "support"
        BY <2>1
      <4>2. "support" \in Partitions /\ current \in Partitions
        BY <1>3 DEF Partitions
      <4>3. CASE tail' = tail /\ drawn' = drawn /\ current' = current
        BY <3>1, <4>2, <4>3
      <4>4. CASE tail' = <<>> /\ drawn' = 0 /\ current' = "support"
        <5>1. tail' \in Seq(Items)
          BY <4>4
        <5>2. drawn' \in Nat /\ current' \in Partitions
          BY <4>2, <4>4
        <5> QED
          BY <5>1, <5>2
      <4> QED
        BY <4>1, <4>3, <4>4
    <3>3. phase' \in Selection \cup Later
      BY <2>1 DEF Selection, Unfinished, Later
    <3>4. /\ widths' \in [Partitions -> [Records -> 1 .. SequenceLength]]
          /\ budget' \in [Partitions -> Nat \ {0}]
      BY <1>1 DEF ScheduleTypeOK
    <3> QED
      BY <2>5, <3>2, <3>3, <3>4 DEF ScheduleTypeOK
  <2>7. CASE Len(selected'[current]) > MaxOccurrences
    <3>1. phase' = "ceiling" /\ current' = current
      BY <2>1, <2>7
    <3>2. Excessive(current)'
      BY <1>1, <1>3, <2>4, <2>5, <2>7, <3>1 DEF Excessive
    <3> QED
      BY <2>6, <3>1, <3>2 DEF SelectionInv, Unfinished, Later
  <2>8. ASSUME ~(Len(selected'[current]) > MaxOccurrences)
         PROVE  /\ tail' = <<>> /\ drawn' = 0 /\ current' = "support"
                /\ phase' = IF current = "target" THEN "prefix" ELSE "interleave"
                /\ Len(selected'[current]) <= MaxOccurrences
    <3>1. Len(selected'[current]) \in Nat
      BY <2>4, <2>5
    <3> QED
      BY <2>1, <2>8, <3>1, MaxOccurrencesType
  <2>9. CASE current = "target" /\ ~(Len(selected'[current]) > MaxOccurrences)
    <3>1. Finished("target")'
      BY <1>1, <2>4, <2>5, <2>9, <2>8 DEF Finished
    <3>2. selected'["support"] = <<>>
      BY <1>2, <2>5, <2>9 DEF Partitions
    <3>3. Selecting("support")'
      <4>1. Total(selected'["support"]) = 0 /\ budget'["support"] \in Nat
        BY <1>1, <3>2, TotalEmpty DEF ScheduleTypeOK, Partitions
      <4>2. Windowed(Len(selected["support"]))'
        BY <2>9, <2>8 DEF Windowed
      <4>3. phase' = "prefix" /\ drawn' = 0 /\ tail' = <<>>
        BY <2>9, <2>8
      <4> QED
        BY <3>2, <4>1, <4>2, <4>3 DEF Selecting
    <3> QED
      BY <2>6, <2>9, <2>8, <3>1, <3>3 DEF SelectionInv, Unfinished, Later
  <2>10. CASE current = "support" /\ ~(Len(selected'[current]) > MaxOccurrences)
    <3>1. Finished("support")'
      BY <1>1, <2>4, <2>5, <2>10, <2>8 DEF Finished
    <3>2. selected'["target"] = selected["target"]
      BY <2>5, <2>10 DEF Partitions
    <3>3. Finished("target")'
      BY <1>1, <1>2, <2>10, <3>2, StaysFinished
    <3> QED
      BY <2>6, <2>10, <2>8, <3>1, <3>3 DEF SelectionInv, Unfinished, Later
  <2> QED
    BY <1>3, <2>9, <2>10, <2>7 DEF Partitions
<1> QED
  BY <1>8, <1>9

(* What comes after the selection leaves it alone. *)
Afterwards == InterleaveNext \/ Pack \/ Materialize \/ Train

(* Later steps leave the selection alone. *)
LEMMA AfterwardsIs ==
  ASSUME Afterwards
  PROVE  /\ phase \in Later /\ phase' \in Later
         /\ UNCHANGED <<current, widths, budget, drawn, tail, selected>>
BY DEF Afterwards, InterleaveNext, Pack, Materialize, Train, Later, streamVars

(* Every step keeps types and selection. *)
LEMMA SelectionStep ==
  ASSUME ScheduleTypeOK, SelectionInv, [ScheduleNext]_scheduleVars
  PROVE  ScheduleTypeOK' /\ SelectionInv'
<1>1. CASE Prefix
  BY <1>1, PrefixSelection
<1>2. CASE Window
  BY <1>2, WindowSelection
<1>3. CASE TailSelect
  BY <1>3, TailSelection
<1>4. CASE Afterwards
  <2>1. /\ phase \in Later /\ phase' \in Later
        /\ UNCHANGED <<current, widths, budget, drawn, tail, selected>>
    BY <1>4, AfterwardsIs
  <2>2. ScheduleTypeOK'
    BY <2>1 DEF ScheduleTypeOK
  <2>3. Finished("target") /\ Finished("support")
    BY <2>1 DEF SelectionInv
  <2>4. Finished("target")' /\ Finished("support")'
    BY <2>1, <2>3, StaysFinished
  <2> QED
    BY <2>1, <2>2, <2>4 DEF SelectionInv, Unfinished, Later
<1>5. CASE UNCHANGED scheduleVars
  <2>1. UNCHANGED <<phase, current, widths, budget, drawn, tail, selected>>
    BY <1>5 DEF scheduleVars, streamVars
  <2>2. ScheduleTypeOK'
    BY <2>1 DEF ScheduleTypeOK
  <2>3. SelectionInv'
    <3>1. Remainder' = Remainder
      BY <2>1 DEF Remainder, Visible
    <3>2. Reached(Remainder)' = Reached(Remainder)
      BY <2>1, <3>1, ReachedSame
    <3>3. Selecting(current) => Selecting(current)'
      BY <2>1 DEF Selecting, Windowed
    <3>4. (Finished("target") => Finished("target")') /\ (Finished("support") => Finished("support")')
      BY <2>1, StaysFinished
    <3>5. Excessive(current) => Excessive(current)'
      BY <2>1 DEF Excessive
    <3> QED
      BY <2>1, <3>1, <3>2, <3>3, <3>4, <3>5 DEF SelectionInv
  <2> QED
    BY <2>2, <2>3
<1> QED
  BY <1>1, <1>2, <1>3, <1>4, <1>5 DEF ScheduleNext, Afterwards

(* Placed, before and after a step. *)
LEMMA PlacedNow ==
  /\ \A p : Placed(p) = PlacedOf(order, p)
  /\ \A p : Placed(p)' = PlacedOf(order', p)
<1>1. \A p : Placed(p) = PlacedOf(order, p)
  BY Zenon DEF Placed, PlacedOf, FoldLeft, MapThenFoldSet
<1>2. \A p : Placed(p)' = PlacedOf(order', p)
  BY Zenon DEF Placed, PlacedOf, FoldLeft, MapThenFoldSet
<1> QED
  BY <1>1, <1>2

(* x is how s begins. *)
Beginning(x, s) == Len(x) <= Len(s) /\ \A i \in 1 .. Len(x) : x[i] = s[i]

(* A beginning that is as long is everything. *)
LEMMA BeginningAll ==
  ASSUME NEW T, NEW x \in Seq(T), NEW s \in Seq(T), Beginning(x, s), Len(x) >= Len(s)
  PROVE  x = s
<1>1. Len(x) = Len(s)
  BY DEF Beginning
<1>2. \A i \in 1 .. Len(x) : x[i] = s[i]
  BY DEF Beginning
<1> QED
  BY <1>1, <1>2

(* A beginning and the next one are a beginning. *)
LEMMA BeginningNext ==
  ASSUME NEW T, NEW x \in Seq(T), NEW s \in Seq(T), Beginning(x, s), Len(x) < Len(s)
  PROVE  s[Len(x) + 1] \in T /\ Beginning(Append(x, s[Len(x) + 1]), s)
<1> DEFINE y == Append(x, s[Len(x) + 1])
<1>1. Len(x) + 1 \in 1 .. Len(s) /\ Len(x) \in Nat /\ Len(s) \in Nat
  OBVIOUS
<1>2. s[Len(x) + 1] \in T
  BY <1>1
<1>3. Len(y) = Len(x) + 1 /\ y[Len(x) + 1] = s[Len(x) + 1] /\ \A i \in 1 .. Len(x) : y[i] = x[i]
  BY <1>2
<1> HIDE DEF y
<1>4. \A i \in 1 .. Len(y) : y[i] = s[i]
  BY <1>1, <1>3 DEF Beginning
<1> QED
  BY <1>1, <1>2, <1>3, <1>4 DEF Beginning, y

(* The order holds beginnings of both selections and nothing else. *)
OrderInv ==
  /\ order \in Seq(Items)
  /\ phase \in Selection => order = <<>>
  /\ \A p \in Partitions : Beginning(PlacedOf(order, p), selected[p])
  /\ Total(order) = Total(PlacedOf(order, "target")) + Total(PlacedOf(order, "support"))
  /\ phase \in Later \ {"interleave"} =>
       \A p \in Partitions : PlacedOf(order, p) = selected[p]

(* Neither partition is further ahead than one occurrence. *)
Even(t, s, bt, bs) ==
  /\ t * bs <= s * bt + SequenceLength * bs
  /\ s * bt <= t * bs + SequenceLength * bt

(* While both have some left, their shares are even. *)
SharesInv ==
  LET t == PlacedOf(order, "target")  s == PlacedOf(order, "support") IN
  phase = "interleave" /\ Len(t) < Len(selected["target"])
                       /\ Len(s) < Len(selected["support"])
    => Even(Total(t), Total(s), budget["target"], budget["support"])

(* Before anything is placed. *)
NothingPlaced ==
  ScheduleTypeOK /\ order = <<>> /\ phase \in Selection \cup {"interleave"}

(* An empty order is right. *)
LEMMA OrderEmpty == NothingPlaced => OrderInv /\ SharesInv
<1> SUFFICES ASSUME ScheduleTypeOK, order = <<>>, phase \in Selection \cup {"interleave"}
             PROVE  OrderInv /\ SharesInv
  BY DEF NothingPlaced
<1>1. \A p : PlacedOf(order, p) = <<>>
  BY PlacedEmpty
<1>2. Total(<<>>) = 0
  BY TotalEmpty
<1>3. \A p \in Partitions : selected[p] \in Seq(Items) /\ budget[p] \in Nat
  BY DEF ScheduleTypeOK
<1>4. \A p \in Partitions : Beginning(<<>>, selected[p])
  BY <1>3 DEF Beginning
<1>5. phase \notin Later \ {"interleave"}
  BY DEF Selection, Unfinished, Later
<1>6. order \in Seq(Items)
  OBVIOUS
<1>7. OrderInv
  BY <1>1, <1>2, <1>4, <1>5, <1>6 DEF OrderInv
<1>8. Even(0, 0, budget["target"], budget["support"])
  <2>1. budget["target"] \in Nat /\ budget["support"] \in Nat
    BY <1>3 DEF Partitions
  <2>2. SequenceLength * budget["support"] \in Nat /\ SequenceLength * budget["target"] \in Nat
    BY <2>1 DEF ScheduleAssumption
  <2> QED
    BY <2>1, <2>2 DEF Even
<1> QED
  BY <1>1, <1>2, <1>7, <1>8 DEF SharesInv

(* The same after a step. *)
LEMMA OrderEmptyNext == NothingPlaced' => OrderInv' /\ SharesInv'
BY OrderEmpty, PTL

(* While partitions are selected nothing is ordered. *)
LEMMA SelectionOrder ==
  ASSUME ScheduleTypeOK', OrderInv, Prefix \/ Window \/ TailSelect
  PROVE  OrderInv' /\ SharesInv'
<1>1. phase \in Selection /\ order' = order /\ phase' \in Selection \cup {"interleave"}
  BY DEF Prefix, Window, TailSelect, Selection, Unfinished
<1>2. order' = <<>>
  BY <1>1 DEF OrderInv
<1>3. NothingPlaced'
  BY <1>1, <1>2 DEF NothingPlaced
<1> QED
  BY <1>3, OrderEmptyNext

(* The other partition. *)
Other(p) == IF p = "target" THEN "support" ELSE "target"

(* p's next occurrence is placed. *)
PlaceNext(p) ==
  /\ Len(PlacedOf(order, p)) < Len(selected[p])
  /\ order' = Append(order, selected[p][Len(PlacedOf(order, p)) + 1])

(* A step of InterleaveNext: both are used up, or one that has some left is next. *)
LEMMA TurnIs ==
  ASSUME ScheduleTypeOK, OrderInv, InterleaveNext
  PROVE  /\ phase = "interleave"
         /\ UNCHANGED <<widths, budget, current, drawn, tail, selected, packs, ledger>>
         /\ \/ /\ phase' = "pack" /\ order' = order
               /\ \A p \in Partitions : Len(PlacedOf(order, p)) >= Len(selected[p])
            \/ /\ phase' = phase
               /\ \E p \in Partitions :
                    /\ PlaceNext(p)
                    /\ Len(PlacedOf(order, Other(p))) < Len(selected[Other(p)])
                         => (p = "target" <=> TargetTurn)
<1>1. \A p : Placed(p) = PlacedOf(order, p)
  BY PlacedNow
<1>2. \A p \in Partitions : /\ Len(PlacedOf(order, p)) \in Nat /\ Len(selected[p]) \in Nat
                            /\ Left(p) <=> Len(PlacedOf(order, p)) < Len(selected[p])
  <2>1. \A p \in Partitions : PlacedOf(order, p) \in Seq(Items) /\ selected[p] \in Seq(Items)
    BY PlacedType DEF OrderInv, ScheduleTypeOK
  <2> QED
    BY <1>1, <2>1 DEF Left
<1>3. /\ phase = "interleave"
      /\ UNCHANGED <<widths, budget, current, drawn, tail, selected, packs, ledger>>
  BY DEF InterleaveNext, streamVars
<1>4. CASE ~Left("target") /\ ~Left("support")
  <2>1. phase' = "pack" /\ order' = order
    BY <1>4 DEF InterleaveNext
  <2> QED
    BY <1>2, <1>3, <1>4, <2>1 DEF Partitions
<1>5. CASE Left("target") \/ Left("support")
  <2> DEFINE p == IF ~Left("target") THEN "support"
                  ELSE IF ~Left("support") THEN "target"
                  ELSE IF TargetTurn THEN "target" ELSE "support"
  <2>1. order' = Append(order, selected[p][Len(Placed(p)) + 1]) /\ phase' = phase
    BY <1>5 DEF InterleaveNext
  <2>2. p \in Partitions /\ Left(p)
    BY <1>5 DEF Partitions
  <2>3. PlaceNext(p)
    BY <1>1, <1>2, <2>1, <2>2 DEF PlaceNext
  <2>4. Left(Other(p)) => (p = "target" <=> TargetTurn)
    BY <1>5 DEF Other
  <2>5. Other(p) \in Partitions
    BY DEF Other, Partitions
  <2> HIDE DEF p
  <2> QED
    BY <1>2, <1>3, <2>1, <2>2, <2>3, <2>4, <2>5
<1> QED
  BY <1>4, <1>5

(* What placing changes. *)
LEMMA PlacingOne ==
  ASSUME ScheduleTypeOK, OrderInv, Finished("target"), Finished("support"),
         NEW p \in Partitions, PlaceNext(p), selected' = selected
  PROVE  /\ order' \in Seq(Items)
         /\ \A q \in Partitions : Beginning(PlacedOf(order', q), selected'[q])
         /\ \A q \in Partitions : q # p => PlacedOf(order', q) = PlacedOf(order, q)
         /\ Len(PlacedOf(order', p)) = Len(PlacedOf(order, p)) + 1
         /\ \E n \in Nat :
              /\ n >= 1 /\ n <= SequenceLength
              /\ Total(order') = Total(order) + n
              /\ Total(PlacedOf(order', p)) = Total(PlacedOf(order, p)) + n
<1> DEFINE x == PlacedOf(order, p)
           s == selected[p]
           o == s[Len(x) + 1]
<1>1. /\ order \in Seq(Items) /\ \A q \in Partitions : Beginning(PlacedOf(order, q), selected[q])
  BY DEF OrderInv
<1>2. \A q \in Partitions : PlacedOf(order, q) \in Seq(Items) /\ selected[q] \in Seq(Items)
  BY <1>1, PlacedType DEF ScheduleTypeOK
<1>3. Len(x) < Len(s) /\ order' = Append(order, o)
  BY DEF PlaceNext
<1>4. x \in Seq(Items) /\ s \in Seq(Items) /\ Beginning(x, s)
  BY <1>1, <1>2
<1>5. o.partition = p
  <2>1. \A i \in 1 .. Len(s) : s[i].partition = p
    BY DEF Finished, Partitions
  <2>2. Len(x) + 1 \in 1 .. Len(s)
    BY <1>3, <1>4
  <2> QED
    BY <2>1, <2>2
<1> HIDE DEF x, s
<1>6. o \in Items /\ Beginning(Append(x, o), s)
  BY <1>3, <1>4, BeginningNext
<1> HIDE DEF o
<1>7. \A q : PlacedOf(order', q) =
               IF o.partition = q THEN Append(PlacedOf(order, q), o) ELSE PlacedOf(order, q)
  BY <1>1, <1>3, <1>6, PlacedAppend
<1>8. PlacedOf(order', p) = Append(x, o)
  BY <1>5, <1>7 DEF x
<1>9. \A q \in Partitions : q # p => PlacedOf(order', q) = PlacedOf(order, q)
  BY <1>5, <1>7
<1>10. order' \in Seq(Items) /\ Total(order') = Total(order) + o.width
  BY <1>1, <1>3, <1>6, TotalAppend
<1>11. /\ Total(PlacedOf(order', p)) = Total(x) + o.width
       /\ Len(PlacedOf(order', p)) = Len(x) + 1
  <2>1. Len(Append(x, o)) = Len(x) + 1
    BY <1>4, <1>6
  <2> QED
    BY <1>4, <1>6, <1>8, <2>1, TotalAppend
<1>12. \A q \in Partitions : Beginning(PlacedOf(order', q), selected'[q])
  BY <1>1, <1>6, <1>8, <1>9 DEF s
<1>13. o.width \in Nat /\ o.width >= 1 /\ o.width <= SequenceLength
  BY <1>6, ItemWidth
<1> QED
  BY <1>9, <1>10, <1>11, <1>12, <1>13 DEF x

(* The one that does not lead its share may take n more. *)
LEMMA EvenStep ==
  ASSUME NEW t \in Nat, NEW s \in Nat, NEW bt \in Nat, NEW bs \in Nat, NEW n \in Nat,
         n <= SequenceLength, Even(t, s, bt, bs)
  PROVE  /\ t * bs <= s * bt => Even(t + n, s, bt, bs)
         /\ ~(t * bs <= s * bt) => Even(t, s + n, bt, bs)
<1>1. SequenceLength \in Nat
  BY DEF ScheduleAssumption
<1>2. /\ n * bs <= SequenceLength * bs /\ n * bt <= SequenceLength * bt
      /\ n * bs \in Nat /\ n * bt \in Nat
      /\ SequenceLength * bs \in Nat /\ SequenceLength * bt \in Nat
  BY <1>1
<1>3. /\ (t + n) * bs = t * bs + n * bs /\ (s + n) * bt = s * bt + n * bt
      /\ t * bs \in Nat /\ s * bt \in Nat
  OBVIOUS
<1>4. t * bs <= s * bt + SequenceLength * bs /\ s * bt <= t * bs + SequenceLength * bt
  BY DEF Even
<1> QED
  BY <1>2, <1>3, <1>4 DEF Even

(* Interleaving keeps the order right and the shares even. *)
LEMMA InterleaveOrder ==
  ASSUME ScheduleTypeOK, SelectionInv, OrderInv, SharesInv, InterleaveNext
  PROVE  OrderInv' /\ SharesInv'
<1>1. /\ phase = "interleave"
      /\ UNCHANGED <<widths, budget, current, drawn, tail, selected, packs, ledger>>
      /\ \/ /\ phase' = "pack" /\ order' = order
            /\ \A p \in Partitions : Len(PlacedOf(order, p)) >= Len(selected[p])
         \/ /\ phase' = phase
            /\ \E p \in Partitions :
                 /\ PlaceNext(p)
                 /\ Len(PlacedOf(order, Other(p))) < Len(selected[Other(p)])
                      => (p = "target" <=> TargetTurn)
  BY TurnIs
<1>2. Finished("target") /\ Finished("support")
  BY <1>1 DEF SelectionInv, Later
<1>3. \A q \in Partitions : PlacedOf(order, q) \in Seq(Items) /\ selected[q] \in Seq(Items)
  BY PlacedType DEF OrderInv, ScheduleTypeOK
<1>4. CASE /\ phase' = "pack" /\ order' = order
           /\ \A p \in Partitions : Len(PlacedOf(order, p)) >= Len(selected[p])
  <2>1. \A p \in Partitions : PlacedOf(order, p) = selected[p]
    BY <1>3, <1>4, BeginningAll DEF OrderInv
  <2> QED
    BY <1>1, <1>4, <2>1 DEF OrderInv, SharesInv, Selection, Unfinished, Later
<1>5. CASE /\ phase' = phase
           /\ \E p \in Partitions :
                /\ PlaceNext(p)
                /\ Len(PlacedOf(order, Other(p))) < Len(selected[Other(p)])
                     => (p = "target" <=> TargetTurn)
  <2>1. PICK p \in Partitions :
          /\ PlaceNext(p)
          /\ Len(PlacedOf(order, Other(p))) < Len(selected[Other(p)])
               => (p = "target" <=> TargetTurn)
    BY <1>5
  <2>2. /\ order' \in Seq(Items)
        /\ \A q \in Partitions : Beginning(PlacedOf(order', q), selected'[q])
        /\ \A q \in Partitions : q # p => PlacedOf(order', q) = PlacedOf(order, q)
        /\ Len(PlacedOf(order', p)) = Len(PlacedOf(order, p)) + 1
        /\ \E n \in Nat :
             /\ n >= 1 /\ n <= SequenceLength
             /\ Total(order') = Total(order) + n
             /\ Total(PlacedOf(order', p)) = Total(PlacedOf(order, p)) + n
    BY <1>1, <1>2, <2>1, PlacingOne
  <2>3. PICK n \in Nat :
          /\ n >= 1 /\ n <= SequenceLength
          /\ Total(order') = Total(order) + n
          /\ Total(PlacedOf(order', p)) = Total(PlacedOf(order, p)) + n
    BY <2>2
  <2> DEFINE t == Total(PlacedOf(order, "target"))
             s == Total(PlacedOf(order, "support"))
             bt == budget["target"]
             bs == budget["support"]
  <2>4. t \in Nat /\ s \in Nat /\ bt \in Nat /\ bs \in Nat
    BY <1>3, TotalType DEF ScheduleTypeOK, Partitions
  <2>5. Total(order) = t + s
    BY DEF OrderInv
  <2>6. TargetTurn <=> t * bs <= s * bt
    BY PlacedNow DEF TargetTurn
  <2>7. p = "target" => /\ Total(PlacedOf(order', "target")) = t + n
                        /\ Total(PlacedOf(order', "support")) = s
    BY <2>2, <2>3 DEF Partitions
  <2>8. p = "support" => /\ Total(PlacedOf(order', "target")) = t
                         /\ Total(PlacedOf(order', "support")) = s + n
    BY <2>2, <2>3 DEF Partitions
  <2>9. p = "target" \/ p = "support"
    BY DEF Partitions
  <2> HIDE DEF t, s, bt, bs
  <2>10. Total(order') = Total(PlacedOf(order', "target")) + Total(PlacedOf(order', "support"))
    BY <2>3, <2>4, <2>5, <2>7, <2>8, <2>9
  <2>11. OrderInv'
    BY <1>1, <1>5, <2>2, <2>10 DEF OrderInv, Selection, Unfinished, Later
  <2>12. ASSUME Len(PlacedOf(order', "target")) < Len(selected["target"]),
                Len(PlacedOf(order', "support")) < Len(selected["support"])
         PROVE  Even(Total(PlacedOf(order', "target")), Total(PlacedOf(order', "support")), bt, bs)
    <3>1. \A q \in Partitions :
            /\ Len(PlacedOf(order, q)) \in Nat /\ Len(selected[q]) \in Nat
            /\ Len(PlacedOf(order, q)) <= Len(PlacedOf(order', q))
      BY <1>3, <2>2
    <3>2. /\ Len(PlacedOf(order, "target")) < Len(selected["target"])
          /\ Len(PlacedOf(order, "support")) < Len(selected["support"])
      <4>1. \A q \in Partitions : Len(PlacedOf(order', q)) \in Nat
        BY <2>2, PlacedType
      <4> QED
        BY <2>12, <3>1, <4>1 DEF Partitions
    <3>3. Even(t, s, bt, bs)
      BY <1>1, <3>2 DEF SharesInv, t, s, bt, bs
    <3>4. /\ t * bs <= s * bt => Even(t + n, s, bt, bs)
          /\ ~(t * bs <= s * bt) => Even(t, s + n, bt, bs)
      BY <2>3, <2>4, <3>3, EvenStep
    <3>5. p = "target" <=> TargetTurn
      BY <2>1, <2>9, <3>2 DEF Other
    <3> QED
      BY <2>6, <2>7, <2>8, <2>9, <3>4, <3>5
  <2>13. SharesInv'
    BY <1>1, <2>12 DEF SharesInv, bt, bs
  <2> QED
    BY <2>11, <2>13
<1> QED
  BY <1>1, <1>4, <1>5

(* Every step does. *)
LEMMA OrderStep ==
  ASSUME ScheduleTypeOK, ScheduleTypeOK', SelectionInv, OrderInv, SharesInv,
         [ScheduleNext]_scheduleVars
  PROVE  OrderInv' /\ SharesInv'
<1>1. CASE Prefix \/ Window \/ TailSelect
  BY <1>1, SelectionOrder
<1>2. CASE InterleaveNext
  BY <1>2, InterleaveOrder
<1>3. CASE Pack \/ Materialize \/ Train
  <2>1. /\ order' = order /\ selected' = selected /\ phase \in Later \ {"interleave"}
        /\ phase' \in Later \ {"interleave"}
    BY <1>3 DEF Pack, Materialize, Train, Later
  <2> QED
    BY <2>1 DEF OrderInv, SharesInv, Selection, Unfinished, Later
<1>4. CASE UNCHANGED scheduleVars
  <2>1. UNCHANGED <<phase, order, selected, budget>>
    BY <1>4 DEF scheduleVars
  <2> QED
    BY <2>1 DEF OrderInv, SharesInv
<1> QED
  BY <1>1, <1>2, <1>3, <1>4 DEF ScheduleNext

(* All of it. *)
ScheduleInv == ScheduleTypeOK /\ SelectionInv /\ OrderInv /\ SharesInv

(* The order is right at first. *)
LEMMA ScheduleInitOrder == ScheduleInit => OrderInv /\ SharesInv
<1> SUFFICES ASSUME ScheduleInit PROVE NothingPlaced
  BY OrderEmpty
<1> QED
  BY ScheduleInitType DEF ScheduleInit, NothingPlaced, Selection, Unfinished

(* What the invariant was for. *)
LEMMA InvMeansScheduleRight == ScheduleInv => ScheduleRight
<1> SUFFICES ASSUME ScheduleInv PROVE ScheduleRight
  OBVIOUS
<1>1. ScheduleTypeOK /\ SelectionInv /\ OrderInv /\ SharesInv
  BY DEF ScheduleInv
<1>2. ASSUME phase \notin Selection, NEW p \in Partitions
      PROVE  /\ Visible(p) = budget[p] /\ Len(selected[p]) <= MaxOccurrences
             /\ \A i \in 1 .. Len(selected[p]) - 1 :
                  selected[p][i].ordinal < selected[p][i + 1].ordinal
             /\ \A i \in DOMAIN selected[p] :
                  selected[p][i].ordinal >= i
                    => Total(SubSeq(selected[p], 1, i - 1)) + Reserve + SequenceLength
                         > budget[p]
  <2>1. Finished(p)
    BY <1>1, <1>2 DEF SelectionInv, ScheduleTypeOK, Partitions
  <2>2. DOMAIN selected[p] = 1 .. Len(selected[p])
    BY <1>1 DEF ScheduleTypeOK
  <2> QED
    BY <2>1, <2>2 DEF Finished, Rising, SkipsLate, Visible
<1>3. ASSUME phase = "unreachable", NEW chosen \in SUBSET DOMAIN tail
      PROVE  Remainder # WidthOf(chosen)
  <2>1. Remainder \notin DOMAIN Reached(Remainder) /\ Selecting(current)
    BY <1>1, <1>3 DEF SelectionInv, Unfinished
  <2>2. /\ Total(selected[current]) <= budget[current] /\ budget[current] \in Nat
        /\ selected[current] \in Seq(Items) /\ tail \in Seq(Items)
    BY <1>1, <2>1 DEF Selecting, ScheduleTypeOK
  <2>3. Total(selected[current]) \in Nat
    BY <2>2, TotalType
  <2>4. Remainder \in Nat
    BY <2>2, <2>3 DEF Remainder, Visible
  <2> QED
    BY <2>1, <2>2, <2>4, Unreachable
<1>4. ASSUME phase = "ceiling"
      PROVE  /\ MaxOccurrences < Len(selected[current])
             /\ Len(selected[current]) <= Visible(current)
             /\ Visible(current) <= budget[current]
  <2>1. Excessive(current) /\ selected[current] \in Seq(Items)
    BY <1>1, <1>4 DEF SelectionInv, ScheduleTypeOK
  <2>2. Len(selected[current]) \in Nat
    BY <2>1
  <2> QED
    BY <2>1, <2>2, TotalAtLeast, MaxOccurrencesType DEF Excessive, Visible
<1>5. SelectedExactly
  BY <1>2, <1>3, <1>4 DEF SelectedExactly, Selection, Unfinished
<1>6. SharesKept
  <2>1. \A p : Placed(p) = PlacedOf(order, p)
    BY PlacedNow
  <2> QED
    BY <1>1, <2>1 DEF SharesKept, SharesInv, Even, Left
<1> QED
  BY <1>5, <1>6 DEF ScheduleRight

(* A partition's selection meets its budget exactly and within the ceiling,  *)
(* takes no occurrence twice and skips none early; preparing fails only if   *)
(* no choice from the window meets the remainder or what was taken exceeds   *)
(* the ceiling, which a budget of at most the ceiling never does; and        *)
(* neither partition runs ahead of its share: _select_partition and          *)
(* _interleave of token_schedule.py, for all records, budgets and sizes.     *)
THEOREM ScheduleRightCorrect == ScheduleSpec => []ScheduleRight
<1>1. ScheduleInit => ScheduleInv
  BY ScheduleInitType, ScheduleInitSelection, ScheduleInitOrder DEF ScheduleInv
<1>2. ScheduleInv /\ [ScheduleNext]_scheduleVars => ScheduleInv'
  BY SelectionStep, OrderStep DEF ScheduleInv
<1>3. ScheduleInv => ScheduleRight
  BY InvMeansScheduleRight
<1> QED
  BY <1>1, <1>2, <1>3, PTL DEF ScheduleSpec

------------------------------------------------------------------------------
(* The occurrences at some places of a sequence. *)
PlacesOf(s, pack) == [i \in DOMAIN pack |-> s[pack[i]]]

(* They are occurrences, one for each place. *)
LEMMA PlacesAre ==
  ASSUME NEW s \in Seq(Items), NEW pack \in Lists(DOMAIN s)
  PROVE  /\ PlacesOf(s, pack) \in Seq(Items) /\ Len(PlacesOf(s, pack)) = Len(pack)
         /\ \A i \in 1 .. Len(pack) : PlacesOf(s, pack)[i] = s[pack[i]]
<1>1. pack \in Seq(DOMAIN s)
  BY DEF Lists
<1>2. \A i \in 1 .. Len(pack) : pack[i] \in DOMAIN s
  BY <1>1
<1>3. \A i \in 1 .. Len(pack) : s[pack[i]] \in Items
  BY <1>2
<1>4. DOMAIN pack = 1 .. Len(pack) /\ Len(pack) \in Nat
  BY <1>1
<1> QED
  BY <1>3, <1>4 DEF PlacesOf

(* Two sequences, one after the other. *)
LEMMA ConcatIs ==
  ASSUME NEW T, NEW x \in Seq(T), NEW y \in Seq(T)
  PROVE  /\ x \o y \in Seq(T) /\ Len(x \o y) = Len(x) + Len(y)
         /\ \A i \in 1 .. Len(x) : (x \o y)[i] = x[i]
         /\ \A i \in 1 .. Len(y) : (x \o y)[Len(x) + i] = y[i]
OBVIOUS

(* The occurrences at two lists of places. *)
LEMMA PlacesConcat ==
  ASSUME NEW s \in Seq(Items), NEW x \in Lists(DOMAIN s), NEW y \in Lists(DOMAIN s)
  PROVE  /\ x \o y \in Lists(DOMAIN s)
         /\ Total(PlacesOf(s, x \o y)) = Total(PlacesOf(s, x)) + Total(PlacesOf(s, y))
<1> DEFINE c == x \o y
           px == PlacesOf(s, x)
           py == PlacesOf(s, y)
           pc == PlacesOf(s, c)
<1>1. x \in Seq(DOMAIN s) /\ y \in Seq(DOMAIN s)
  BY DEF Lists
<1>2. /\ c \in Seq(DOMAIN s) /\ Len(c) = Len(x) + Len(y)
      /\ Len(x) \in Nat /\ Len(y) \in Nat
      /\ \A i \in 1 .. Len(x) : c[i] = x[i]
      /\ \A i \in 1 .. Len(y) : c[Len(x) + i] = y[i]
  BY <1>1
<1> HIDE DEF c
<1>3. c \in Lists(DOMAIN s)
  BY <1>2 DEF Lists
<1>4. /\ px \in Seq(Items) /\ Len(px) = Len(x) /\ \A i \in 1 .. Len(x) : px[i] = s[x[i]]
      /\ py \in Seq(Items) /\ Len(py) = Len(y) /\ \A i \in 1 .. Len(y) : py[i] = s[y[i]]
      /\ pc \in Seq(Items) /\ Len(pc) = Len(c) /\ \A i \in 1 .. Len(c) : pc[i] = s[c[i]]
  BY <1>3, PlacesAre
<1> HIDE DEF px, py, pc
<1>5. pc = px \o py
  <2> DEFINE q == px \o py
  <2>1. /\ px \in Seq(Items) /\ py \in Seq(Items) /\ Len(px) = Len(x) /\ Len(py) = Len(y)
        /\ pc \in Seq(Items) /\ Len(pc) = Len(x) + Len(y)
    BY <1>2, <1>4
  <2>2. /\ q \in Seq(Items) /\ Len(q) = Len(px) + Len(py)
        /\ \A i \in 1 .. Len(px) : q[i] = px[i]
        /\ \A i \in 1 .. Len(py) : q[Len(px) + i] = py[i]
    <3>1. px \in Seq(Items) /\ py \in Seq(Items)
      BY <2>1
    <3> DEFINE T == Items
    <3> HIDE DEF T
    <3>2. px \in Seq(T) /\ py \in Seq(T)
      BY <3>1 DEF T
    <3>3. /\ q \in Seq(T) /\ Len(q) = Len(px) + Len(py)
          /\ \A i \in 1 .. Len(px) : q[i] = px[i]
          /\ \A i \in 1 .. Len(py) : q[Len(px) + i] = py[i]
      BY <3>2, ConcatIs
    <3> QED
      BY <3>3 DEF T
  <2> HIDE DEF q
  <2>3. ASSUME NEW i \in 1 .. Len(c) PROVE pc[i] = q[i]
    <3>1. pc[i] = s[c[i]]
      BY <1>4
    <3>2. CASE i <= Len(x)
      <4>1. i \in 1 .. Len(x)
        BY <1>2, <3>2
      <4> QED
        BY <1>2, <1>4, <2>1, <2>2, <3>1, <4>1
    <3>3. CASE i > Len(x)
      <4> DEFINE j == i - Len(x)
      <4>1. j \in 1 .. Len(y) /\ Len(x) + j = i
        BY <1>2, <3>3
      <4> HIDE DEF j
      <4>2. c[i] = y[j] /\ q[i] = py[j]
        BY <1>2, <2>1, <2>2, <4>1
      <4> QED
        BY <1>4, <3>1, <4>1, <4>2
    <3>4. i \in Nat /\ Len(x) \in Nat
      BY <1>2
    <3> QED
      BY <3>2, <3>3, <3>4
  <2>4. Len(pc) = Len(q) /\ 1 .. Len(c) = 1 .. Len(pc)
    BY <1>2, <2>1, <2>2
  <2>5. \A i \in 1 .. Len(pc) : pc[i] = q[i]
    BY <2>3, <2>4
  <2>6. pc = q
    BY <2>1, <2>2, <2>4, <2>5
  <2> QED
    BY <2>6 DEF q
<1>6. Total(pc) = Total(px) + Total(py)
  BY <1>4, <1>5, TotalConcat
<1> QED
  BY <1>3, <1>6 DEF c, px, py, pc

(* The occurrences at one more place. *)
LEMMA PlacesAppend ==
  ASSUME NEW s \in Seq(Items), NEW x \in Lists(DOMAIN s), NEW k \in DOMAIN s
  PROVE  /\ Append(x, k) \in Lists(DOMAIN s)
         /\ Total(PlacesOf(s, Append(x, k))) = Total(PlacesOf(s, x)) + s[k].width
<1> DEFINE c == Append(x, k)
           px == PlacesOf(s, x)
           pc == PlacesOf(s, c)
<1>1. x \in Seq(DOMAIN s)
  BY DEF Lists
<1>2. /\ c \in Seq(DOMAIN s) /\ Len(c) = Len(x) + 1 /\ Len(x) \in Nat
      /\ \A i \in 1 .. Len(x) : c[i] = x[i]
      /\ c[Len(x) + 1] = k
  BY <1>1
<1> HIDE DEF c
<1>3. c \in Lists(DOMAIN s)
  BY <1>2 DEF Lists
<1>4. /\ px \in Seq(Items) /\ Len(px) = Len(x) /\ \A i \in 1 .. Len(x) : px[i] = s[x[i]]
      /\ pc \in Seq(Items) /\ Len(pc) = Len(c) /\ \A i \in 1 .. Len(c) : pc[i] = s[c[i]]
      /\ s[k] \in Items
  BY <1>3, PlacesAre
<1> HIDE DEF px, pc
<1>5. pc = Append(px, s[k])
  <2>1. ASSUME NEW i \in 1 .. Len(c) PROVE pc[i] = Append(px, s[k])[i]
    <3>1. pc[i] = s[c[i]]
      BY <1>4
    <3>2. CASE i = Len(x) + 1
      BY <1>2, <1>4, <3>1, <3>2
    <3>3. CASE i # Len(x) + 1
      <4>1. i \in 1 .. Len(x)
        BY <1>2, <3>3
      <4>2. Append(px, s[k])[i] = px[i]
        BY <1>4, <4>1
      <4> QED
        BY <1>2, <1>4, <3>1, <4>1, <4>2
    <3> QED
      BY <3>2, <3>3
  <2>2. Append(px, s[k]) \in Seq(Items) /\ Len(Append(px, s[k])) = Len(c)
    BY <1>2, <1>4
  <2> QED
    BY <1>4, <2>1, <2>2
<1>6. Total(pc) = Total(px) + s[k].width
  BY <1>4, <1>5, TotalAppend
<1> QED
  BY <1>3, <1>6 DEF c, px, pc

(* The occurrences at no place. *)
LEMMA PlacesEmpty ==
  ASSUME NEW s \in Seq(Items)
  PROVE  <<>> \in Lists(DOMAIN s) /\ Total(PlacesOf(s, <<>>)) = 0
<1> DEFINE x == <<>>
<1>1. x \in Lists(DOMAIN s) /\ Len(x) = 0
  BY DEF Lists
<1>2. PlacesOf(s, x) \in Seq(Items) /\ Len(PlacesOf(s, x)) = 0
  BY <1>1, PlacesAre
<1>3. PlacesOf(s, x) = <<>>
  BY <1>2
<1> QED
  BY <1>1, <1>3, TotalEmpty

(* A pack that holds something has a positive width. *)
LEMMA PlacesPositive ==
  ASSUME NEW s \in Seq(Items), NEW x \in Lists(DOMAIN s), Len(x) >= 1
  PROVE  Total(PlacesOf(s, x)) >= 1
<1> DEFINE px == PlacesOf(s, x)
           y == SubSeq(px, 1, 1)
<1>1. px \in Seq(Items) /\ Len(px) = Len(x)
  BY PlacesAre
<1>2. Len(px) \in Nat /\ Len(px) >= 1 /\ 1 \in 1 .. Len(px)
  BY <1>1
<1>3. px[1] \in Items
  BY <1>1, <1>2
<1>4. px[1].width \in Nat /\ px[1].width >= 1
  BY <1>3, ItemWidth
<1> HIDE DEF px
<1>5. Total(px) = SumTo(Widths(px), Len(px)) /\ Widths(px) \in Weights
      /\ Widths(px)[1] = px[1].width
  BY <1>1, <1>2, TotalIs, WidthsType
<1>6. SumTo(Widths(px), 1) = SumTo(Widths(px), 0) + Widths(px)[1]
      /\ SumTo(Widths(px), 0) = 0
  <2> DEFINE w == Widths(px)
  <2>1. w \in Weights /\ 0 \in Nat /\ 0 + 1 = 1
    BY <1>5
  <2> HIDE DEF w
  <2>2. SumTo(w, 0 + 1) = SumTo(w, 0) + w[0 + 1] /\ SumTo(w, 0) = 0
    BY <2>1, SumLaws
  <2> QED
    BY <2>1, <2>2 DEF w
<1>7. SumTo(Widths(px), 1) <= SumTo(Widths(px), Len(px))
  BY <1>2, <1>5, SumGrows
<1>8. SumTo(Widths(px), Len(px)) \in Nat
  BY <1>2, <1>5, SumLaws
<1> QED
  BY <1>4, <1>5, <1>6, <1>7, <1>8 DEF px

(* The widths of packs. *)
PackWidths(s, ss) ==
  [k \in Nat |-> IF k \in DOMAIN ss THEN Total(PlacesOf(s, ss[k])) ELSE 0]

(* Each pack's width. *)
LEMMA PackWidthsType ==
  ASSUME NEW s \in Seq(Items), NEW ss \in Seq(Lists(DOMAIN s))
  PROVE  /\ PackWidths(s, ss) \in Weights
         /\ \A k \in 1 .. Len(ss) : PackWidths(s, ss)[k] = Total(PlacesOf(s, ss[k]))
<1>1. \A k \in DOMAIN ss : Total(PlacesOf(s, ss[k])) \in Nat
  <2>1. \A k \in DOMAIN ss : ss[k] \in Lists(DOMAIN s)
    OBVIOUS
  <2>2. \A k \in DOMAIN ss : PlacesOf(s, ss[k]) \in Seq(Items)
    BY <2>1, PlacesAre
  <2> QED
    BY <2>2, TotalType
<1>2. DOMAIN ss = 1 .. Len(ss) /\ \A k \in 1 .. Len(ss) : k \in Nat
  OBVIOUS
<1> QED
  BY <1>1, <1>2 DEF PackWidths, Weights

(* All packs together are as wide as they are one by one. *)
LEMMA TotalFlat ==
  ASSUME NEW s \in Seq(Items), NEW ss \in Seq(Lists(DOMAIN s))
  PROVE  Total(PlacesOf(s, FlattenSeq(ss))) = SumTo(PackWidths(s, ss), Len(ss))
<1> DEFINE D == DOMAIN s
           N == Len(ss)
           w == PackWidths(s, ss)
           upto(k) == SubSeq(ss, 1, k)
           S == {k \in 0 .. N :
                   Total(PlacesOf(s, FlattenSeq(SubSeq(ss, 1, k)))) = SumTo(w, k)}
<1>1. /\ w \in Weights /\ \A k \in 1 .. N : w[k] = Total(PlacesOf(s, ss[k]))
      /\ N \in Nat
  BY PackWidthsType
<1> HIDE DEF w
<1>2. 0 \in S
  <2>1. SubSeq(ss, 1, 0) = <<>>
    OBVIOUS
  <2>2. FlattenSeq(SubSeq(ss, 1, 0)) = <<>>
    BY <2>1, FlattenEmpty
  <2>3. SumTo(w, 0) = 0
    BY <1>1, SumLaws
  <2> QED
    BY <1>1, <2>2, <2>3, PlacesEmpty
<1>3. ASSUME NEW k \in 1 .. N, k - 1 \in S PROVE k \in S
  <2> DEFINE x == SubSeq(ss, 1, k - 1)
             y == ss[k]
  <2>1. /\ x \in Seq(Lists(D)) /\ y \in Lists(D) /\ SubSeq(ss, 1, k) = Append(x, y)
        /\ k - 1 \in Nat /\ (k - 1) + 1 = k
    OBVIOUS
  <2>2. Total(PlacesOf(s, FlattenSeq(x))) = SumTo(w, k - 1)
    BY <1>3
  <2> HIDE DEF x, y, D
  <2>3. FlattenSeq(Append(x, y)) = FlattenSeq(x) \o y /\ FlattenSeq(x) \in Lists(D)
    BY <2>1, FlattenAppend, FlattenType
  <2>4. Total(PlacesOf(s, FlattenSeq(x) \o y))
          = Total(PlacesOf(s, FlattenSeq(x))) + Total(PlacesOf(s, y))
    BY <2>1, <2>3, PlacesConcat DEF D
  <2>5. SumTo(w, k) = SumTo(w, k - 1) + w[k]
    BY <1>1, <2>1, SumLaws
  <2>6. w[k] = Total(PlacesOf(s, y))
    BY <1>1 DEF y
  <2>7. Total(PlacesOf(s, FlattenSeq(SubSeq(ss, 1, k)))) = SumTo(w, k)
    BY <2>1, <2>2, <2>3, <2>4, <2>5, <2>6
  <2>8. k \in 0 .. N
    BY <1>1
  <2> QED
    BY <2>7, <2>8
<1>4. 0 .. N \subseteq S
  <2> HIDE DEF S
  <2> QED
    BY <1>1, <1>2, <1>3, Induction
<1>5. SubSeq(ss, 1, N) = ss /\ N \in 0 .. N
  OBVIOUS
<1> QED
  BY <1>4, <1>5 DEF w

(* The packs after the a-th, up to the b-th. *)
LEMMA TotalGroup ==
  ASSUME NEW s \in Seq(Items), NEW ss \in Seq(Lists(DOMAIN s)),
         NEW a \in Nat, NEW b \in Nat, a <= b, b <= Len(ss)
  PROVE  SumTo(PackWidths(s, ss), b) = SumTo(PackWidths(s, ss), a)
           + Total(PlacesOf(s, FlattenSeq(SubSeq(ss, a + 1, b))))
<1> DEFINE w == PackWidths(s, ss)
           g == SubSeq(ss, a + 1, b)
           v == PackWidths(s, g)
           n == b - a
           D == DOMAIN s
<1>1. /\ n \in Nat /\ b = a + n /\ Len(ss) \in Nat
      /\ \A k \in 1 .. n : a + k \in 1 .. Len(ss)
  OBVIOUS
<1>2. g \in Seq(Lists(D)) /\ Len(g) = n /\ \A k \in 1 .. n : g[k] = ss[a + k]
  <2> HIDE DEF D
  <2> QED
    BY DEF D
<1> HIDE DEF g
<1>3. w \in Weights /\ \A k \in 1 .. Len(ss) : w[k] = Total(PlacesOf(s, ss[k]))
  BY PackWidthsType
<1>4. v \in Weights /\ \A k \in 1 .. n : v[k] = Total(PlacesOf(s, g[k]))
  BY <1>2, PackWidthsType
<1>5. Total(PlacesOf(s, FlattenSeq(g))) = SumTo(v, n)
  BY <1>2, TotalFlat
<1> HIDE DEF w, v, n
<1>6. Splits(w, b, a, v, n)
  BY <1>1, <1>2, <1>3, <1>4 DEF Splits
<1>7. SumTo(w, b) = SumTo(w, a) + SumTo(v, n)
  BY <1>1, <1>3, <1>4, <1>6, SumShift
<1> QED
  BY <1>5, <1>7 DEF w, g

(* The first n places. *)
UpTo(n) == [i \in 1 .. n |-> i]

(* One more place. *)
LEMMA UpToNext ==
  ASSUME NEW n \in Nat
  PROVE  Append(UpTo(n), n + 1) = UpTo(n + 1) /\ Len(UpTo(n)) = n
<1> DEFINE x == UpTo(n)
           y == UpTo(n + 1)
<1>1. x \in Seq(Nat) /\ Len(x) = n /\ \A i \in 1 .. n : x[i] = i
  BY DEF UpTo
<1>2. y \in Seq(Nat) /\ Len(y) = n + 1 /\ \A i \in 1 .. n + 1 : y[i] = i
  BY DEF UpTo
<1> HIDE DEF x, y
<1> DEFINE z == Append(x, n + 1)
<1>3. /\ z \in Seq(Nat) /\ Len(z) = n + 1 /\ z[n + 1] = n + 1
      /\ \A i \in 1 .. n : z[i] = x[i]
  BY <1>1
<1> HIDE DEF z
<1>4. \A i \in 1 .. n + 1 : z[i] = y[i]
  <2> SUFFICES ASSUME NEW i \in 1 .. n + 1 PROVE z[i] = y[i]
    OBVIOUS
  <2>1. CASE i = n + 1
    BY <1>2, <1>3, <2>1
  <2>2. CASE i # n + 1
    <3>1. i \in 1 .. n
      BY <2>2
    <3> QED
      BY <1>1, <1>2, <1>3, <3>1
  <2> QED
    BY <2>1, <2>2
<1>5. z = y
  BY <1>2, <1>3, <1>4
<1> QED
  BY <1>1, <1>5 DEF x, y, z

(* Taking the last away and putting it back. *)
LEMMA FrontIs ==
  ASSUME NEW T, NEW s \in Seq(T), Len(s) >= 1
  PROVE  LET n == Len(s) - 1  f == SubSeq(s, 1, n) IN
         /\ n \in Nat /\ n + 1 = Len(s) /\ Len(s) \in 1 .. Len(s)
         /\ f \in Seq(T) /\ Len(f) = n /\ \A i \in 1 .. n : f[i] = s[i]
<1> DEFINE n == Len(s) - 1
           f == SubSeq(s, 1, n)
<1>1. n \in Nat /\ n + 1 = Len(s) /\ Len(s) \in 1 .. Len(s) /\ n <= Len(s)
  OBVIOUS
<1>2. f \in Seq(T) /\ Len(f) = n
  BY <1>1
<1>3. \A i \in 1 .. n : f[i] = s[i]
  BY <1>1
<1> HIDE DEF n, f
<1>4. /\ n \in Nat /\ n + 1 = Len(s) /\ Len(s) \in 1 .. Len(s)
      /\ f \in Seq(T) /\ Len(f) = n /\ \A i \in 1 .. n : f[i] = s[i]
  BY <1>1, <1>2, <1>3
<1> QED
  BY <1>4, Zenon DEF n, f

(* A sequence that has one more at its end. *)
LEMMA AppendIs ==
  ASSUME NEW T, NEW n \in Nat, NEW f \in Seq(T), Len(f) = n, NEW x \in T,
         NEW z \in Seq(T), Len(z) = n + 1, z[n + 1] = x, \A i \in 1 .. n : z[i] = f[i]
  PROVE  z = Append(f, x)
OBVIOUS

(* A sequence with one value replaced. *)
LEMMA UpdateIs ==
  ASSUME NEW T, NEW s \in Seq(T), NEW j \in 1 .. Len(s), NEW x \in T
  PROVE  /\ [s EXCEPT ![j] = x] \in Seq(T) /\ Len([s EXCEPT ![j] = x]) = Len(s)
         /\ [s EXCEPT ![j] = x][j] = x
         /\ \A i \in 1 .. Len(s) : i # j => [s EXCEPT ![j] = x][i] = s[i]
OBVIOUS

(* The last list gets one more. *)
Longer(ss, k) == [ss EXCEPT ![Len(ss)] = Append(@, k)]

(* Flattened, one more place in the last pack is one more place at the end. *)
LEMMA LastLonger ==
  ASSUME NEW T, NEW ss \in Seq(Lists(T)), Len(ss) >= 1, NEW k \in T
  PROVE  /\ Longer(ss, k) \in Seq(Lists(T)) /\ Len(Longer(ss, k)) = Len(ss)
         /\ Longer(ss, k)[Len(ss)] = Append(ss[Len(ss)], k) /\ ss[Len(ss)] \in Lists(T)
         /\ \A i \in 1 .. Len(ss) - 1 : Longer(ss, k)[i] = ss[i]
         /\ FlattenSeq(Longer(ss, k)) = Append(FlattenSeq(ss), k)
<1> DEFINE L == Lists(T)
           zz == Longer(ss, k)
           n == Len(ss) - 1
           front == SubSeq(ss, 1, n)
           last == ss[Len(ss)]
           more == Append(last, k)
<1>1. /\ n \in Nat /\ n + 1 = Len(ss) /\ Len(ss) \in 1 .. Len(ss)
      /\ front \in Seq(L) /\ Len(front) = n /\ \A i \in 1 .. n : front[i] = ss[i]
  <2>1. ss \in Seq(L)
    OBVIOUS
  <2> HIDE DEF L
  <2> QED
    BY <2>1, FrontIs
<1>2. last \in L
  BY <1>1
<1>3. more \in L
  BY <1>2 DEF Lists
<1> HIDE DEF front, L, more, last
<1>4. ss \in Seq(L) /\ ss[n + 1] = last /\ Len(ss) = n + 1
  BY <1>1 DEF L, last
<1>5. zz = [ss EXCEPT ![n + 1] = more]
  BY <1>1 DEF more, last, Longer
<1> HIDE DEF n, zz
<1>6. /\ zz \in Seq(L) /\ Len(zz) = n + 1 /\ zz[n + 1] = more
      /\ \A i \in 1 .. n : zz[i] = ss[i]
  <2>1. n + 1 \in 1 .. n + 1 /\ \A i \in 1 .. n : i # n + 1 /\ i \in 1 .. n + 1
    BY <1>1
  <2> QED
    BY <1>3, <1>4, <1>5, <2>1, UpdateIs
<1>7. ss = Append(front, last)
  BY <1>1, <1>2, <1>4, AppendIs
<1>8. zz = Append(front, more)
  BY <1>1, <1>3, <1>6, AppendIs
<1>9. FlattenSeq(ss) = FlattenSeq(front) \o last /\ FlattenSeq(zz) = FlattenSeq(front) \o more
  BY <1>1, <1>2, <1>3, <1>7, <1>8, FlattenAppend DEF L
<1>10. FlattenSeq(front) \in Lists(T)
  BY <1>1, FlattenType DEF L
<1>11. FlattenSeq(front) \o more = Append(FlattenSeq(front) \o last, k)
  <2> DEFINE x == FlattenSeq(front)
  <2>1. x \in Seq(T) /\ last \in Seq(T)
    BY <1>2, <1>10 DEF L, Lists
  <2> HIDE DEF x
  <2>2. x \o Append(last, k) = Append(x \o last, k)
    BY <2>1
  <2> QED
    BY <2>2 DEF more, x
<1> QED
  BY <1>1, <1>2, <1>4, <1>6, <1>9, <1>11 DEF L, n, more, last, zz

------------------------------------------------------------------------------
(* Packing. *)
Width(pack) == Total(PlacesOf(order, pack))

(* The packs hold the first places, each once and in order; none is too wide,
   and none was closed before it had to be. *)
PackInv ==
  /\ packs \in Seq(Lists(DOMAIN order))
  /\ phase \in Selection \cup {"interleave"} => packs = <<>>
  /\ FlattenSeq(packs) = UpTo(Packed) /\ Packed <= Len(order)
  /\ \A i \in 1 .. Len(packs) : Len(packs[i]) >= 1 /\ Width(packs[i]) <= SequenceLength
  /\ \A i \in 1 .. Len(packs) - 1 :
       Width(packs[i]) + order[packs[i + 1][1]].width > SequenceLength
  /\ phase \in {"materialize", "train", "trained"} => Packed = Len(order)
  /\ phase # "rejected"

(* Before anything is packed. *)
NothingPacked ==
  order \in Seq(Items) /\ packs = <<>> /\ phase \in Selection \cup {"interleave", "pack"}

(* Nothing is packed at first. *)
LEMMA PackEmpty == NothingPacked => PackInv
<1> SUFFICES ASSUME order \in Seq(Items), packs = <<>>,
                    phase \in Selection \cup {"interleave", "pack"}
             PROVE  PackInv
  BY DEF NothingPacked
<1>1. FlattenSeq(packs) = <<>>
  BY FlattenEmpty
<1>2. Packed = 0 /\ UpTo(0) = <<>>
  BY <1>1 DEF Packed, UpTo
<1>3. Len(packs) = 0 /\ packs \in Seq(Lists(DOMAIN order)) /\ Len(order) \in Nat
  OBVIOUS
<1>4. phase # "rejected" /\ phase \notin {"materialize", "train", "trained"}
  BY DEF Selection, Unfinished
<1> QED
  BY <1>1, <1>2, <1>3, <1>4 DEF PackInv

(* The same after a step. *)
LEMMA PackEmptyNext == NothingPacked' => PackInv'
BY PackEmpty, PTL

(* Nothing is packed before the order is complete. *)
LEMMA BeforePack ==
  ASSUME OrderInv', PackInv, Prefix \/ Window \/ TailSelect \/ InterleaveNext
  PROVE  PackInv'
<1>1. /\ phase \in Selection \cup {"interleave"}
      /\ phase' \in Selection \cup {"interleave", "pack"} /\ packs' = packs
  BY DEF Prefix, Window, TailSelect, InterleaveNext, Selection, Unfinished
<1>2. packs' = <<>>
  BY <1>1 DEF PackInv
<1>3. NothingPacked'
  BY <1>1, <1>2 DEF NothingPacked, OrderInv
<1> QED
  BY <1>3, PackEmptyNext

(* Packing takes the next place, in the last sequence if it fits there. *)
LEMMA PackStep ==
  ASSUME OrderInv, PackInv, Pack
  PROVE  PackInv'
<1> DEFINE D == DOMAIN order
           N == Len(packs)
           k == Packed + 1
<1>1. /\ order \in Seq(Items) /\ packs \in Seq(Lists(D)) /\ N \in Nat /\ Len(order) \in Nat
      /\ FlattenSeq(packs) = UpTo(Packed) /\ Packed <= Len(order)
  BY DEF OrderInv, PackInv
<1>2. phase = "pack" /\ order' = order
  BY DEF Pack
<1>3. Packed \in Nat
  <2>1. FlattenSeq(packs) \in Lists(D)
    BY <1>1, FlattenType
  <2> QED
    BY <2>1 DEF Packed, Lists
<1>4. CASE Packed = Len(order)
  <2>1. packs' = packs /\ phase' = "materialize"
    BY <1>4 DEF Pack
  <2> QED
    BY <1>2, <1>4, <2>1 DEF PackInv, Packed, Selection, Unfinished, Width
<1>5. CASE Packed # Len(order)
  <2>1. /\ packs' = IF packs # <<>> /\ Fits(Last(packs), order[k])
                    THEN [packs EXCEPT ![Len(packs)] = Append(@, k)]
                    ELSE Append(packs, <<k>>)
        /\ phase' = phase
    BY <1>5 DEF Pack
  <2>2. k \in D /\ k \in 1 .. Len(order)
    BY <1>1, <1>3, <1>5
  <2>3. order[k].width \in Nat /\ order[k].width <= SequenceLength
    <3>1. order[k] \in Items
      BY <1>1, <2>2
    <3> QED
      BY <3>1, ItemWidth
  <2> HIDE DEF k
  <2>4. /\ \A i \in 1 .. N : packs[i] \in Lists(D) /\ Len(packs[i]) >= 1
                             /\ Width(packs[i]) <= SequenceLength
        /\ \A i \in 1 .. N - 1 :
             Width(packs[i]) + order[packs[i + 1][1]].width > SequenceLength
    BY <1>1 DEF PackInv
  <2> DEFINE zz == packs'
  <2>5. ASSUME /\ zz \in Seq(Lists(D)) /\ FlattenSeq(zz) = Append(FlattenSeq(packs), k)
               /\ \A i \in 1 .. Len(zz) : Len(zz[i]) >= 1 /\ Width(zz[i]) <= SequenceLength
               /\ \A i \in 1 .. Len(zz) - 1 :
                    Width(zz[i]) + order[zz[i + 1][1]].width > SequenceLength
        PROVE  PackInv'
    <3>1. FlattenSeq(zz) = UpTo(Packed + 1) /\ Len(UpTo(Packed + 1)) = Packed + 1
      <4>1. Packed + 1 \in Nat
        BY <1>3
      <4> QED
        BY <1>1, <1>3, <2>5, <4>1, UpToNext DEF k
    <3>2. Packed' = Packed + 1
      BY <3>1 DEF Packed
    <3>3. Packed + 1 <= Len(order)
      BY <1>1, <1>3, <1>5
    <3> QED
      BY <1>2, <2>1, <2>5, <3>1, <3>2, <3>3 DEF PackInv, Width, Selection, Unfinished
  <2>6. CASE packs # <<>> /\ Fits(Last(packs), order[k])
    <3>1. zz = Longer(packs, k)
      BY <2>1, <2>6 DEF Longer
    <3>2. N >= 1 /\ N - 1 \in Nat /\ N \in 1 .. N
      BY <1>1, <2>6
    <3> HIDE DEF zz
    <3>3. /\ zz \in Seq(Lists(D)) /\ Len(zz) = N
          /\ zz[N] = Append(packs[N], k) /\ packs[N] \in Lists(D)
          /\ \A i \in 1 .. N - 1 : zz[i] = packs[i]
          /\ FlattenSeq(zz) = Append(FlattenSeq(packs), k)
      <4>1. packs \in Seq(Lists(D)) /\ Len(packs) >= 1 /\ k \in D
        BY <1>1, <2>2, <3>2
      <4> HIDE DEF D, N
      <4>2. /\ Longer(packs, k) \in Seq(Lists(D)) /\ Len(Longer(packs, k)) = Len(packs)
            /\ Longer(packs, k)[Len(packs)] = Append(packs[Len(packs)], k)
            /\ packs[Len(packs)] \in Lists(D)
            /\ \A i \in 1 .. Len(packs) - 1 : Longer(packs, k)[i] = packs[i]
            /\ FlattenSeq(Longer(packs, k)) = Append(FlattenSeq(packs), k)
        BY <4>1, LastLonger
      <4> QED
        BY <3>1, <4>2 DEF N
    <3>4. Len(zz[N]) >= 1 /\ Width(zz[N]) <= SequenceLength /\ zz[N][1] = packs[N][1]
      <4> DEFINE x == packs[N]
      <4>1. x \in Seq(D) /\ Len(x) >= 1 /\ Len(x) \in Nat
        BY <2>4, <3>2 DEF Lists
      <4>2. Width(Append(x, k)) = Width(x) + order[k].width
        BY <1>1, <2>2, <3>3, PlacesAppend DEF Width
      <4>3. Width(x) + order[k].width <= SequenceLength
        <5>1. Last(packs) = x
          BY <1>1, <3>2 DEF Last
        <5> QED
          BY <2>6, <5>1 DEF Fits, Width, Places, PlacesOf
      <4> HIDE DEF x
      <4>4. Append(x, k)[1] = x[1] /\ Len(Append(x, k)) = Len(x) + 1
        BY <2>2, <4>1
      <4>5. zz[N] = Append(x, k)
        BY <3>3 DEF x
      <4>6. Len(x) + 1 >= 1
        BY <4>1
      <4> QED
        BY <4>2, <4>3, <4>4, <4>5, <4>6 DEF x
    <3>5. ASSUME NEW i \in 1 .. N
          PROVE  Len(zz[i]) >= 1 /\ Width(zz[i]) <= SequenceLength /\ zz[i][1] = packs[i][1]
      <4>1. i = N \/ i \in 1 .. N - 1
        BY <1>1
      <4> QED
        BY <2>4, <3>3, <3>4, <4>1
    <3>6. ASSUME NEW i \in 1 .. N - 1
          PROVE  Width(zz[i]) + order[zz[i + 1][1]].width > SequenceLength
      <4>1. i + 1 \in 1 .. N
        BY <1>1
      <4> QED
        BY <2>4, <3>3, <3>5, <4>1
    <3> QED
      BY <2>5, <3>3, <3>5, <3>6 DEF zz
  <2>7. CASE ~(packs # <<>> /\ Fits(Last(packs), order[k]))
    <3> DEFINE y == <<k>>
    <3>1. zz = Append(packs, y)
      BY <2>1, <2>7
    <3>2. y \in Lists(D) /\ Len(y) = 1 /\ y[1] = k /\ y = Append(<<>>, k)
      BY <2>2 DEF Lists
    <3>3. Width(y) = order[k].width
      <4>1. /\ <<>> \in Lists(D) /\ Total(PlacesOf(order, <<>>)) = 0
        BY <1>1, PlacesEmpty
      <4>2. Total(PlacesOf(order, Append(<<>>, k)))
              = Total(PlacesOf(order, <<>>)) + order[k].width
        BY <1>1, <2>2, <4>1, PlacesAppend
      <4> QED
        BY <2>3, <3>2, <4>1, <4>2 DEF Width
    <3> HIDE DEF y, zz
    <3>4. /\ zz \in Seq(Lists(D)) /\ Len(zz) = N + 1 /\ zz[N + 1] = y
          /\ \A i \in 1 .. N : zz[i] = packs[i]
      BY <1>1, <3>1, <3>2
    <3>5. FlattenSeq(zz) = Append(FlattenSeq(packs), k)
      <4>1. FlattenSeq(zz) = FlattenSeq(packs) \o y /\ FlattenSeq(packs) \in Lists(D)
        BY <1>1, <3>1, <3>2, FlattenAppend, FlattenType
      <4> DEFINE x == FlattenSeq(packs)
      <4>2. x \in Seq(D)
        BY <4>1 DEF Lists
      <4> HIDE DEF x
      <4>3. x \o Append(<<>>, k) = Append(x, k)
        BY <2>2, <4>2
      <4> QED
        BY <3>2, <4>1, <4>3 DEF x
    <3>6. ASSUME NEW i \in 1 .. Len(zz)
          PROVE  Len(zz[i]) >= 1 /\ Width(zz[i]) <= SequenceLength
      <4>1. i = N + 1 \/ i \in 1 .. N
        BY <1>1, <3>4
      <4>2. CASE i = N + 1
        <5>1. zz[i] = y
          BY <3>4, <4>2
        <5>2. Len(y) >= 1 /\ Width(y) <= SequenceLength
          BY <2>3, <3>2, <3>3
        <5> QED
          BY <5>1, <5>2
      <4>3. CASE i \in 1 .. N
        BY <2>4, <3>4, <4>3
      <4> QED
        BY <4>1, <4>2, <4>3
    <3>7. ASSUME NEW i \in 1 .. Len(zz) - 1
          PROVE  Width(zz[i]) + order[zz[i + 1][1]].width > SequenceLength
      <4>1. i \in 1 .. N
        BY <1>1, <3>4
      <4>2. CASE i = N
        <5>1. N >= 1 /\ packs # <<>>
          BY <4>1, <4>2
        <5>2. Last(packs) = packs[N]
          BY <1>1, <5>1 DEF Last
        <5>3. ~(Width(packs[N]) + order[k].width <= SequenceLength)
          BY <2>7, <5>1, <5>2 DEF Fits, Width, Places, PlacesOf
        <5>4. Width(packs[N]) \in Nat
          <6>1. PlacesOf(order, packs[N]) \in Seq(Items)
            BY <1>1, <2>4, <4>1, <4>2, PlacesAre
          <6> QED
            BY <6>1, TotalType DEF Width
        <5>5. zz[i] = packs[N] /\ zz[i + 1][1] = k
          BY <3>2, <3>4, <4>1, <4>2
        <5>6. Width(packs[N]) + order[k].width > SequenceLength
          BY <2>3, <5>3, <5>4
        <5> QED
          BY <5>5, <5>6
      <4>3. CASE i # N
        <5>1. i \in 1 .. N - 1 /\ i + 1 \in 1 .. N
          BY <1>1, <4>1, <4>3
        <5> QED
          BY <2>4, <3>4, <4>1, <5>1
      <4> QED
        BY <4>2, <4>3
    <3> QED
      BY <2>5, <3>4, <3>5, <3>6, <3>7 DEF zz
  <2> QED
    BY <2>6, <2>7
<1> QED
  BY <1>4, <1>5

(* The validation of what was packed finds nothing. *)
LEMMA MaterializePack ==
  ASSUME OrderInv, PackInv, Materialize
  PROVE  PackInv' /\ phase' = "train"
<1>1. phase = "materialize" /\ order' = order /\ packs' = packs
  BY DEF Materialize
<1>2. Packed = Len(order) /\ order \in Seq(Items) /\ packs \in Seq(Lists(DOMAIN order))
  BY <1>1 DEF PackInv, OrderInv
<1>3. FlattenSeq(packs) = [i \in DOMAIN order |-> i]
  BY <1>2 DEF PackInv, UpTo
<1>4. \A i \in DOMAIN packs : Total(Places(packs[i])) <= SequenceLength
  <2>1. DOMAIN packs = 1 .. Len(packs)
    BY <1>2
  <2> QED
    BY <2>1 DEF PackInv, Width, Places, PlacesOf
<1>5. phase' = "train"
  BY <1>3, <1>4 DEF Materialize
<1> QED
  BY <1>1, <1>2, <1>5 DEF PackInv, Packed, Selection, Unfinished, Width

(* The quotient, rounded up. *)
LEMMA CeilDivIs ==
  ASSUME NEW a \in Nat, NEW b \in Nat, b # 0
  PROVE  /\ CeilDiv(a, b) \in Nat
         /\ CeilDiv(a, b) * b >= a /\ CeilDiv(a, b) * b < a + b
         /\ a >= 1 => CeilDiv(a, b) >= 1
<1> DEFINE c == a + b - 1
           q == c \div b
<1>1. c \in Nat
  OBVIOUS
<1> HIDE DEF c
<1>2. q \in Nat /\ c = b * q + (c % b) /\ c % b \in Nat /\ c % b < b
  BY <1>1
<1>3. CeilDiv(a, b) = q
  BY DEF CeilDiv, c
<1> HIDE DEF q
<1>4. b * q = q * b /\ q * b \in Nat
  BY <1>2
<1>5. q * b >= a /\ q * b < a + b
  BY <1>2, <1>4 DEF c
<1>6. a >= 1 => q >= 1
  <2>1. CASE q = 0
    <3>1. q * b = 0
      BY <2>1
    <3> QED
      BY <1>5, <3>1
  <2> QED
    BY <1>2, <2>1
<1> QED
  BY <1>2, <1>3, <1>5, <1>6

(* Products grow with their factors. *)
LEMMA Monotone ==
  ASSUME NEW x \in Nat, NEW y \in Nat, NEW z \in Nat, x <= y
  PROVE  x * z <= y * z /\ x * z \in Nat /\ y * z \in Nat
<1>1. PICK d \in Nat : y = x + d
  <2>1. y - x \in Nat /\ y = x + (y - x)
    OBVIOUS
  <2> QED
    BY <2>1
<1>2. y * z = x * z + d * z /\ x * z \in Nat /\ d * z \in Nat
  BY <1>1
<1> QED
  BY <1>2

(* The sequences of an update. *)
Size == MicrobatchSequences * AccumulationMicrobatches
(* Where the sequences of update u end. *)
Edge(u) == IF u * Size > Len(packs) THEN Len(packs) ELSE u * Size

(* The updates' sequences: all of them, each once, at least one per update. *)
LEMMA UpdatesCover ==
  ASSUME Len(packs) \in Nat
  PROVE  /\ Updates \in Nat /\ (Len(packs) >= 1 => Updates >= 1)
         /\ Edge(0) = 0 /\ Edge(Updates) = Len(packs)
         /\ \A u \in 1 .. Updates :
              /\ Edge(u - 1) = (u - 1) * Size /\ Edge(u - 1) \in Nat
              /\ Edge(u - 1) < Edge(u) /\ Edge(u) <= Len(packs) /\ Edge(u) \in Nat
<1> DEFINE n == Len(packs)
           m == MicrobatchSequences
           a == AccumulationMicrobatches
           M == Microbatches
           U == Updates
<1>1. m \in Nat /\ m # 0 /\ a \in Nat /\ a # 0 /\ n \in Nat
  BY DEF ScheduleAssumption
<1>2. M \in Nat /\ M * m >= n /\ M * m < n + m /\ (n >= 1 => M >= 1)
  <2>1. M = CeilDiv(n, m)
    BY DEF Microbatches
  <2> HIDE DEF M, n, m
  <2> QED
    BY <1>1, <2>1, CeilDivIs
<1>3. U \in Nat /\ U * a >= M /\ U * a < M + a /\ (M >= 1 => U >= 1)
  <2>1. U = CeilDiv(M, a)
    BY DEF Updates
  <2> HIDE DEF M, U, a
  <2> QED
    BY <1>1, <1>2, <2>1, CeilDivIs
<1>4. Size = m * a /\ Size \in Nat
  BY <1>1 DEF Size
<1>5. Edge(0) = 0
  <2>1. 0 * Size = 0
    BY <1>4
  <2> QED
    BY <1>1, <2>1 DEF Edge
<1> HIDE DEF n, m, a, M, U
<1>6. \A u \in Nat : u * Size = (u * a) * m /\ u * Size \in Nat /\ u * a \in Nat
  BY <1>1, <1>4
<1>7. U * Size >= n
  <2>1. U * a \in Nat /\ M * m <= (U * a) * m /\ M * m \in Nat
    BY <1>1, <1>2, <1>3, <1>6, Monotone
  <2>2. U * Size = (U * a) * m /\ U * Size \in Nat
    BY <1>3, <1>6
  <2> QED
    BY <1>1, <1>2, <2>1, <2>2
<1>8. Edge(U) = n
  <2>1. U * Size \in Nat
    BY <1>3, <1>6
  <2> QED
    BY <1>1, <1>7, <2>1 DEF Edge, n
<1>9. ASSUME NEW u \in 1 .. U
      PROVE  /\ Edge(u - 1) = (u - 1) * Size /\ Edge(u - 1) \in Nat
             /\ Edge(u - 1) < Edge(u) /\ Edge(u) <= n /\ Edge(u) \in Nat
  <2>1. u \in Nat /\ u - 1 \in Nat /\ U - 1 \in Nat /\ u - 1 <= U - 1 /\ U >= 1
    BY <1>3
  <2>2. (U - 1) * a < M
    <3>1. (U - 1) * a = U * a - a
      <4>1. PICK d \in Nat : d = U - 1 /\ U = d + 1
        BY <1>3, <2>1
      <4>2. (d + 1) * a = d * a + a /\ d * a \in Nat
        BY <1>1
      <4> QED
        BY <1>1, <4>1, <4>2
    <3>2. U * a \in Nat
      BY <1>3, <1>6
    <3> QED
      BY <1>1, <1>2, <1>3, <3>1, <3>2
  <2>3. (u - 1) * a <= (U - 1) * a /\ (u - 1) * a \in Nat /\ (U - 1) * a \in Nat
    BY <1>1, <2>1, Monotone
  <2> DEFINE v == (u - 1) * a
  <2>4. v \in Nat /\ M - 1 \in Nat /\ v <= M - 1
    BY <1>2, <2>2, <2>3
  <2>5. (u - 1) * Size = v * m /\ (u - 1) * Size \in Nat
    BY <1>6, <2>1
  <2> HIDE DEF v
  <2>6. v * m <= (M - 1) * m
    BY <1>1, <2>4, Monotone
  <2>7. (M - 1) * m = M * m - m /\ M * m \in Nat
    BY <1>1, <1>2
  <2>8. (u - 1) * Size < n
    BY <1>1, <1>2, <2>5, <2>6, <2>7
  <2>9. Edge(u - 1) = (u - 1) * Size
    BY <1>1, <2>5, <2>8 DEF Edge, n
  <2>10. u * Size = (u - 1) * Size + Size /\ u * Size \in Nat
    BY <1>4, <1>6, <2>1
  <2>11. Size >= 1
    <3>1. 1 <= m /\ 1 <= a /\ 1 \in Nat /\ a \in Nat
      BY <1>1
    <3>3. 1 * a = a
      BY <3>1
    <3>2. 1 * a <= m * a
      BY <1>1, <3>1, Monotone
    <3> QED
      BY <1>1, <1>4, <3>1, <3>2, <3>3
  <2>12. Edge(u) = (IF u * Size > n THEN n ELSE u * Size)
    BY DEF Edge, n
  <2>13. Edge(u) <= n /\ Edge(u) \in Nat
    BY <1>1, <2>10, <2>12
  <2>14. (u - 1) * Size < Edge(u)
    BY <1>1, <1>4, <2>5, <2>8, <2>10, <2>11, <2>12
  <2> QED
    BY <2>5, <2>9, <2>13, <2>14
<1> QED
  BY <1>2, <1>3, <1>5, <1>8, <1>9 DEF n, U

------------------------------------------------------------------------------
(* The ledger. *)
LedgerRows ==
  [update_ordinal : Nat, updates_total : Nat, previous : Nat, visible : Nat \ {0},
   slots : Nat, cumulative_visible : Nat, cumulative_slots : Nat]

(* The columns `visible' and `slots' of a ledger. *)
Seen(l) == [k \in Nat |-> IF k \in DOMAIN l THEN l[k].visible ELSE 0]
Filled(l) == [k \in Nat |-> IF k \in DOMAIN l THEN l[k].slots ELSE 0]

(* The columns that the validator sums. *)
LEMMA SeenType ==
  ASSUME NEW l \in Seq(LedgerRows)
  PROVE  /\ Seen(l) \in Weights /\ \A k \in 1 .. Len(l) : Seen(l)[k] = l[k].visible
         /\ Filled(l) \in Weights /\ \A k \in 1 .. Len(l) : Filled(l)[k] = l[k].slots
<1>1. \A k \in DOMAIN l : l[k] \in LedgerRows
  OBVIOUS
<1>2. \A k \in DOMAIN l : l[k].visible \in Nat /\ l[k].slots \in Nat
  BY <1>1 DEF LedgerRows
<1>3. DOMAIN l = 1 .. Len(l)
  OBVIOUS
<1> QED
  BY <1>2, <1>3 DEF Seen, Filled, Weights

(* Another row leaves the sums of the earlier ones. *)
LEMMA SeenAppend ==
  ASSUME NEW l \in Seq(LedgerRows), NEW row \in LedgerRows
  PROVE  /\ Append(l, row) \in Seq(LedgerRows) /\ Len(l) \in Nat
         /\ Len(Append(l, row)) = Len(l) + 1 /\ Append(l, row)[Len(l) + 1] = row
         /\ \A i \in 1 .. Len(l) :
              /\ Append(l, row)[i] = l[i]
              /\ SumTo(Seen(Append(l, row)), i) = SumTo(Seen(l), i)
              /\ SumTo(Filled(Append(l, row)), i) = SumTo(Filled(l), i)
         /\ SumTo(Seen(Append(l, row)), Len(l) + 1)
              = SumTo(Seen(l), Len(l)) + row.visible
         /\ SumTo(Filled(Append(l, row)), Len(l) + 1)
              = SumTo(Filled(l), Len(l)) + row.slots
<1> DEFINE z == Append(l, row)
           n == Len(l)
<1>1. /\ z \in Seq(LedgerRows) /\ n \in Nat /\ Len(z) = n + 1 /\ z[n + 1] = row
      /\ \A i \in 1 .. n : z[i] = l[i]
  OBVIOUS
<1> HIDE DEF z
<1>2. /\ Seen(l) \in Weights /\ \A k \in 1 .. n : Seen(l)[k] = l[k].visible
      /\ Filled(l) \in Weights /\ \A k \in 1 .. n : Filled(l)[k] = l[k].slots
  BY SeenType
<1>3. /\ Seen(z) \in Weights /\ \A k \in 1 .. n + 1 : Seen(z)[k] = z[k].visible
      /\ Filled(z) \in Weights /\ \A k \in 1 .. n + 1 : Filled(z)[k] = z[k].slots
  BY <1>1, SeenType
<1> HIDE DEF n
<1>4. ASSUME NEW i \in 0 .. n
      PROVE  SumTo(Seen(z), i) = SumTo(Seen(l), i) /\ SumTo(Filled(z), i) = SumTo(Filled(l), i)
  <2>1. i \in Nat /\ \A k \in 1 .. i : k \in 1 .. n /\ k \in 1 .. n + 1
    BY <1>1
  <2>2. \A k \in 1 .. i : Seen(z)[k] = Seen(l)[k] /\ Filled(z)[k] = Filled(l)[k]
    BY <1>1, <1>2, <1>3, <2>1
  <2> QED
    BY <1>2, <1>3, <2>1, <2>2, SumSame
<1>5. /\ SumTo(Seen(z), n + 1) = SumTo(Seen(z), n) + Seen(z)[n + 1]
      /\ SumTo(Filled(z), n + 1) = SumTo(Filled(z), n) + Filled(z)[n + 1]
  BY <1>1, <1>3, SumLaws
<1>6. n \in 0 .. n /\ n + 1 \in 1 .. n + 1 /\ \A i \in 1 .. n : i \in 0 .. n
  BY <1>1
<1>7. Seen(z)[n + 1] = row.visible /\ Filled(z)[n + 1] = row.slots
  BY <1>1, <1>3, <1>6
<1> QED
  BY <1>1, <1>4, <1>5, <1>6, <1>7 DEF z, n

(* Row i of a ledger of what these packs hold. *)
RowRight(l, i) ==
  /\ l[i].update_ordinal = i /\ l[i].updates_total = Updates /\ l[i].previous = i - 1
  /\ l[i].cumulative_visible = SumTo(Seen(l), i)
  /\ l[i].cumulative_visible = SumTo(PackWidths(order, packs), Edge(i))
  /\ l[i].cumulative_slots = SumTo(Filled(l), i)

(* Every row is right, and training ends with the last update. *)
LedgerInv ==
  /\ ledger \in Seq(LedgerRows)
  /\ phase \notin {"train", "trained"} => ledger = <<>>
  /\ Len(ledger) <= Updates \/ ledger = <<>>
  /\ phase = "trained" => Len(ledger) = Updates
  /\ \A i \in 1 .. Len(ledger) : RowRight(ledger, i)

(* Before anything is trained. *)
NothingTrained ==
  ledger = <<>> /\ phase \notin {"trained", "rejected"}

(* Nothing is trained at first. *)
LEMMA LedgerEmpty == NothingTrained => LedgerInv
<1> SUFFICES ASSUME ledger = <<>>, phase \notin {"trained", "rejected"} PROVE LedgerInv
  BY DEF NothingTrained
<1>1. ledger \in Seq(LedgerRows) /\ Len(ledger) = 0
  OBVIOUS
<1> QED
  BY <1>1 DEF LedgerInv

(* The same after a step. *)
LEMMA LedgerEmptyNext == NothingTrained' => LedgerInv'
BY LedgerEmpty, PTL

(* Nothing is trained before the packs were validated. *)
LEMMA BeforeTrain ==
  ASSUME LedgerInv, ScheduleTypeOK, phase' # "rejected",
         Prefix \/ Window \/ TailSelect \/ InterleaveNext \/ Pack \/ Materialize
  PROVE  LedgerInv'
<1>1. phase \notin {"train", "trained"} /\ ledger' = ledger /\ phase' # "trained"
  BY DEF Prefix, Window, TailSelect, InterleaveNext, Pack, Materialize
<1>2. ledger' = <<>>
  BY <1>1 DEF LedgerInv
<1>3. NothingTrained'
  BY <1>1, <1>2 DEF NothingTrained
<1> QED
  BY <1>3, LedgerEmptyNext

(* Everything that was ordered was packed. *)
LEMMA AllPacked ==
  ASSUME OrderInv, PackInv, Packed = Len(order)
  PROVE  SumTo(PackWidths(order, packs), Len(packs)) = Total(order)
<1>1. /\ order \in Seq(Items) /\ packs \in Seq(Lists(DOMAIN order))
      /\ FlattenSeq(packs) = UpTo(Packed) /\ Len(order) \in Nat
  BY DEF OrderInv, PackInv
<1>2. Total(PlacesOf(order, FlattenSeq(packs))) = SumTo(PackWidths(order, packs), Len(packs))
  BY <1>1, TotalFlat
<1>3. PlacesOf(order, UpTo(Len(order))) = order
  <2> DEFINE x == UpTo(Len(order))
             y == PlacesOf(order, x)
  <2>1. DOMAIN x = 1 .. Len(order) /\ \A i \in 1 .. Len(order) : x[i] = i
    BY <1>1 DEF UpTo
  <2> HIDE DEF x
  <2>2. DOMAIN y = 1 .. Len(order) /\ \A i \in 1 .. Len(order) : y[i] = order[i]
    BY <2>1 DEF PlacesOf
  <2>3. y = [i \in 1 .. Len(order) |-> y[i]]
    BY <2>1 DEF PlacesOf
  <2>4. order = [i \in 1 .. Len(order) |-> order[i]]
    BY <1>1
  <2> HIDE DEF y
  <2>5. y = order
    BY <2>2, <2>3, <2>4
  <2> QED
    BY <2>5 DEF x, y
<1> QED
  BY <1>1, <1>2, <1>3

(* The row of update u. *)
LEMMA RowIs ==
  ASSUME OrderInv, PackInv, LedgerInv, NEW u \in 1 .. Updates, u = Len(ledger) + 1
  PROVE  /\ Row(u) \in LedgerRows
         /\ Row(u).update_ordinal = u /\ Row(u).updates_total = Updates
         /\ Row(u).previous = u - 1
         /\ Row(u).cumulative_visible = SumTo(Seen(ledger), u - 1) + Row(u).visible
         /\ Row(u).cumulative_visible = SumTo(PackWidths(order, packs), Edge(u))
         /\ Row(u).cumulative_slots = SumTo(Filled(ledger), u - 1) + Row(u).slots
<1> DEFINE w == PackWidths(order, packs)
           g == Group(u)
           a == Edge(u - 1)
           b == Edge(u)
           visible == Total(PlacesOf(order, FlattenSeq(g)))
           slots == Len(g) * SequenceLength
           before == SumTo(Seen(ledger), u - 1)
           beforeSlots == SumTo(Filled(ledger), u - 1)
<1>1. /\ order \in Seq(Items) /\ packs \in Seq(Lists(DOMAIN order)) /\ Len(packs) \in Nat
      /\ ledger \in Seq(LedgerRows) /\ Len(ledger) \in Nat
      /\ \A i \in 1 .. Len(packs) : Len(packs[i]) >= 1
      /\ \A i \in 1 .. Len(ledger) : RowRight(ledger, i)
  BY DEF OrderInv, PackInv, LedgerInv
<1>2. /\ Updates \in Nat /\ a = (u - 1) * Size /\ a \in Nat /\ a < b /\ b <= Len(packs)
      /\ b \in Nat
  BY <1>1, UpdatesCover
<1>3. u \in Nat /\ u - 1 \in Nat /\ u - 1 = Len(ledger)
  BY <1>1, <1>2
<1>4. g = SubSeq(packs, a + 1, b)
  BY <1>2 DEF Group, Size, Edge
<1> HIDE DEF a, b, g
<1>5. w \in Weights /\ \A k \in 1 .. Len(packs) : w[k] = Total(PlacesOf(order, packs[k]))
  BY <1>1, PackWidthsType
<1>6. SumTo(w, b) = SumTo(w, a) + visible
  <2>1. a <= b
    BY <1>2
  <2> QED
    BY <1>1, <1>2, <1>4, <2>1, TotalGroup
<1>7. g \in Seq(Lists(DOMAIN order)) /\ Len(g) \in Nat
  <2> DEFINE L == Lists(DOMAIN order)
  <2>1. packs \in Seq(L)
    BY <1>1
  <2> HIDE DEF L
  <2>2. SubSeq(packs, a + 1, b) \in Seq(L)
    BY <1>2, <2>1
  <2>3. g \in Seq(L)
    BY <1>4, <2>2
  <2> QED
    BY <2>3 DEF L
<1>8. visible \in Nat
  <2>1. FlattenSeq(g) \in Lists(DOMAIN order)
    BY <1>7, FlattenType
  <2>2. PlacesOf(order, FlattenSeq(g)) \in Seq(Items)
    BY <1>1, <2>1, PlacesAre
  <2> QED
    BY <2>2, TotalType
<1> HIDE DEF visible
<1>9. visible >= 1
  <2>1. a + 1 \in 1 .. Len(packs) /\ a + 1 \in Nat /\ a + 1 <= b
    BY <1>1, <1>2
  <2>2. packs[a + 1] \in Lists(DOMAIN order)
    BY <1>1, <2>1
  <2>3. Total(PlacesOf(order, packs[a + 1])) >= 1
    BY <1>1, <2>1, <2>2, PlacesPositive
  <2>4. w[a + 1] >= 1 /\ w[a + 1] \in Nat
    BY <1>5, <2>1, <2>3 DEF Weights
  <2> HIDE DEF w
  <2>5. SumTo(w, a + 1) = SumTo(w, a) + w[a + 1] /\ SumTo(w, a) \in Nat
        /\ SumTo(w, a + 1) \in Nat /\ SumTo(w, b) \in Nat
    BY <1>2, <1>5, <2>1, SumLaws
  <2>6. SumTo(w, a + 1) <= SumTo(w, b)
    BY <1>2, <1>5, <2>1, SumGrows
  <2> QED
    BY <1>6, <1>8, <2>4, <2>5, <2>6
<1>10. slots \in Nat
  <2>1. SequenceLength \in Nat
    BY DEF ScheduleAssumption
  <2> QED
    BY <1>7, <2>1
<1> HIDE DEF slots, w
<1>11. before \in Nat /\ beforeSlots \in Nat /\ SumTo(w, a) \in Nat
  BY <1>1, <1>2, <1>3, <1>5, SeenType, SumLaws
<1> DEFINE earlier == IF u = 1 THEN [visible |-> 0, slots |-> 0]
                      ELSE [visible |-> ledger[u - 1].cumulative_visible,
                            slots |-> ledger[u - 1].cumulative_slots]
<1>12. earlier.visible = before /\ earlier.slots = beforeSlots /\ before = SumTo(w, a)
  <2>1. CASE u = 1
    <3>1. u - 1 = 0 /\ a = 0
      BY <1>1, <2>1, UpdatesCover DEF a
    <3>2. SumTo(Seen(ledger), 0) = 0 /\ SumTo(Filled(ledger), 0) = 0 /\ SumTo(w, 0) = 0
      BY <1>1, <1>5, SeenType, SumLaws
    <3> QED
      BY <2>1, <3>1, <3>2
  <2>2. CASE u # 1
    <3>1. u - 1 \in 1 .. Len(ledger)
      BY <1>3, <2>2
    <3>2. RowRight(ledger, u - 1)
      BY <1>1, <3>1
    <3> QED
      BY <2>2, <3>2 DEF RowRight, a, w
  <2> QED
    BY <2>1, <2>2
<1> DEFINE row == [update_ordinal |-> u, updates_total |-> Updates, previous |-> u - 1,
                   visible |-> visible, slots |-> slots,
                   cumulative_visible |-> earlier.visible + visible,
                   cumulative_slots |-> earlier.slots + slots]
<1>13. Row(u) = row
  BY DEF Row, visible, slots, g, Places, PlacesOf
<1> HIDE DEF earlier, before, beforeSlots
<1>14. /\ row.update_ordinal = u /\ row.updates_total = Updates /\ row.previous = u - 1
       /\ row.visible = visible /\ row.slots = slots
       /\ row.cumulative_visible = before + visible
       /\ row.cumulative_slots = beforeSlots + slots
  BY <1>12
<1>15. row \in LedgerRows
  <2>1. before + visible \in Nat /\ beforeSlots + slots \in Nat /\ visible \in Nat \ {0}
    BY <1>8, <1>9, <1>10, <1>11
  <2> QED
    BY <1>2, <1>3, <1>8, <1>10, <1>12, <2>1 DEF LedgerRows
<1>16. before + visible = SumTo(w, b)
  BY <1>6, <1>12
<1> HIDE DEF row
<1> QED
  BY <1>13, <1>14, <1>15, <1>16 DEF before, beforeSlots, w, b

(* What was asked for is something. *)
LEMMA OrderTotal ==
  ASSUME ScheduleTypeOK, SelectionInv, OrderInv, phase \in {"train", "trained"}
  PROVE  /\ Total(order) = budget["target"] + budget["support"] /\ Total(order) >= 1
         /\ \A p \in Partitions : Placed(p) = selected[p]
<1>1. phase \in Later \ {"interleave"} /\ phase \in Later
  BY DEF Later
<1>2. \A p \in Partitions : PlacedOf(order, p) = selected[p]
  BY <1>1 DEF OrderInv
<1>3. Finished("target") /\ Finished("support")
  BY <1>1 DEF SelectionInv
<1>4. Total(selected["target"]) = budget["target"] /\ Total(selected["support"]) = budget["support"]
  BY <1>3 DEF Finished
<1>5. Total(order) = budget["target"] + budget["support"]
  BY <1>2, <1>4 DEF OrderInv, Partitions
<1>6. budget["target"] \in Nat \ {0} /\ budget["support"] \in Nat \ {0}
  BY DEF ScheduleTypeOK, Partitions
<1>7. Total(order) >= 1
  BY <1>5, <1>6
<1>8. \A p \in Partitions : Placed(p) = selected[p]
  BY <1>2, PlacedNow
<1> QED
  BY <1>5, <1>7, <1>8

(* All the updates together see all that was ordered. *)
LEMMA LastRow ==
  ASSUME ScheduleTypeOK, SelectionInv, OrderInv, PackInv, LedgerInv, phase = "train",
         ~(Len(ledger) < Updates)
  PROVE  Len(ledger) = Updates /\ Last(ledger).cumulative_visible = Total(order)
<1>1. /\ packs \in Seq(Lists(DOMAIN order)) /\ Len(packs) \in Nat /\ ledger \in Seq(LedgerRows)
      /\ Len(ledger) \in Nat /\ Packed = Len(order) /\ order \in Seq(Items)
  BY DEF PackInv, LedgerInv, OrderInv
<1>2. Total(order) >= 1
  BY OrderTotal
<1>3. SumTo(PackWidths(order, packs), Len(packs)) = Total(order)
  BY <1>1, AllPacked
<1>4. Len(packs) >= 1
  <2>1. CASE Len(packs) = 0
    <3>1. PackWidths(order, packs) \in Weights
      BY <1>1, PackWidthsType
    <3>2. SumTo(PackWidths(order, packs), 0) = 0
      BY <3>1, SumLaws
    <3> QED
      BY <1>2, <1>3, <2>1, <3>2
  <2> QED
    BY <1>1, <2>1
<1>5. Updates \in Nat /\ Updates >= 1 /\ Edge(Updates) = Len(packs)
  BY <1>1, <1>4, UpdatesCover
<1>6. Len(ledger) = Updates
  <2>1. Len(ledger) <= Updates
    BY <1>5 DEF LedgerInv
  <2> QED
    BY <1>1, <1>5, <2>1
<1>7. Last(ledger) = ledger[Updates] /\ Updates \in 1 .. Len(ledger)
  BY <1>1, <1>5, <1>6 DEF Last
<1>8. RowRight(ledger, Updates)
  BY <1>7 DEF LedgerInv
<1> QED
  BY <1>3, <1>5, <1>6, <1>7, <1>8 DEF RowRight

(* Training writes the right row, and at its end has seen everything. *)
LEMMA TrainStep ==
  ASSUME ScheduleTypeOK, SelectionInv, OrderInv, PackInv, LedgerInv, Train
  PROVE  PackInv' /\ LedgerInv'
<1>1. phase = "train" /\ order' = order /\ packs' = packs
  BY DEF Train
<1>2. Updates' = Updates /\ \A i : Edge(i)' = Edge(i)
  BY <1>1 DEF Updates, Microbatches, Edge
<1>3. PackWidths(order, packs)' = PackWidths(order, packs)
  BY <1>1
<1>4. /\ ledger \in Seq(LedgerRows) /\ Len(ledger) \in Nat
      /\ Len(ledger) <= Updates \/ ledger = <<>>
      /\ \A i \in 1 .. Len(ledger) : RowRight(ledger, i)
  BY DEF LedgerInv
<1>5. CASE Len(ledger) < Updates
  <2> DEFINE u == Len(ledger) + 1
             row == Row(u)
  <2>1. ledger' = Append(ledger, row) /\ phase' = phase
    BY <1>5 DEF Train
  <2>2. Updates \in Nat
    <3>1. Len(packs) \in Nat
      BY DEF PackInv
    <3> QED
      BY <3>1, UpdatesCover
  <2>3. u \in 1 .. Updates /\ u - 1 = Len(ledger)
    BY <1>4, <1>5, <2>2
  <2>4. /\ row \in LedgerRows
        /\ row.update_ordinal = u /\ row.updates_total = Updates /\ row.previous = u - 1
        /\ row.cumulative_visible = SumTo(Seen(ledger), u - 1) + row.visible
        /\ row.cumulative_visible = SumTo(PackWidths(order, packs), Edge(u))
        /\ row.cumulative_slots = SumTo(Filled(ledger), u - 1) + row.slots
    BY <2>3, RowIs
  <2> HIDE DEF row
  <2> DEFINE z == Append(ledger, row)
             n == Len(ledger)
  <2>5. /\ z \in Seq(LedgerRows) /\ Len(z) = n + 1 /\ z[n + 1] = row
        /\ \A i \in 1 .. n :
             /\ z[i] = ledger[i]
             /\ SumTo(Seen(z), i) = SumTo(Seen(ledger), i)
             /\ SumTo(Filled(z), i) = SumTo(Filled(ledger), i)
        /\ SumTo(Seen(z), n + 1) = SumTo(Seen(ledger), n) + row.visible
        /\ SumTo(Filled(z), n + 1) = SumTo(Filled(ledger), n) + row.slots
    BY <1>4, <2>4, SeenAppend
  <2> HIDE DEF z
  <2>6. RowRight(z, n + 1)
    BY <2>3, <2>4, <2>5 DEF RowRight
  <2>7. ASSUME NEW i \in 1 .. n PROVE RowRight(z, i)
    BY <1>4, <2>5 DEF RowRight
  <2>8. \A i \in 1 .. Len(z) : RowRight(z, i)
    <3> SUFFICES ASSUME NEW i \in 1 .. Len(z) PROVE RowRight(z, i)
      OBVIOUS
    <3>1. i = n + 1 \/ i \in 1 .. n
      BY <1>4, <2>5
    <3> QED
      BY <2>6, <2>7, <3>1
  <2>9. ledger' = z
    BY <2>1 DEF z
  <2>10. Len(z) <= Updates
    BY <1>4, <1>5, <2>2, <2>5
  <2>11. LedgerInv'
    <3>1. \A i \in 1 .. Len(z) : RowRight(ledger, i)'
      BY <1>2, <1>3, <2>8, <2>9 DEF RowRight
    <3> QED
      BY <1>1, <1>2, <2>1, <2>5, <2>9, <2>10, <3>1 DEF LedgerInv
  <2> QED
    BY <1>1, <2>1, <2>11 DEF PackInv, Packed, Width
<1>6. CASE ~(Len(ledger) < Updates)
  <2>1. Len(ledger) = Updates /\ Last(ledger).cumulative_visible = Total(order)
    BY <1>1, <1>6, LastRow
  <2>2. phase' = "trained" /\ ledger' = ledger
    BY <1>6, <2>1 DEF Train
  <2>3. \A i \in 1 .. Len(ledger) : RowRight(ledger, i)'
    BY <1>2, <1>3, <1>4, <2>2 DEF RowRight
  <2>4. LedgerInv'
    BY <1>2, <1>4, <2>1, <2>2, <2>3 DEF LedgerInv
  <2> QED
    BY <1>1, <2>2, <2>4 DEF PackInv, Packed, Width, Selection, Unfinished
<1> QED
  BY <1>5, <1>6

(* A stutter. *)
LEMMA NothingMoves ==
  ASSUME PackInv, LedgerInv, UNCHANGED scheduleVars
  PROVE  PackInv' /\ LedgerInv'
<1>1. phase' = phase /\ order' = order /\ packs' = packs /\ ledger' = ledger
  BY DEF scheduleVars
<1>2. PackInv'
  BY <1>1 DEF PackInv, Packed, Width
<1>3. Updates' = Updates /\ \A i : RowRight(ledger, i)' <=> RowRight(ledger, i)
  BY <1>1 DEF RowRight, Updates, Microbatches, Edge
<1>4. LedgerInv'
  BY <1>1, <1>3 DEF LedgerInv
<1> QED
  BY <1>2, <1>4

(* Every step keeps packs and ledger right. *)
LEMMA PackLedgerStep ==
  ASSUME ScheduleInv, ScheduleInv', PackInv, LedgerInv, [ScheduleNext]_scheduleVars
  PROVE  PackInv' /\ LedgerInv'
<1>1. ScheduleTypeOK /\ SelectionInv /\ OrderInv /\ OrderInv'
  BY DEF ScheduleInv
<1>2. ASSUME PackInv', Prefix \/ Window \/ TailSelect \/ InterleaveNext \/ Pack \/ Materialize
      PROVE  PackInv' /\ LedgerInv'
  <2>1. phase' # "rejected"
    BY <1>2 DEF PackInv
  <2> QED
    BY <1>1, <1>2, <2>1, BeforeTrain
<1>3. CASE Prefix \/ Window \/ TailSelect \/ InterleaveNext
  BY <1>1, <1>2, <1>3, BeforePack
<1>4. CASE Pack
  BY <1>1, <1>2, <1>4, PackStep
<1>5. CASE Materialize
  BY <1>1, <1>2, <1>5, MaterializePack
<1>6. CASE Train
  BY <1>1, <1>6, TrainStep
<1>7. CASE UNCHANGED scheduleVars
  BY <1>7, NothingMoves
<1> QED
  BY <1>3, <1>4, <1>5, <1>6, <1>7 DEF ScheduleNext

------------------------------------------------------------------------------
(* The sums the validator makes. *)
IsColumnSum(f, column, i) ==
  f = [d \in SUBSET DOMAIN [j \in 1 .. i |-> j] |->
         IF d = {} THEN 0
         ELSE f[d \ {Max(d)}] + ledger[[j \in 1 .. i |-> j][Max(d)]][column]]

(* ColumnSum, a fold, is a sum. *)
LEMMA ColumnSumIs ==
  ASSUME NEW column, NEW n \in Nat, NEW w \in Weights,
         \A k \in 1 .. n : w[k] = ledger[k][column]
  PROVE  ColumnSum(column, n) = SumTo(w, n)
<1> DEFINE f == CHOOSE g : IsColumnSum(g, column, n)
           ix == [j \in 1 .. n |-> j]
<1>1. ColumnSum(column, n) = f[DOMAIN ix]
  BY DEF ColumnSum, FoldLeft, MapThenFoldSet, IsColumnSum
<1>2. DOMAIN ix = 1 .. n
  OBVIOUS
<1>3. \A i \in 1 .. n : ix[i] = i
  OBVIOUS
<1>4. \A g : IsColumnSum(g, column, n) <=> IsSumFold(g, n, w)
  <2>1. \A d \in SUBSET (1 .. n) : d # {} => Max(d) \in 1 .. n
    BY MaxOfPlaces
  <2>2. \A d \in SUBSET (1 .. n) : d # {} => w[Max(d)] = ledger[ix[Max(d)]][column]
    BY <1>3, <2>1, Zenon
  <2> HIDE DEF ix
  <2>3. ASSUME NEW g
        PROVE  [d \in SUBSET (1 .. n) |->
                  IF d = {} THEN 0
                  ELSE g[d \ {Max(d)}] + ledger[ix[Max(d)]][column]]
                 = [d \in SUBSET (1 .. n) |->
                      IF d = {} THEN 0 ELSE g[d \ {Max(d)}] + w[Max(d)]]
    BY <2>2
  <2>4. \A g : IsColumnSum(g, column, n) <=>
          g = [d \in SUBSET DOMAIN ix |->
                  IF d = {} THEN 0
                  ELSE g[d \ {Max(d)}] + ledger[ix[Max(d)]][column]]
    BY Zenon DEF IsColumnSum, ix
  <2>5. ASSUME NEW g PROVE IsColumnSum(g, column, n) <=> IsSumFold(g, n, w)
    <3>1. IsColumnSum(g, column, n) <=>
            g = [d \in SUBSET (1 .. n) |->
                  IF d = {} THEN 0
                  ELSE g[d \ {Max(d)}] + ledger[ix[Max(d)]][column]]
      BY <1>2, <2>4, Zenon
    <3>2. IsSumFold(g, n, w) <=>
            g = [d \in SUBSET (1 .. n) |->
                   IF d = {} THEN 0 ELSE g[d \ {Max(d)}] + w[Max(d)]]
      BY Zenon DEF IsSumFold
    <3> QED
      BY <2>3, <3>1, <3>2, Zenon
  <2> QED
    BY <2>5, Zenon
<1> HIDE DEF ix
<1>5. IsColumnSum(f, column, n)
  BY <1>4, SumFold, Zenon
<1> HIDE DEF f
<1> QED
  BY <1>1, <1>2, <1>4, <1>5, SumFold, Zenon

(* The validator accepts a finished ledger. *)
LEMMA LedgerIsValid ==
  ASSUME LedgerInv, phase = "trained"
  PROVE  LedgerValid
<1>1. /\ ledger \in Seq(LedgerRows) /\ DOMAIN ledger = 1 .. Len(ledger) /\ Len(ledger) \in Nat
      /\ Len(ledger) = Updates
      /\ \A i \in 1 .. Len(ledger) : RowRight(ledger, i)
  BY DEF LedgerInv
<1>2. /\ Seen(ledger) \in Weights
      /\ \A k \in 1 .. Len(ledger) : Seen(ledger)[k] = ledger[k]["visible"]
      /\ Filled(ledger) \in Weights
      /\ \A k \in 1 .. Len(ledger) : Filled(ledger)[k] = ledger[k]["slots"]
  BY <1>1, SeenType
<1>3. ASSUME NEW i \in 1 .. Len(ledger)
      PROVE  /\ ledger[i].update_ordinal = i /\ ledger[i].updates_total = Len(ledger)
             /\ ledger[i].previous = i - 1 /\ ledger[i].visible > 0
             /\ ledger[i].cumulative_visible = ColumnSum("visible", i)
             /\ ledger[i].cumulative_slots = ColumnSum("slots", i)
  <2>1. RowRight(ledger, i)
    BY <1>1
  <2>2. i \in Nat /\ \A k \in 1 .. i : k \in 1 .. Len(ledger)
    BY <1>1
  <2>3. ColumnSum("visible", i) = SumTo(Seen(ledger), i)
    BY <1>2, <2>2, ColumnSumIs
  <2>4. ColumnSum("slots", i) = SumTo(Filled(ledger), i)
    BY <1>2, <2>2, ColumnSumIs
  <2>5. ledger[i].visible \in Nat \ {0}
    <3>1. ledger[i] \in LedgerRows
      BY <1>1
    <3> QED
      BY <3>1 DEF LedgerRows
  <2> QED
    BY <1>1, <2>1, <2>3, <2>4, <2>5 DEF RowRight
<1> QED
  BY <1>1, <1>3 DEF LedgerValid

(* All of it. *)
TrainingInv == ScheduleInv /\ PackInv /\ LedgerInv

(* What the invariant was for. *)
LEMMA InvMeansTrainedOnce == TrainingInv => TrainedOnce
<1> SUFFICES ASSUME TrainingInv PROVE TrainedOnce
  OBVIOUS
<1>1. ScheduleTypeOK /\ SelectionInv /\ OrderInv /\ PackInv /\ LedgerInv
  BY DEF TrainingInv, ScheduleInv
<1>2. phase # "rejected"
  BY <1>1 DEF PackInv
<1>3. ASSUME phase = "trained"
      PROVE  /\ Total(order) = budget["target"] + budget["support"]
             /\ \A p \in Partitions : Placed(p) = selected[p]
             /\ \A i \in 1 .. Len(packs) - 1 :
                  Total(Places(packs[i])) + order[packs[i + 1][1]].width > SequenceLength
             /\ LedgerValid
  <2>1. /\ Total(order) = budget["target"] + budget["support"]
        /\ \A p \in Partitions : Placed(p) = selected[p]
    BY <1>1, <1>3, OrderTotal
  <2>2. \A i \in 1 .. Len(packs) - 1 :
          Total(Places(packs[i])) + order[packs[i + 1][1]].width > SequenceLength
    BY <1>1 DEF PackInv, Width, Places, PlacesOf
  <2>3. LedgerValid
    BY <1>1, <1>3, LedgerIsValid
  <2> QED
    BY <2>1, <2>2, <2>3
<1> QED
  BY <1>2, <1>3 DEF TrainedOnce

(* The invariant holds at first. *)
LEMMA TrainingInit == ScheduleInit => TrainingInv
<1> SUFFICES ASSUME ScheduleInit PROVE TrainingInv
  OBVIOUS
<1>1. ScheduleInv
  BY ScheduleInitType, ScheduleInitSelection, ScheduleInitOrder DEF ScheduleInv
<1>2. NothingPacked /\ NothingTrained
  BY DEF ScheduleInit, NothingPacked, NothingTrained, Selection, Unfinished
<1> QED
  BY <1>1, <1>2, PackEmpty, LedgerEmpty DEF TrainingInv

(* What is selected is trained, once and in order, no sequence is closed     *)
(* before it has to be, the ledger passes its validator and no validation    *)
(* rejects a run: _build_ledgers of token_schedule.py and dense_training.py. *)
THEOREM TrainedOnceCorrect == ScheduleSpec => []TrainedOnce
<1>1. ScheduleInit => TrainingInv
  BY TrainingInit
<1>2. TrainingInv /\ [ScheduleNext]_scheduleVars => TrainingInv'
  <2> SUFFICES ASSUME TrainingInv, [ScheduleNext]_scheduleVars PROVE TrainingInv'
    OBVIOUS
  <2>1. ScheduleInv /\ PackInv /\ LedgerInv
    BY DEF TrainingInv
  <2>2. ScheduleInv'
    BY <2>1, SelectionStep, OrderStep DEF ScheduleInv
  <2>3. PackInv' /\ LedgerInv'
    BY <2>1, <2>2, PackLedgerStep
  <2> QED
    BY <2>2, <2>3 DEF TrainingInv
<1>3. TrainingInv => TrainedOnce
  BY InvMeansTrainedOnce
<1> QED
  BY <1>1, <1>2, <1>3, PTL DEF ScheduleSpec

(***************************************************************************)
(* The rank of an element.                                                 *)
(***************************************************************************)
(* The elements of S before x. *)
Ahead(S, R, x) == {y \in S : <<y, x>> \in R}

(* R orders S, and strictly. *)
Ordering(S, R) ==
  /\ \A x \in S : <<x, x>> \notin R
  /\ \A x, y, z \in S : <<x, y>> \in R /\ <<y, z>> \in R => <<x, z>> \in R
  /\ \A x, y \in S : x = y \/ <<x, y>> \in R \/ <<y, x>> \in R

(* A rank is a place. *)
LEMMA RankType ==
  ASSUME NEW S, IsFiniteSet(S), NEW R, Ordering(S, R), NEW x \in S
  PROVE  /\ IsFiniteSet(Ahead(S, R, x))
         /\ Cardinality(Ahead(S, R, x)) \in 0 .. Cardinality(S) - 1
<1> DEFINE A == Ahead(S, R, x)
<1>1. A \subseteq S /\ x \notin A
  BY DEF Ahead, Ordering
<1>2. A \in SUBSET S /\ A # S
  BY <1>1
<1>3. IsFiniteSet(A) /\ Cardinality(A) <= Cardinality(S)
  BY <1>2, FS_Subset
<1>4. Cardinality(A) # Cardinality(S)
  BY <1>2, FS_Subset
<1>5. Cardinality(A) \in Nat /\ Cardinality(S) \in Nat
  BY <1>3, FS_CardinalityType
<1> HIDE DEF A
<1> QED
  BY <1>3, <1>4, <1>5 DEF A

(* Ranks are in the order. *)
LEMMA RankOrder ==
  ASSUME NEW S, IsFiniteSet(S), NEW R, Ordering(S, R), NEW x \in S, NEW y \in S
  PROVE  <<x, y>> \in R <=> Cardinality(Ahead(S, R, x)) < Cardinality(Ahead(S, R, y))
<1>1. ASSUME NEW a \in S, NEW b \in S, <<a, b>> \in R
      PROVE  Cardinality(Ahead(S, R, a)) < Cardinality(Ahead(S, R, b))
  <2> DEFINE A == Ahead(S, R, a)
             B == Ahead(S, R, b)
  <2>1. A \subseteq B /\ a \in B /\ a \notin A
    BY <1>1 DEF Ahead, Ordering
  <2>2. IsFiniteSet(A) /\ IsFiniteSet(B)
    BY RankType
  <2>3. Cardinality(A) \in Nat /\ Cardinality(B) \in Nat
    BY <2>2, FS_CardinalityType
  <2>4. Cardinality(A) <= Cardinality(B) /\ Cardinality(A) # Cardinality(B)
    BY <2>1, <2>2, FS_Subset
  <2> HIDE DEF A, B
  <2> QED
    BY <2>3, <2>4 DEF A, B
<1>2. Cardinality(Ahead(S, R, x)) \in Int /\ Cardinality(Ahead(S, R, y)) \in Int
  BY RankType
<1>3. CASE <<x, y>> \in R
  BY <1>1, <1>3
<1>4. CASE x = y
  BY <1>2, <1>4 DEF Ordering
<1>5. CASE <<y, x>> \in R /\ x # y
  <2>1. <<x, y>> \notin R
    BY <1>5 DEF Ordering
  <2>2. Cardinality(Ahead(S, R, y)) < Cardinality(Ahead(S, R, x))
    BY <1>1, <1>5
  <2> QED
    BY <1>2, <2>1, <2>2
<1> QED
  BY <1>3, <1>4, <1>5 DEF Ordering

(* Every place is taken. *)
LEMMA RankTaken ==
  ASSUME NEW S, IsFiniteSet(S), NEW R, Ordering(S, R), NEW k \in 1 .. Cardinality(S)
  PROVE  \E x \in S : Cardinality(Ahead(S, R, x)) = k - 1
<1> DEFINE n == Cardinality(S)
           rank == [x \in S |-> Cardinality(Ahead(S, R, x))]
<1>1. n \in Nat
  BY FS_CardinalityType
<1>2. rank \in [S -> 0 .. n - 1]
  BY RankType
<1>3. \A x, y \in S : rank[x] = rank[y] => x = y
  <2>1. SUFFICES ASSUME NEW x \in S, NEW y \in S, rank[x] = rank[y] PROVE x = y
    OBVIOUS
  <2>2. ~(rank[x] < rank[y]) /\ ~(rank[y] < rank[x])
    BY <1>2, <2>1
  <2>3. <<x, y>> \notin R /\ <<y, x>> \notin R
    BY <2>2, RankOrder
  <2> QED
    BY <2>3 DEF Ordering
<1>4. IsFiniteSet(0 .. n - 1) /\ Cardinality(0 .. n - 1) = n
  <2> HIDE DEF n
  <2>1. 0 \in Int /\ n - 1 \in Int /\ (0 > n - 1 => n = 0) /\ n - 1 - 0 + 1 = n
    BY <1>1
  <2> QED
    BY <2>1, FS_Interval
<1> HIDE DEF n, rank
<1>5. rank \in Injection(S, 0 .. n - 1)
  BY <1>2, <1>3 DEF Injection, IsInjective
<1>6. rank \in Surjection(S, 0 .. n - 1)
  BY <1>4, <1>5, FS_Injection DEF n
<1>7. k - 1 \in 0 .. n - 1
  BY <1>1 DEF n
<1>8. PICK x \in S : rank[x] = k - 1
  BY <1>6, <1>7 DEF Surjection
<1> QED
  BY <1>8 DEF rank

(* A sequence of what stands at each place. *)
Ranks(s, S, R) ==
  /\ s = [k \in 1 .. Cardinality(S) |-> s[k]]
  /\ \A k \in 1 .. Cardinality(S) : s[k] \in S /\ Cardinality(Ahead(S, R, s[k])) = k - 1

(* It holds every element once, in the order. *)
InOrder(s, S, R) ==
  /\ Cardinality(S) \in Nat /\ s \in Seq(S) /\ Len(s) = Cardinality(S)
  /\ \A x \in S : \E k \in 1 .. Len(s) : s[k] = x
  /\ \A i, j \in 1 .. Len(s) : i < j <=> <<s[i], s[j]>> \in R
  /\ \A i, j \in 1 .. Len(s) : s[i] = s[j] => i = j

(* Elements that are at their ranks are in order. *)
LEMMA PlacesInOrder ==
  ASSUME NEW S, IsFiniteSet(S), NEW R, Ordering(S, R), NEW s, Ranks(s, S, R)
  PROVE  InOrder(s, S, R)
<1> DEFINE n == Cardinality(S)
<1>1. n \in Nat
  BY FS_CardinalityType
<1>2. s \in [1 .. n -> S]
  BY DEF Ranks
<1>3. s \in Seq(S) /\ Len(s) = n
  BY <1>1, <1>2
<1>4. \A k \in 1 .. n : s[k] \in S /\ Cardinality(Ahead(S, R, s[k])) = k - 1
  BY DEF Ranks
<1> HIDE DEF n
<1>5. ASSUME NEW x \in S PROVE \E k \in 1 .. n : s[k] = x
  <2> DEFINE r == Cardinality(Ahead(S, R, x))
  <2>1. r \in 0 .. n - 1
    BY RankType DEF n
  <2> DEFINE k == r + 1
  <2>2. k \in 1 .. n /\ k - 1 = r
    BY <1>1, <2>1
  <2>3. s[k] \in S /\ Cardinality(Ahead(S, R, s[k])) = r
    BY <1>4, <2>2
  <2>4. <<s[k], x>> \notin R /\ <<x, s[k]>> \notin R
    <3>1. ~(Cardinality(Ahead(S, R, s[k])) < r) /\ ~(r < Cardinality(Ahead(S, R, s[k])))
      BY <2>1, <2>3
    <3> QED
      BY <2>3, <3>1, RankOrder
  <2>5. s[k] = x
    BY <2>3, <2>4 DEF Ordering
  <2> QED
    BY <2>2, <2>5
<1>6. ASSUME NEW i \in 1 .. n, NEW j \in 1 .. n PROVE i < j <=> <<s[i], s[j]>> \in R
  <2>1. <<s[i], s[j]>> \in R
          <=> Cardinality(Ahead(S, R, s[i])) < Cardinality(Ahead(S, R, s[j]))
    BY <1>4, RankOrder
  <2>2. Cardinality(Ahead(S, R, s[i])) = i - 1 /\ Cardinality(Ahead(S, R, s[j])) = j - 1
    BY <1>4
  <2> QED
    BY <2>1, <2>2
<1>7. ASSUME NEW i \in 1 .. n, NEW j \in 1 .. n, s[i] = s[j] PROVE i = j
  <2>1. i - 1 = j - 1
    BY <1>4, <1>7
  <2> QED
    BY <2>1
<1> QED
  BY <1>1, <1>3, <1>5, <1>6, <1>7 DEF InOrder, n

(***************************************************************************)
(* ConfirmatoryFamily: FamilyRight.                                        *)
(***************************************************************************)
(* The next score is added. *)
Added(x, o) == x + o

(* One step per element. *)
AddedSteps(s) ==
  [k \in Nat |-> [x \in Int |-> IF k \in DOMAIN s THEN Added(x, s[k]) ELSE x]]

(* Each step takes one element. *)
LEMMA AddedStepsType ==
  ASSUME NEW s \in Seq(Int)
  PROVE  /\ AddedSteps(s) \in StepsOn(Int)
         /\ \A k \in 1 .. Len(s) : \A x \in Int :
              AddedSteps(s)[k][x] = Added(x, s[k])
         /\ 0 \in Int
<1> DEFINE L == Int
<1>1. \A k \in DOMAIN s : s[k] \in Int
  OBVIOUS
<1>2. DOMAIN s = 1 .. Len(s) /\ \A k \in 1 .. Len(s) : k \in Nat
  OBVIOUS
<1>3. \A x \in L : \A o \in Int : Added(x, o) \in L
  BY DEF Added
<1>4. 0 \in L
  BY DEF L
<1> HIDE DEF L
<1>5. ASSUME NEW k \in Nat, NEW x \in L
      PROVE  (IF k \in DOMAIN s THEN Added(x, s[k]) ELSE x) \in L
  BY <1>1, <1>3
<1>6. AddedSteps(s)
        = [k \in Nat |-> [x \in L |-> IF k \in DOMAIN s THEN Added(x, s[k]) ELSE x]]
  BY DEF AddedSteps, L
<1>7. AddedSteps(s) \in [Nat -> [L -> L]]
  BY <1>5, <1>6
<1>8. ASSUME NEW k \in 1 .. Len(s), NEW x \in L
      PROVE  AddedSteps(s)[k][x] = Added(x, s[k])
  BY <1>2, <1>6
<1> QED
  BY <1>4, <1>7, <1>8 DEF StepsOn, L

(* The recursive function of the fold. *)
IsAdded(f, s) ==
  f = [d \in SUBSET DOMAIN s |->
         IF d = {} THEN 0 ELSE Added(f[d \ {Max(d)}], s[Max(d)])]

(* The fold is the last of the steps. *)
LEMMA SignedTotalIs ==
  ASSUME NEW s \in Seq(Int)
  PROVE  SignedTotal(s) = Ends(Len(s), Int, 0, AddedSteps(s))
<1> DEFINE f == CHOOSE g : IsAdded(g, s)
           L == Int
           G == AddedSteps(s)
           N == Len(s)
           base == 0
<1>1. SignedTotal(s) = f[DOMAIN s]
  BY DEF SignedTotal, FoldLeft, MapThenFoldSet, IsAdded, Added
<1>2. DOMAIN s = 1 .. N /\ N \in Nat
  OBVIOUS
<1>3. /\ G \in [Nat -> [L -> L]] /\ base \in L
      /\ \A k \in 1 .. N : \A x \in L : G[k][x] = Added(x, s[k])
  BY AddedStepsType DEF StepsOn
<1>4. \A d \in SUBSET (1 .. N) : d # {} => Max(d) \in 1 .. N
  BY <1>2, MaxOfPlaces
<1> HIDE DEF L, G, N, base
<1>5. \A g : IsAdded(g, s) <=>
         g = [d \in SUBSET (1 .. N) |->
                IF d = {} THEN base ELSE Added(g[d \ {Max(d)}], s[Max(d)])]
  BY <1>2, Zenon DEF IsAdded, base
<1>6. \E g : IsAdded(g, s)
  <2>1. PICK g \in [SUBSET (1 .. N) -> L] : IsFold(g, N, base, G)
    BY <1>2, <1>3, FoldGoes
  <2>2. ASSUME NEW d \in SUBSET (1 .. N)
        PROVE  g[d] = IF d = {} THEN base ELSE Added(g[d \ {Max(d)}], s[Max(d)])
    <3>1. g[d] = IF d = {} THEN base ELSE G[Max(d)][g[d \ {Max(d)}]]
      BY <2>1, Zenon DEF IsFold
    <3>2. g[d \ {Max(d)}] \in L
      BY <2>1
    <3> QED
      BY <1>3, <1>4, <3>1, <3>2
  <2>3. g = [d \in SUBSET (1 .. N) |-> g[d]]
    BY <2>1
  <2>4. g = [d \in SUBSET (1 .. N) |->
               IF d = {} THEN base ELSE Added(g[d \ {Max(d)}], s[Max(d)])]
    BY <2>2, <2>3
  <2> QED
    BY <1>5, <2>4, Zenon
<1>7. IsAdded(f, s)
  BY <1>6
<1> HIDE DEF f
<1>8. \A d \in SUBSET (1 .. N) :
         f[d] = IF d = {} THEN base ELSE Added(f[d \ {Max(d)}], s[Max(d)])
  <2>1. f = [d \in SUBSET (1 .. N) |->
               IF d = {} THEN base ELSE Added(f[d \ {Max(d)}], s[Max(d)])]
    BY <1>5, <1>7, Zenon
  <2> QED
    BY <2>1, Zenon
<1>9. StepsUp(f, N, L, base, G)
  <2>1. f[{}] = base
    <3>1. {} \in SUBSET (1 .. N)
      OBVIOUS
    <3> QED
      BY <1>8, <3>1, Zenon
  <2>2. ASSUME NEW k \in 1 .. N, f[1 .. k - 1] \in L
        PROVE  f[1 .. k] = G[k][f[1 .. k - 1]]
    <3>1. 1 .. k \in SUBSET (1 .. N) /\ 1 .. k # {} /\ k \in Nat \ {0}
      <4>1. k \in 1 .. k /\ k \in Nat \ {0} /\ \A j \in 1 .. k : j \in 1 .. N
        BY <1>2
      <4>2. 1 .. k # {}
        BY <4>1, Zenon
      <4>3. 1 .. k \subseteq 1 .. N
        BY <4>1, Zenon
      <4> QED
        BY <4>1, <4>2, <4>3
    <3>2. Max(1 .. k) = k /\ (1 .. k) \ {k} = 1 .. k - 1
      BY <3>1, MaxOfInterval
    <3>3. f[1 .. k] = Added(f[(1 .. k) \ {Max(1 .. k)}], s[Max(1 .. k)])
      BY <1>8, <3>1, Zenon
    <3> QED
      BY <1>3, <2>2, <3>2, <3>3
  <2> QED
    BY <2>1, <2>2 DEF StepsUp
<1>10. f[1 .. N] = Ends(N, L, base, G)
  BY <1>2, <1>3, <1>9, FoldValue
<1> QED
  BY <1>1, <1>2, <1>10 DEF N, L, base, G

(* The total, one score after the other. *)
LEMMA SignedTotalLaws ==
  /\ SignedTotal(<<>>) = 0
  /\ \A s \in Seq(Int), o \in Int :
       SignedTotal(s) \in Int /\ SignedTotal(Append(s, o)) = Added(SignedTotal(s), o)
<1> DEFINE L == Int
           base == 0
<1>1. SignedTotal(<<>>) = base
  <2>1. <<>> \in Seq(Int) /\ Len(<<>>) = 0
    OBVIOUS
  <2>2. AddedSteps(<<>>) \in [Nat -> [L -> L]] /\ base \in L
    BY <2>1, AddedStepsType DEF StepsOn
  <2>3. SignedTotal(<<>>) = Ends(0, L, base, AddedSteps(<<>>))
    BY <2>1, SignedTotalIs
  <2> HIDE DEF L, base
  <2> QED
    BY <2>2, <2>3, NoStep
<1>2. ASSUME NEW s \in Seq(Int), NEW o \in Int
      PROVE  SignedTotal(s) \in L /\ SignedTotal(Append(s, o)) = Added(SignedTotal(s), o)
  <2> DEFINE t == Append(s, o)
             N == Len(s)
             G == AddedSteps(s)
             H == AddedSteps(t)
  <2>1. /\ t \in Seq(Int) /\ Len(t) = N + 1 /\ N \in Nat /\ t[N + 1] = o
        /\ \A k \in 1 .. N : t[k] = s[k] /\ k \in 1 .. N + 1
    OBVIOUS
  <2>2. /\ G \in StepsOn(L) /\ base \in L
        /\ \A k \in 1 .. N : \A x \in L : G[k][x] = Added(x, s[k])
    BY AddedStepsType
  <2>3. H \in StepsOn(L) /\ \A k \in 1 .. Len(t) : \A x \in L : H[k][x] = Added(x, t[k])
    BY <2>1, AddedStepsType
  <2>4. SignedTotal(s) = Ends(N, L, base, G)
    BY SignedTotalIs
  <2>5. SignedTotal(t) = Ends(N + 1, L, base, H)
    BY <2>1, SignedTotalIs
  <2> HIDE DEF t, N, G, H, L, base
  <2>6. SameSteps(G, H, N, L)
    BY <2>1, <2>2, <2>3 DEF SameSteps
  <2>7. Ends(N, L, base, G) = Ends(N, L, base, H)
    BY <2>1, <2>2, <2>3, <2>6, EndsSame
  <2>8. Ends(N, L, base, G) \in L
    BY <2>1, <2>2, EndsType DEF StepsOn
  <2>9. Ends(N + 1, L, base, H) = H[N + 1][Ends(N, L, base, H)]
    <3>1. H \in [Nat -> [L -> L]]
      BY <2>3 DEF StepsOn
    <3>2. N \in Nat /\ base \in L
      BY <2>1, <2>2
    <3> QED
      BY <3>1, <3>2, OneStep, Zenon
  <2>10. N + 1 \in 1 .. Len(t)
    BY <2>1
  <2>11. H[N + 1][Ends(N, L, base, H)] = Added(Ends(N, L, base, H), o)
    BY <2>1, <2>3, <2>7, <2>8, <2>10
  <2> QED
    BY <2>4, <2>5, <2>7, <2>8, <2>9, <2>11 DEF t
<1> QED
  BY <1>1, <1>2

(* The next score is kept unless it is 0. *)
KeptScore(x, o) == IF o = 0 THEN x ELSE Append(x, o)

(* One step per element. *)
KeptSteps(s) ==
  [k \in Nat |-> [x \in Lists(Int) |-> IF k \in DOMAIN s THEN KeptScore(x, s[k]) ELSE x]]

(* Each step takes one element. *)
LEMMA KeptStepsType ==
  ASSUME NEW s \in Seq(Int)
  PROVE  /\ KeptSteps(s) \in StepsOn(Lists(Int))
         /\ \A k \in 1 .. Len(s) : \A x \in Lists(Int) :
              KeptSteps(s)[k][x] = KeptScore(x, s[k])
         /\ <<>> \in Lists(Int)
<1> DEFINE L == Lists(Int)
<1>1. \A k \in DOMAIN s : s[k] \in Int
  OBVIOUS
<1>2. DOMAIN s = 1 .. Len(s) /\ \A k \in 1 .. Len(s) : k \in Nat
  OBVIOUS
<1>3. \A x \in L : \A o \in Int : KeptScore(x, o) \in L
  BY DEF KeptScore, Lists
<1>4. <<>> \in L
  BY DEF Lists
<1> HIDE DEF L
<1>5. ASSUME NEW k \in Nat, NEW x \in L
      PROVE  (IF k \in DOMAIN s THEN KeptScore(x, s[k]) ELSE x) \in L
  BY <1>1, <1>3
<1>6. KeptSteps(s)
        = [k \in Nat |-> [x \in L |-> IF k \in DOMAIN s THEN KeptScore(x, s[k]) ELSE x]]
  BY DEF KeptSteps, L
<1>7. KeptSteps(s) \in [Nat -> [L -> L]]
  BY <1>5, <1>6
<1>8. ASSUME NEW k \in 1 .. Len(s), NEW x \in L
      PROVE  KeptSteps(s)[k][x] = KeptScore(x, s[k])
  BY <1>2, <1>6
<1> QED
  BY <1>4, <1>7, <1>8 DEF StepsOn, L

(* The recursive function of the fold. *)
IsKept(f, s) ==
  f = [d \in SUBSET DOMAIN s |->
         IF d = {} THEN <<>> ELSE KeptScore(f[d \ {Max(d)}], s[Max(d)])]

(* The fold is the last of the steps. *)
LEMMA NonzeroIs ==
  ASSUME NEW s \in Seq(Int)
  PROVE  Nonzero(s) = Ends(Len(s), Lists(Int), <<>>, KeptSteps(s))
<1> DEFINE f == CHOOSE g : IsKept(g, s)
           L == Lists(Int)
           G == KeptSteps(s)
           N == Len(s)
           base == <<>>
<1>1. Nonzero(s) = f[DOMAIN s]
  BY DEF Nonzero, FoldLeft, MapThenFoldSet, IsKept, KeptScore
<1>2. DOMAIN s = 1 .. N /\ N \in Nat
  OBVIOUS
<1>3. /\ G \in [Nat -> [L -> L]] /\ base \in L
      /\ \A k \in 1 .. N : \A x \in L : G[k][x] = KeptScore(x, s[k])
  BY KeptStepsType DEF StepsOn
<1>4. \A d \in SUBSET (1 .. N) : d # {} => Max(d) \in 1 .. N
  BY <1>2, MaxOfPlaces
<1> HIDE DEF L, G, N, base
<1>5. \A g : IsKept(g, s) <=>
         g = [d \in SUBSET (1 .. N) |->
                IF d = {} THEN base ELSE KeptScore(g[d \ {Max(d)}], s[Max(d)])]
  BY <1>2, Zenon DEF IsKept, base
<1>6. \E g : IsKept(g, s)
  <2>1. PICK g \in [SUBSET (1 .. N) -> L] : IsFold(g, N, base, G)
    BY <1>2, <1>3, FoldGoes
  <2>2. ASSUME NEW d \in SUBSET (1 .. N)
        PROVE  g[d] = IF d = {} THEN base ELSE KeptScore(g[d \ {Max(d)}], s[Max(d)])
    <3>1. g[d] = IF d = {} THEN base ELSE G[Max(d)][g[d \ {Max(d)}]]
      BY <2>1, Zenon DEF IsFold
    <3>2. g[d \ {Max(d)}] \in L
      BY <2>1
    <3> QED
      BY <1>3, <1>4, <3>1, <3>2
  <2>3. g = [d \in SUBSET (1 .. N) |-> g[d]]
    BY <2>1
  <2>4. g = [d \in SUBSET (1 .. N) |->
               IF d = {} THEN base ELSE KeptScore(g[d \ {Max(d)}], s[Max(d)])]
    BY <2>2, <2>3
  <2> QED
    BY <1>5, <2>4, Zenon
<1>7. IsKept(f, s)
  BY <1>6
<1> HIDE DEF f
<1>8. \A d \in SUBSET (1 .. N) :
         f[d] = IF d = {} THEN base ELSE KeptScore(f[d \ {Max(d)}], s[Max(d)])
  <2>1. f = [d \in SUBSET (1 .. N) |->
               IF d = {} THEN base ELSE KeptScore(f[d \ {Max(d)}], s[Max(d)])]
    BY <1>5, <1>7, Zenon
  <2> QED
    BY <2>1, Zenon
<1>9. StepsUp(f, N, L, base, G)
  <2>1. f[{}] = base
    <3>1. {} \in SUBSET (1 .. N)
      OBVIOUS
    <3> QED
      BY <1>8, <3>1, Zenon
  <2>2. ASSUME NEW k \in 1 .. N, f[1 .. k - 1] \in L
        PROVE  f[1 .. k] = G[k][f[1 .. k - 1]]
    <3>1. 1 .. k \in SUBSET (1 .. N) /\ 1 .. k # {} /\ k \in Nat \ {0}
      <4>1. k \in 1 .. k /\ k \in Nat \ {0} /\ \A j \in 1 .. k : j \in 1 .. N
        BY <1>2
      <4>2. 1 .. k # {}
        BY <4>1, Zenon
      <4>3. 1 .. k \subseteq 1 .. N
        BY <4>1, Zenon
      <4> QED
        BY <4>1, <4>2, <4>3
    <3>2. Max(1 .. k) = k /\ (1 .. k) \ {k} = 1 .. k - 1
      BY <3>1, MaxOfInterval
    <3>3. f[1 .. k] = KeptScore(f[(1 .. k) \ {Max(1 .. k)}], s[Max(1 .. k)])
      BY <1>8, <3>1, Zenon
    <3> QED
      BY <1>3, <2>2, <3>2, <3>3
  <2> QED
    BY <2>1, <2>2 DEF StepsUp
<1>10. f[1 .. N] = Ends(N, L, base, G)
  BY <1>2, <1>3, <1>9, FoldValue
<1> QED
  BY <1>1, <1>2, <1>10 DEF N, L, base, G

(* The scores that are not 0, one after the other. *)
LEMMA NonzeroLaws ==
  /\ Nonzero(<<>>) = <<>>
  /\ \A s \in Seq(Int), o \in Int :
       Nonzero(s) \in Lists(Int) /\ Nonzero(Append(s, o)) = KeptScore(Nonzero(s), o)
<1> DEFINE L == Lists(Int)
           base == <<>>
<1>1. Nonzero(<<>>) = base
  <2>1. <<>> \in Seq(Int) /\ Len(<<>>) = 0
    OBVIOUS
  <2>2. KeptSteps(<<>>) \in [Nat -> [L -> L]] /\ base \in L
    BY <2>1, KeptStepsType DEF StepsOn
  <2>3. Nonzero(<<>>) = Ends(0, L, base, KeptSteps(<<>>))
    BY <2>1, NonzeroIs
  <2> HIDE DEF L, base
  <2> QED
    BY <2>2, <2>3, NoStep
<1>2. ASSUME NEW s \in Seq(Int), NEW o \in Int
      PROVE  Nonzero(s) \in L /\ Nonzero(Append(s, o)) = KeptScore(Nonzero(s), o)
  <2> DEFINE t == Append(s, o)
             N == Len(s)
             G == KeptSteps(s)
             H == KeptSteps(t)
  <2>1. /\ t \in Seq(Int) /\ Len(t) = N + 1 /\ N \in Nat /\ t[N + 1] = o
        /\ \A k \in 1 .. N : t[k] = s[k] /\ k \in 1 .. N + 1
    OBVIOUS
  <2>2. /\ G \in StepsOn(L) /\ base \in L
        /\ \A k \in 1 .. N : \A x \in L : G[k][x] = KeptScore(x, s[k])
    BY KeptStepsType
  <2>3. H \in StepsOn(L) /\ \A k \in 1 .. Len(t) : \A x \in L : H[k][x] = KeptScore(x, t[k])
    BY <2>1, KeptStepsType
  <2>4. Nonzero(s) = Ends(N, L, base, G)
    BY NonzeroIs
  <2>5. Nonzero(t) = Ends(N + 1, L, base, H)
    BY <2>1, NonzeroIs
  <2> HIDE DEF t, N, G, H, L, base
  <2>6. SameSteps(G, H, N, L)
    BY <2>1, <2>2, <2>3 DEF SameSteps
  <2>7. Ends(N, L, base, G) = Ends(N, L, base, H)
    BY <2>1, <2>2, <2>3, <2>6, EndsSame
  <2>8. Ends(N, L, base, G) \in L
    BY <2>1, <2>2, EndsType DEF StepsOn
  <2>9. Ends(N + 1, L, base, H) = H[N + 1][Ends(N, L, base, H)]
    <3>1. H \in [Nat -> [L -> L]]
      BY <2>3 DEF StepsOn
    <3>2. N \in Nat /\ base \in L
      BY <2>1, <2>2
    <3> QED
      BY <3>1, <3>2, OneStep, Zenon
  <2>10. N + 1 \in 1 .. Len(t)
    BY <2>1
  <2>11. H[N + 1][Ends(N, L, base, H)] = KeptScore(Ends(N, L, base, H), o)
    BY <2>1, <2>3, <2>7, <2>8, <2>10
  <2> QED
    BY <2>4, <2>5, <2>7, <2>8, <2>9, <2>11 DEF t
<1> QED
  BY <1>1, <1>2

(* What corresponds one to one is equally many. *)
LEMMA EquallyMany ==
  ASSUME NEW S, NEW T, NEW f \in [S -> T], IsFiniteSet(S),
         \A x, y \in S : f[x] = f[y] => x = y,
         \A z \in T : \E x \in S : f[x] = z
  PROVE  IsFiniteSet(T) /\ Cardinality(T) = Cardinality(S)
<1>1. f \in Bijection(S, T)
  BY DEF Bijection, Injection, IsInjective, Surjection
<1>2. ExistsBijection(S, T)
  BY <1>1 DEF ExistsBijection
<1> QED
  BY <1>2, FS_Bijection

(* Signs are sequences, and flipping gives one. *)
LEMMA SignsAre ==
  ASSUME NEW v \in Seq(Int), NEW s \in Signs(v)
  PROVE  /\ s \in Seq({1, -1}) /\ Len(s) = Len(v) /\ DOMAIN s = 1 .. Len(v)
         /\ \A i \in 1 .. Len(v) : s[i] = 1 \/ s[i] = -1
         /\ Flip(v, s) \in Seq(Int) /\ Len(Flip(v, s)) = Len(v)
         /\ DOMAIN Flip(v, s) = 1 .. Len(v)
         /\ \A i \in 1 .. Len(v) : Flip(v, s)[i] = s[i] * v[i]
<1>1. DOMAIN v = 1 .. Len(v) /\ Len(v) \in Nat /\ \A i \in 1 .. Len(v) : v[i] \in Int
  OBVIOUS
<1>2. s \in [1 .. Len(v) -> {1, -1}]
  BY <1>1 DEF Signs
<1>3. s \in Seq({1, -1}) /\ Len(s) = Len(v) /\ DOMAIN s = 1 .. Len(v)
  BY <1>1, <1>2
<1>4. \A i \in 1 .. Len(v) : s[i] = 1 \/ s[i] = -1
  BY <1>2
<1>5. \A i \in 1 .. Len(v) : s[i] * v[i] \in Int
  BY <1>1, <1>4
<1>6. Flip(v, s) = [i \in 1 .. Len(v) |-> s[i] * v[i]]
  BY <1>1 DEF Flip
<1>7. Flip(v, s) \in [1 .. Len(v) -> Int]
  BY <1>5, <1>6
<1> QED
  BY <1>1, <1>3, <1>4, <1>6, <1>7

(* A sign for the last score. *)
LEMMA SignTaken ==
  ASSUME NEW v \in Seq(Int), NEW x \in Int, NEW s \in Signs(v), NEW e \in {1, -1}
  PROVE  /\ Append(s, e) \in Signs(Append(v, x)) /\ Append(s, e)[Len(v) + 1] = e
         /\ Flip(Append(v, x), Append(s, e)) = Append(Flip(v, s), e * x)
<1> DEFINE n == Len(v)
           w == Append(v, x)
<1>0. /\ w \in Seq(Int) /\ Len(w) = n + 1 /\ n \in Nat /\ DOMAIN w = 1 .. n + 1
      /\ w[n + 1] = x /\ \A i \in 1 .. n : w[i] = v[i] /\ DOMAIN v = 1 .. n
  OBVIOUS
<1> DEFINE t == Append(s, e)
           y == Append(Flip(v, s), e * x)
<1>1. /\ s \in Seq({1, -1}) /\ Len(s) = n
      /\ Flip(v, s) \in Seq(Int) /\ Len(Flip(v, s)) = n
      /\ \A i \in 1 .. n : Flip(v, s)[i] = s[i] * v[i]
  BY SignsAre
<1>2. /\ t \in Seq({1, -1}) /\ Len(t) = n + 1 /\ t[n + 1] = e
      /\ \A i \in 1 .. n : t[i] = s[i]
  BY <1>1
<1>3. t \in [1 .. n + 1 -> {1, -1}]
  <2> HIDE DEF t, n
  <2> QED
    BY <1>0, <1>2
<1>4. t \in Signs(w)
  BY <1>0, <1>3 DEF Signs
<1>5. e * x \in Int
  OBVIOUS
<1>6. /\ y \in Seq(Int) /\ Len(y) = n + 1 /\ y[n + 1] = e * x
      /\ \A i \in 1 .. n : y[i] = s[i] * v[i]
  BY <1>1, <1>5
<1>7. /\ Flip(w, t) \in Seq(Int) /\ Len(Flip(w, t)) = n + 1
      /\ \A i \in 1 .. n + 1 : Flip(w, t)[i] = t[i] * w[i]
  BY <1>0, <1>4, SignsAre
<1> HIDE DEF t, y, w, n
<1>8. ASSUME NEW i \in 1 .. n + 1 PROVE Flip(w, t)[i] = y[i]
  <2>1. CASE i = n + 1
    BY <1>0, <1>2, <1>6, <1>7, <2>1
  <2>2. CASE i # n + 1
    <3>1. i \in 1 .. n
      BY <1>0, <2>2
    <3> QED
      BY <1>0, <1>2, <1>6, <1>7, <3>1
  <2> QED
    BY <2>1, <2>2
<1>9. Flip(w, t) = y
  BY <1>6, <1>7, <1>8
<1> QED
  BY <1>2, <1>4, <1>9 DEF t, y, w, n

(* The last of the signs. *)
LEMMA SignLast ==
  ASSUME NEW v \in Seq(Int), NEW x \in Int, NEW t \in Signs(Append(v, x))
  PROVE  \E s \in Signs(v), e \in {1, -1} :
           t = Append(s, e) /\ t[Len(v) + 1] = e
                /\ Flip(Append(v, x), t) = Append(Flip(v, s), e * x)
<1> DEFINE n == Len(v)
           w == Append(v, x)
<1>0. /\ w \in Seq(Int) /\ Len(w) = n + 1 /\ n \in Nat /\ DOMAIN w = 1 .. n + 1
      /\ w[n + 1] = x /\ \A i \in 1 .. n : w[i] = v[i] /\ DOMAIN v = 1 .. n
  OBVIOUS
<1> DEFINE s == [i \in 1 .. n |-> t[i]]
           e == t[n + 1]
<1>1. /\ t \in Seq({1, -1}) /\ Len(t) = n + 1
      /\ \A i \in 1 .. n + 1 : t[i] = 1 \/ t[i] = -1
  <2>1. w \in Seq(Int) /\ Len(w) = n + 1 /\ t \in Signs(w)
    BY <1>0
  <2> HIDE DEF w, n
  <2>2. /\ t \in Seq({1, -1}) /\ Len(t) = Len(w)
        /\ \A i \in 1 .. Len(w) : t[i] = 1 \/ t[i] = -1
    BY <2>1, SignsAre, Zenon
  <2> QED
    BY <2>1, <2>2
<1>2. s \in [1 .. n -> {1, -1}] /\ e \in {1, -1} /\ \A i \in 1 .. n : s[i] = t[i]
  BY <1>0, <1>1
<1> HIDE DEF s, e
<1>3. s \in Signs(v)
  BY <1>0, <1>2 DEF Signs
<1>4. s \in Seq({1, -1}) /\ Len(s) = n
  BY <1>0, <1>2
<1>5. /\ Append(s, e) \in Seq({1, -1}) /\ Len(Append(s, e)) = n + 1
      /\ Append(s, e)[n + 1] = e /\ \A i \in 1 .. n : Append(s, e)[i] = s[i]
  BY <1>2, <1>4
<1>6. ASSUME NEW i \in 1 .. n + 1 PROVE t[i] = Append(s, e)[i]
  <2>1. CASE i = n + 1
    BY <1>5, <2>1 DEF e
  <2>2. CASE i # n + 1
    <3>1. i \in 1 .. n
      BY <1>0, <2>2
    <3> QED
      BY <1>2, <1>5, <3>1
  <2> QED
    BY <2>1, <2>2
<1>7. t = Append(s, e)
  BY <1>1, <1>5, <1>6
<1>8. /\ Append(s, e)[Len(v) + 1] = e
      /\ Flip(Append(v, x), Append(s, e)) = Append(Flip(v, s), e * x)
  BY <1>2, <1>3, SignTaken
<1> QED
  BY <1>2, <1>3, <1>7, <1>8

(* The signs that lead to a total in Z, and how many they are. *)
Reaching(u, Z) == {s \in Signs(u) : SignedTotal(Flip(u, s)) \in Z}
Ways(u, Z) == Cardinality(Reaching(u, Z))

(* Z, as seen without a last score that counts x. *)
Without(Z, x) == {t \in Int : t + x \in Z}

(* Those in which the last sign is e. *)
Ending(u, Z, e) == {s \in Reaching(u, Z) : s[Len(u)] = e}

(* They are as many as without the last score. *)
LEMMA EndingMany ==
  ASSUME NEW v \in Seq(Int), NEW x \in Int, IsFiniteSet(Signs(v)), NEW Z,
         NEW e \in {1, -1}
  PROVE  /\ IsFiniteSet(Ending(Append(v, x), Z, e))
         /\ Cardinality(Ending(Append(v, x), Z, e)) = Ways(v, Without(Z, e * x))
<1> DEFINE w == Append(v, x)
           S == Reaching(v, Without(Z, e * x))
           T == Ending(w, Z, e)
           f == [s \in S |-> Append(s, e)]
<1>1. IsFiniteSet(S)
  BY FS_Subset DEF Reaching
<1>2. w \in Seq(Int) /\ Len(w) = Len(v) + 1 /\ e * x \in Int
  OBVIOUS
<1>3. ASSUME NEW s \in Signs(v)
      PROVE  /\ SignedTotal(Flip(v, s)) \in Int
             /\ SignedTotal(Flip(w, Append(s, e))) = SignedTotal(Flip(v, s)) + e * x
  <2>1. Flip(v, s) \in Seq(Int)
    BY SignsAre
  <2>2. Flip(w, Append(s, e)) = Append(Flip(v, s), e * x)
    BY SignTaken
  <2>3. /\ SignedTotal(Flip(v, s)) \in Int
        /\ SignedTotal(Append(Flip(v, s), e * x)) = Added(SignedTotal(Flip(v, s)), e * x)
    BY <1>2, <2>1, SignedTotalLaws
  <2> QED
    BY <2>2, <2>3 DEF Added
<1>4. ASSUME NEW s \in S PROVE Append(s, e) \in T
  <2>1. s \in Signs(v) /\ SignedTotal(Flip(v, s)) + e * x \in Z
    BY DEF Reaching, Without
  <2>2. Append(s, e) \in Signs(w) /\ Append(s, e)[Len(v) + 1] = e
    BY <2>1, SignTaken
  <2>3. SignedTotal(Flip(w, Append(s, e))) \in Z
    BY <1>3, <2>1
  <2> QED
    BY <1>2, <2>2, <2>3 DEF Ending, Reaching
<1>5. f \in [S -> T]
  BY <1>4
<1>6. ASSUME NEW s \in S, NEW t \in S, f[s] = f[t] PROVE s = t
  <2>1. s \in Seq({1, -1}) /\ t \in Seq({1, -1})
    BY SignsAre DEF Reaching
  <2>2. Append(s, e) = Append(t, e)
    BY <1>6
  <2> QED
    BY <2>1, <2>2
<1>7. ASSUME NEW t \in T PROVE \E s \in S : f[s] = t
  <2>1. t \in Signs(w) /\ SignedTotal(Flip(w, t)) \in Z /\ t[Len(v) + 1] = e
    BY <1>2 DEF Ending, Reaching
  <2>2. PICK s \in Signs(v), d \in {1, -1} : t = Append(s, d) /\ t[Len(v) + 1] = d
    BY <2>1, SignLast
  <2>3. d = e
    BY <2>1, <2>2
  <2>4. s \in S
    BY <1>3, <2>1, <2>2, <2>3 DEF Reaching, Without
  <2> QED
    BY <2>2, <2>3, <2>4
<1> HIDE DEF f, S, T
<1>8. IsFiniteSet(T) /\ Cardinality(T) = Cardinality(S)
  BY <1>1, <1>5, <1>6, <1>7, EquallyMany
<1> QED
  BY <1>8 DEF S, T, Ways

(* The last sign is one of two. *)
LEMMA WaysAppend ==
  ASSUME NEW v \in Seq(Int), NEW x \in Int, IsFiniteSet(Signs(v)), NEW Z
  PROVE  /\ IsFiniteSet(Reaching(Append(v, x), Z))
         /\ Ways(Append(v, x), Z) = Ways(v, Without(Z, x)) + Ways(v, Without(Z, -x))
<1> DEFINE w == Append(v, x)
           A == Ending(w, Z, 1)
           B == Ending(w, Z, -1)
<1>1. 1 * x = x /\ (-1) * x = -x /\ 1 \in {1, -1} /\ -1 \in {1, -1}
  OBVIOUS
<1>2. /\ IsFiniteSet(A) /\ Cardinality(A) = Ways(v, Without(Z, 1 * x))
      /\ IsFiniteSet(B) /\ Cardinality(B) = Ways(v, Without(Z, (-1) * x))
  BY <1>1, EndingMany
<1>3. w \in Seq(Int) /\ Len(w) = Len(v) + 1 /\ Len(w) \in 1 .. Len(w)
  OBVIOUS
<1>4. Reaching(w, Z) = A \cup B
  <2>1. \A s \in Signs(w) : s[Len(w)] = 1 \/ s[Len(w)] = -1
    BY <1>3, SignsAre
  <2> QED
    BY <2>1 DEF Ending, Reaching
<1>5. A \cap B = {}
  BY DEF Ending
<1> HIDE DEF A, B
<1>6. /\ IsFiniteSet(A \cup B)
      /\ Cardinality(A \cup B) = Cardinality(A) + Cardinality(B) - Cardinality(A \cap B)
  BY <1>2, FS_Union
<1>7. Cardinality(A \cap B) = 0 /\ Cardinality(A) \in Nat /\ Cardinality(B) \in Nat
  BY <1>2, <1>5, FS_EmptySet, FS_CardinalityType
<1> QED
  BY <1>1, <1>2, <1>4, <1>6, <1>7 DEF Ways

(* The scores of a sequence's beginning, and its last score. *)
LEMMA LastScore ==
  ASSUME NEW u \in Seq(Int), NEW n \in Nat, Len(u) = n + 1
  PROVE  \E v \in Seq(Int), x \in Int : u = Append(v, x) /\ Len(v) = n
<1> DEFINE v == [i \in 1 .. n |-> u[i]]
<1>1. u[n + 1] \in Int /\ \A i \in 1 .. n : u[i] \in Int
  OBVIOUS
<1>2. v \in Seq(Int) /\ Len(v) = n /\ \A i \in 1 .. n : v[i] = u[i]
  BY <1>1
<1> HIDE DEF v
<1>3. /\ Append(v, u[n + 1]) \in Seq(Int) /\ Len(Append(v, u[n + 1])) = n + 1
      /\ Append(v, u[n + 1])[n + 1] = u[n + 1]
      /\ \A i \in 1 .. n : Append(v, u[n + 1])[i] = v[i]
  BY <1>1, <1>2
<1>4. ASSUME NEW i \in 1 .. n + 1 PROVE u[i] = Append(v, u[n + 1])[i]
  <2>1. CASE i = n + 1
    BY <1>3, <2>1
  <2>2. CASE i # n + 1
    <3>1. i \in 1 .. n
      BY <2>2
    <3> QED
      BY <1>2, <1>3, <3>1
  <2> QED
    BY <2>1, <2>2
<1>5. u = Append(v, u[n + 1])
  BY <1>3, <1>4
<1> QED
  BY <1>1, <1>2, <1>5

(* Induction over scores, with a set in the place of a predicate. *)
LEMMA ScoresInduction ==
  ASSUME NEW P, <<>> \in P,
         \A v \in Seq(Int), x \in Int : v \in P => Append(v, x) \in P
  PROVE  Seq(Int) \subseteq P
<1> SUFFICES ASSUME NEW u \in Seq(Int) PROVE u \in P
  OBVIOUS
<1> DEFINE S == {n \in Nat : \A v \in Seq(Int) : Len(v) = n => v \in P}
<1>1. 0 \in S
  <2>1. \A v \in Seq(Int) : Len(v) = 0 => v = <<>>
    OBVIOUS
  <2> QED
    BY <2>1
<1>2. ASSUME NEW n \in Nat, n \in S PROVE n + 1 \in S
  <2>1. ASSUME NEW w \in Seq(Int), Len(w) = n + 1 PROVE w \in P
    <3>1. PICK v \in Seq(Int), x \in Int : w = Append(v, x) /\ Len(v) = n
      BY <2>1, LastScore
    <3>2. v \in P
      BY <1>2, <3>1
    <3> QED
      BY <3>1, <3>2
  <2> QED
    BY <2>1
<1> HIDE DEF S
<1>3. \A k \in 1 .. Len(u) : k - 1 \in S => k \in S
  <2>1. \A k \in 1 .. Len(u) : k - 1 \in Nat /\ (k - 1) + 1 = k
    OBVIOUS
  <2> QED
    BY <1>2, <2>1
<1>4. Len(u) \in Nat
  OBVIOUS
<1>5. 0 .. Len(u) \subseteq S
  BY <1>1, <1>3, <1>4, Induction
<1>6. Len(u) \in S
  BY <1>4, <1>5
<1> QED
  BY <1>6 DEF S

(* Without scores there is one pattern, and its total is 0. *)
LEMMA NoScores ==
  /\ Signs(<<>>) = {<<>>} /\ Flip(<<>>, <<>>) = <<>>
  /\ IsFiniteSet(Signs(<<>>))
  /\ \A Z : Ways(<<>>, Z) = IF 0 \in Z THEN 1 ELSE 0
<1>1. Signs(<<>>) = {<<>>}
  <2>1. <<>> \in Seq(Int) /\ Len(<<>>) = 0 /\ DOMAIN <<>> = 1 .. 0
    OBVIOUS
  <2>2. ASSUME NEW s \in Signs(<<>>) PROVE s = <<>>
    <3>1. s \in Seq({1, -1}) /\ Len(s) = 0
      BY <2>1, SignsAre
    <3> QED
      BY <3>1
  <2>3. <<>> \in [1 .. 0 -> {1, -1}]
    OBVIOUS
  <2> QED
    BY <2>1, <2>2, <2>3 DEF Signs
<1>2. Flip(<<>>, <<>>) = <<>>
  BY DEF Flip
<1>3. IsFiniteSet({<<>>}) /\ Cardinality({<<>>}) = 1 /\ Cardinality({}) = 0
  BY FS_Singleton, FS_EmptySet
<1>4. ASSUME NEW Z PROVE Ways(<<>>, Z) = IF 0 \in Z THEN 1 ELSE 0
  <2>1. Reaching(<<>>, Z) = IF 0 \in Z THEN {<<>>} ELSE {}
    BY <1>1, <1>2, SignedTotalLaws DEF Reaching
  <2> QED
    BY <1>3, <2>1 DEF Ways
<1> QED
  BY <1>1, <1>2, <1>3, <1>4

(* There are finitely many patterns. *)
LEMMA SignsFinite ==
  ASSUME NEW u \in Seq(Int)
  PROVE  /\ IsFiniteSet(Signs(u))
         /\ Reaching(u, Int) = Signs(u) /\ Ways(u, Int) = Cardinality(Signs(u))
         /\ \A Z : IsFiniteSet(Reaching(u, Z)) /\ Ways(u, Z) \in Nat
<1>1. ASSUME NEW v \in Seq(Int) PROVE Reaching(v, Int) = Signs(v)
  <2>1. ASSUME NEW s \in Signs(v) PROVE SignedTotal(Flip(v, s)) \in Int
    BY SignsAre, SignedTotalLaws
  <2> QED
    BY <2>1 DEF Reaching
<1> DEFINE P == {v \in Seq(Int) : IsFiniteSet(Signs(v))}
<1>2. <<>> \in P
  BY NoScores
<1>3. ASSUME NEW v \in Seq(Int), NEW x \in Int, v \in P PROVE Append(v, x) \in P
  <2>1. Append(v, x) \in Seq(Int)
    OBVIOUS
  <2>2. IsFiniteSet(Reaching(Append(v, x), Int))
    BY <1>3, WaysAppend
  <2> QED
    BY <1>1, <2>1, <2>2
<1>4. IsFiniteSet(Signs(u))
  <2> HIDE DEF P
  <2>1. Seq(Int) \subseteq P
    BY <1>2, <1>3, ScoresInduction
  <2> QED
    BY <2>1 DEF P
<1>5. ASSUME NEW Z PROVE IsFiniteSet(Reaching(u, Z)) /\ Ways(u, Z) \in Nat
  <2>1. Reaching(u, Z) \in SUBSET Signs(u)
    BY DEF Reaching
  <2>2. IsFiniteSet(Reaching(u, Z))
    BY <1>4, <2>1, FS_Subset
  <2> QED
    BY <2>2, FS_CardinalityType DEF Ways
<1> QED
  BY <1>1, <1>4, <1>5 DEF Ways

(* A score more: its sign is one of two. *)
LEMMA WaysLaw ==
  ASSUME NEW v \in Seq(Int), NEW x \in Int, NEW Z
  PROVE  /\ Ways(Append(v, x), Z) = Ways(v, Without(Z, x)) + Ways(v, Without(Z, -x))
         /\ Ways(v, Without(Z, x)) \in Nat /\ Ways(v, Without(Z, -x)) \in Nat
         /\ Cardinality(Signs(Append(v, x))) = 2 * Cardinality(Signs(v))
         /\ Cardinality(Signs(v)) \in Nat
<1>1. IsFiniteSet(Signs(v)) /\ \A Y : Ways(v, Y) \in Nat
  BY SignsFinite
<1>2. /\ Ways(Append(v, x), Z) = Ways(v, Without(Z, x)) + Ways(v, Without(Z, -x))
      /\ Ways(Append(v, x), Int) = Ways(v, Without(Int, x)) + Ways(v, Without(Int, -x))
  BY <1>1, WaysAppend
<1>3. Without(Int, x) = Int /\ Without(Int, -x) = Int
  BY DEF Without
<1>4. Append(v, x) \in Seq(Int)
  OBVIOUS
<1>5. /\ Ways(v, Int) = Cardinality(Signs(v))
      /\ Ways(Append(v, x), Int) = Cardinality(Signs(Append(v, x)))
  BY <1>4, SignsFinite
<1>6. Ways(v, Int) \in Nat
  BY <1>1
<1> QED
  BY <1>1, <1>2, <1>3, <1>5, <1>6

(* Flipped scores reach what the scores reach. *)
LEMMA FlippedWays ==
  ASSUME NEW u \in Seq(Int), NEW s \in Signs(u), NEW Z
  PROVE  /\ Flip(u, s) \in Seq(Int) /\ Ways(Flip(u, s), Z) = Ways(u, Z)
         /\ Cardinality(Signs(Flip(u, s))) = Cardinality(Signs(u))
<1> DEFINE P == {v \in Seq(Int) : \A t \in Signs(v) : \A Y \in SUBSET Int :
                   Ways(Flip(v, t), Y) = Ways(v, Y)}
<1>1. <<>> \in P
  BY NoScores
<1>2. ASSUME NEW v \in Seq(Int), NEW x \in Int, v \in P PROVE Append(v, x) \in P
  <2>1. Append(v, x) \in Seq(Int)
    OBVIOUS
  <2>2. ASSUME NEW t \in Signs(Append(v, x)), NEW Y \in SUBSET Int
        PROVE  Ways(Flip(Append(v, x), t), Y) = Ways(Append(v, x), Y)
    <3>1. PICK r \in Signs(v), e \in {1, -1} :
             t = Append(r, e) /\ Flip(Append(v, x), t) = Append(Flip(v, r), e * x)
      BY SignLast
    <3>2. Flip(Append(v, x), t) = Append(Flip(v, r), e * x)
      BY <3>1
    <3>3. Flip(v, r) \in Seq(Int) /\ e * x \in Int
      BY SignsAre
    <3>4. Ways(Append(Flip(v, r), e * x), Y)
            = Ways(Flip(v, r), Without(Y, e * x)) + Ways(Flip(v, r), Without(Y, -(e * x)))
      BY <3>3, WaysLaw
    <3>5. \A z \in Int : Ways(Flip(v, r), Without(Y, z)) = Ways(v, Without(Y, z))
      <4>1. \A z \in Int : Without(Y, z) \in SUBSET Int
        BY DEF Without
      <4> QED
        BY <1>2, <4>1
    <3>6. /\ Ways(Append(v, x), Y) = Ways(v, Without(Y, x)) + Ways(v, Without(Y, -x))
          /\ Ways(v, Without(Y, x)) \in Nat /\ Ways(v, Without(Y, -x)) \in Nat
      BY WaysLaw
    <3>7. CASE e = 1
      <4>1. e * x = x /\ -(e * x) = -x /\ -x \in Int
        BY <3>7
      <4> QED
        BY <3>2, <3>4, <3>5, <3>6, <4>1
    <3>8. CASE e = -1
      <4>1. e * x = -x /\ -(e * x) = x /\ -x \in Int
        BY <3>8
      <4>2. Ways(Append(Flip(v, r), -x), Y)
              = Ways(v, Without(Y, -x)) + Ways(v, Without(Y, x))
        BY <3>4, <3>5, <4>1
      <4> QED
        BY <3>2, <3>6, <4>1, <4>2
    <3> QED
      BY <3>7, <3>8
  <2> QED
    BY <2>1, <2>2
<1>3. u \in P
  <2> HIDE DEF P
  <2>1. Seq(Int) \subseteq P
    BY <1>1, <1>2, ScoresInduction
  <2> QED
    BY <2>1
<1>4. Flip(u, s) \in Seq(Int)
  BY SignsAre
<1>5. \A Y \in SUBSET Int : Ways(Flip(u, s), Y) = Ways(u, Y)
  BY <1>3
<1>6. ASSUME NEW v \in Seq(Int) PROVE Ways(v, Z) = Ways(v, Z \cap Int)
  <2>1. \A t \in Signs(v) : SignedTotal(Flip(v, t)) \in Int
    BY SignsAre, SignedTotalLaws
  <2>2. Reaching(v, Z) = Reaching(v, Z \cap Int)
    BY <2>1 DEF Reaching
  <2> QED
    BY <2>2 DEF Ways
<1>7. Ways(Flip(u, s), Z) = Ways(u, Z)
  BY <1>4, <1>5, <1>6
<1>8. /\ Ways(Flip(u, s), Int) = Cardinality(Signs(Flip(u, s)))
      /\ Ways(u, Int) = Cardinality(Signs(u))
  BY <1>4, SignsFinite
<1> QED
  BY <1>4, <1>5, <1>7, <1>8

(* A product, without a multiplication to look for. *)
Times(x, y) == x * y

(* Two ways each, or one. *)
LEMMA TwiceAsMany ==
  ASSUME NEW a \in Int, NEW b \in Int, NEW c \in Int, NEW p \in Int, NEW q \in Int,
         NEW s \in Int, Times(a, c) = Times(p, s), Times(b, c) = Times(q, s)
  PROVE  /\ Times(a + b, 2 * c) = Times(p + q, 2 * s)
         /\ Times(a + a, c) = Times(p, 2 * s)
<1>1. (a + b) * c = a * c + b * c /\ (p + q) * s = p * s + q * s
  OBVIOUS
<1>2. (a + b) * (2 * c) = 2 * ((a + b) * c) /\ (p + q) * (2 * s) = 2 * ((p + q) * s)
  OBVIOUS
<1>3. (a + a) * c = 2 * (a * c) /\ p * (2 * s) = 2 * (p * s)
  OBVIOUS
<1>4. a * c \in Int /\ b * c \in Int /\ p * s \in Int /\ q * s \in Int
  OBVIOUS
<1>5. a * c = p * s /\ b * c = q * s
  BY DEF Times
<1> QED
  BY <1>1, <1>2, <1>3, <1>4, <1>5 DEF Times

(* Scores of 0 change no total, and double what reaches it. *)
LEMMA NonzeroWays ==
  ASSUME NEW u \in Seq(Int)
  PROVE  /\ Nonzero(u) \in Seq(Int) /\ SignedTotal(Nonzero(u)) = SignedTotal(u)
         /\ \A Z \in SUBSET Int :
              Ways(u, Z) * Cardinality(Signs(Nonzero(u)))
                = Ways(Nonzero(u), Z) * Cardinality(Signs(u))
<1> DEFINE Same(v) == \A Z \in SUBSET Int :
                        Times(Ways(v, Z), Cardinality(Signs(Nonzero(v))))
                          = Times(Ways(Nonzero(v), Z), Cardinality(Signs(v)))
           P == {v \in Seq(Int) : SignedTotal(Nonzero(v)) = SignedTotal(v) /\ Same(v)}
<1>1. <<>> \in P
  <2>1. Nonzero(<<>>) = <<>>
    BY NonzeroLaws
  <2> QED
    BY <2>1
<1>2. ASSUME NEW v \in Seq(Int), NEW x \in Int, v \in P PROVE Append(v, x) \in P
  <2> DEFINE w == Append(v, x)
             e == Nonzero(v)
             c == Cardinality(Signs(e))
             m == Cardinality(Signs(v))
  <2>1. w \in Seq(Int) /\ e \in Seq(Int) /\ Nonzero(w) = KeptScore(e, x)
    BY NonzeroLaws DEF Lists
  <2>2. SignedTotal(w) = SignedTotal(v) + x /\ SignedTotal(v) \in Int
    BY SignedTotalLaws DEF Added
  <2>3. SignedTotal(e) = SignedTotal(v) /\ Same(v)
    BY <1>2
  <2>4. c \in Nat /\ m \in Nat /\ Cardinality(Signs(w)) = 2 * m
    BY <2>1, WaysLaw
  <2> HIDE DEF Same
  <2>5. CASE x = 0
    <3>1. Nonzero(w) = e
      BY <2>1, <2>5 DEF KeptScore
    <3>2. SignedTotal(Nonzero(w)) = SignedTotal(w)
      BY <2>2, <2>3, <2>5, <3>1
    <3>3. ASSUME NEW Z \in SUBSET Int
          PROVE  Times(Ways(w, Z), c) = Times(Ways(e, Z), Cardinality(Signs(w)))
      <4>1. Without(Z, x) = Z /\ Without(Z, -x) = Z
        <5>1. ASSUME NEW y \in Int, \A z \in Int : z + y = z PROVE Without(Z, y) = Z
          BY <5>1 DEF Without
        <5>2. -x \in Int /\ \A z \in Int : z + x = z /\ z + (-x) = z
          BY <2>5
        <5> QED
          BY <5>1, <5>2
      <4>2. Ways(w, Z) = Ways(v, Z) + Ways(v, Z) /\ Ways(v, Z) \in Int
        BY <4>1, WaysLaw
      <4>3. Times(Ways(v, Z), c) = Times(Ways(e, Z), m)
        BY <2>3 DEF Same
      <4>4. Ways(e, Z) \in Int
        BY <2>1, SignsFinite
      <4> HIDE DEF c, m, w, e
      <4>5. Times(Ways(v, Z) + Ways(v, Z), c) = Times(Ways(e, Z), 2 * m)
        <5>1. c \in Int /\ m \in Int
          BY <2>4
        <5> QED
          BY <4>2, <4>3, <4>4, <5>1, TwiceAsMany
      <4> QED
        BY <2>4, <4>2, <4>5
    <3>4. Same(w)
      BY <3>1, <3>3 DEF Same
    <3> QED
      BY <2>1, <3>2, <3>4
  <2>6. CASE x # 0
    <3>1. Nonzero(w) = Append(e, x) /\ Append(e, x) \in Seq(Int)
      BY <2>1, <2>6 DEF KeptScore
    <3>2. SignedTotal(Append(e, x)) = SignedTotal(e) + x
      BY <2>1, SignedTotalLaws DEF Added
    <3>3. SignedTotal(Nonzero(w)) = SignedTotal(w)
      BY <2>2, <2>3, <3>1, <3>2
    <3>4. ASSUME NEW Z \in SUBSET Int
          PROVE  Times(Ways(w, Z), Cardinality(Signs(Nonzero(w))))
                   = Times(Ways(Nonzero(w), Z), Cardinality(Signs(w)))
      <4> DEFINE A == Without(Z, x)
                 B == Without(Z, -x)
      <4>1. A \in SUBSET Int /\ B \in SUBSET Int
        BY DEF Without
      <4>2. /\ Ways(w, Z) = Ways(v, A) + Ways(v, B)
            /\ Ways(v, A) \in Int /\ Ways(v, B) \in Int
        BY WaysLaw
      <4>3. /\ Ways(Nonzero(w), Z) = Ways(e, A) + Ways(e, B)
            /\ Ways(e, A) \in Int /\ Ways(e, B) \in Int
            /\ Cardinality(Signs(Nonzero(w))) = 2 * c
        BY <2>1, <3>1, WaysLaw
      <4>4. /\ Times(Ways(v, A), c) = Times(Ways(e, A), m)
            /\ Times(Ways(v, B), c) = Times(Ways(e, B), m)
        BY <2>3, <4>1 DEF Same
      <4> HIDE DEF c, m, w, e, A, B
      <4>5. Times(Ways(v, A) + Ways(v, B), 2 * c) = Times(Ways(e, A) + Ways(e, B), 2 * m)
        <5>1. c \in Int /\ m \in Int
          BY <2>4
        <5> QED
          BY <4>2, <4>3, <4>4, <5>1, TwiceAsMany
      <4> QED
        BY <2>4, <4>2, <4>3, <4>5
    <3>5. Same(w)
      BY <3>4 DEF Same
    <3> QED
      BY <2>1, <3>3, <3>5
  <2> QED
    BY <2>5, <2>6
<1>3. u \in P
  <2> HIDE DEF P
  <2>1. Seq(Int) \subseteq P
    BY <1>1, <1>2, ScoresInduction
  <2> QED
    BY <2>1
<1>4. Nonzero(u) \in Seq(Int)
  BY NonzeroLaws DEF Lists
<1> QED
  BY <1>3, <1>4 DEF Times

(* Signs are the places that are positive. *)
LEMMA PatternsAre ==
  ASSUME NEW u \in Seq(Int)
  PROVE  /\ Patterns(u) = Cardinality(Signs(Nonzero(u)))
         /\ Patterns(u) \in Nat /\ Patterns(u) > 0
<1> DEFINE v == Nonzero(u)
           n == Len(v)
           D == SUBSET (1 .. n)
           f == [s \in Signs(v) |-> {i \in 1 .. n : s[i] = 1}]
<1>1. v \in Seq(Int) /\ n \in Nat
  BY NonzeroWays
<1>2. IsFiniteSet(Signs(v))
  BY <1>1, SignsFinite
<1>3. f \in [Signs(v) -> D]
  OBVIOUS
<1> HIDE DEF v, n
<1>4. ASSUME NEW s \in Signs(v), NEW t \in Signs(v), f[s] = f[t] PROVE s = t
  <2>1. /\ s \in Seq({1, -1}) /\ Len(s) = n /\ \A i \in 1 .. n : s[i] = 1 \/ s[i] = -1
        /\ t \in Seq({1, -1}) /\ Len(t) = n /\ \A i \in 1 .. n : t[i] = 1 \/ t[i] = -1
    BY <1>1, SignsAre DEF n
  <2>2. {i \in 1 .. n : s[i] = 1} = {i \in 1 .. n : t[i] = 1}
    BY <1>4
  <2>3. ASSUME NEW i \in 1 .. n PROVE s[i] = t[i]
    BY <2>1, <2>2
  <2> QED
    BY <1>1, <2>1, <2>3
<1>5. ASSUME NEW z \in D PROVE \E s \in Signs(v) : f[s] = z
  <2> DEFINE s == [i \in 1 .. n |-> IF i \in z THEN 1 ELSE -1]
  <2>1. s \in Signs(v)
    BY <1>1 DEF Signs, n
  <2>2. \A i \in 1 .. n : s[i] = IF i \in z THEN 1 ELSE -1
    OBVIOUS
  <2> HIDE DEF s
  <2>3. \A i \in 1 .. n : s[i] = 1 <=> i \in z
    BY <2>2
  <2>4. {i \in 1 .. n : s[i] = 1} = z
    BY <2>3
  <2> QED
    BY <2>1, <2>4
<1> HIDE DEF f, D
<1>6. IsFiniteSet(D) /\ Cardinality(D) = Cardinality(Signs(v))
  <2> DEFINE S == Signs(v)
  <2>1. /\ f \in [S -> D] /\ IsFiniteSet(S)
        /\ \A s, t \in S : f[s] = f[t] => s = t
        /\ \A z \in D : \E s \in S : f[s] = z
    BY <1>2, <1>3, <1>4, <1>5
  <2> HIDE DEF S
  <2>2. IsFiniteSet(D) /\ Cardinality(D) = Cardinality(S)
    BY <2>1, EquallyMany
  <2> QED
    BY <2>2 DEF S
<1>7. IsFiniteSet(1 .. n) /\ Cardinality(1 .. n) = n
  BY <1>1, FS_Interval
<1>8. IsFiniteSet(D) /\ Cardinality(D) = 2 ^ Cardinality(1 .. n)
  BY <1>7, FS_SUBSET, Zenon DEF D
<1>9. Cardinality(D) = 2 ^ n
  BY <1>7, <1>8, Zenon
<1>10. Patterns(u) = Cardinality(D)
  BY <1>9, Zenon DEF Patterns, n, v
<1>11. D # {}
  BY DEF D
<1>12. Cardinality(D) \in Nat /\ Cardinality(D) # 0
  BY <1>8, <1>11, FS_CardinalityType, FS_EmptySet
<1> QED
  BY <1>6, <1>10, <1>12 DEF v

(* Being extreme is an order. *)
LEMMA ExtremeOrder ==
  ASSUME alternative \in Alternatives,
         NEW x \in Int, NEW y \in Int, NEW z \in Int
  PROVE  /\ Extreme(x, y) \in BOOLEAN
         /\ Extreme(x, x) /\ (Extreme(x, y) \/ Extreme(y, x))
         /\ Extreme(x, y) /\ Extreme(y, z) => Extreme(x, z)
<1>1. CASE alternative = "two_sided"
  BY <1>1 DEF Extreme, Magnitude
<1>2. CASE alternative = "greater"
  BY <1>2 DEF Extreme
<1>3. CASE alternative = "less"
  BY <1>3 DEF Extreme
<1> QED
  BY <1>1, <1>2, <1>3 DEF Alternatives

(* The totals that are as extreme as o. *)
AsExtreme(o) == {t \in Int : Extreme(t, o)}

(* A p-value is the share of the patterns that are as extreme. *)
LEMMA PValueIs ==
  ASSUME alternative \in Alternatives, NEW u \in Seq(Int)
  PROVE  /\ PValue(u).n \in Nat /\ PValue(u).d \in Nat /\ PValue(u).d > 0
         /\ PValue(u) = Fraction(PValue(u).n, PValue(u).d)
         /\ PValue(u).n * Cardinality(Signs(u))
              = Ways(u, AsExtreme(SignedTotal(u))) * PValue(u).d
<1> DEFINE e == Nonzero(u)
           o == SignedTotal(u)
<1>1. e \in Seq(Int) /\ SignedTotal(e) = o
  BY NonzeroWays
<1>2. Patterns(u) = Cardinality(Signs(e)) /\ Patterns(u) \in Nat /\ Patterns(u) > 0
  BY PatternsAre
<1>3. ExtremeCount(u) = Ways(e, AsExtreme(o))
  <2>1. \A s \in Signs(e) : SignedTotal(Flip(e, s)) \in Int
    BY <1>1, SignsAre, SignedTotalLaws
  <2>2. {s \in Signs(e) : Extreme(SignedTotal(Flip(e, s)), SignedTotal(e))}
          = Reaching(e, AsExtreme(o))
    BY <1>1, <2>1 DEF Reaching, AsExtreme
  <2> QED
    BY <2>2 DEF ExtremeCount, Ways
<1>4. AsExtreme(o) \in SUBSET Int
  BY DEF AsExtreme
<1>5. Ways(e, AsExtreme(o)) \in Nat /\ Ways(u, AsExtreme(o)) \in Nat
      /\ Cardinality(Signs(u)) \in Nat
  BY <1>1, SignsFinite, FS_CardinalityType
<1>6. Ways(u, AsExtreme(o)) * Cardinality(Signs(e))
        = Ways(e, AsExtreme(o)) * Cardinality(Signs(u))
  BY <1>4, NonzeroWays
<1>7. /\ PValue(u) = Fraction(ExtremeCount(u), Patterns(u))
      /\ PValue(u).n = ExtremeCount(u) /\ PValue(u).d = Patterns(u)
  BY DEF PValue, Fraction
<1> QED
  BY <1>2, <1>3, <1>5, <1>6, <1>7

(* Both sides may be multiplied. *)
LEMMA Scaled ==
  ASSUME NEW x \in Int, NEW y \in Int, NEW z \in Int, z > 0
  PROVE  x <= y <=> Times(x, z) <= Times(y, z)
<1>1. CASE x <= y
  <2>1. y - x >= 0
    BY <1>1
  <2>2. (y - x) * z >= 0
    BY <2>1
  <2>3. (y - x) * z = y * z - x * z
    OBVIOUS
  <2> QED
    BY <1>1, <2>2, <2>3 DEF Times
<1>2. CASE ~(x <= y)
  <2>1. x - y > 0
    BY <1>2
  <2>2. (x - y) * z > 0
    BY <2>1
  <2>3. (x - y) * z = x * z - y * z
    OBVIOUS
  <2> QED
    BY <1>2, <2>2, <2>3 DEF Times
<1> QED
  BY <1>1, <1>2

(* A share that is at most a / b, of another size. *)
LEMMA SharesCompare ==
  ASSUME NEW n \in Int, NEW d \in Int, NEW m \in Int, NEW c \in Int, NEW a \in Int,
         NEW b \in Int, d > 0, m > 0, Times(n, m) = Times(c, d)
  PROVE  Times(n, b) <= Times(a, d) <=> Times(c, b) <= Times(a, m)
<1>1. n * b <= a * d <=> (n * b) * m <= (a * d) * m
  <2>1. n * b \in Int /\ a * d \in Int
    OBVIOUS
  <2>2. n * b <= a * d <=> Times(n * b, m) <= Times(a * d, m)
    BY <2>1, Scaled
  <2> QED
    BY <2>2 DEF Times
<1>2. c * b <= a * m <=> (c * b) * d <= (a * m) * d
  <2>1. c * b \in Int /\ a * m \in Int
    OBVIOUS
  <2>2. c * b <= a * m <=> Times(c * b, d) <= Times(a * m, d)
    BY <2>1, Scaled
  <2> QED
    BY <2>2 DEF Times
<1>3. (n * b) * m = (n * m) * b /\ (c * b) * d = (c * d) * b
  OBVIOUS
<1>4. (a * d) * m = (a * m) * d
  OBVIOUS
<1>5. n * m = c * d
  BY DEF Times
<1> QED
  BY <1>1, <1>2, <1>3, <1>4, <1>5 DEF Times

(* The patterns u could have had whose p-value is at most a / b. *)
Significant(u, a, b) ==
  {s \in Signs(u) : AtMost(PValue(Flip(u, s)), Fraction(a, b))}

(* As many patterns as are at least as extreme as that of s. *)
Beyond(u, s) == Reaching(u, AsExtreme(SignedTotal(Flip(u, s))))

(* A p-value, whatever the signs are, counts the patterns beyond. *)
LEMMA SignificantIs ==
  ASSUME alternative \in Alternatives, NEW u \in Seq(Int), NEW s \in Signs(u),
         NEW a \in Int, NEW b \in Int
  PROVE  s \in Significant(u, a, b)
           <=> Cardinality(Beyond(u, s)) * b <= a * Cardinality(Signs(u))
<1> DEFINE w == Flip(u, s)
           n == PValue(w).n
           d == PValue(w).d
           m == Cardinality(Signs(u))
           c == Cardinality(Beyond(u, s))
<1>1. w \in Seq(Int) /\ Cardinality(Signs(w)) = m
  BY FlippedWays
<1>2. n \in Nat /\ d \in Nat /\ d > 0 /\ n * m = Ways(w, AsExtreme(SignedTotal(w))) * d
  BY <1>1, PValueIs
<1>3. Ways(w, AsExtreme(SignedTotal(w))) = c
  BY FlippedWays DEF Beyond, Ways
<1>4. m \in Nat /\ c \in Nat
  BY SignsFinite, FS_CardinalityType DEF Beyond, Ways
<1>5. m # 0
  BY SignsFinite, FS_EmptySet
<1>6. s \in Significant(u, a, b) <=> n * b <= a * d
  BY DEF Significant, AtMost, Fraction
<1> HIDE DEF n, d, m, c
<1>7. Times(n, m) = Times(c, d)
  BY <1>2, <1>3 DEF Times
<1>8. Times(n, b) <= Times(a, d) <=> Times(c, b) <= Times(a, m)
  BY <1>2, <1>4, <1>5, <1>7, SharesCompare
<1> QED
  BY <1>6, <1>8 DEF c, m, Times

(* Of the signs that u could have had, at most the share a / b has a        *)
(* p-value of at most a / b.                                               *)
LEMMA LevelHolds ==
  ASSUME alternative \in Alternatives, NEW u \in Seq(Int), NEW a \in Nat, NEW b \in Nat
  PROVE  /\ IsFiniteSet(Significant(u, a, b))
         /\ Cardinality(Significant(u, a, b)) * b <= a * Cardinality(Signs(u))
<1> DEFINE M == Cardinality(Signs(u))
           B == Significant(u, a, b)
           c(s) == Cardinality(Beyond(u, s))
<1>1. IsFiniteSet(Signs(u)) /\ M \in Nat
  BY SignsFinite, FS_CardinalityType
<1>2. B \in SUBSET Signs(u)
  BY DEF Significant
<1>3. IsFiniteSet(B) /\ Cardinality(B) \in Nat
  BY <1>1, <1>2, FS_Subset, FS_CardinalityType
<1>4. ASSUME NEW s \in Signs(u)
      PROVE  /\ IsFiniteSet(Beyond(u, s)) /\ c(s) \in Nat /\ c(s) <= M
             /\ SignedTotal(Flip(u, s)) \in Int
  <2>1. Beyond(u, s) \in SUBSET Signs(u)
    BY DEF Beyond, Reaching
  <2>2. IsFiniteSet(Beyond(u, s)) /\ c(s) \in Nat /\ c(s) <= M
    BY <1>1, <2>1, FS_Subset, FS_CardinalityType
  <2> QED
    BY <2>2, SignsAre, SignedTotalLaws
<1>5. CASE B = {}
  <2>1. Cardinality(B) = 0
    BY <1>5, FS_EmptySet
  <2>2. 0 * b = 0 /\ a * M >= 0
    BY <1>1
  <2> QED
    BY <1>3, <2>1, <2>2
<1>6. CASE B # {}
  <2> DEFINE K == {M - c(s) : s \in B}
  <2>1. K \in SUBSET Nat /\ K # {}
    BY <1>1, <1>2, <1>4, <1>6
  <2>2. PICK k \in K : \A j \in K : k <= j
    <3> HIDE DEF K
    <3>1. PICK x \in K : \A j \in K : ~(<<j, x>> \in OpToRel(<, Nat))
      BY <2>1, WFMin, NatLessThanWellFounded
    <3>2. \A j \in K : ~(j < x)
      BY <2>1, <3>1 DEF OpToRel
    <3> QED
      BY <2>1, <3>2
  <2>3. PICK r \in B : k = M - c(r)
    OBVIOUS
  <2>4. ASSUME NEW s \in B PROVE c(s) <= c(r)
    <3>1. s \in Signs(u) /\ r \in Signs(u)
      BY <1>2
    <3>2. M - c(r) <= M - c(s)
      BY <2>2, <2>3
    <3>3. c(s) \in Nat /\ c(r) \in Nat
      BY <1>4, <3>1
    <3> HIDE DEF c, M
    <3> QED
      BY <1>1, <3>2, <3>3
  <2>5. r \in Signs(u)
    BY <1>2
  <2>6. ASSUME NEW s \in B PROVE s \in Beyond(u, r)
    <3> DEFINE x == SignedTotal(Flip(u, s))
               y == SignedTotal(Flip(u, r))
    <3>1. s \in Signs(u) /\ x \in Int /\ y \in Int
      BY <1>2, <1>4, <2>5
    <3>2. SUFFICES ASSUME ~Extreme(x, y) PROVE FALSE
      BY <3>1 DEF Beyond, Reaching, AsExtreme
    <3>3. Extreme(y, x) /\ Extreme(x, x)
      BY <3>1, <3>2, ExtremeOrder
    <3>4. ASSUME NEW t \in Beyond(u, r) PROVE t \in Beyond(u, s)
      <4>1. t \in Signs(u) /\ Extreme(SignedTotal(Flip(u, t)), y)
        BY DEF Beyond, Reaching, AsExtreme
      <4>2. SignedTotal(Flip(u, t)) \in Int
        BY <1>4, <4>1
      <4>3. Extreme(SignedTotal(Flip(u, t)), x)
        BY <3>1, <3>3, <4>1, <4>2, ExtremeOrder
      <4> QED
        BY <4>1, <4>2, <4>3 DEF Beyond, Reaching, AsExtreme
    <3>5. s \in Beyond(u, s) /\ s \notin Beyond(u, r)
      BY <3>1, <3>2, <3>3 DEF Beyond, Reaching, AsExtreme
    <3>6. Beyond(u, r) \in SUBSET Beyond(u, s) /\ Beyond(u, r) # Beyond(u, s)
      BY <3>4, <3>5
    <3>7. c(r) <= c(s) /\ c(r) # c(s)
      BY <1>4, <3>1, <3>6, FS_Subset
    <3>8. c(s) <= c(r) /\ c(s) \in Nat /\ c(r) \in Nat
      BY <1>4, <2>4, <2>5, <3>1
    <3> HIDE DEF c
    <3> QED
      BY <3>7, <3>8
  <2>7. Cardinality(B) <= c(r)
    <3>1. B \in SUBSET Beyond(u, r)
      BY <2>6
    <3> QED
      BY <1>4, <2>5, <3>1, FS_Subset
  <2>8. c(r) * b <= a * M
    BY <2>5, SignificantIs
  <2>9. c(r) \in Nat
    BY <1>4, <2>5
  <2> HIDE DEF c, M, B
  <2>10. Cardinality(B) * b <= c(r) * b
    <3>1. CASE b = 0
      BY <1>3, <2>9, <3>1
    <3>2. CASE b # 0
      <4>1. Cardinality(B) <= c(r) <=> Times(Cardinality(B), b) <= Times(c(r), b)
        BY <1>3, <2>9, <3>2, Scaled
      <4> QED
        BY <2>7, <4>1 DEF Times
    <3> QED
      BY <3>1, <3>2
  <2>11. Cardinality(B) * b \in Int /\ c(r) * b \in Int /\ a * M \in Int
    BY <1>1, <1>3, <2>9
  <2>12. Cardinality(B) * b <= a * M
    BY <2>8, <2>10, <2>11
  <2> QED
    BY <1>3, <2>12, Zenon DEF B, M
<1> QED
  BY <1>3, <1>5, <1>6

(* Probabilities: what holm_adjust accepts, and what it hands on. *)
Fractions == {x \in [n : Nat, d : Nat] : x.d > 0}

(* A fraction. *)
LEMMA FractionType ==
  /\ \A n \in Nat, d \in Nat : d > 0 => Fraction(n, d) \in Fractions
  /\ \A x \in Fractions : x.n \in Nat /\ x.d \in Nat /\ x.d > 0
  /\ \A n, d : Fraction(n, d).n = n /\ Fraction(n, d).d = d
BY DEF Fractions, Fraction

(* Fractions are ordered by their values. *)
LEMMA AtMostOrder ==
  ASSUME NEW x \in Fractions, NEW y \in Fractions, NEW z \in Fractions
  PROVE  /\ AtMost(x, y) \in BOOLEAN
         /\ AtMost(x, x) /\ (AtMost(x, y) \/ AtMost(y, x))
         /\ AtMost(x, y) /\ AtMost(y, z) => AtMost(x, z)
<1>1. /\ x.n \in Nat /\ x.d \in Nat /\ x.d > 0 /\ y.n \in Nat /\ y.d \in Nat /\ y.d > 0
      /\ z.n \in Nat /\ z.d \in Nat /\ z.d > 0
  BY FractionType
<1>2. AtMost(x, x) /\ (AtMost(x, y) \/ AtMost(y, x)) /\ AtMost(x, y) \in BOOLEAN
  BY <1>1 DEF AtMost
<1>3. ASSUME NEW a \in Nat, NEW b \in Nat, NEW c \in Nat, NEW d \in Nat,
             NEW e \in Nat, NEW f \in Nat, b > 0, d > 0, f > 0,
             a * d <= c * b, c * f <= e * d
      PROVE  a * f <= e * b
  <2>1. a * d \in Int /\ c * b \in Int /\ c * f \in Int /\ e * d \in Int /\ a * f \in Int
        /\ e * b \in Int
    OBVIOUS
  <2>2. Times(a * d, f) <= Times(c * b, f) /\ Times(c * f, b) <= Times(e * d, b)
    BY <1>3, <2>1, Scaled
  <2>3. /\ (a * d) * f = (a * f) * d /\ (c * b) * f = (c * f) * b
        /\ (e * d) * b = (e * b) * d
    OBVIOUS
  <2>4. (a * f) * d \in Int /\ (c * f) * b \in Int /\ (e * b) * d \in Int
    BY <2>1
  <2>5. Times(a * f, d) <= Times(e * b, d)
    BY <2>2, <2>3, <2>4 DEF Times
  <2> QED
    BY <1>3, <2>1, <2>5, Scaled
<1>4. ASSUME AtMost(x, y), AtMost(y, z) PROVE AtMost(x, z)
  <2>1. x.n * y.d <= y.n * x.d /\ y.n * z.d <= z.n * y.d
    BY <1>4 DEF AtMost
  <2>2. x.n * z.d <= z.n * x.d
    BY <1>1, <1>3, <2>1, Zenon
  <2> QED
    BY <2>2 DEF AtMost
<1> QED
  BY <1>2, <1>4

(* There are finitely many contrasts. *)
LEMMA LabelsFinite ==
  /\ IsFiniteSet(Labels) /\ Cardinality(Labels) \in Nat
  /\ DOMAIN Contrasts \subseteq Nat
  /\ \A c \in Labels : \E i \in DOMAIN Contrasts : Contrasts[i] = c
<1> DEFINE D == 1 .. Len(Contrasts)
<1>1. Contrasts \in [D -> Labels] /\ DOMAIN Contrasts = D /\ Len(Contrasts) \in Nat
  BY FamilyAssumption DEF Labels
<1>2. \A c \in Labels : \E i \in D : Contrasts[i] = c
  BY <1>1 DEF Labels, Range
<1>3. Contrasts \in Surjection(D, Labels)
  BY <1>1, <1>2 DEF Surjection
<1>4. IsFiniteSet(D)
  BY <1>1, FS_Interval
<1>5. IsFiniteSet(Labels)
  BY <1>3, <1>4, FS_Surjection
<1> QED
  BY <1>1, <1>2, <1>5, FS_CardinalityType

(* The order of holm_adjust: by p-value, and then by label. *)
LabelRank(c) == CHOOSE i \in DOMAIN Contrasts : Contrasts[i] = c
Sooner(pValues, a, b) ==
  \/ ~AtMost(pValues[b], pValues[a])
  \/ /\ AtMost(pValues[a], pValues[b]) /\ AtMost(pValues[b], pValues[a])
     /\ LabelRank(a) < LabelRank(b)
SoonerPairs(pValues) == {e \in Labels \X Labels : Sooner(pValues, e[1], e[2])}

(* It is an order. *)
LEMMA SoonerOrdered ==
  ASSUME NEW pValues \in [Labels -> Fractions]
  PROVE  Ordering(Labels, SoonerPairs(pValues))
<1> DEFINE p == pValues
           R == SoonerPairs(pValues)
<1>1. \A c \in Labels : LabelRank(c) \in Nat /\ Contrasts[LabelRank(c)] = c
  BY LabelsFinite DEF LabelRank
<1>2. \A a, b \in Labels : <<a, b>> \in R <=> Sooner(p, a, b)
  BY DEF SoonerPairs
<1>3. \A a \in Labels : ~Sooner(p, a, a)
  BY <1>1, AtMostOrder DEF Sooner
<1>4. ASSUME NEW a \in Labels, NEW b \in Labels
      PROVE  a = b \/ Sooner(p, a, b) \/ Sooner(p, b, a)
  <2>1. LabelRank(a) = LabelRank(b) => a = b
    BY <1>1
  <2>2. LabelRank(a) \in Nat /\ LabelRank(b) \in Nat
    BY <1>1
  <2> QED
    BY <2>1, <2>2 DEF Sooner
<1>5. ASSUME NEW a \in Labels, NEW b \in Labels, NEW c \in Labels,
             Sooner(p, a, b), Sooner(p, b, c)
      PROVE  Sooner(p, a, c)
  <2>1. LabelRank(a) \in Nat /\ LabelRank(b) \in Nat /\ LabelRank(c) \in Nat
    BY <1>1
  <2>2. p[a] \in Fractions /\ p[b] \in Fractions /\ p[c] \in Fractions
    OBVIOUS
  <2>3. \A x, y, z \in Fractions :
          /\ AtMost(x, y) \/ AtMost(y, x)
          /\ AtMost(x, y) /\ AtMost(y, z) => AtMost(x, z)
    BY AtMostOrder
  <2>4. AtMost(p[a], p[b]) /\ AtMost(p[b], p[c])
    BY <1>5, <2>2, <2>3 DEF Sooner
  <2>5. AtMost(p[a], p[c])
    BY <2>2, <2>3, <2>4
  <2>6. CASE ~AtMost(p[c], p[a])
    BY <2>6 DEF Sooner
  <2>7. CASE AtMost(p[c], p[a])
    <3>1. AtMost(p[b], p[a]) /\ AtMost(p[c], p[b])
      BY <2>2, <2>3, <2>4, <2>7
    <3>2. LabelRank(a) < LabelRank(b) /\ LabelRank(b) < LabelRank(c)
      BY <1>5, <3>1 DEF Sooner
    <3> QED
      BY <2>1, <2>5, <2>7, <3>2 DEF Sooner
  <2> QED
    BY <2>6, <2>7
<1> HIDE DEF R
<1> QED
  BY <1>2, <1>3, <1>4, <1>5 DEF Ordering, R

(* So the hypotheses are judged in that order. *)
LEMMA JudgedInOrder ==
  ASSUME NEW pValues \in [Labels -> Fractions]
  PROVE  InOrder(Ordered(pValues), Labels, SoonerPairs(pValues))
<1> DEFINE D == Labels
           R == SoonerPairs(pValues)
           place == Ordered(pValues)
           B(a, b) == Sooner(pValues, a, b)
           e(k) == CHOOSE x \in D : Cardinality({y \in D : B(y, x)}) = k - 1
<1>1. IsFiniteSet(D) /\ Ordering(D, R)
  BY LabelsFinite, SoonerOrdered
<1>2. place = [k \in 1 .. Cardinality(D) |-> e(k)]
  BY DEF Ordered, Ranked, Sooner, LabelRank
<1>3. \A z \in D : {y \in D : B(y, z)} = Ahead(D, R, z)
  BY DEF Ahead, SoonerPairs
<1> HIDE DEF B, place, D, R
<1>4. ASSUME NEW k \in 1 .. Cardinality(D)
      PROVE  e(k) \in D /\ Cardinality(Ahead(D, R, e(k))) = k - 1
  <2>1. PICK w \in D : Cardinality(Ahead(D, R, w)) = k - 1
    BY <1>1, RankTaken
  <2>2. Cardinality({y \in D : B(y, w)}) = k - 1
    BY <1>3, <2>1
  <2>3. e(k) \in D /\ Cardinality({y \in D : B(y, e(k))}) = k - 1
    BY <2>2
  <2> QED
    BY <1>3, <2>3
<1> HIDE DEF e
<1>5. Ranks(place, D, R)
  BY <1>2, <1>4 DEF Ranks
<1> QED
  BY <1>1, <1>5, PlacesInOrder DEF D, R, place

(* What holm_adjust knows after some of the hypotheses. *)
Verdicts == [p : Fractions, adjusted : Fractions, rejected : BOOLEAN]
HolmStates == [running : Fractions, rejecting : BOOLEAN,
               entries : UNION {[D -> Verdicts] : D \in SUBSET Labels}]
Opening == [running |-> Fraction(0, 1), rejecting |-> TRUE, entries |-> <<>>]

(* One hypothesis judged. *)
Multiplier(k) == Cardinality(Labels) - k
Capped(p, m) ==
  IF AtMost(Fraction(m * p.n, p.d), Fraction(1, 1)) THEN Fraction(m * p.n, p.d)
  ELSE Fraction(1, 1)
RaisedTo(p, m, r) == IF AtMost(Capped(p, m), r) THEN r ELSE Capped(p, m)
Passes(p, m) == AtMost(p, Fraction(AlphaNumerator, AlphaDenominator * m))

(* Types. *)
LEMMA RunningType ==
  ASSUME NEW p \in Fractions, NEW m \in Nat, NEW r \in Fractions
  PROVE  Capped(p, m) \in Fractions /\ RaisedTo(p, m, r) \in Fractions
<1>1. p.n \in Nat /\ p.d \in Nat /\ p.d > 0 /\ m * p.n \in Nat
  BY FractionType
<1>2. Fraction(m * p.n, p.d) \in Fractions /\ Fraction(1, 1) \in Fractions
  BY <1>1, FractionType
<1> QED
  BY <1>2 DEF Capped, RaisedTo

(* At first nothing has been judged. *)
LEMMA OpeningType == Opening \in HolmStates
<1>1. Fraction(0, 1) \in Fractions
  BY FractionType
<1>2. <<>> \in [{} -> Verdicts] /\ {} \in SUBSET Labels
  <2>1. <<>> \in [1 .. 0 -> Verdicts] /\ 1 .. 0 = {}
    OBVIOUS
  <2> QED
    BY <2>1
<1> QED
  BY <1>1, <1>2 DEF Opening, HolmStates

(* A step of holm_adjust. *)
LEMMA HolmStepType ==
  ASSUME NEW pValues \in [Labels -> Fractions], NEW x \in HolmStates, NEW o \in Labels
  PROVE  HolmStep(pValues, x, o) \in HolmStates
<1> DEFINE y == HolmStep(pValues, x, o)
           m == Multiplier(Cardinality(DOMAIN x.entries))
<1>1. PICK D \in SUBSET Labels : x.entries \in [D -> Verdicts]
  BY DEF HolmStates
<1>2. x.running \in Fractions /\ x.rejecting \in BOOLEAN
  BY DEF HolmStates
<1>3. m \in Nat
  <2>1. IsFiniteSet(D) /\ Cardinality(D) <= Cardinality(Labels)
    BY LabelsFinite, FS_Subset
  <2>2. Cardinality(D) \in Nat /\ Cardinality(Labels) \in Nat
    BY <2>1, LabelsFinite, FS_CardinalityType
  <2>3. DOMAIN x.entries = D
    BY <1>1
  <2> QED
    BY <2>1, <2>2, <2>3 DEF Multiplier
<1>4. /\ y = [running |-> y.running, rejecting |-> y.rejecting, entries |-> y.entries]
      /\ y.running = RaisedTo(pValues[o], m, x.running)
      /\ y.rejecting = (x.rejecting /\ Passes(pValues[o], m))
      /\ y.entries = [l \in DOMAIN x.entries \cup {o} |->
                        IF l = o
                        THEN [p |-> pValues[o], adjusted |-> y.running,
                              rejected |-> y.rejecting]
                        ELSE x.entries[l]]
  <2>1. m = Multiplier(Cardinality(DOMAIN x.entries)) /\ y = HolmStep(pValues, x, o)
    OBVIOUS
  <2> HIDE DEF m, y
  <2> QED
    BY <2>1 DEF HolmStep, Multiplier, RaisedTo, Capped, Passes, Alpha, Fraction
<1> HIDE DEF m, y
<1>5. y.running \in Fractions
  BY <1>2, <1>3, <1>4, RunningType
<1>6. y.rejecting \in BOOLEAN
  BY <1>2, <1>4
<1>7. [p |-> pValues[o], adjusted |-> y.running, rejected |-> y.rejecting] \in Verdicts
  BY <1>5, <1>6 DEF Verdicts
<1>8. y.entries \in [D \cup {o} -> Verdicts]
  <2>1. DOMAIN x.entries = D /\ \A l \in D : x.entries[l] \in Verdicts
    BY <1>1
  <2> QED
    BY <1>4, <1>7, <2>1
<1>9. y.entries \in UNION {[E -> Verdicts] : E \in SUBSET Labels}
  <2>1. D \cup {o} \in SUBSET Labels
    OBVIOUS
  <2> QED
    BY <1>8, <2>1
<1>10. y \in HolmStates
  BY <1>4, <1>5, <1>6, <1>9 DEF HolmStates
<1> QED
  BY <1>10 DEF y

(* The loop of holm_adjust, over any sequence of labels. *)
HolmFold(pValues, s) ==
  FoldLeft(LAMBDA known, label : HolmStep(pValues, known, label), Opening, s)

(* One step per element. *)
HolmSteps(pValues, s) ==
  [k \in Nat |-> [x \in HolmStates |-> IF k \in DOMAIN s THEN HolmStep(pValues, x, s[k]) ELSE x]]

(* Each step takes one element. *)
LEMMA HolmStepsType ==
  ASSUME NEW pValues \in [Labels -> Fractions], NEW s \in Seq(Labels)
  PROVE  /\ HolmSteps(pValues, s) \in StepsOn(HolmStates)
         /\ \A k \in 1 .. Len(s) : \A x \in HolmStates :
              HolmSteps(pValues, s)[k][x] = HolmStep(pValues, x, s[k])
         /\ Opening \in HolmStates
<1> DEFINE L == HolmStates
<1>1. \A k \in DOMAIN s : s[k] \in Labels
  OBVIOUS
<1>2. DOMAIN s = 1 .. Len(s) /\ \A k \in 1 .. Len(s) : k \in Nat
  OBVIOUS
<1>3. \A x \in L : \A o \in Labels : HolmStep(pValues, x, o) \in L
  BY HolmStepType
<1>4. Opening \in L
  BY OpeningType
<1> HIDE DEF L
<1>5. ASSUME NEW k \in Nat, NEW x \in L
      PROVE  (IF k \in DOMAIN s THEN HolmStep(pValues, x, s[k]) ELSE x) \in L
  BY <1>1, <1>3
<1>6. HolmSteps(pValues, s)
        = [k \in Nat |-> [x \in L |-> IF k \in DOMAIN s THEN HolmStep(pValues, x, s[k]) ELSE x]]
  BY DEF HolmSteps, L
<1>7. HolmSteps(pValues, s) \in [Nat -> [L -> L]]
  BY <1>5, <1>6
<1>8. ASSUME NEW k \in 1 .. Len(s), NEW x \in L
      PROVE  HolmSteps(pValues, s)[k][x] = HolmStep(pValues, x, s[k])
  BY <1>2, <1>6
<1> QED
  BY <1>4, <1>7, <1>8 DEF StepsOn, L

(* The recursive function of the fold. *)
IsHolm(f, pValues, s) ==
  f = [d \in SUBSET DOMAIN s |->
         IF d = {} THEN Opening ELSE HolmStep(pValues, f[d \ {Max(d)}], s[Max(d)])]

(* The fold is the last of the steps. *)
LEMMA HolmFoldIs ==
  ASSUME NEW pValues \in [Labels -> Fractions], NEW s \in Seq(Labels)
  PROVE  HolmFold(pValues, s) = Ends(Len(s), HolmStates, Opening, HolmSteps(pValues, s))
<1> DEFINE f == CHOOSE g : IsHolm(g, pValues, s)
           L == HolmStates
           G == HolmSteps(pValues, s)
           N == Len(s)
           base == Opening
<1>1. HolmFold(pValues, s) = f[DOMAIN s]
  BY DEF HolmFold, FoldLeft, MapThenFoldSet, IsHolm
<1>2. DOMAIN s = 1 .. N /\ N \in Nat
  OBVIOUS
<1>3. /\ G \in [Nat -> [L -> L]] /\ base \in L
      /\ \A k \in 1 .. N : \A x \in L : G[k][x] = HolmStep(pValues, x, s[k])
  BY HolmStepsType DEF StepsOn
<1>4. \A d \in SUBSET (1 .. N) : d # {} => Max(d) \in 1 .. N
  BY <1>2, MaxOfPlaces
<1> HIDE DEF L, G, N, base
<1>5. \A g : IsHolm(g, pValues, s) <=>
         g = [d \in SUBSET (1 .. N) |->
                IF d = {} THEN base ELSE HolmStep(pValues, g[d \ {Max(d)}], s[Max(d)])]
  BY <1>2, Zenon DEF IsHolm, base
<1>6. \E g : IsHolm(g, pValues, s)
  <2>1. PICK g \in [SUBSET (1 .. N) -> L] : IsFold(g, N, base, G)
    BY <1>2, <1>3, FoldGoes
  <2>2. ASSUME NEW d \in SUBSET (1 .. N)
        PROVE  g[d] = IF d = {} THEN base ELSE HolmStep(pValues, g[d \ {Max(d)}], s[Max(d)])
    <3>1. g[d] = IF d = {} THEN base ELSE G[Max(d)][g[d \ {Max(d)}]]
      BY <2>1, Zenon DEF IsFold
    <3>2. g[d \ {Max(d)}] \in L
      BY <2>1
    <3> QED
      BY <1>3, <1>4, <3>1, <3>2
  <2>3. g = [d \in SUBSET (1 .. N) |-> g[d]]
    BY <2>1
  <2>4. g = [d \in SUBSET (1 .. N) |->
               IF d = {} THEN base ELSE HolmStep(pValues, g[d \ {Max(d)}], s[Max(d)])]
    BY <2>2, <2>3
  <2> QED
    BY <1>5, <2>4, Zenon
<1>7. IsHolm(f, pValues, s)
  BY <1>6
<1> HIDE DEF f
<1>8. \A d \in SUBSET (1 .. N) :
         f[d] = IF d = {} THEN base ELSE HolmStep(pValues, f[d \ {Max(d)}], s[Max(d)])
  <2>1. f = [d \in SUBSET (1 .. N) |->
               IF d = {} THEN base ELSE HolmStep(pValues, f[d \ {Max(d)}], s[Max(d)])]
    BY <1>5, <1>7, Zenon
  <2> QED
    BY <2>1, Zenon
<1>9. StepsUp(f, N, L, base, G)
  <2>1. f[{}] = base
    <3>1. {} \in SUBSET (1 .. N)
      OBVIOUS
    <3> QED
      BY <1>8, <3>1, Zenon
  <2>2. ASSUME NEW k \in 1 .. N, f[1 .. k - 1] \in L
        PROVE  f[1 .. k] = G[k][f[1 .. k - 1]]
    <3>1. 1 .. k \in SUBSET (1 .. N) /\ 1 .. k # {} /\ k \in Nat \ {0}
      <4>1. k \in 1 .. k /\ k \in Nat \ {0} /\ \A j \in 1 .. k : j \in 1 .. N
        BY <1>2
      <4>2. 1 .. k # {}
        BY <4>1, Zenon
      <4>3. 1 .. k \subseteq 1 .. N
        BY <4>1, Zenon
      <4> QED
        BY <4>1, <4>2, <4>3
    <3>2. Max(1 .. k) = k /\ (1 .. k) \ {k} = 1 .. k - 1
      BY <3>1, MaxOfInterval
    <3>3. f[1 .. k] = HolmStep(pValues, f[(1 .. k) \ {Max(1 .. k)}], s[Max(1 .. k)])
      BY <1>8, <3>1, Zenon
    <3> QED
      BY <1>3, <2>2, <3>2, <3>3
  <2> QED
    BY <2>1, <2>2 DEF StepsUp
<1>10. f[1 .. N] = Ends(N, L, base, G)
  BY <1>2, <1>3, <1>9, FoldValue
<1> QED
  BY <1>1, <1>2, <1>10 DEF N, L, base, G

(* holm_adjust is this loop. *)
LEMMA HolmAdjustIs ==
  ASSUME NEW pValues
  PROVE  HolmAdjust(pValues) = HolmFold(pValues, Ordered(pValues)).entries
BY DEF HolmAdjust, HolmFold, Opening

(* What holm_adjust does: the hypotheses in their order, the running        *)
(* maximum, and whether everything has been rejected so far.               *)
Judging(p, o, run, rej) ==
  /\ o \in Seq(Labels) /\ Len(o) = Cardinality(Labels) /\ Len(o) \in Nat
  /\ \A k \in 1 .. Len(o) : o[k] \in Labels
  /\ \A c \in Labels : \E k \in 1 .. Len(o) : o[k] = c
  /\ \A i, j \in 1 .. Len(o) : o[i] = o[j] => i = j
  /\ run \in [0 .. Len(o) -> Fractions] /\ rej \in [0 .. Len(o) -> BOOLEAN]
  /\ run[0] = Fraction(0, 1) /\ rej[0] = TRUE
  /\ \A k \in 1 .. Len(o) :
       /\ run[k] = RaisedTo(p[o[k]], Multiplier(k - 1), run[k - 1])
       /\ rej[k] = (rej[k - 1] /\ Passes(p[o[k]], Multiplier(k - 1)))
       /\ HolmAdjust(p)[o[k]] = [p |-> p[o[k]], adjusted |-> run[k], rejected |-> rej[k]]

(* holm_adjust does it, whatever the p-values are. *)
LEMMA HolmJudges ==
  ASSUME NEW p \in [Labels -> Fractions]
  PROVE  \E o, run, rej : Judging(p, o, run, rej)
<1> DEFINE o == Ordered(p)
           N == Len(o)
           T == HolmStates
           G == HolmSteps(p, o)
<1>1. /\ o \in Seq(Labels) /\ N = Cardinality(Labels)
      /\ \A c \in Labels : \E k \in 1 .. N : o[k] = c
      /\ \A i, j \in 1 .. N : o[i] = o[j] => i = j
  BY JudgedInOrder DEF InOrder
<1>2. N \in Nat /\ \A k \in 1 .. N : o[k] \in Labels
  BY <1>1
<1>3. /\ G \in [Nat -> [T -> T]] /\ Opening \in T
      /\ \A k \in 1 .. N : \A x \in T : G[k][x] = HolmStep(p, x, o[k])
  BY <1>1, HolmStepsType DEF StepsOn
<1>4. HolmFold(p, o) = Ends(N, T, Opening, G)
  BY <1>1, HolmFoldIs
<1>5. HolmAdjust(p) = HolmFold(p, o).entries
  BY HolmAdjustIs
<1> HIDE DEF o, N, G
<1>6. PICK st : Steps(st, N, T, Opening, G)
  <2> HIDE DEF T
  <2> QED
    BY <1>2, <1>3, Recursion
<1>7. HolmAdjust(p) = st[N].entries
  <2>1. Ends(N, T, Opening, G) = st[N]
    <3> HIDE DEF T
    <3> QED
      BY <1>2, <1>3, <1>6, EndsIs
  <2> QED
    BY <1>4, <1>5, <2>1
<1>8. /\ st \in [0 .. N -> T] /\ st[0] = Opening
      /\ \A k \in 1 .. N : st[k] = HolmStep(p, st[k - 1], o[k])
  <2>1. /\ st \in [0 .. N -> T] /\ st[0] = Opening
        /\ \A k \in 1 .. N : st[k] = G[k][st[k - 1]]
    BY <1>6 DEF Steps
  <2>2. \A k \in 1 .. N : st[k - 1] \in T
    <3> HIDE DEF T
    <3>1. \A k \in 1 .. N : k - 1 \in 0 .. N
      BY <1>2
    <3> QED
      BY <2>1, <3>1
  <2> QED
    BY <1>3, <2>1, <2>2
<1> DEFINE run == [k \in 0 .. N |-> st[k].running]
           rej == [k \in 0 .. N |-> st[k].rejecting]
           ans(i) == [p |-> p[o[i]], adjusted |-> run[i], rejected |-> rej[i]]
           Judged(k) == /\ DOMAIN st[k].entries = {o[i] : i \in 1 .. k}
                      /\ \A i \in 1 .. k : st[k].entries[o[i]] = ans(i)
<1>9. \A k \in 0 .. N : st[k].running \in Fractions /\ st[k].rejecting \in BOOLEAN
  BY <1>8 DEF HolmStates
<1>10. run \in [0 .. N -> Fractions] /\ rej \in [0 .. N -> BOOLEAN]
  BY <1>9
<1>11. \A k \in 0 .. N : run[k] = st[k].running /\ rej[k] = st[k].rejecting
  OBVIOUS
<1>12. 0 \in 0 .. N /\ run[0] = Fraction(0, 1) /\ rej[0] = TRUE
  BY <1>2, <1>8 DEF Opening
<1> HIDE DEF run, rej, T
<1>13. ASSUME NEW k \in 1 .. N, Judged(k - 1)
       PROVE  /\ Judged(k)
              /\ run[k] = RaisedTo(p[o[k]], Multiplier(k - 1), run[k - 1])
              /\ rej[k] = (rej[k - 1] /\ Passes(p[o[k]], Multiplier(k - 1)))
  <2> DEFINE x == st[k - 1]
             y == st[k]
             A == {o[i] : i \in 1 .. k - 1}
  <2>1. k - 1 \in Nat /\ k - 1 \in 0 .. N /\ k \in 0 .. N /\ \A i \in 1 .. k - 1 : i \in 1 .. N /\ i # k
    BY <1>2
  <2>2. Cardinality(A) = k - 1
    <3> DEFINE f == [i \in 1 .. k - 1 |-> o[i]]
    <3>1. IsFiniteSet(1 .. k - 1) /\ Cardinality(1 .. k - 1) = k - 1
      <4>1. k - 1 \in Int /\ 1 \in Int /\ k \in Int /\ (1 > k - 1 => k - 1 = 0)
            /\ (k - 1) - 1 + 1 = k - 1
        BY <2>1
      <4> QED
        BY <4>1, FS_Interval
    <3>2. f \in [1 .. k - 1 -> A]
      OBVIOUS
    <3>3. \A i, j \in 1 .. k - 1 : f[i] = f[j] => i = j
      BY <1>1, <2>1
    <3>4. \A z \in A : \E i \in 1 .. k - 1 : f[i] = z
      OBVIOUS
    <3> HIDE DEF f, A
    <3> DEFINE D == 1 .. k - 1
    <3>5. /\ f \in [D -> A] /\ IsFiniteSet(D) /\ Cardinality(D) = k - 1
          /\ \A x1, x2 \in D : f[x1] = f[x2] => x1 = x2
          /\ \A z \in A : \E x1 \in D : f[x1] = z
      BY <3>1, <3>2, <3>3, <3>4
    <3> HIDE DEF D
    <3>6. Cardinality(A) = Cardinality(D)
      BY <3>5, EquallyMany
    <3> QED
      BY <3>5, <3>6
  <2>3. DOMAIN x.entries = A /\ \A i \in 1 .. k - 1 : x.entries[o[i]] = ans(i)
    BY <1>13
  <2>4. y = HolmStep(p, x, o[k])
    BY <1>8
  <2> HIDE DEF x, y, A
  <2>5. Multiplier(Cardinality(DOMAIN x.entries)) = Multiplier(k - 1)
    BY <2>2, <2>3
  <2>6. /\ y.running = RaisedTo(p[o[k]], Multiplier(k - 1), x.running)
        /\ y.rejecting = (x.rejecting /\ Passes(p[o[k]], Multiplier(k - 1)))
        /\ y.entries = [l \in A \cup {o[k]} |->
                          IF l = o[k]
                          THEN [p |-> p[o[k]], adjusted |-> y.running,
                                rejected |-> y.rejecting]
                          ELSE x.entries[l]]
    <3> DEFINE m == Multiplier(k - 1)
    <3>1. m = Multiplier(Cardinality(DOMAIN x.entries)) /\ DOMAIN x.entries = A
      BY <2>3, <2>5
    <3> HIDE DEF m
    <3>2. /\ y.running = RaisedTo(p[o[k]], m, x.running)
          /\ y.rejecting = (x.rejecting /\ Passes(p[o[k]], m))
          /\ y.entries = [l \in DOMAIN x.entries \cup {o[k]} |->
                            IF l = o[k]
                            THEN [p |-> p[o[k]], adjusted |-> y.running,
                                  rejected |-> y.rejecting]
                            ELSE x.entries[l]]
      BY <2>4, <3>1 DEF HolmStep, Multiplier, RaisedTo, Capped, Passes, Alpha, Fraction
    <3> QED
      BY <3>1, <3>2 DEF m
  <2>7. /\ run[k] = y.running /\ rej[k] = y.rejecting
        /\ run[k - 1] = x.running /\ rej[k - 1] = x.rejecting
    BY <1>11, <2>1 DEF x, y
  <2>8. A \cup {o[k]} = {o[i] : i \in 1 .. k}
    BY <2>1 DEF A
  <2>9. \A i \in 1 .. k - 1 : o[i] # o[k] /\ o[i] \in A
    BY <1>1, <2>1 DEF A
  <2>10. DOMAIN y.entries = {o[i] : i \in 1 .. k}
    BY <2>6, <2>8
  <2>11. ASSUME NEW i \in 1 .. k PROVE y.entries[o[i]] = ans(i)
    <3>1. CASE i = k
      BY <2>6, <2>7, <3>1
    <3>2. CASE i # k
      <4>1. i \in 1 .. k - 1
        BY <2>1, <3>2
      <4> HIDE DEF ans
      <4> QED
        BY <2>3, <2>6, <2>9, <4>1
    <3> QED
      BY <3>1, <3>2
  <2> QED
    BY <2>6, <2>7, <2>10, <2>11 DEF y
<1>14. Judged(0)
  <2>1. st[0].entries = <<>> /\ 1 .. 0 = {} /\ DOMAIN <<>> = {}
    BY <1>8 DEF Opening
  <2> QED
    BY <2>1
<1>15. \A k \in 0 .. N : Judged(k)
  <2> DEFINE S == {k \in 0 .. N : Judged(k)}
  <2> HIDE DEF Judged
  <2>1. 0 \in S
    BY <1>12, <1>14
  <2>2. \A k \in 1 .. N : k - 1 \in S => k \in S
    BY <1>13
  <2> HIDE DEF S
  <2>3. 0 .. N \subseteq S
    BY <1>2, <2>1, <2>2, Induction
  <2> QED
    BY <2>3 DEF S
<1>16. ASSUME NEW k \in 1 .. N
       PROVE  /\ run[k] = RaisedTo(p[o[k]], Multiplier(k - 1), run[k - 1])
              /\ rej[k] = (rej[k - 1] /\ Passes(p[o[k]], Multiplier(k - 1)))
              /\ HolmAdjust(p)[o[k]] = ans(k)
  <2>1. k - 1 \in 0 .. N /\ N \in 0 .. N
    BY <1>2
  <2>2. Judged(k - 1) /\ Judged(N)
    BY <1>15, <2>1
  <2> HIDE DEF ans
  <2>3. HolmAdjust(p)[o[k]] = ans(k)
    BY <1>7, <2>2
  <2> HIDE DEF Judged
  <2> QED
    BY <1>13, <2>2, <2>3
<1>17. Judging(p, o, run, rej)
  BY <1>1, <1>2, <1>10, <1>12, <1>16 DEF Judging, N
<1> QED
  BY <1>17

(* The level, and that it is less than 1. *)
LEMMA AlphaIs ==
  /\ Alpha \in Fractions /\ Fraction(1, 1) \in Fractions
  /\ AlphaNumerator \in Nat /\ AlphaDenominator \in Nat /\ AlphaDenominator > 0
  /\ AtMost(Alpha, Fraction(1, 1)) /\ ~AtMost(Fraction(1, 1), Alpha)
  /\ AtMost(Fraction(0, 1), Alpha)
<1>1. /\ AlphaNumerator \in Nat /\ AlphaDenominator \in Nat
      /\ AlphaDenominator > 0 /\ AlphaNumerator < AlphaDenominator
  BY FamilyAssumption
<1>2. Alpha \in Fractions /\ Fraction(1, 1) \in Fractions
  BY <1>1, FractionType DEF Alpha
<1> QED
  BY <1>1, <1>2 DEF Alpha, AtMost, Fraction

(* A capped p-value passes as it does uncapped, since alpha is below 1. *)
LEMMA CappedPasses ==
  ASSUME NEW p \in Fractions, NEW m \in Nat
  PROVE  AtMost(Capped(p, m), Alpha) <=> Passes(p, m)
<1> DEFINE x == Fraction(m * p.n, p.d)
<1>1. p.n \in Nat /\ p.d \in Nat /\ p.d > 0 /\ m * p.n \in Nat
  BY FractionType
<1>2. x \in Fractions /\ x.n = m * p.n /\ x.d = p.d
  BY <1>1, FractionType
<1>3. AtMost(x, Alpha) <=> Passes(p, m)
  <2>1. AtMost(x, Alpha) <=> (m * p.n) * AlphaDenominator <= AlphaNumerator * p.d
    BY <1>2 DEF AtMost, Alpha, Fraction
  <2>2. Passes(p, m) <=> p.n * (AlphaDenominator * m) <= AlphaNumerator * p.d
    BY DEF Passes, AtMost, Fraction
  <2>3. (m * p.n) * AlphaDenominator = p.n * (AlphaDenominator * m)
    BY <1>1, AlphaIs
  <2> QED
    BY <2>1, <2>2, <2>3
<1> HIDE DEF x
<1>4. CASE AtMost(x, Fraction(1, 1))
  BY <1>3, <1>4 DEF Capped, x
<1>5. CASE ~AtMost(x, Fraction(1, 1))
  <2>1. Capped(p, m) = Fraction(1, 1)
    BY <1>5 DEF Capped, x
  <2>2. ~AtMost(x, Alpha)
    BY <1>2, <1>5, AlphaIs, AtMostOrder
  <2> QED
    BY <1>3, <2>1, <2>2, AlphaIs
<1> QED
  BY <1>4, <1>5

(* A maximum is at most alpha if both are. *)
LEMMA RunningPasses ==
  ASSUME NEW p \in Fractions, NEW m \in Nat, NEW r \in Fractions
  PROVE  AtMost(RaisedTo(p, m, r), Alpha) <=> AtMost(r, Alpha) /\ Passes(p, m)
<1> DEFINE c == Capped(p, m)
<1>1. c \in Fractions /\ (AtMost(c, Alpha) <=> Passes(p, m))
  BY CappedPasses, RunningType
<1>2. RaisedTo(p, m, r) = IF AtMost(c, r) THEN r ELSE c
  BY DEF RaisedTo
<1> HIDE DEF c
<1>3. /\ AtMost(c, r) \/ AtMost(r, c)
      /\ AtMost(c, r) /\ AtMost(r, Alpha) => AtMost(c, Alpha)
      /\ AtMost(r, c) /\ AtMost(c, Alpha) => AtMost(r, Alpha)
  BY <1>1, AlphaIs, AtMostOrder
<1> QED
  BY <1>1, <1>2, <1>3

(* Both answers of holm_adjust agree, for every hypothesis. *)
LEMMA DecisionsAgree ==
  ASSUME NEW p \in [Labels -> Fractions]
  PROVE  \A c \in Labels : HolmAdjust(p)[c].rejected
                             <=> AtMost(HolmAdjust(p)[c].adjusted, Alpha)
<1>1. PICK o, run, rej : Judging(p, o, run, rej)
  BY HolmJudges
<1> DEFINE N == Len(o)
           S == {k \in 0 .. N : rej[k] <=> AtMost(run[k], Alpha)}
<1>2. N \in Nat /\ N = Cardinality(Labels)
  BY <1>1 DEF Judging
<1>3. 0 \in S
  BY <1>1, AlphaIs DEF Judging
<1>4. ASSUME NEW k \in 1 .. N, k - 1 \in S PROVE k \in S
  <2>1. Multiplier(k - 1) \in Nat /\ k - 1 \in 0 .. N /\ k \in 0 .. N
    BY <1>2 DEF Multiplier
  <2>2. /\ run[k] = RaisedTo(p[o[k]], Multiplier(k - 1), run[k - 1])
        /\ rej[k] = (rej[k - 1] /\ Passes(p[o[k]], Multiplier(k - 1)))
        /\ run[k - 1] \in Fractions /\ o[k] \in Labels
    <3>1. k \in 1 .. Len(o) /\ k - 1 \in 0 .. Len(o)
      BY <2>1
    <3>2. /\ run[k] = RaisedTo(p[o[k]], Multiplier(k - 1), run[k - 1])
          /\ rej[k] = (rej[k - 1] /\ Passes(p[o[k]], Multiplier(k - 1)))
      BY <1>1, <3>1 DEF Judging
    <3>3. run \in [0 .. Len(o) -> Fractions] /\ o[k] \in Labels
      BY <1>1, <3>1 DEF Judging
    <3> QED
      BY <3>1, <3>2, <3>3
  <2>3. p[o[k]] \in Fractions
    BY <2>2
  <2>4. AtMost(run[k], Alpha)
          <=> AtMost(run[k - 1], Alpha) /\ Passes(p[o[k]], Multiplier(k - 1))
    BY <2>1, <2>2, <2>3, RunningPasses
  <2> QED
    BY <1>4, <2>1, <2>2, <2>4
<1>5. 0 .. N \subseteq S
  <2> HIDE DEF S, N
  <2> QED
    BY <1>2, <1>3, <1>4, Induction
<1>6. ASSUME NEW c \in Labels
      PROVE  HolmAdjust(p)[c].rejected <=> AtMost(HolmAdjust(p)[c].adjusted, Alpha)
  <2>1. PICK k \in 1 .. N : o[k] = c
    BY <1>1 DEF Judging
  <2>2. HolmAdjust(p)[c] = [p |-> p[o[k]], adjusted |-> run[k], rejected |-> rej[k]]
    BY <1>1, <2>1 DEF Judging
  <2>3. k \in 0 .. N
    BY <1>2
  <2>4. rej[k] <=> AtMost(run[k], Alpha)
    BY <1>5, <2>3
  <2> QED
    BY <2>2, <2>4
<1> QED
  BY <1>6

(* What passes with m hypotheses left passes with fewer. *)
LEMMA PassesFewer ==
  ASSUME NEW p \in Fractions, NEW m \in Nat, NEW q \in Nat, q <= m, Passes(p, m)
  PROVE  Passes(p, q)
<1> DEFINE x == p.n * AlphaDenominator
<1>1. p.n \in Nat /\ p.d \in Nat /\ AlphaDenominator \in Nat /\ AlphaNumerator \in Nat
  BY FractionType, AlphaIs
<1>2. x \in Nat
  BY <1>1
<1>3. x * q <= x * m
  <2>1. x * (m - q) >= 0
    BY <1>2
  <2>2. x * (m - q) = x * m - x * q /\ x * m \in Int /\ x * q \in Int
    BY <1>2
  <2> QED
    BY <2>1, <2>2
<1>4. p.n * (AlphaDenominator * m) = x * m /\ p.n * (AlphaDenominator * q) = x * q
  BY <1>1
<1>5. p.n * (AlphaDenominator * m) <= AlphaNumerator * p.d
  BY DEF Passes, AtMost, Fraction
<1>6. x * q \in Int /\ x * m \in Int /\ AlphaNumerator * p.d \in Int
  BY <1>1, <1>2
<1> HIDE DEF x
<1>7. p.n * (AlphaDenominator * q) <= AlphaNumerator * p.d
  BY <1>3, <1>4, <1>5, <1>6
<1> QED
  BY <1>7 DEF Passes, AtMost, Fraction

(* Holm's argument: before the first hypothesis of K that is judged there   *)
(* are only others, so if one of K is rejected, one of K has a p-value of   *)
(* at most alpha over the size of K.                                       *)
LEMMA FirstOfThem ==
  ASSUME NEW p \in [Labels -> Fractions], NEW K \in SUBSET Labels, NEW c \in K,
         HolmAdjust(p)[c].rejected
  PROVE  \E d \in K : Passes(p[d], Cardinality(K))
<1>1. PICK o, run, rej : Judging(p, o, run, rej)
  BY HolmJudges
<1> DEFINE N == Len(o)
           places == {k \in 1 .. N : o[k] \in K}
<1>2. N \in Nat /\ N = Cardinality(Labels)
  BY <1>1 DEF Judging
<1>3. PICK z \in 1 .. N : o[z] = c
  BY <1>1 DEF Judging
<1>4. rej[z]
  <2>1. HolmAdjust(p)[c] = [p |-> p[o[z]], adjusted |-> run[z], rejected |-> rej[z]]
    BY <1>1, <1>3 DEF Judging
  <2> QED
    BY <2>1
<1>5. places \in SUBSET Nat /\ z \in places
  BY <1>2, <1>3
<1>6. PICK j \in places : \A k \in places : j <= k
  <2> HIDE DEF places
  <2>1. PICK x \in places : \A k \in places : ~(<<k, x>> \in OpToRel(<, Nat))
    BY <1>5, WFMin, NatLessThanWellFounded
  <2>2. \A k \in places : ~(k < x)
    BY <1>5, <2>1 DEF OpToRel
  <2> QED
    BY <1>5, <2>2
<1>7. j \in 1 .. N /\ o[j] \in K /\ j <= z
  BY <1>5, <1>6
<1>8. rej[j]
  <2> DEFINE S == {k \in 0 .. N : rej[k] => \A i \in 1 .. k : rej[i]}
  <2>1. 0 \in S
    BY <1>2
  <2>2. ASSUME NEW k \in 1 .. N, k - 1 \in S PROVE k \in S
    <3>1. rej[k] = (rej[k - 1] /\ Passes(p[o[k]], Multiplier(k - 1)))
      BY <1>1 DEF Judging
    <3>2. \A i \in 1 .. k : i = k \/ i \in 1 .. k - 1
      BY <1>2
    <3>3. rej[k - 1] => \A i \in 1 .. k - 1 : rej[i]
      BY <2>2
    <3>4. rej[k] => \A i \in 1 .. k : rej[i]
      <4>1. SUFFICES ASSUME rej[k], NEW i \in 1 .. k PROVE rej[i]
        OBVIOUS
      <4>2. rej[k - 1]
        BY <3>1, <4>1
      <4>3. CASE i = k
        BY <4>1, <4>3
      <4>4. CASE i \in 1 .. k - 1
        BY <3>3, <4>2, <4>4
      <4> QED
        BY <3>2, <4>3, <4>4
    <3>5. k \in 0 .. N
      BY <1>2
    <3> QED
      BY <3>4, <3>5
  <2> HIDE DEF S, N
  <2>3. 0 .. N \subseteq S
    BY <1>2, <2>1, <2>2, Induction
  <2>4. z \in S /\ j \in 1 .. z
    BY <1>2, <1>7, <2>3
  <2> QED
    BY <1>4, <2>4 DEF S
<1>9. Passes(p[o[j]], Multiplier(j - 1))
  BY <1>1, <1>7, <1>8 DEF Judging
<1>10. Cardinality(K) \in Nat /\ Cardinality(K) <= Multiplier(j - 1)
  <2> DEFINE f == [k \in places |-> o[k]]
  <2>1. IsFiniteSet(j .. N) /\ Cardinality(j .. N) = N - j + 1
    BY <1>2, <1>7, FS_Interval
  <2>2. places \in SUBSET (j .. N)
    BY <1>2, <1>5, <1>6
  <2>3. IsFiniteSet(places) /\ Cardinality(places) <= N - j + 1
    BY <2>1, <2>2, FS_Subset
  <2>4. f \in [places -> K]
    OBVIOUS
  <2>5. \A x, y \in places : f[x] = f[y] => x = y
    BY <1>1 DEF Judging
  <2>6. \A d \in K : \E k \in places : f[k] = d
    <3>1. ASSUME NEW d \in K PROVE \E k \in 1 .. N : o[k] = d
      BY <1>1 DEF Judging
    <3> QED
      BY <3>1
  <2> HIDE DEF f, places
  <2>7. IsFiniteSet(K) /\ Cardinality(K) = Cardinality(places)
    BY <2>3, <2>4, <2>5, <2>6, EquallyMany
  <2>8. Cardinality(K) \in Nat
    BY <2>7, FS_CardinalityType
  <2>9. Multiplier(j - 1) = N - j + 1
    BY <1>2, <1>7 DEF Multiplier
  <2> QED
    BY <2>3, <2>7, <2>8, <2>9
<1>11. Multiplier(j - 1) \in Nat
  BY <1>2, <1>7 DEF Multiplier
<1>12. p[o[j]] \in Fractions
  BY <1>7
<1>13. Passes(p[o[j]], Cardinality(K))
  BY <1>9, <1>10, <1>11, <1>12, PassesFewer
<1> QED
  BY <1>7, <1>13

(* A bound on each of some sets bounds their union. *)
SomeOf(W, F, J) == {w \in W : \E c \in J : w \in F[c]}

(* The union of J's sets has at most as many elements as they have together. *)
LEMMA UnionBound ==
  ASSUME NEW K, IsFiniteSet(K), NEW W, IsFiniteSet(W), NEW F \in [K -> SUBSET W],
         NEW m \in Nat, NEW b \in Nat,
         \A c \in K : Cardinality(F[c]) * m <= b
  PROVE  Cardinality(SomeOf(W, F, K)) * m <= Cardinality(K) * b
<1> DEFINE N == Cardinality(K)
           S == {k \in 0 .. N : \A J \in SUBSET K : Cardinality(J) = k =>
                   Cardinality(SomeOf(W, F, J)) * m <= k * b}
<1>1. N \in Nat
  BY FS_CardinalityType
<1>2. \A J \in SUBSET K : /\ IsFiniteSet(J) /\ Cardinality(J) \in Nat
                          /\ IsFiniteSet(SomeOf(W, F, J))
                          /\ Cardinality(SomeOf(W, F, J)) \in Nat
  <2>1. ASSUME NEW J \in SUBSET K
        PROVE  /\ IsFiniteSet(J) /\ Cardinality(J) \in Nat
               /\ IsFiniteSet(SomeOf(W, F, J)) /\ Cardinality(SomeOf(W, F, J)) \in Nat
    <3>1. SomeOf(W, F, J) \in SUBSET W
      BY DEF SomeOf
    <3> QED
      BY <3>1, FS_Subset, FS_CardinalityType
  <2> QED
    BY <2>1
<1>3. 0 \in S
  <2>1. ASSUME NEW J \in SUBSET K, Cardinality(J) = 0
        PROVE  Cardinality(SomeOf(W, F, J)) * m <= 0 * b
    <3>1. J = {}
      BY <1>2, <2>1, FS_EmptySet
    <3>2. SomeOf(W, F, J) = {}
      BY <3>1 DEF SomeOf
    <3>3. Cardinality(SomeOf(W, F, J)) = 0
      BY <3>2, FS_EmptySet
    <3> QED
      BY <3>3
  <2> QED
    BY <1>1, <2>1
<1>4. ASSUME NEW k \in 1 .. N, k - 1 \in S PROVE k \in S
  <2>1. ASSUME NEW J \in SUBSET K, Cardinality(J) = k
        PROVE  Cardinality(SomeOf(W, F, J)) * m <= k * b
    <3>1. J # {}
      <4>1. k # 0
        BY <1>1
      <4>2. Cardinality({}) = 0
        BY FS_EmptySet
      <4> QED
        BY <2>1, <4>1, <4>2
    <3>2. PICK c \in J : TRUE
      BY <3>1
    <3> DEFINE I == J \ {c}
               x == Cardinality(SomeOf(W, F, I))
               y == Cardinality(F[c])
               z == Cardinality(SomeOf(W, F, J))
    <3>3. I \in SUBSET K /\ Cardinality(I) = k - 1
      BY <1>2, <2>1, FS_RemoveElement
    <3>4. x * m <= (k - 1) * b
      BY <1>4, <3>3
    <3>5. y * m <= b
      OBVIOUS
    <3>6. SomeOf(W, F, J) = SomeOf(W, F, I) \cup F[c]
      <4>1. F[c] \subseteq W
        OBVIOUS
      <4> QED
        BY <4>1 DEF SomeOf
    <3>7. IsFiniteSet(F[c]) /\ y \in Nat
      BY FS_Subset, FS_CardinalityType
    <3>8. z <= x + y /\ z \in Nat /\ x \in Nat
      <4>1. IsFiniteSet(SomeOf(W, F, I)) /\ x \in Nat
        BY <1>2, <3>3
      <4>2. z = x + y - Cardinality(SomeOf(W, F, I) \cap F[c])
        BY <3>6, <3>7, <4>1, FS_Union
      <4>3. Cardinality(SomeOf(W, F, I) \cap F[c]) \in Nat
        BY <4>1, FS_Intersection, FS_CardinalityType
      <4>4. z \in Nat
        BY <1>2
      <4> HIDE DEF x, y, z
      <4> QED
        BY <3>7, <4>1, <4>2, <4>3, <4>4
    <3> HIDE DEF x, y, z
    <3>9. z * m <= (x + y) * m
      <4>1. (x + y - z) * m >= 0
        BY <3>7, <3>8
      <4>2. (x + y - z) * m = (x + y) * m - z * m
        BY <3>7, <3>8
      <4>3. (x + y) * m \in Int /\ z * m \in Int
        BY <3>7, <3>8
      <4> QED
        BY <4>1, <4>2, <4>3
    <3>10. (x + y) * m = x * m + y * m /\ (k - 1) * b + b = k * b
      BY <1>1, <3>7, <3>8
    <3>11. /\ x * m \in Int /\ y * m \in Int /\ (x + y) * m \in Int /\ z * m \in Int
           /\ (k - 1) * b \in Int /\ k * b \in Int
      BY <1>1, <3>7, <3>8
    <3> QED
      BY <3>4, <3>5, <3>9, <3>10, <3>11 DEF z
  <2>2. k \in 0 .. N
    BY <1>1
  <2> QED
    BY <2>1, <2>2
<1> HIDE DEF S
<1>5. 0 .. N \subseteq S
  <2> HIDE DEF N
  <2> QED
    BY <1>1, <1>3, <1>4, Induction
<1>6. N \in S
  BY <1>1, <1>5
<1> QED
  BY <1>6 DEF S

(* Worlds are choices of signs. *)
LEMMA WorldIs ==
  ASSUME NEW K, NEW w
  PROVE  w \in Worlds(K) <=> /\ w = [c \in K |-> w[c]]
                             /\ \A c \in K : w[c] \in Signs(scores[c])
<1> DEFINE U == UNION {Signs(scores[c]) : c \in K}
<1>1. ASSUME w = [c \in K |-> w[c]], \A c \in K : w[c] \in Signs(scores[c])
      PROVE  w \in [K -> U]
  <2>1. \A c \in K : w[c] \in U
    BY <1>1
  <2> HIDE DEF U
  <2> QED
    BY <1>1, <2>1
<1>2. ASSUME w \in [K -> U] PROVE w = [c \in K |-> w[c]]
  <2> HIDE DEF U
  <2> QED
    BY <1>2
<1> QED
  BY <1>1, <1>2 DEF Worlds

(* The worlds in which c's signs are among B. *)
Signed(K, c, B) == {w \in Worlds(K) : w[c] \in B}

(* They are as many as such signs and worlds of the others. *)
LEMMA SignedMany ==
  ASSUME NEW K, NEW c \in K, NEW B \in SUBSET Signs(scores[c]), IsFiniteSet(B),
         IsFiniteSet(Worlds(K \ {c}))
  PROVE  /\ IsFiniteSet(Signed(K, c, B))
         /\ Cardinality(Signed(K, c, B)) = Cardinality(B) * Cardinality(Worlds(K \ {c}))
<1> DEFINE R == Worlds(K \ {c})
           D == B \X R
           T == Signed(K, c, B)
           mk(e) == [d \in K |-> IF d = c THEN e[1] ELSE e[2][d]]
           f == [e \in D |-> mk(e)]
<1>1. IsFiniteSet(D) /\ Cardinality(D) = Cardinality(B) * Cardinality(R)
  <2>1. IsFiniteSet(R)
    OBVIOUS
  <2> HIDE DEF R
  <2> QED
    BY <2>1, FS_Product
<1>2. ASSUME NEW e \in D
      PROVE  /\ e[1] \in B /\ e[2] \in R /\ e = <<e[1], e[2]>>
             /\ e[2] = [d \in K \ {c} |-> e[2][d]]
             /\ \A d \in K \ {c} : e[2][d] \in Signs(scores[d])
  <2>1. e[1] \in B /\ e[2] \in R /\ e = <<e[1], e[2]>>
    OBVIOUS
  <2>2. e[2] \in Worlds(K \ {c})
    BY <2>1
  <2>3. /\ e[2] = [d \in K \ {c} |-> e[2][d]]
        /\ \A d \in K \ {c} : e[2][d] \in Signs(scores[d])
    <3> DEFINE J == K \ {c}
               r == e[2]
    <3> HIDE DEF J, r
    <3>1. r \in Worlds(J)
      BY <2>2 DEF J, r
    <3>2. r = [d \in J |-> r[d]] /\ \A d \in J : r[d] \in Signs(scores[d])
      BY <3>1, WorldIs, Zenon
    <3> QED
      BY <3>2, Zenon DEF J, r
  <2> QED
    BY <2>1, <2>3
<1>3. ASSUME NEW e \in D PROVE mk(e) \in T
  <2>1. \A d \in K : mk(e)[d] = IF d = c THEN e[1] ELSE e[2][d]
    OBVIOUS
  <2>2. mk(e) = [d \in K |-> mk(e)[d]]
    OBVIOUS
  <2> HIDE DEF mk
  <2>3. \A d \in K : mk(e)[d] \in Signs(scores[d])
    <3>1. SUFFICES ASSUME NEW d \in K PROVE mk(e)[d] \in Signs(scores[d])
      OBVIOUS
    <3>2. CASE d = c
      BY <1>2, <2>1, <3>2
    <3>3. CASE d # c
      BY <1>2, <2>1, <3>3
    <3> QED
      BY <3>2, <3>3
  <2>4. mk(e) \in Worlds(K)
    BY <2>2, <2>3, WorldIs, Zenon
  <2>5. mk(e)[c] \in B
    BY <1>2, <2>1
  <2> QED
    BY <2>4, <2>5 DEF Signed
<1>4. f \in [D -> T]
  <2> HIDE DEF mk, D, T
  <2> QED
    BY <1>3
<1>5. \A e \in D : f[e] = mk(e)
  <2> HIDE DEF mk, D
  <2> QED
    OBVIOUS
<1>6. ASSUME NEW e \in D, NEW g \in D, f[e] = f[g] PROVE e = g
  <2>1. mk(e) = mk(g)
    BY <1>5, <1>6
  <2>2. \A d \in K : /\ mk(e)[d] = IF d = c THEN e[1] ELSE e[2][d]
                     /\ mk(g)[d] = IF d = c THEN g[1] ELSE g[2][d]
    OBVIOUS
  <2> HIDE DEF mk, f, D, R
  <2>3. e[1] = g[1]
    BY <2>1, <2>2
  <2>4. \A d \in K \ {c} : e[2][d] = g[2][d]
    BY <2>1, <2>2
  <2>5. e[2] = [d \in K \ {c} |-> e[2][d]] /\ g[2] = [d \in K \ {c} |-> g[2][d]]
    BY <1>2
  <2>6. e[2] = g[2]
    BY <2>4, <2>5
  <2>7. e = <<e[1], e[2]>> /\ g = <<g[1], g[2]>>
    BY <1>2
  <2> QED
    BY <2>3, <2>6, <2>7
<1>7. ASSUME NEW w \in T PROVE \E e \in D : f[e] = w
  <2> DEFINE g == [d \in K \ {c} |-> w[d]]
             e == <<w[c], g>>
  <2>1. w \in Worlds(K) /\ w[c] \in B
    BY DEF Signed
  <2>2. w = [d \in K |-> w[d]] /\ \A d \in K : w[d] \in Signs(scores[d])
    BY <2>1, WorldIs, Zenon
  <2>3. g = [d \in K \ {c} |-> g[d]] /\ \A d \in K \ {c} : g[d] = w[d]
    OBVIOUS
  <2> HIDE DEF g
  <2>4. \A d \in K \ {c} : g[d] \in Signs(scores[d])
    BY <2>2, <2>3
  <2>5. g \in R
    BY <2>3, <2>4, WorldIs, Zenon
  <2>6. e \in D /\ e[1] = w[c] /\ e[2] = g
    <3> HIDE DEF R
    <3> QED
      BY <2>1, <2>5
  <2>7. mk(e) = w
    <3>1. \A d \in K : (IF d = c THEN e[1] ELSE e[2][d]) = w[d]
      BY <2>3, <2>6
    <3> HIDE DEF e
    <3> QED
      BY <2>2, <3>1
  <2> HIDE DEF e, mk, f, D
  <2> QED
    BY <1>5, <2>6, <2>7
<1> HIDE DEF f, D, T, R
<1>8. IsFiniteSet(T) /\ Cardinality(T) = Cardinality(D)
  BY <1>1, <1>4, <1>6, <1>7, EquallyMany
<1> QED
  BY <1>1, <1>8 DEF T, R

(* The worlds in which the signs of c are any are all worlds. *)
LEMMA AllSigned ==
  ASSUME NEW K, NEW c \in K
  PROVE  Signed(K, c, Signs(scores[c])) = Worlds(K)
<1>1. ASSUME NEW w \in Worlds(K) PROVE w[c] \in Signs(scores[c])
  BY WorldIs, Zenon
<1> QED
  BY <1>1 DEF Signed

(* There are finitely many worlds. *)
LEMMA WorldsFinite ==
  ASSUME NEW K, IsFiniteSet(K), \A c \in K : scores[c] \in Seq(Int)
  PROVE  IsFiniteSet(Worlds(K)) /\ Cardinality(Worlds(K)) \in Nat
<1> DEFINE N == Cardinality(K)
           S == {k \in 0 .. N : \A J \in SUBSET K : Cardinality(J) = k =>
                   IsFiniteSet(Worlds(J))}
<1>1. N \in Nat
  BY FS_CardinalityType
<1>2. 0 \in S
  <2>1. ASSUME NEW J \in SUBSET K, Cardinality(J) = 0
        PROVE  IsFiniteSet(Worlds(J))
    <3>1. IsFiniteSet(J)
      BY FS_Subset
    <3>2. J = {}
      BY <2>1, <3>1, FS_EmptySet
    <3> DEFINE none == [c \in {} |-> <<>>]
    <3>3. ASSUME NEW w \in Worlds(J) PROVE w = none
      <4>1. w = [c \in J |-> w[c]]
        BY WorldIs, Zenon
      <4> QED
        BY <3>2, <4>1
    <3>4. Worlds(J) \in SUBSET {none}
      BY <3>3
    <3>5. IsFiniteSet({none})
      BY FS_Singleton
    <3> QED
      BY <3>4, <3>5, FS_Subset
  <2> QED
    BY <1>1, <2>1
<1>3. ASSUME NEW k \in 1 .. N, k - 1 \in S PROVE k \in S
  <2>1. ASSUME NEW J \in SUBSET K, Cardinality(J) = k
        PROVE  IsFiniteSet(Worlds(J))
    <3>1. IsFiniteSet(J)
      BY FS_Subset
    <3>2. J # {}
      <4>1. k # 0
        BY <1>1
      <4>2. Cardinality({}) = 0
        BY FS_EmptySet
      <4> QED
        BY <2>1, <4>1, <4>2
    <3>3. PICK c \in J : TRUE
      BY <3>2
    <3>4. J \ {c} \in SUBSET K /\ Cardinality(J \ {c}) = k - 1
      BY <2>1, <3>1, FS_RemoveElement
    <3>5. IsFiniteSet(Worlds(J \ {c}))
      BY <1>3, <3>4
    <3> DEFINE B == Signs(scores[c])
    <3>6. IsFiniteSet(B)
      BY SignsFinite
    <3>7. B \in SUBSET Signs(scores[c])
      OBVIOUS
    <3>8. IsFiniteSet(Signed(J, c, B))
      <4> HIDE DEF B
      <4> QED
        BY <3>5, <3>6, <3>7, SignedMany
    <3> QED
      BY <3>8, AllSigned
  <2>2. k \in 0 .. N
    BY <1>1
  <2> QED
    BY <2>1, <2>2
<1> HIDE DEF S
<1>4. 0 .. N \subseteq S
  <2> HIDE DEF N
  <2> QED
    BY <1>1, <1>2, <1>3, Induction
<1>5. N \in S
  BY <1>1, <1>4
<1>6. IsFiniteSet(Worlds(K))
  BY <1>5 DEF S
<1> QED
  BY <1>6, FS_CardinalityType

(* In the share a / b of the worlds, at most, c has a p-value of at most    *)
(* a / b.                                                                  *)
LEMMA Margin ==
  ASSUME alternative \in Alternatives, NEW K, IsFiniteSet(K),
         \A d \in K : scores[d] \in Seq(Int),
         NEW c \in K, NEW a \in Nat, NEW b \in Nat
  PROVE  Cardinality(Signed(K, c, Significant(scores[c], a, b))) * b
           <= a * Cardinality(Worlds(K))
<1> DEFINE B == Significant(scores[c], a, b)
           T == Signs(scores[c])
           x == Cardinality(B)
           y == Cardinality(T)
           z == Cardinality(Worlds(K \ {c}))
<1>1. IsFiniteSet(B) /\ x * b <= a * y
  BY LevelHolds
<1>2. IsFiniteSet(T) /\ y \in Nat
  BY SignsFinite, FS_CardinalityType
<1>3. B \in SUBSET T
  BY DEF Significant
<1>4. IsFiniteSet(Worlds(K \ {c})) /\ z \in Nat
  <2>1. IsFiniteSet(K \ {c})
    BY FS_Subset
  <2> QED
    BY <2>1, WorldsFinite
<1>5. x \in Nat
  BY <1>1, FS_CardinalityType
<1>6. Cardinality(Signed(K, c, B)) = x * z
  <2> HIDE DEF B
  <2> QED
    BY <1>1, <1>3, <1>4, SignedMany
<1>7. Cardinality(Worlds(K)) = y * z
  <2>1. T \in SUBSET T
    OBVIOUS
  <2>2. Cardinality(Signed(K, c, T)) = y * z
    BY <1>2, <1>4, <2>1, SignedMany
  <2> QED
    BY <2>2, AllSigned
<1> HIDE DEF x, y, z, B, T
<1>8. (x * z) * b <= a * (y * z)
  <2>1. (a * y - x * b) * z >= 0
    <3>1. a * y \in Nat /\ x * b \in Nat
      BY <1>2, <1>5
    <3>2. a * y - x * b \in Nat
      BY <1>1, <3>1
    <3> QED
      BY <1>4, <3>2
  <2>2. (a * y - x * b) * z = a * (y * z) - (x * z) * b
    BY <1>2, <1>4, <1>5
  <2>3. a * (y * z) \in Int /\ (x * z) * b \in Int
    BY <1>2, <1>4, <1>5
  <2> QED
    BY <2>1, <2>2, <2>3
<1> QED
  BY <1>6, <1>7, <1>8 DEF B

(* What finalize_confirmatory_family has worked out from the scores. *)
WorkedOut ==
  /\ hypotheses = HolmAdjust([c \in Labels |-> PValue(scores[c])])
  /\ worlds = [c \in Labels |-> [signs \in Signs(scores[c]) |->
                                  PValue(Flip(scores[c], signs))]]

(* The reported p-values are those of the scores, as fractions. *)
LEMMA ReportedAre ==
  ASSUME alternative \in Alternatives, \A c \in Labels : scores[c] \in Seq(Int), WorkedOut
  PROVE  /\ [c \in Labels |-> PValue(scores[c])] \in [Labels -> Fractions]
         /\ \A c \in Labels : hypotheses[c].p = PValue(scores[c])
         /\ \A c \in Labels : \A s \in Signs(scores[c]) :
              /\ worlds[c][s] = PValue(Flip(scores[c], s))
              /\ worlds[c][s] \in Fractions
<1> DEFINE p == [c \in Labels |-> PValue(scores[c])]
<1>1. ASSUME NEW u \in Seq(Int) PROVE PValue(u) \in Fractions
  <2>1. /\ PValue(u).n \in Nat /\ PValue(u).d \in Nat /\ PValue(u).d > 0
        /\ PValue(u) = Fraction(PValue(u).n, PValue(u).d)
    BY PValueIs
  <2>2. Fraction(PValue(u).n, PValue(u).d) \in Fractions
    BY <2>1, FractionType
  <2> QED
    BY <2>1, <2>2
<1>2. p \in [Labels -> Fractions] /\ \A c \in Labels : p[c] = PValue(scores[c])
  BY <1>1
<1>3. ASSUME NEW c \in Labels PROVE hypotheses[c].p = PValue(scores[c])
  <2>1. hypotheses = HolmAdjust(p)
    BY DEF WorkedOut
  <2> HIDE DEF p
  <2>2. PICK o, run, rej : Judging(p, o, run, rej)
    BY <1>2, HolmJudges
  <2>3. PICK k \in 1 .. Len(o) : o[k] = c
    BY <2>2 DEF Judging
  <2>4. HolmAdjust(p)[c] = [p |-> p[o[k]], adjusted |-> run[k], rejected |-> rej[k]]
    BY <2>2, <2>3 DEF Judging
  <2>5. HolmAdjust(p)[c].p = p[c]
    BY <2>3, <2>4
  <2> QED
    BY <1>2, <2>1, <2>5
<1>4. ASSUME NEW c \in Labels, NEW s \in Signs(scores[c])
      PROVE  worlds[c][s] = PValue(Flip(scores[c], s)) /\ worlds[c][s] \in Fractions
  <2>1. worlds[c] = [signs \in Signs(scores[c]) |-> PValue(Flip(scores[c], signs))]
    BY DEF WorkedOut
  <2>2. worlds[c][s] = PValue(Flip(scores[c], s))
    BY <2>1
  <2>3. Flip(scores[c], s) \in Seq(Int)
    BY FlippedWays
  <2> QED
    BY <1>1, <2>2, <2>3
<1> HIDE DEF p
<1> QED
  BY <1>2, <1>3, <1>4 DEF p

(* A world with a false rejection is one in which a contrast without an     *)
(* effect has a p-value of at most alpha over their number.                *)
LEMMA FalseOnes ==
  ASSUME alternative \in Alternatives, \A c \in Labels : scores[c] \in Seq(Int), WorkedOut,
         NEW K \in SUBSET Labels, NEW F, NEW w \in FalseRejections(K),
         F = [c \in K |-> Signed(K, c, Significant(scores[c], AlphaNumerator,
                                   AlphaDenominator * Cardinality(K)))]
  PROVE  w \in SomeOf(Worlds(K), F, K)
<1> DEFINE p == [c \in Labels |-> IF c \in K THEN worlds[c][w[c]] ELSE hypotheses[c].p]
           q == Cardinality(K)
<1>1. w \in Worlds(K) /\ \E c \in K : HolmAdjust(p)[c].rejected
  BY DEF FalseRejections
<1>2. \A c \in K : w[c] \in Signs(scores[c])
  BY <1>1, WorldIs, Zenon
<1>3. \A c \in Labels : PValue(scores[c]) \in Fractions
  <2>1. [c \in Labels |-> PValue(scores[c])] \in [Labels -> Fractions]
    BY ReportedAre
  <2>2. \A c \in Labels : [d \in Labels |-> PValue(scores[d])][c] \in Fractions
    BY <2>1
  <2> QED
    BY <2>2
<1>4. ASSUME NEW c \in Labels PROVE p[c] \in Fractions
  <2>1. CASE c \in K
    BY <1>2, <2>1, ReportedAre
  <2>2. CASE c \notin K
    BY <1>3, <2>2, ReportedAre
  <2> QED
    BY <2>1, <2>2
<1>5. p = [c \in Labels |-> p[c]]
  OBVIOUS
<1>6. ASSUME NEW d \in K PROVE p[d] = PValue(Flip(scores[d], w[d]))
  <2>1. p[d] = worlds[d][w[d]]
    OBVIOUS
  <2> HIDE DEF p
  <2> QED
    BY <1>2, <2>1, ReportedAre
<1> HIDE DEF p
<1>7. p \in [Labels -> Fractions]
  BY <1>4, <1>5
<1>8. PICK d \in K : Passes(p[d], q)
  BY <1>1, <1>7, FirstOfThem
<1> DEFINE B == Significant(scores[d], AlphaNumerator, AlphaDenominator * q)
<1>9. w[d] \in B
  <2>1. AtMost(PValue(Flip(scores[d], w[d])), Fraction(AlphaNumerator, AlphaDenominator * q))
    BY <1>6, <1>8 DEF Passes
  <2> QED
    BY <1>2, <2>1 DEF Significant
<1>10. F[d] = Signed(K, d, B)
  OBVIOUS
<1> HIDE DEF B
<1>11. w \in F[d]
  BY <1>1, <1>9, <1>10 DEF Signed
<1> QED
  BY <1>1, <1>11 DEF SomeOf

(* The family's error is at most alpha. *)
LEMMA ErrorIsBounded ==
  ASSUME alternative \in Alternatives, \A c \in Labels : scores[c] \in Seq(Int), WorkedOut
  PROVE  ErrorBounded
<1> SUFFICES ASSUME NEW K \in SUBSET Labels, K # {}
             PROVE  AtMost(Fraction(Cardinality(FalseRejections(K)),
                                    Cardinality(Worlds(K))), Alpha)
  BY DEF ErrorBounded
<1> DEFINE a == AlphaNumerator
           e == AlphaDenominator
           q == Cardinality(K)
           W == Worlds(K)
           m == Cardinality(W)
           F == [c \in K |-> Signed(K, c, Significant(scores[c], a, e * q))]
           U == SomeOf(W, F, K)
           x == Cardinality(FalseRejections(K))
           y == Cardinality(U)
<1>1. IsFiniteSet(K) /\ q \in Nat /\ q > 0
  <2>1. IsFiniteSet(K)
    BY LabelsFinite, FS_Subset
  <2> QED
    BY <2>1, FS_EmptySet, FS_CardinalityType
<1>2. a \in Nat /\ e \in Nat /\ e * q \in Nat
  BY <1>1, AlphaIs
<1>3. \A d \in K : scores[d] \in Seq(Int)
  OBVIOUS
<1>4. IsFiniteSet(W) /\ m \in Nat
  BY <1>1, <1>3, WorldsFinite
<1>5. F \in [K -> SUBSET W]
  <2>1. \A c \in K : Signed(K, c, Significant(scores[c], a, e * q)) \in SUBSET W
    BY DEF Signed
  <2> HIDE DEF W
  <2> QED
    BY <2>1
<1>6. \A c \in K : Cardinality(F[c]) * (e * q) <= a * m
  <2>1. ASSUME NEW c \in K PROVE Cardinality(F[c]) * (e * q) <= a * m
    <3>1. F[c] = Signed(K, c, Significant(scores[c], a, e * q))
      OBVIOUS
    <3>2. Cardinality(Signed(K, c, Significant(scores[c], a, e * q))) * (e * q) <= a * m
      <4> DEFINE g == AlphaDenominator * Cardinality(K)
      <4>1. g \in Nat
        BY <1>2
      <4> HIDE DEF g
      <4>2. Cardinality(Signed(K, c, Significant(scores[c], AlphaNumerator, g))) * g
              <= AlphaNumerator * Cardinality(Worlds(K))
        BY <1>1, <1>2, <1>3, <4>1, Margin
      <4> QED
        BY <4>2 DEF g
    <3> QED
      BY <3>1, <3>2
  <2> QED
    BY <2>1
<1>7. FalseRejections(K) \in SUBSET U
  <2>1. F = [c \in K |-> Signed(K, c, Significant(scores[c], AlphaNumerator,
                                        AlphaDenominator * Cardinality(K)))]
    OBVIOUS
  <2> HIDE DEF F
  <2> QED
    BY <2>1, FalseOnes
<1>8. U \in SUBSET W
  BY DEF SomeOf
<1>9. a * m \in Nat
  BY <1>2, <1>4
<1>10. y * (e * q) <= q * (a * m)
  <2> HIDE DEF F, W, a, e
  <2> DEFINE g == e * q
             h == a * m
  <2>1. g \in Nat /\ h \in Nat /\ \A c \in K : Cardinality(F[c]) * g <= h
    BY <1>2, <1>6, <1>9
  <2> HIDE DEF g, h
  <2>2. Cardinality(SomeOf(W, F, K)) * g <= Cardinality(K) * h
    BY <1>1, <1>4, <1>5, <2>1, UnionBound
  <2> QED
    BY <2>2 DEF g, h
<1>11. x \in Nat /\ y \in Nat /\ x <= y
  <2>1. IsFiniteSet(U)
    BY <1>4, <1>8, FS_Subset
  <2> HIDE DEF U
  <2> QED
    BY <1>7, <2>1, FS_Subset, FS_CardinalityType
<1> HIDE DEF a, e, q, m, x, y, F, U, W
<1>12. x * e <= a * m
  <2>1. x * e \in Int /\ y * e \in Int /\ a * m \in Int
    BY <1>2, <1>4, <1>11
  <2>2. Times(y * e, q) <= Times(a * m, q)
    <3>1. y * (e * q) = (y * e) * q /\ q * (a * m) = (a * m) * q
      BY <1>1, <1>2, <1>4, <1>11
    <3> QED
      BY <1>10, <3>1 DEF Times
  <2>3. y * e <= a * m
    BY <1>1, <2>1, <2>2, Scaled
  <2>4. (y - x) * e >= 0
    <3>1. y - x \in Nat
      BY <1>11
    <3> QED
      BY <1>2, <3>1
  <2>5. (y - x) * e = y * e - x * e
    BY <1>2, <1>11
  <2> QED
    BY <2>1, <2>3, <2>4, <2>5
<1> QED
  BY <1>12 DEF AtMost, Fraction, Alpha, a, e, m, x, W

(* Both conclusions hold of what is worked out. *)
LEMMA AnswersDoAgree ==
  ASSUME alternative \in Alternatives, \A c \in Labels : scores[c] \in Seq(Int), WorkedOut
  PROVE  AnswersAgree
<1> DEFINE p == [c \in Labels |-> PValue(scores[c])]
<1>1. p \in [Labels -> Fractions]
  BY ReportedAre
<1>2. hypotheses = HolmAdjust(p)
  BY DEF WorkedOut
<1> HIDE DEF p
<1> QED
  BY <1>1, <1>2, DecisionsAgree DEF AnswersAgree

(* The scores are of the kinds that there are, and what is reported is      *)
(* worked out from them.                                                   *)
FamilyInv ==
  /\ scores \in [Labels -> Scores] /\ alternative \in Alternatives
  /\ hypotheses # Pending => WorkedOut

(* The p-values are those of the alternative. *)
LEMMA SamePValues ==
  ASSUME alternative' = alternative, NEW u
  PROVE  PValue(u)' = PValue(u)
<1>1. \A t, o : Extreme(t, o)' <=> Extreme(t, o)
  BY DEF Extreme
<1>2. ExtremeCount(u)' = ExtremeCount(u)
  <2> DEFINE e == Nonzero(u)
             o == SignedTotal(e)
             X == {s \in Signs(e) : Extreme(SignedTotal(Flip(e, s)), o)}
  <2>1. X' = X
    BY <1>1
  <2>2. ExtremeCount(u) = Cardinality(X)
    BY DEF ExtremeCount
  <2>3. ExtremeCount(u)' = Cardinality(X')
    BY DEF ExtremeCount
  <2> HIDE DEF X
  <2> QED
    BY <2>1, <2>2, <2>3
<1> QED
  BY <1>2, Zenon DEF PValue

(* A report is worked out from scores that do not change. *)
LEMMA FamilyInvHolds == FamilySpec => []FamilyInv
<1>1. FamilyInit => FamilyInv
  BY DEF FamilyInit, FamilyInv
<1>2. FamilyInv /\ [FamilyNext]_familyVars => FamilyInv'
  <2> SUFFICES ASSUME FamilyInv, [FamilyNext]_familyVars PROVE FamilyInv'
    OBVIOUS
  <2>1. scores' = scores /\ alternative' = alternative
    BY DEF FamilyNext, Finalize, familyVars
  <2> DEFINE p == [c \in Labels |-> PValue(scores[c])]
             v == [c \in Labels |-> [signs \in Signs(scores[c]) |->
                                        PValue(Flip(scores[c], signs))]]
  <2>2. \A u : PValue(u)' = PValue(u)
    BY <2>1, SamePValues
  <2>3. p' = p
    BY <2>1, <2>2
  <2>4. v' = v
    BY <2>1, <2>2
  <2>5. WorkedOut <=> hypotheses = HolmAdjust(p) /\ worlds = v
    BY DEF WorkedOut
  <2>6. WorkedOut' <=> hypotheses' = HolmAdjust(p') /\ worlds' = v'
    BY DEF WorkedOut
  <2>7. CASE Finalize
    <3>1. hypotheses' = HolmAdjust(p) /\ worlds' = v
      BY <2>7 DEF Finalize
    <3> HIDE DEF p, v
    <3>2. WorkedOut'
      BY <2>3, <2>4, <2>6, <3>1
    <3> QED
      BY <2>1, <3>2 DEF FamilyInv
  <2>8. CASE UNCHANGED familyVars
    <3>1. hypotheses' = hypotheses /\ worlds' = worlds
      BY <2>8 DEF familyVars
    <3> HIDE DEF p, v
    <3>2. WorkedOut' <=> WorkedOut
      BY <2>3, <2>4, <2>5, <2>6, <3>1
    <3> QED
      BY <2>1, <3>1, <3>2 DEF FamilyInv
  <2> QED
    BY <2>7, <2>8 DEF FamilyNext
<1> QED
  BY <1>1, <1>2, PTL DEF FamilySpec

(* Whatever the scores and whichever contrasts have no effect, at most the  *)
(* share alpha of the equally likely worlds has one of these declared an    *)
(* effect, and holm_adjust's two answers agree: FamilyRight, for any number *)
(* of contrasts and units and any alpha between 0 and 1.                    *)
THEOREM FamiliesRight == FamilySpec => []FamilyRight
<1>1. FamilyInv => FamilyRight
  <2> SUFFICES ASSUME FamilyInv, hypotheses # Pending
               PROVE  ErrorBounded /\ AnswersAgree
    BY DEF FamilyRight
  <2>1. alternative \in Alternatives /\ WorkedOut /\ scores \in [Labels -> Scores]
    BY DEF FamilyInv
  <2>2. \A c \in Labels : scores[c] \in Seq(Int)
    BY <2>1, FamilyAssumption
  <2> QED
    BY <2>1, <2>2, ErrorIsBounded, AnswersDoAgree
<1> QED
  BY <1>1, FamilyInvHolds, PTL
================================================================================
