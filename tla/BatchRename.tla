------------------------------ MODULE BatchRename ------------------------------
(***************************************************************************)
(* executable_collision_safe_batch_rename.py: files are renamed by a rule   *)
(* into one directory; several of them may get the same name, and a policy  *)
(* says which of those move.  The result is derived group by group, and     *)
(* again by a reference.                                                   *)
(*                                                                         *)
(* A file is its parent directory and its name, a name its stem, its case   *)
(* and its extension.  Parsing, modes and the report's rows are left out.   *)
(***************************************************************************)
EXTENDS Naturals, Sequences, FiniteSets, SequencesExt, FiniteSetsExt, Ranking

CONSTANTS
  Parents,               \* naturals: directories in raw order
  NameOrder,             \* names in raw order: a sequence of records
  Contents,
  MappedNames,           \* names the mapping may give
  MaximumCandidates      \* COLLISION_SAFE_BATCH_RENAME_MAXIMUM_CANDIDATES

ASSUME RenameAssumption ==
  /\ Parents \subseteq Nat /\ IsFiniteSet(Parents)
  /\ NameOrder \in Seq([stem : STRING, upper : BOOLEAN, extension : STRING])
  /\ MaximumCandidates \in Nat

VARIABLES
  candidates, content, mapping, renameRule, collisionPolicy,
  pending,               \* destinations whose group is to be decided
  actions, representatives

renameVars == <<candidates, content, mapping, renameRule, collisionPolicy, pending,
                actions, representatives>>

Rules == {"lowercase-basename", "numbered-prefix", "suffix-rewrite",
          "manifest-mapping"}
CollisionPolicies == {"reject-all", "skip-collisions", "stable-first", "stable-last",
                      "identical-files-coalesce"}

Names == {NameOrder[i] : i \in DOMAIN NameOrder}
Position(name) == CHOOSE i \in DOMAIN NameOrder : NameOrder[i] = name

RawBefore(f, g) ==
  \/ f.parent < g.parent
  \/ f.parent = g.parent /\ Position(f.name) < Position(g.name)

(* _destinations_primary.  Only a numbered name has a number.              *)
Destination(f) ==
  CASE renameRule = "lowercase-basename" -> <<0, [f.name EXCEPT !.upper = FALSE]>>
    [] renameRule = "numbered-prefix" ->
         <<1 + Cardinality({g \in candidates : g.parent = f.parent /\ RawBefore(g, f)}),
           f.name>>
    [] renameRule = "suffix-rewrite" -> <<0, [f.name EXCEPT !.extension = "ready"]>>
    [] renameRule = "manifest-mapping" -> <<0, mapping[f]>>

GroupOf(d) == Ranked({f \in candidates : Destination(f) = d}, RawBefore)
Destinations == {Destination(f) : f \in candidates}
Collisions == {d \in Destinations : Len(GroupOf(d)) > 1}
Rejected == collisionPolicy = "reject-all" /\ Collisions # {}

RenameInit ==
  /\ candidates \in UNION {kSubset(k, [parent : Parents, name : Names]) :
                             k \in 0 .. MaximumCandidates}
  /\ content \in [candidates -> Contents]
  /\ renameRule \in Rules /\ collisionPolicy \in CollisionPolicies
  /\ mapping \in IF renameRule = "manifest-mapping" THEN [candidates -> MappedNames]
                 ELSE {<<>>}
  /\ pending = Destinations
  /\ actions = {} /\ representatives = <<>>

Action(f, outcome, representative, size) ==
  [source |-> f, destination |-> Destination(f), outcome |-> outcome,
   representative |-> representative, group |-> size]

(* Mutant: only the last file of the group is compared with the first. *)
LastIdentical(group) == content[Last(group)] = content[group[1]]

Identical(group) == \A i \in DOMAIN group : content[group[i]] = content[group[1]]

Keep(group, outcome) ==
  /\ actions' = actions \cup {Action(group[i], outcome, "", Len(group)) :
                                i \in DOMAIN group}
  /\ UNCHANGED representatives

Elect(group, winner, other) ==
  /\ actions' = actions
       \cup {Action(group[i], IF group[i] = winner THEN "moved" ELSE other, winner,
                    Len(group)) : i \in DOMAIN group}
  /\ representatives' = [d \in DOMAIN representatives \cup {Destination(winner)} |->
       IF d = Destination(winner) THEN winner ELSE representatives[d]]

(* One group of derive_collision_safe_batch_rename_state; the actions are   *)
(* sorted afterwards, so the order of the groups is of no consequence.     *)
DecideGroup ==
  /\ pending # {}
  /\ LET d == CHOOSE d \in pending : TRUE
         group == GroupOf(d) IN
     /\ pending' = pending \ {d}
     /\ CASE Rejected -> Keep(group, "retained-rejected")
          [] ~Rejected /\ Len(group) = 1 -> Elect(group, group[1], "")
          [] Len(group) > 1 /\ collisionPolicy = "skip-collisions" ->
               Keep(group, "retained-collision")
          [] Len(group) > 1 /\ collisionPolicy = "stable-first" ->
               Elect(group, group[1], "retained-loser")
          [] Len(group) > 1 /\ collisionPolicy = "stable-last" ->
               Elect(group, Last(group), "retained-loser")
          [] Len(group) > 1 /\ collisionPolicy = "identical-files-coalesce" ->
               IF Identical(group) THEN Elect(group, group[1], "coalesced")
               ELSE Keep(group, "retained-nonidentical")
  /\ UNCHANGED <<candidates, content, mapping, renameRule, collisionPolicy>>

RenameSpec == RenameInit /\ [][DecideGroup]_renameVars

(* _serialize_primary: the report's header.                                *)
Header ==
  LET count(outcomes) == Cardinality({a \in actions : a.outcome \in outcomes}) IN
  [rejected |-> Rejected, files |-> Cardinality(actions),
   collisions |-> Cardinality(Collisions), moved |-> count({"moved"}),
   removed |-> count({"moved", "coalesced"}),
   retained |-> Cardinality(actions) - count({"moved", "coalesced"})]

------------------------------------------------------------------------------
(* reference_collision_safe_batch_rename_state: a sorted list of all files  *)
(* is cut where the destination changes.                                   *)
ReferenceActions ==
  LET same(f) == {g \in candidates : Destination(g) = Destination(f)}
      alone(f) == same(f) = {f}
      first(f) == \A g \in same(f) : g = f \/ RawBefore(f, g)
      last(f)  == \A g \in same(f) : g = f \/ RawBefore(g, f)
      alike(f) == \A g, h \in same(f) : content[g] = content[h]
      wins(f)  == /\ ~Rejected
                  /\ \/ alone(f)
                     \/ collisionPolicy = "stable-first" /\ first(f)
                     \/ collisionPolicy = "stable-last" /\ last(f)
                     \/ /\ collisionPolicy = "identical-files-coalesce"
                        /\ first(f) /\ alike(f)
      outcome(f) ==
        CASE Rejected -> "retained-rejected"
          [] wins(f) -> "moved"
          [] OTHER ->
               CASE collisionPolicy = "skip-collisions" -> "retained-collision"
                 [] collisionPolicy \in {"stable-first", "stable-last"} ->
                      "retained-loser"
                 [] OTHER -> IF alike(f) THEN "coalesced"
                             ELSE "retained-nonidentical"
      winner(f) == IF \E g \in same(f) : wins(g)
                   THEN CHOOSE g \in same(f) : wins(g) ELSE ""
  IN {Action(f, outcome(f), winner(f), Cardinality(same(f))) : f \in candidates}

(* Both derivations agree.  No content is lost: a source is only removed if *)
(* the file at its destination has its content.  A destination is written   *)
(* by one file, exactly the ones that moved are written, a rejected batch   *)
(* moves nothing, and the header counts what was done.                     *)
RenameRight ==
  pending = {} =>
    /\ actions = ReferenceActions
    /\ {a.source : a \in actions} = candidates
    /\ \A a \in actions : a.outcome \in {"moved", "coalesced"} =>
         /\ a.destination \in DOMAIN representatives
         /\ content[representatives[a.destination]] = content[a.source]
    /\ \A d \in DOMAIN representatives :
         /\ \E a \in actions : a.source = representatives[d] /\ a.outcome = "moved"
         /\ Cardinality({a \in actions : a.destination = d /\ a.outcome = "moved"}) = 1
    /\ Rejected => representatives = <<>>
    /\ Header.moved = Cardinality(DOMAIN representatives)
    /\ Header.files = Header.removed + Header.retained
    /\ Header.retained = 0 => Cardinality(candidates) = Header.removed
=============================================================================
