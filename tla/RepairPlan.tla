------------------------------ MODULE RepairPlan ------------------------------
(***************************************************************************)
(* The checksum repair family: executable_checksum_repair_plan.py derives   *)
(* from a manifest of declared digests, and the assets it names, what to do *)
(* about every record.                                                     *)
(*                                                                         *)
(* A path is a sequence of names.  A digest stands for the content it is    *)
(* the digest of.  The four layouts of the manifest and the JSON of the     *)
(* plan are left out.                                                      *)
(***************************************************************************)
EXTENDS Naturals, Sequences, FiniteSets, SequencesExt, Ranking

CONSTANTS
  Paths,            \* what assets may be called
  PathBefore(_, _), \* the order of their bytes
  Digests,          \* ordered numbers
  MaxRecords        \* bound on the manifest

ASSUME RepairAssumption ==
  /\ Digests \subseteq Nat \ {0} /\ MaxRecords \in Nat
  /\ \A p, q \in Paths : PathBefore(p, q) \in BOOLEAN
  /\ \A p \in Paths : ~PathBefore(p, p)
  /\ \A p, q, r \in Paths : PathBefore(p, q) /\ PathBefore(q, r) => PathBefore(p, r)
  /\ \A p, q \in Paths : p = q \/ PathBefore(p, q) \/ PathBefore(q, p)

VARIABLES
  manifest,      \* a sequence of records: a path and the declared digest
  assets,        \* path to asset; directories are implied by what is below them
  repairPolicy,
  repairPlan     \* the entries and the state, or Undecided

repairVars == <<manifest, assets, repairPolicy, repairPlan>>

Undecided == <<>>
Targeted == {"replace-digest", "drop-missing", "quarantine-mismatch"}
RepairPolicies == {"report-only", "strict-reject"} \cup Targeted
NoDigest == 0
NoArgument == <<>>

Link == [kind |-> "symlink", content |-> NoDigest, readable |-> TRUE]
File(content, readable) == [kind |-> "file", content |-> content, readable |-> readable]
ManifestRecord == [path : Paths, declared : Digests]

Below(path, above) == IsStrictPrefix(above, path)
Directories(tree) == {p \in Paths : \E q \in DOMAIN tree : Below(q, p)}
AssetTrees == {t \in UNION {[s -> {Link} \cup {File(d, r) : d \in Digests, r \in BOOLEAN}]
                         : s \in SUBSET Paths} :
            \A p, q \in DOMAIN t : ~Below(p, q)}

(* _reject_symlink_ancestors: no record leads through a link.              *)
Admissible(records, tree) ==
  \A i \in DOMAIN records, q \in DOMAIN tree :
     tree[q].kind = "symlink" => ~Below(records[i].path, q)

Sorted(records) ==
  LET before(x, y) == \/ PathBefore(x.path, y.path)
                      \/ x.path = y.path /\ x.declared < y.declared
      place == Ranked(DOMAIN records, LAMBDA i, j :
                 \/ before(records[i], records[j])
                 \/ ~before(records[j], records[i]) /\ i < j)
  IN [k \in DOMAIN records |-> records[place[k]]]

(***************************************************************************)
(* The primary derivation                                                  *)
(***************************************************************************)
Classified(status, actual) == [status |-> status, actual |-> actual]

(* Mutant: the bytes of a file without read permission are hashed as well. *)
ClassifyUnreadable(r, tree) ==
  IF r.path \in DOMAIN tree
  THEN CASE tree[r.path].kind = "symlink" -> Classified("symlink", NoDigest)
         [] tree[r.path].content = r.declared -> Classified("ok", r.declared)
         [] OTHER -> Classified("checksum-mismatch", tree[r.path].content)
  ELSE Classified(IF r.path \in Directories(tree) THEN "directory" ELSE "missing", NoDigest)

(* _classify_primary.                                                      *)
Classify(r, tree) ==
  IF r.path \in DOMAIN tree
  THEN LET item == tree[r.path]
       IN IF item.kind = "symlink" THEN Classified("symlink", NoDigest)
          ELSE IF ~item.readable THEN Classified("unreadable", NoDigest)
          ELSE Classified(IF item.content = r.declared THEN "ok" ELSE "checksum-mismatch",
                          item.content)
  ELSE Classified(IF r.path \in Directories(tree) THEN "directory" ELSE "missing", NoDigest)

(* _action_for: an action and its argument.                                *)
ActionFor(c, path, policy, rejected) ==
  CASE policy = "report-only"   -> <<"report", NoArgument>>
    [] policy = "strict-reject" ->
         <<IF rejected THEN "reject-batch" ELSE "keep", NoArgument>>
    [] policy \in Targeted /\ c.status = "ok" -> <<"keep", NoArgument>>
    [] policy = "replace-digest" /\ c.status = "checksum-mismatch" ->
         <<"replace-digest", c.actual>>
    [] policy = "drop-missing" /\ c.status = "missing" -> <<"drop-record", NoArgument>>
    [] policy = "quarantine-mismatch" /\ c.status = "checksum-mismatch" ->
         <<"quarantine-asset", path>>
    [] OTHER -> <<"unresolved", NoArgument>>

(* _derive_plan_state.                                                     *)
PlanState(entries, policy) ==
  IF \A i \in DOMAIN entries : entries[i].status = "ok" THEN "clean"
  ELSE CASE policy = "report-only"   -> "reported"
         [] policy = "strict-reject" -> "rejected"
         [] policy \in Targeted ->
              IF \A i \in DOMAIN entries : entries[i].action[1] # "unresolved"
              THEN "planned" ELSE "partial"

Planned(entries, policy) == [entries |-> entries, state |-> PlanState(entries, policy)]
PlanEntry(r, c, action) ==
  [path |-> r.path, declared |-> r.declared, status |-> c.status, actual |-> c.actual,
   action |-> action]

(* derive_checksum_repair_plan_state.                                      *)
DerivePlan(records, tree, policy) ==
  LET rows == Sorted(records)
      found == [i \in DOMAIN rows |-> Classify(rows[i], tree)]
      rejected == \E i \in DOMAIN rows : found[i].status # "ok"
  IN Planned([i \in DOMAIN rows |->
                PlanEntry(rows[i], found[i],
                        ActionFor(found[i], rows[i].path, policy, rejected))],
             policy)

RepairInit ==
  /\ manifest \in BoundedSeq(ManifestRecord, MaxRecords) \ {<<>>}
  /\ assets \in AssetTrees /\ Admissible(manifest, assets)
  /\ repairPolicy \in RepairPolicies /\ repairPlan = Undecided

Derive ==
  /\ repairPlan = Undecided
  /\ repairPlan' = DerivePlan(manifest, assets, repairPolicy)
  /\ UNCHANGED <<manifest, assets, repairPolicy>>

RepairSpec == RepairInit /\ [][Derive]_repairVars

(***************************************************************************)
(* The reference, and what a plan is for                                   *)
(***************************************************************************)
(* _classify_reference: links, then files, then directories.               *)
ReferenceClassify(r, tree) ==
  LET links == {p \in DOMAIN tree : tree[p].kind = "symlink"}
      files == {p \in DOMAIN tree : tree[p].kind = "file" /\ p = r.path}
  IN IF r.path \in links THEN Classified("symlink", NoDigest)
     ELSE IF files = {}
     THEN Classified(IF r.path \in Directories(tree) THEN "directory" ELSE "missing",
                     NoDigest)
     ELSE LET file == tree[CHOOSE p \in files : TRUE]
          IN IF ~file.readable THEN Classified("unreadable", NoDigest)
             ELSE Classified(IF file.content = r.declared THEN "ok"
                             ELSE "checksum-mismatch", file.content)

(* _reference_action.                                                      *)
ReferenceAction(c, path, policy, rejected) ==
  LET mismatch == c.status = "checksum-mismatch"
      when(condition, action, argument) ==
        IF condition THEN {<<action, argument>>} ELSE {}
      decided ==
        when(\/ policy = "strict-reject" /\ ~rejected
             \/ policy \in Targeted /\ c.status = "ok", "keep", NoArgument)
        \cup when(policy = "strict-reject" /\ rejected, "reject-batch", NoArgument)
        \cup when(policy = "report-only", "report", NoArgument)
        \cup when(mismatch /\ policy = "replace-digest", "replace-digest", c.actual)
        \cup when(mismatch /\ policy = "quarantine-mismatch", "quarantine-asset", path)
        \cup when(c.status = "missing" /\ policy = "drop-missing", "drop-record", NoArgument)
  IN IF decided = {} THEN <<"unresolved", NoArgument>>
     ELSE CHOOSE a \in decided : TRUE

ReferenceRepair(records, tree, policy) ==
  LET rows == Sorted(records)
      found(i) == ReferenceClassify(rows[i], tree)
      rejected == policy = "strict-reject" /\ \E i \in DOMAIN rows : found(i).status # "ok"
  IN Planned([i \in DOMAIN rows |->
                PlanEntry(rows[i], found(i),
                        ReferenceAction(found(i), rows[i].path, policy, rejected))],
             policy)

(* The manifest and the assets once the plan has been carried out.         *)
Repaired(entry) ==
  [path |-> entry.path,
   declared |-> IF entry.action[1] = "replace-digest" THEN entry.action[2]
                ELSE entry.declared]
ManifestAfter ==
  FlattenSeq([i \in DOMAIN repairPlan.entries |->
                IF repairPlan.entries[i].action[1] = "drop-record" THEN <<>>
                ELSE <<Repaired(repairPlan.entries[i])>>])
Quarantined ==
  {repairPlan.entries[i].path :
     i \in {j \in DOMAIN repairPlan.entries :
              repairPlan.entries[j].action[1] = "quarantine-asset"}}
AssetsAfter == [p \in DOMAIN assets \ Quarantined |-> assets[p]]
Again == DerivePlan(ManifestAfter, AssetsAfter, repairPolicy)

Proposals == {"replace-digest", "drop-record", "quarantine-asset"}

(* Both derivations agree.  A plan that is carried out leaves nothing that  *)
(* the same policy would propose again, and no record whose asset holds     *)
(* other bytes if that is what the policy is about; what was planned by     *)
(* changing the manifest alone ends clean; and a record that was right is   *)
(* only lost to a quarantine that another record of its path asks for.      *)
RepairRight ==
  repairPlan # Undecided =>
    /\ repairPlan = ReferenceRepair(manifest, assets, repairPolicy)
    /\ \A i \in DOMAIN Again.entries : Again.entries[i].action[1] \notin Proposals
    /\ repairPlan.state = "planned" /\ repairPolicy # "quarantine-mismatch"
         => Again.state = "clean"
    /\ repairPolicy \in {"replace-digest", "quarantine-mismatch"} =>
         \A i \in DOMAIN Again.entries : Again.entries[i].status # "checksum-mismatch"
    /\ \A i \in DOMAIN repairPlan.entries :
         LET e == repairPlan.entries[i]
         IN e.status = "ok" =>
              \/ \E j \in DOMAIN Again.entries :
                    /\ Again.entries[j].path = e.path /\ Again.entries[j].status = "ok"
                    /\ Again.entries[j].declared = e.declared
              \/ \E j \in DOMAIN repairPlan.entries :
                    /\ repairPlan.entries[j].path = e.path
                    /\ repairPlan.entries[j].action[1] = "quarantine-asset"
=============================================================================
