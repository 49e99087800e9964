---------------------------- MODULE HardlinkMirror ----------------------------
(***************************************************************************)
(* The deduplicated mirror family: executable_hardlink_deduplicated_mirror  *)
(* groups the names of a tree by what makes them equal, lets one owner per  *)
(* group supply bytes, mode and time, and mirrors every group as one inode. *)
(*                                                                         *)
(* A name is a number, in the order of the paths' bytes; contents, modes,   *)
(* times and groups are small numbers.  Several names may be one file in    *)
(* the source as well.  Hashes and the ledger's text are left out.         *)
(***************************************************************************)
EXTENDS Naturals, Sequences, FiniteSets, FiniteSetsExt, SequencesExt, Ranking

CONSTANTS
  NameCount,
  Suffix,        \* of each name's last component, as a number
  MetadataValues \* of contents, modes, times and declared groups

ASSUME MirrorAssumption ==
  /\ NameCount \in Nat /\ MetadataValues \subseteq Nat
  /\ Suffix \in Seq(Nat) /\ Len(Suffix) = NameCount

MirrorNames == 1 .. NameCount

VARIABLES
  original,      \* per name: itself, or the name it is a hard link to
  metadata,      \* per original: content, mode and mtime
  declaredGroup, ownerPriority,   \* the manifest
  key, ownerPolicy,
  mirror         \* what is derived, or Underived

mirrorVars ==
  <<original, metadata, declaredGroup, ownerPriority, key, ownerPolicy, mirror>>

Underived == <<>>
Keys == {"sha256", "mode-and-sha256", "suffix-and-sha256", "declared-group-and-sha256"}
OwnerPolicies ==
  {"smallest-path", "largest-path", "oldest-mtime", "newest-mtime", "manifest-priority"}

(* _source_records: a hard link has what its target has.                   *)
SourceRecord(n, target, data) ==
  [relative |-> n, content |-> data[target[n]].content, mode |-> data[target[n]].mode,
   mtime |-> data[target[n]].mtime]
SourceRecords == [n \in MirrorNames |-> SourceRecord(n, original, metadata)]

(* Mutant: modes are not looked at. *)
DigestOnly(item) ==
  CASE key \in {"sha256", "mode-and-sha256"} -> <<0, item.content>>
    [] key = "suffix-and-sha256" -> <<Suffix[item.relative], item.content>>
    [] key = "declared-group-and-sha256" -> <<declaredGroup[item.relative], item.content>>

(* _equivalence_value.                                                     *)
EquivalenceValue(item) ==
  CASE key = "sha256"            -> <<0, item.content>>
    [] key = "mode-and-sha256"   -> <<item.mode, item.content>>
    [] key = "suffix-and-sha256" -> <<Suffix[item.relative], item.content>>
    [] key = "declared-group-and-sha256" -> <<declaredGroup[item.relative], item.content>>

(* _choose_owner: a name of the group, ties to the smaller path.           *)
Preferred(a, b) ==
  CASE ownerPolicy = "smallest-path" -> a.relative < b.relative
    [] ownerPolicy = "largest-path"  -> a.relative > b.relative
    [] ownerPolicy = "oldest-mtime"  ->
         a.mtime < b.mtime \/ (a.mtime = b.mtime /\ a.relative < b.relative)
    [] ownerPolicy = "newest-mtime"  ->
         a.mtime > b.mtime \/ (a.mtime = b.mtime /\ a.relative < b.relative)
    [] ownerPolicy = "manifest-priority" ->
         ownerPriority[a.relative] < ownerPriority[b.relative]
ChooseOwner(group, source) ==
  CHOOSE o \in group : \A n \in group \ {o} : Preferred(source[o], source[n])

(* _assemble_state: one inode per group, and the ledger's counts.          *)
AssembleState(groups, source) ==
  LET groupOf(n) == CHOOSE g \in groups : n \in g
      owner(n) == source[ChooseOwner(groupOf(n), source)]
  IN [tree |-> [n \in MirrorNames |->
                  [group |-> groupOf(n), content |-> owner(n).content,
                   mode |-> owner(n).mode, mtime |-> owner(n).mtime]],
      saved |-> NameCount - Cardinality(groups)]

(* derive_hardlink_deduplicated_mirror_state: a dictionary of partitions.  *)
EquivalenceClasses(source) ==
  {{m \in MirrorNames : EquivalenceValue(source[m]) = EquivalenceValue(source[n])} :
     n \in MirrorNames}
DeriveState(source) == AssembleState(EquivalenceClasses(source), source)

(* A manifest matters to one key and one policy; elsewhere one is enough.   *)
(* Groups are labels, and it is the same to a record which of the names of  *)
(* a file is called the original.                                          *)
MirrorInit ==
  /\ key \in Keys /\ ownerPolicy \in OwnerPolicies
  /\ original \in {f \in [MirrorNames -> MirrorNames] :
                     \A n \in MirrorNames : f[n] <= n /\ f[f[n]] = f[n]}
  /\ \E data \in [{original[n] : n \in MirrorNames}
                    -> [content : MetadataValues, mode : MetadataValues,
                        mtime : MetadataValues]] :
        metadata = data
  /\ declaredGroup \in IF key = "declared-group-and-sha256"
                       THEN {f \in [MirrorNames -> MetadataValues] : f[1] = 0}
                       ELSE {[n \in MirrorNames |-> 0]}
  /\ ownerPriority \in IF ownerPolicy = "manifest-priority"
                       THEN {f \in [MirrorNames -> 0 .. NameCount - 1] :
                               \A m, n \in MirrorNames : f[m] = f[n] => m = n}
                       ELSE {[n \in MirrorNames |-> n - 1]}
  /\ mirror = Underived

DeriveMirror ==
  /\ mirror = Underived
  /\ mirror' = DeriveState(SourceRecords)
  /\ UNCHANGED <<original, metadata, declaredGroup, ownerPriority, key, ownerPolicy>>

MirrorSpec == MirrorInit /\ [][DeriveMirror]_mirrorVars

(***************************************************************************)
(* The reference, and what a mirror is                                     *)
(***************************************************************************)
(* _reference_sort_key: numbers stand for the fields' bytes.               *)
ReferenceSortKey(item) ==
  <<CASE key = "sha256"            -> 0
      [] key = "mode-and-sha256"   -> item.mode
      [] key = "suffix-and-sha256" -> Suffix[item.relative]
      [] OTHER                     -> declaredGroup[item.relative],
    item.content>>

(* reference_hardlink_deduplicated_mirror_state: groupby over a sorted list. *)
ReferenceState(source) ==
  LET sortKey(n) == ReferenceSortKey(source[n])
      ahead(m, n) == LET x == Append(sortKey(m), m) y == Append(sortKey(n), n)
                     IN \E i \in 1 .. 3 : x[i] < y[i] /\ \A j \in 1 .. i - 1 : x[j] = y[j]
      ordered == Ranked(MirrorNames, ahead)
      run(i) == {ordered[j] : j \in {k \in MirrorNames :
                  \A l \in Min({i, k}) .. Max({i, k}) :
                     sortKey(ordered[l]) = sortKey(ordered[i])}}
  IN AssembleState({run(i) : i \in MirrorNames}, source)

(* The mirror read as a source: one original per group.                    *)
Mirrored ==
  LET first(n) == Min(mirror.tree[n].group)
  IN [n \in MirrorNames |-> SourceRecord(n, [m \in MirrorNames |-> first(m)],
                             [m \in MirrorNames |-> mirror.tree[m]])]

(* Both derivations agree; every name keeps its bytes, two names share an   *)
(* inode exactly when their keys are equal; a mirror of the mirror is the   *)
(* mirror, whatever is tied; and the ledger says how many inodes it saves.  *)
MirrorRight ==
  mirror # Underived =>
    /\ mirror = ReferenceState(SourceRecords)
    /\ \A n \in MirrorNames : mirror.tree[n].content = SourceRecords[n].content
    /\ \A m, n \in MirrorNames :
         mirror.tree[m].group = mirror.tree[n].group
           <=> EquivalenceValue(SourceRecords[m]) = EquivalenceValue(SourceRecords[n])
    /\ DeriveState(Mirrored) = mirror
    /\ mirror.saved + Cardinality({mirror.tree[n].group : n \in MirrorNames}) = NameCount
=============================================================================
