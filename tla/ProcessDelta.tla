----------------------------- MODULE ProcessDelta -----------------------------
(***************************************************************************)
(* executable_process_lifecycle_delta.py: two snapshots of a process table  *)
(* are turned into lifecycle events, once over dictionaries (the primary    *)
(* derivation) and once by merging two sorted lists (the reference).        *)
(*                                                                         *)
(* An observation is absent, unknown (any of its files is refused), or a    *)
(* projection: its start, its state and one resource.  Parsing, names and   *)
(* the boot id are left out.                                               *)
(***************************************************************************)
EXTENDS Naturals, Sequences, FiniteSets, SequencesExt, Ranking

CONSTANTS
  Pids,                  \* naturals
  BeforeTicks,           \* pair.before_snapshot_ticks
  AfterTicks,            \* pair.after_snapshot_ticks
  Values,                \* tried values of the fields: [Fields -> Nat]
  Threshold              \* pair.rss_threshold_kib

VARIABLES
  snapshot,              \* per side and PID, what was observed
  selection,             \* selection_policy
  rows,                  \* the reference's sorted rows of each side
  left, right, events    \* its loop

deltaVars == <<snapshot, selection, rows, left, right, events>>

Fields == {"state", "rss_kib"}

ASSUME DeltaAssumption ==
  /\ Pids \in SUBSET Nat /\ IsFiniteSet(Pids)
  /\ BeforeTicks \in Nat /\ AfterTicks \in Nat
  /\ Values \subseteq [Fields -> Nat]

Selections == {"all-changes", "starts-only", "exits-only", "state-changes",
               "resource-threshold-crossings"}

AbsentProcess  == [is |-> "absent"]
Unknown == [is |-> "unknown"]

(* _classify_pid_observation: a process that starts after the endpoint is   *)
(* unknown.                                                                *)
Projections(ticks) == [is : {"valid"}, start : 1 .. ticks, value : Values]
Observations(ticks) == {AbsentProcess, Unknown} \cup Projections(ticks)

Valid(side) == {p \in Pids : snapshot[side][p].is = "valid"}

(* Mutant: only a PID that was absent before is suppressed. *)
SuppressedIfNew ==
  {p \in Valid("after") \ Valid("before") : snapshot.after[p].start <= BeforeTicks}

(* A process the later snapshot dates before the earlier one, which did not *)
(* see it.                                                                 *)
Suppressed ==
  {p \in Valid("after") :
     /\ snapshot.after[p].start <= BeforeTicks
     /\ p \in Valid("before") => snapshot.before[p].start # snapshot.after[p].start}

UnknownPids ==
  {p \in Pids : \E side \in {"before", "after"} : snapshot[side][p] = Unknown}
    \cup Suppressed

Rows(side) == Ranked(Valid(side) \ UnknownPids, <)

DeltaInit ==
  /\ snapshot \in [before : [Pids -> Observations(BeforeTicks)],
                   after : [Pids -> Observations(AfterTicks)]]
  /\ selection \in Selections
  /\ rows = [before |-> Rows("before"), after |-> Rows("after")]
  /\ left = 1 /\ right = 1 /\ events = <<>>

Event(p, kind, before, after) ==
  [pid |-> p, event |-> kind, before |-> before, after |-> after,
   changed |-> IF kind = "changed"
               THEN {f \in Fields : before.value[f] # after.value[f]} ELSE {}]

Exited(p)  == Event(p, "exited", snapshot.before[p], AbsentProcess)
Started(p) == Event(p, "started", AbsentProcess, snapshot.after[p])
Changed(p) == Event(p, "changed", snapshot.before[p], snapshot.after[p])

(* _projection_crossings.                                                  *)
Crosses(e) ==
  \/ e.before.value.rss_kib < Threshold /\ e.after.value.rss_kib >= Threshold
  \/ e.after.value.rss_kib < Threshold /\ e.before.value.rss_kib >= Threshold

Selected(e) ==
  CASE selection = "all-changes"   -> TRUE
    [] selection = "starts-only"   -> e.event = "started"
    [] selection = "exits-only"    -> e.event = "exited"
    [] selection = "state-changes" -> e.event = "changed" /\ "state" \in e.changed
    [] selection = "resource-threshold-crossings" ->
         e.event = "changed" /\ Crosses(e)

(* A PID seen on both sides.                                               *)
Transition(p) ==
  IF snapshot.before[p].start # snapshot.after[p].start
  THEN <<Exited(p), Started(p)>>
  ELSE IF Changed(p).changed # {} THEN <<Changed(p)>> ELSE <<>>

------------------------------------------------------------------------------
(* The loop of _derive_reference_events.                                   *)
Reported(candidates) ==
  FlattenSeq([i \in DOMAIN candidates |->
                IF Selected(candidates[i]) THEN <<candidates[i]>> ELSE <<>>])

Emit(candidates) == events' = events \o Reported(candidates)

HasLeft  == left <= Len(rows.before)
HasRight == right <= Len(rows.after)
Old == rows.before[left]
New == rows.after[right]

MergeExited ==
  /\ HasLeft /\ (HasRight => Old < New)
  /\ Emit(<<Exited(Old)>>) /\ left' = left + 1
  /\ UNCHANGED <<snapshot, selection, rows, right>>

MergeStarted ==
  /\ HasRight /\ (HasLeft => New < Old)
  /\ Emit(<<Started(New)>>) /\ right' = right + 1
  /\ UNCHANGED <<snapshot, selection, rows, left>>

MergeBoth ==
  /\ HasLeft /\ HasRight /\ Old = New
  /\ Emit(Transition(Old)) /\ left' = left + 1 /\ right' = right + 1
  /\ UNCHANGED <<snapshot, selection, rows>>

DeltaNext == MergeExited \/ MergeStarted \/ MergeBoth

DeltaSpec == DeltaInit /\ [][DeltaNext]_deltaVars

------------------------------------------------------------------------------
(* _derive_primary_events.                                                 *)
PrimaryEvents ==
  LET known(side) == Valid(side) \ UnknownPids
      of(p) == IF p \notin known("before") THEN <<Started(p)>>
               ELSE IF p \notin known("after") THEN <<Exited(p)>>
               ELSE Transition(p)
      pids == Ranked(known("before") \cup known("after"), <)
  IN Reported(FlattenSeq([i \in DOMAIN pids |-> of(pids[i])]))

(* What the table of known processes becomes when an event is applied.     *)
Apply(table, e) == [table EXCEPT ![e.pid] = e.after]

Known(side) == [p \in Pids |-> IF p \in UnknownPids THEN AbsentProcess ELSE snapshot[side][p]]

(* Both derivations report the same events.  They replay: each finds the    *)
(* table in the state it names, and all of them lead from one snapshot to   *)
(* the other.  Nothing is said of a PID that is unknown; only a process that*)
(* started between the snapshots is reported as started; a PID's exit       *)
(* precedes its reuse.                                                     *)
DeltaRight ==
  LET table[i \in 0 .. Len(events)] ==
        IF i = 0 THEN Known("before") ELSE Apply(table[i - 1], events[i]) IN
  ~HasLeft /\ ~HasRight =>
    /\ events = PrimaryEvents
    /\ \A i \in DOMAIN events :
         LET e == events[i] IN
         /\ e.pid \notin UnknownPids
         /\ e.event = "started" => e.after.start \in BeforeTicks + 1 .. AfterTicks
         /\ \A j \in 1 .. i - 1 : events[j].pid = e.pid =>
              events[j].event = "exited" /\ e.event = "started"
    /\ selection = "all-changes" =>
         /\ \A i \in DOMAIN events : table[i - 1][events[i].pid] = events[i].before
         /\ table[Len(events)] = Known("after")
=============================================================================
