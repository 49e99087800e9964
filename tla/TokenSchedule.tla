----------------------------- MODULE TokenSchedule -----------------------------
(***************************************************************************)
(* token_schedule.py and dense_training.py, from tokenized records to the   *)
(* optimizer ledger: per partition, occurrences are drawn from an endless   *)
(* stream until an exact budget of visible tokens is met; the two           *)
(* partitions are interleaved in proportion; the result is packed into     *)
(* sequences of fixed length, re-derived from the ledgers, and trained on  *)
(* in micro-batches and updates.                                           *)
(*                                                                         *)
(* A record is its width: its number of visible tokens.  The order of each  *)
(* cycle of the stream, which a hash decides, is any order.  Token ids,    *)
(* labels, learning rates and losses are left out, and the hash of a ledger *)
(* row is its place in the ledger.                                         *)
(***************************************************************************)
EXTENDS Naturals, Sequences, FiniteSets, SequencesExt

CONSTANTS
  Records,               \* identities of a partition's records
  SequenceLength,
  Reserve,               \* tail_selection.reserve_visible_tokens
  CandidateOccurrences,  \* tail_selection.candidate_occurrences
  Budgets,               \* visible_token_budgets that are tried
  MaxOccurrences,        \* MAX_SCHEDULE_OCCURRENCES_PER_PARTITION
  MicrobatchSequences, AccumulationMicrobatches

(* What the configuration's validation has established. *)
ASSUME ScheduleAssumption ==
  /\ Records # {} /\ IsFiniteSet(Records)
  /\ SequenceLength \in Nat \ {0} /\ Reserve \in Nat /\ Reserve >= SequenceLength
  /\ CandidateOccurrences \in Nat \ {0}
  /\ Budgets \subseteq Nat \ {0} /\ MaxOccurrences \in Nat \ {0}
  /\ MicrobatchSequences \in Nat \ {0} /\ AccumulationMicrobatches \in Nat \ {0}

VARIABLES
  phase,
  widths, budget,        \* of each partition's records; of each partition
  current,               \* the partition being selected
  cycle,                 \* records not yet drawn in this cycle of the stream
  drawn,                 \* occurrences drawn from the stream: stream_ordinal
  tail,                  \* the candidate window
  selected,              \* per partition, the occurrences selected
  order,                 \* both partitions interleaved
  packs,                 \* sequences: the places in `order' each one holds
  ledger                 \* one row per optimizer update

streamVars == <<cycle, drawn>>
scheduleVars == <<phase, widths, budget, current, streamVars, tail, selected, order,
          packs, ledger>>

Partitions == {"target", "support"}

Total(occurrences) == FoldLeft(LAMBDA sum, o : sum + o.width, 0, occurrences)
Visible(p) == Total(selected[p])

ScheduleInit ==
  /\ phase = "prefix" /\ current = "target"
  /\ widths \in [Partitions -> [Records -> 1 .. SequenceLength]]
  /\ budget \in [Partitions -> Budgets]
  /\ cycle = Records /\ drawn = 0 /\ tail = <<>>
  /\ selected = [p \in Partitions |-> <<>>]
  /\ order = <<>> /\ packs = <<>> /\ ledger = <<>>

------------------------------------------------------------------------------
(* _select_partition.                                                      *)

(* The next occurrence of the stream: every record once per cycle.         *)
Draw(o) ==
  \E r \in cycle :
    /\ o = [partition |-> current, record |-> r, ordinal |-> drawn,
            width |-> widths[current][r]]
    /\ cycle' = IF cycle = {r} THEN Records ELSE cycle \ {r}
    /\ drawn' = drawn + 1

Occurrences ==
  [partition : {current}, record : Records, ordinal : {drawn},
   width : 1 .. SequenceLength]

(* The prefix takes what leaves the reserve untouched; the first occurrence *)
(* that does not fit opens the window.  One occurrence above the ceiling is *)
(* taken before the partition is refused.                                  *)
Prefix ==
  /\ phase = "prefix"
  /\ LET room == budget[current] - Visible(current) IN
     IF room > Reserve
     THEN \E o \in Occurrences :
            /\ Draw(o)
            /\ IF o.width <= room - Reserve
               THEN /\ selected' = [selected EXCEPT ![current] = Append(@, o)]
                    /\ phase' = IF Len(selected'[current]) > MaxOccurrences
                                THEN "ceiling" ELSE phase
                    /\ UNCHANGED tail
               ELSE tail' = <<o>> /\ phase' = "window" /\ UNCHANGED selected
     ELSE phase' = "window" /\ UNCHANGED <<streamVars, selected, tail>>
  /\ UNCHANGED <<widths, budget, current, order, packs, ledger>>

(* The window is filled with what comes next, whether it fits or not.      *)
Window ==
  /\ phase = "window"
  /\ IF Len(tail) < CandidateOccurrences
     THEN \E o \in Occurrences :
            Draw(o) /\ tail' = Append(tail, o) /\ UNCHANGED phase
     ELSE phase' = "tail" /\ UNCHANGED <<streamVars, tail>>
  /\ UNCHANGED <<widths, budget, current, selected, order, packs, ledger>>

(* Mutant: a sum already reached gets a new predecessor. *)
ReachLast(reached, i, target) ==
  LET w == tail[i].width
      newly == {s + w : s \in DOMAIN reached} \cap 1 .. target
  IN IF target \in DOMAIN reached THEN reached
     ELSE [s \in DOMAIN reached \cup newly |->
             IF s \in newly THEN i ELSE reached[s]]

(* _tail_subset: the sums candidates up to i can reach, each with the      *)
(* candidate that reached it first.                                        *)
Reach(reached, i, target) ==
  LET w == tail[i].width
      newly == ({s + w : s \in DOMAIN reached} \cap 0 .. target) \ DOMAIN reached
  IN IF target \in DOMAIN reached THEN reached
     ELSE [s \in DOMAIN reached \cup newly |->
             IF s \in newly THEN i ELSE reached[s]]

Reached(target) ==
  FoldLeft(LAMBDA reached, i : Reach(reached, i, target), [s \in {0} |-> 0],
           [i \in DOMAIN tail |-> i])

(* The candidates on the way back from the target.                         *)
ChosenTail(target) ==
  LET reached == Reached(target)
      back[s \in DOMAIN reached] ==
        IF s = 0 THEN <<>>
        ELSE Append(back[s - tail[reached[s]].width], tail[reached[s]])
  IN back[target]

Remainder == budget[current] - Visible(current)

(* A choice that lifts the partition above the ceiling is not replaced by a *)
(* shorter one.                                                            *)
TailSelect ==
  /\ phase = "tail"
  /\ IF Remainder \notin DOMAIN Reached(Remainder)
     THEN phase' = "unreachable"
          /\ UNCHANGED <<current, streamVars, tail, selected>>
     ELSE /\ selected' = [selected EXCEPT ![current] = @ \o ChosenTail(Remainder)]
          /\ IF Len(selected'[current]) > MaxOccurrences
             THEN phase' = "ceiling" /\ UNCHANGED <<current, streamVars, tail>>
             ELSE /\ tail' = <<>> /\ cycle' = Records /\ drawn' = 0
                  /\ current' = "support"
                  /\ phase' = IF current = "target" THEN "prefix" ELSE "interleave"
  /\ UNCHANGED <<widths, budget, order, packs, ledger>>

------------------------------------------------------------------------------
(* _interleave: the partition that lags behind its share comes next.       *)

Placed(p) ==
  FoldLeft(LAMBDA placed, o : IF o.partition = p THEN Append(placed, o) ELSE placed,
           <<>>, order)
Left(p) == Len(Placed(p)) < Len(selected[p])

(* Mutant: the token counts are compared, not their shares. *)
EvenTurn == Total(Placed("target")) <= Total(Placed("support"))

TargetTurn ==
  Total(Placed("target")) * budget["support"]
    <= Total(Placed("support")) * budget["target"]

InterleaveNext ==
  /\ phase = "interleave"
  /\ IF ~Left("target") /\ ~Left("support")
     THEN phase' = "pack" /\ UNCHANGED order
     ELSE LET p == IF ~Left("target") THEN "support"
                   ELSE IF ~Left("support") THEN "target"
                   ELSE IF TargetTurn THEN "target" ELSE "support"
          IN order' = Append(order, selected[p][Len(Placed(p)) + 1])
             /\ UNCHANGED phase
  /\ UNCHANGED <<widths, budget, current, streamVars, tail, selected, packs, ledger>>

------------------------------------------------------------------------------
(* _build_ledgers: an occurrence that does not fit ends the sequence.      *)

Places(pack) == [i \in DOMAIN pack |-> order[pack[i]]]
Packed == Len(FlattenSeq(packs))

Fits(pack, o) == Total(Places(pack)) + o.width <= SequenceLength

Pack ==
  /\ phase = "pack"
  /\ IF Packed = Len(order)
     THEN phase' = "materialize" /\ UNCHANGED packs
     ELSE LET k == Packed + 1 IN
          /\ packs' = IF packs # <<>> /\ Fits(Last(packs), order[k])
                      THEN [packs EXCEPT ![Len(packs)] = Append(@, k)]
                      ELSE Append(packs, <<k>>)
          /\ UNCHANGED phase
  /\ UNCHANGED <<widths, budget, current, streamVars, tail, selected, order, ledger>>

(* materialize_packed_schedule replays the ledgers and refuses a pack that *)
(* is too long, or packs that do not consume each occurrence once, in order.*)
Materialize ==
  /\ phase = "materialize"
  /\ phase' = IF /\ FlattenSeq(packs) = [i \in DOMAIN order |-> i]
                 /\ \A i \in DOMAIN packs :
                      Total(Places(packs[i])) <= SequenceLength
              THEN "train" ELSE "rejected"
  /\ UNCHANGED <<widths, budget, current, streamVars, tail, selected, order, packs,
                 ledger>>

------------------------------------------------------------------------------
(* run_dense_canary_training: one ledger row per update.                   *)

CeilDiv(a, b) == (a + b - 1) \div b
Microbatches == CeilDiv(Len(packs), MicrobatchSequences)
Updates == CeilDiv(Microbatches, AccumulationMicrobatches)

(* Mutant: an update takes the sequences, not the micro-batches. *)
GroupOfSequences(u) ==
  SubSeq(packs, (u - 1) * AccumulationMicrobatches + 1,
         IF u * AccumulationMicrobatches > Len(packs) THEN Len(packs)
         ELSE u * AccumulationMicrobatches)

(* _chunks, twice: the sequences of update u.                              *)
Group(u) ==
  LET size == MicrobatchSequences * AccumulationMicrobatches IN
  SubSeq(packs, (u - 1) * size + 1,
         IF u * size > Len(packs) THEN Len(packs) ELSE u * size)

Row(u) ==
  LET visible == Total(Places(FlattenSeq(Group(u))))
      slots == Len(Group(u)) * SequenceLength
      earlier == IF u = 1 THEN [visible |-> 0, slots |-> 0]
                 ELSE [visible |-> ledger[u - 1].cumulative_visible,
                       slots |-> ledger[u - 1].cumulative_slots]
  IN [update_ordinal |-> u, updates_total |-> Updates, previous |-> u - 1,
      visible |-> visible, slots |-> slots,
      cumulative_visible |-> earlier.visible + visible,
      cumulative_slots |-> earlier.slots + slots]

Train ==
  /\ phase = "train"
  /\ IF Len(ledger) < Updates
     THEN ledger' = Append(ledger, Row(Len(ledger) + 1)) /\ UNCHANGED phase
     ELSE /\ phase' = IF Last(ledger).cumulative_visible = Total(order)
                      THEN "trained" ELSE "rejected"
          /\ UNCHANGED ledger
  /\ UNCHANGED <<widths, budget, current, streamVars, tail, selected, order, packs>>

(* validate_published_checkpoint, the part about the ledger.               *)
ColumnSum(column, i) ==
  FoldLeft(LAMBDA n, j : n + ledger[j][column], 0, [j \in 1 .. i |-> j])

LedgerValid ==
  /\ \A i \in DOMAIN ledger :
       LET row == ledger[i] IN
       /\ row.update_ordinal = i /\ row.updates_total = Len(ledger)
       /\ row.previous = i - 1
       /\ row.visible > 0
       /\ row.cumulative_visible = ColumnSum("visible", i)
       /\ row.cumulative_slots = ColumnSum("slots", i)

ScheduleNext ==
  \/ Prefix \/ Window \/ TailSelect \/ InterleaveNext \/ Pack \/ Materialize \/ Train

ScheduleSpec == ScheduleInit /\ [][ScheduleNext]_scheduleVars

------------------------------------------------------------------------------
(* What some of the window's candidates add up to.                         *)
WidthOf(chosen) ==
  FoldLeft(LAMBDA n, i : n + IF i \in chosen THEN tail[i].width ELSE 0, 0,
           [i \in DOMAIN tail |-> i])

(* A partition's selection meets its budget exactly and within the ceiling, *)
(* takes no occurrence of the stream twice, and skips none before the      *)
(* window.  Preparing fails only when no selection of the window meets the *)
(* remainder, or when the occurrences taken exceed the ceiling; they are   *)
(* within the budget then, so that a budget of at most the ceiling is never *)
(* refused for it.                                                         *)
SelectedExactly ==
  /\ phase \notin {"prefix", "window", "tail", "unreachable", "ceiling"} =>
       \A p \in Partitions :
         /\ Visible(p) = budget[p] /\ Len(selected[p]) <= MaxOccurrences
         /\ \A i \in 1 .. Len(selected[p]) - 1 :
              selected[p][i].ordinal < selected[p][i + 1].ordinal
         /\ \A i \in DOMAIN selected[p] :
              selected[p][i].ordinal >= i
                => Total(SubSeq(selected[p], 1, i - 1)) + Reserve + SequenceLength
                     > budget[p]
  /\ phase = "unreachable" =>
       \A chosen \in SUBSET DOMAIN tail :
         Remainder # WidthOf(chosen)
  /\ phase = "ceiling" =>
       /\ MaxOccurrences < Len(selected[current])
       /\ Len(selected[current]) <= Visible(current)
       /\ Visible(current) <= budget[current]

(* At no point of the schedule is either partition further from its share   *)
(* than one occurrence, while both have some left.                         *)
SharesKept ==
  LET t == Total(Placed("target"))  s == Total(Placed("support")) IN
  phase = "interleave" /\ Left("target") /\ Left("support") =>
    /\ t * budget["support"] <= s * budget["target"]
                                  + SequenceLength * budget["support"]
    /\ s * budget["target"] <= t * budget["support"]
                                  + SequenceLength * budget["target"]

(* The schedule is the one that was asked for: token_schedule.py,           *)
(* _select_partition and _interleave.                                      *)
ScheduleRight == SelectedExactly /\ SharesKept

(* What is trained is what was selected: each occurrence once and in order, *)
(* no sequence closed before it had to be, the exact token totals; and the  *)
(* ledger written by the training passes the checkpoint's validator.       *)
TrainedOnce ==
  /\ phase # "rejected"
  /\ phase = "trained" =>
       /\ Total(order) = budget["target"] + budget["support"]
       /\ \A p \in Partitions : Placed(p) = selected[p]
       /\ \A i \in 1 .. Len(packs) - 1 :
            Total(Places(packs[i])) + order[packs[i + 1][1]].width > SequenceLength
       /\ LedgerValid
=============================================================================
