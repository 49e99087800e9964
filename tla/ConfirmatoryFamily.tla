-------------------------- MODULE ConfirmatoryFamily --------------------------
(***************************************************************************)
(* Two contrasts, one per lane, are tested by flipping signs and judged     *)
(* together by Holm's procedure: statistics.py (exact mode) and             *)
(* confirmatory_analysis.py, finalize_confirmatory_family.                  *)
(*                                                                         *)
(* A contrast is the score of every unit: comparison minus reference,       *)
(* summed over the unit's cells.  Probabilities are fractions: a p-value is *)
(* the number of extreme sign patterns out of Patterns(scores).  The        *)
(* bootstrap and the Monte Carlo mode depend on a random generator and are  *)
(* left out.                                                               *)
(***************************************************************************)
EXTENDS Integers, Sequences, FiniteSets, FiniteSetsExt, SequencesExt, Ranking

CONSTANTS
  Scores,                      \* what a contrast's units may score
  Contrasts,                   \* labels: a sequence in the order of their bytes
  AlphaNumerator, AlphaDenominator

(* _validate_probability, without its endpoints. *)
ASSUME FamilyAssumption ==
  /\ Scores \subseteq Seq(Int) /\ Contrasts \in Seq(Range(Contrasts))
  /\ AlphaNumerator \in Nat /\ AlphaDenominator \in Nat
  /\ 0 < AlphaNumerator /\ AlphaNumerator < AlphaDenominator

VARIABLES
  scores,        \* per contrast, per unit
  alternative,
  hypotheses,    \* holm_adjust's report
  worlds         \* auxiliary: the p-values under every flip of a contrast's signs

familyVars == <<scores, alternative, hypotheses, worlds>>

Alternatives == {"two_sided", "greater", "less"}
Labels == Range(Contrasts)
Magnitude(n) == IF n < 0 THEN -n ELSE n

(* Mutant: only what is beyond the observed total is extreme. *)
BeyondObserved(total, observed) ==
  CASE alternative = "two_sided" -> Magnitude(total) > Magnitude(observed)
    [] alternative = "greater"   -> total > observed
    [] alternative = "less"      -> total < observed

(* _is_extreme.                                                            *)
Extreme(total, observed) ==
  CASE alternative = "two_sided" -> Magnitude(total) >= Magnitude(observed)
    [] alternative = "greater"   -> total >= observed
    [] alternative = "less"      -> total <= observed

(* paired_sign_flip_randomization: units without a difference are left out, *)
(* the signs of the others are taken in every way.                         *)
Nonzero(units) ==
  FoldLeft(LAMBDA kept, score : IF score = 0 THEN kept ELSE Append(kept, score),
           <<>>, units)
Signs(units) == [DOMAIN units -> {1, -1}]
Flip(units, signs) == [i \in DOMAIN units |-> signs[i] * units[i]]
SignedTotal(units) == FoldLeft(LAMBDA sum, score : sum + score, 0, units)

Patterns(units) == 2 ^ Len(Nonzero(units))
ExtremeCount(units) ==
  LET effective == Nonzero(units)
      observed == SignedTotal(effective)
  IN Cardinality({signs \in Signs(effective) :
                    Extreme(SignedTotal(Flip(effective, signs)), observed)})

Fraction(n, d) == [n |-> n, d |-> d]
AtMost(x, y) == x.n * y.d <= y.n * x.d
PValue(units) == Fraction(ExtremeCount(units), Patterns(units))

(* holm_adjust: ascending p-values, ties by label; each is compared with    *)
(* alpha over the number of hypotheses that are left, until one fails.      *)
Alpha == Fraction(AlphaNumerator, AlphaDenominator)
Ordered(pValues) ==
  LET rank(label) == CHOOSE i \in DOMAIN Contrasts : Contrasts[i] = label
  IN Ranked(Labels, LAMBDA a, b :
       \/ ~AtMost(pValues[b], pValues[a])
       \/ AtMost(pValues[a], pValues[b]) /\ AtMost(pValues[b], pValues[a])
          /\ rank(a) < rank(b))

HolmStep(pValues, state, label) ==
  LET p == pValues[label]
      multiplier == Cardinality(Labels) - Cardinality(DOMAIN state.entries)
      raised == Fraction(multiplier * p.n, p.d)
      capped == IF AtMost(raised, Fraction(1, 1)) THEN raised ELSE Fraction(1, 1)
      running == IF AtMost(capped, state.running) THEN state.running ELSE capped
      reject == state.rejecting /\ AtMost(p, Fraction(Alpha.n, Alpha.d * multiplier))
      entry == [p |-> p, adjusted |-> running, rejected |-> reject]
  IN [running |-> running, rejecting |-> reject,
      entries |-> [l \in DOMAIN state.entries \cup {label} |->
                     IF l = label THEN entry ELSE state.entries[l]]]

HolmAdjust(pValues) ==
  FoldLeft(LAMBDA state, label : HolmStep(pValues, state, label),
           [running |-> Fraction(0, 1), rejecting |-> TRUE, entries |-> <<>>],
           Ordered(pValues)).entries

(* run_confirmatory_contrast for each contrast, then                        *)
(* finalize_confirmatory_family.                                           *)
Pending == <<>>
FamilyInit ==
  /\ scores \in [Labels -> Scores] /\ alternative \in Alternatives
  /\ hypotheses = Pending /\ worlds = Pending

Finalize ==
  /\ hypotheses = Pending
  /\ hypotheses' = HolmAdjust([c \in Labels |-> PValue(scores[c])])
  /\ worlds' = [c \in Labels |-> [signs \in Signs(scores[c]) |->
                                   PValue(Flip(scores[c], signs))]]
  /\ UNCHANGED <<scores, alternative>>

FamilyNext == Finalize
FamilySpec == FamilyInit /\ [][FamilyNext]_familyVars

(***************************************************************************)
(* What the family promises                                                *)
(***************************************************************************)
(* If a contrast has no effect, its scores are as likely with any signs:    *)
(* the flips of the contrasts in null are then equally likely worlds.       *)
Worlds(null) == {f \in [null -> UNION {Signs(scores[c]) : c \in null}] :
                   \A c \in null : f[c] \in Signs(scores[c])}

FalseRejections(null) ==
  {f \in Worlds(null) :
     LET judged == HolmAdjust([c \in Labels |-> IF c \in null THEN worlds[c][f[c]]
                                               ELSE hypotheses[c].p])
     IN \E c \in null : judged[c].rejected}

(* Whatever the data and whichever contrasts have no effect, the share of   *)
(* the worlds in which one of those is declared an effect is at most alpha. *)
ErrorBounded ==
  \A null \in (SUBSET Labels) \ {{}} :
     AtMost(Fraction(Cardinality(FalseRejections(null)), Cardinality(Worlds(null))),
            Alpha)

(* The two answers of holm_adjust agree: rejected, and adjusted p-value.    *)
AnswersAgree ==
  \A c \in Labels : hypotheses[c].rejected <=> AtMost(hypotheses[c].adjusted, Alpha)

(* The family's error is bounded by alpha, and both forms of the decision   *)
(* say the same: statistics.py and finalize_confirmatory_family.           *)
FamilyRight == hypotheses # Pending => ErrorBounded /\ AnswersAgree
=============================================================================
