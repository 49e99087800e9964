--------------------------- MODULE ObservationProofs ----------------------------
(***************************************************************************)
(* The proofs for the three components that look at what others change:    *)
(* the verification of a workspace, the snapshot of the runtime in sealed   *)
(* descriptors, and the CPU watcher of the supervisor.                      *)
(***************************************************************************)
EXTENDS FixtureVerification, FdSnapshot, CpuAccounting, SequenceTheorems,
        FiniteSetTheorems, WellFoundedInduction, TLAPS

(***************************************************************************)
(* FixtureVerification: VerdictRight.                                      *)
(***************************************************************************)
(* Where a verification can be. *)
Stages == ScanStages \cup {"bytes", "done"}

(* The two stages that scan below input/. *)
InputStages == {"input", "final_input"}

(* The final scans. *)
Finals == {"final_input", "final_output"}

(* The stages after the output scan, whose result they go back to. *)
Later == {"before", "bytes", "after"} \cup Finals

(* What a file can be. *)
FileStates == [look : Looks, stamp : Nat]

(* What a verification can end with. *)
Verdict ==
  {"none", "passed", "workspace-scan-failure", "input-baseline-mismatch",
   "output-policy-failure", "output-read-failure", "oracle-mode-mismatch",
   "malformed-semantic-output", "semantic-mismatch"}

(* The types of all variables. *)
VerificationTypeOK ==
  /\ tree \in [Files -> FileStates]
  /\ root \in Nat /\ stage \in Stages
  /\ rootBefore \in Seq(Nat) /\ Len(rootBefore) <= 1
  /\ collected \in Seq(FileStates)
  /\ inputScan \in Seq(FileStates) /\ outputScan \in Seq(FileStates)
  /\ payloads \in Seq(Looks) /\ verdict \in Verdict
  /\ writes \in Nat
  /\ restored \in BOOLEAN /\ late \in BOOLEAN /\ existed \in BOOLEAN

(* A stable scan comes across every name two times. *)
Twice == Scope \o Scope

(* An entry that a file may have had by the time of so many writes.         *)
Possible(e, count) == e.stamp <= count /\ (e.look = "absent" => e = Absent)

(* Stamps are never ahead of the writes, and nothing has moved without *)
(* one.                                                                *)
World ==
  /\ \A f \in Files : Possible(tree[f], writes)
  /\ RightTree(tree) => existed
  /\ writes = 0 => root = 0 /\ ~late

(* A scan under way began with a root no younger than this one, and has *)
(* read nothing that its files cannot have been.                        *)
Scanning ==
  /\ rootBefore # <<>> => stage \in ScanStages /\ rootBefore[1] <= root
  /\ rootBefore = <<>> => collected = <<>>
  /\ Len(collected) <= 2 * Len(Scope)
  /\ \A k \in DOMAIN collected : Possible(collected[k], writes)

(* Without a change of the root, what was absent still is.                 *)
AbsentKept ==
  stage \notin InputStages /\ rootBefore = <<root>> =>
    \A k \in DOMAIN collected : collected[k] = Absent => tree[Twice[k]] = Absent

(* The output scan allowed what is there, and the payloads are its bytes. *)
ReadRight ==
  /\ stage \in {"input", "output"} => payloads = <<>>
  /\ stage \in Later =>
      /\ Len(outputScan) = Len(Outside) /\ PolicyAllows(outputScan)
      /\ \A i \in DOMAIN Outside : Possible(outputScan[i], writes)
      /\ Len(payloads) <= Len(OracleOutputs)
      /\ stage \in {"before", "bytes"} => Len(payloads) < Len(OracleOutputs)
      /\ stage \in Finals => Len(payloads) = Len(OracleOutputs)
      /\ \A j \in DOMAIN payloads : \A i \in DOMAIN Outside :
            Outside[i] = OracleOutputs[j] => payloads[j] = outputScan[i].look

(* What the final scan of the inputs has seen of an input or, before it *)
(* comes there, what it would see now.                                  *)
InputSeen(i) ==
  IF stage = "final_input" /\ i <= Len(collected) THEN collected[i]
  ELSE IF stage = "final_output" THEN inputScan[i]
  ELSE tree[Inputs[i]]

(* The same of a file outside input/ and the final scan of the outputs. *)
OutputSeen(i) ==
  IF stage = "final_output" /\ i <= Len(collected) THEN collected[i]
  ELSE tree[Outside[i]]

(* Once what the scans saw is gone, no later scan will see it again. *)
Doomed ==
  \/ \E i \in DOMAIN Outside : outputScan[i].look \notin {"good", "absent"}
  \/ \E i \in DOMAIN Outside :
       outputScan[i] # Absent /\ OutputSeen(i) # outputScan[i]
  \/ \E i \in DOMAIN Inputs : InputSeen(i) # Baseline[i]

(* The heart of the proof: the end of the output scan is a moment at *)
(* which the tree was right, or something already seen will fail the *)
(* verification.                                                     *)
Bracketed == stage \in Later /\ ~restored => existed \/ Doomed

(* Nobody writes, or not since the final scans began. *)
Undisturbed == writes = 0 \/ (stage \in Finals /\ ~late)

(* What such a scan has seen is what is there. *)
Accurate ==
  Undisturbed =>
    /\ \A k \in DOMAIN collected : collected[k] = tree[Twice[k]]
    /\ stage = "final_output" => \A i \in DOMAIN Inputs : inputScan[i] = tree[Inputs[i]]

(* Without a writer every scan has seen the tree as it is. *)
Unwritten ==
  writes = 0 =>
    /\ rootBefore # <<>> => rootBefore = <<root>>
    /\ stage \in Later \cup {"output"} =>
         \A i \in DOMAIN Inputs : tree[Inputs[i]] = Baseline[i]
    /\ stage \in Later => \A i \in DOMAIN Outside : outputScan[i] = tree[Outside[i]]

(* The result of the final scan of the inputs covers them all. *)
FinalInputScan == stage = "final_output" => Len(inputScan) = Len(Inputs)

(* There is a verdict at the end only, and it is right. *)
Verdicts == /\ stage # "done" => verdict = "none"
            /\ VerdictRight

(* The inductive invariant. *)
VInv == /\ VerificationTypeOK /\ World /\ Scanning /\ AbsentKept /\ ReadRight
        /\ Bracketed /\ Accurate /\ Unwritten /\ FinalInputScan /\ Verdicts

-----------------------------------------------------------------------------

(* The names are sequences without a repetition, of different files. *)
LEMMA NamesType ==
  /\ Inputs \in Seq(Files) /\ Outside \in Seq(Files)
  /\ DOMAIN Inputs = 1 .. Len(Inputs) /\ DOMAIN Outside = 1 .. Len(Outside)
  /\ Len(Inputs) \in Nat /\ Len(Outside) \in Nat
  /\ Scope \in Seq(Files)
<1>1. Inputs \in Seq(Range(Inputs)) /\ Outside \in Seq(Range(Outside))
  BY VerificationAssumption
<1>2. Inputs \in Seq(Files) /\ Outside \in Seq(Files)
  <2>1. \A S, T, s : S \subseteq T /\ s \in Seq(S) => s \in Seq(T)
    OBVIOUS
  <2>2. Range(Inputs) \subseteq Files /\ Range(Outside) \subseteq Files
    BY DEF Files
  <2> QED
    BY <1>1, <2>1, <2>2
<1> QED
  BY <1>2 DEF Scope

(* The k-th of twice the names. *)
LEMMA TwiceType ==
  /\ Twice \in Seq(Files) /\ Len(Twice) = 2 * Len(Scope)
  /\ \A k \in 1 .. 2 * Len(Scope) :
       /\ Twice[k] = IF k <= Len(Scope) THEN Scope[k] ELSE Scope[k - Len(Scope)]
       /\ Twice[k] \in Files
       /\ stage \notin InputStages => Twice[k] \in Range(Outside)
<1>1. Scope \in Seq(Files) /\ Len(Scope) \in Nat
  BY NamesType
<1>2. Twice \in Seq(Files) /\ Len(Twice) = 2 * Len(Scope)
  BY <1>1 DEF Twice
<1>3. ASSUME NEW k \in 1 .. 2 * Len(Scope)
      PROVE  /\ Twice[k] = IF k <= Len(Scope) THEN Scope[k] ELSE Scope[k - Len(Scope)]
             /\ Twice[k] \in Files
  BY <1>1, <1>3, ConcatProperties, <1>2 DEF Twice
<1>4. ASSUME NEW k \in 1 .. 2 * Len(Scope), stage \notin InputStages
      PROVE  Twice[k] \in Range(Outside)
  <2>1. Scope = Outside
    BY <1>4 DEF Scope, InputStages
  <2>2. \E i \in DOMAIN Outside : Twice[k] = Outside[i]
    BY <1>3, <1>4, <2>1, <1>1, NamesType
  <2> QED
    BY <2>2 DEF Range
<1> QED
  BY <1>2, <1>3, <1>4

(* The two halves of a complete scan. *)
LEMMA FirstIs ==
  ASSUME VerificationTypeOK, Scanned
  PROVE  /\ First \in Seq(FileStates) /\ Len(First) = Len(Scope)
         /\ Second \in Seq(FileStates) /\ Len(Second) = Len(Scope)
         /\ \A i \in 1 .. Len(Scope) :
              First[i] = collected[i] /\ Second[i] = collected[Len(Scope) + i]
<1>1. /\ collected \in Seq(FileStates) /\ Len(collected) = 2 * Len(Scope)
      /\ Len(Scope) \in Nat
  BY NamesType DEF VerificationTypeOK, Scanned
<1> DEFINE n == Len(Scope)
<1>2. n \in Nat /\ Len(collected) = n + n
  BY <1>1
<1> HIDE DEF n
<1>3. First = SubSeq(collected, 1, n) /\ Second = SubSeq(collected, n + 1, n + n)
  BY <1>2, <1>1 DEF First, Second, n
<1>4. \A i \in 1 .. n + n : collected[i] \in FileStates
  BY <1>1, <1>2
<1>5. /\ SubSeq(collected, 1, n) = [i \in 1 .. n |-> collected[i]]
      /\ SubSeq(collected, n + 1, n + n) = [i \in 1 .. n |-> collected[n + i]]
  BY <1>1, <1>2
<1>6. First \in Seq(FileStates) /\ Len(First) = n /\ Second \in Seq(FileStates) /\ Len(Second) = n
  BY <1>2, <1>3, <1>4, <1>5
<1> QED
  BY <1>6, <1>3, <1>5 DEF n

(* Absent is a state of a file. *)
LEMMA AbsentType == Absent \in FileStates /\ Absent.stamp = 0 /\ Absent.look = "absent"
  BY DEF Absent, FileStates, Looks

(* The invariant holds when the verification begins. *)
LEMMA InitInv == VerificationInit => VInv
<1> SUFFICES ASSUME VerificationInit PROVE VInv
  OBVIOUS
<1>1. PICK looks \in [Files -> UNION {LooksOf[f] : f \in Files}] :
        /\ \A f \in Files : looks[f] \in LooksOf[f]
        /\ tree = [f \in Files |-> [look |-> looks[f], stamp |-> 0]]
  BY DEF VerificationInit
<1>2. \A f \in Files : looks[f] \in Looks
  BY <1>1, VerificationAssumption
<1>3. /\ root = 0 /\ stage = "input" /\ rootBefore = <<>> /\ collected = <<>>
      /\ inputScan = <<>> /\ outputScan = <<>> /\ payloads = <<>>
      /\ verdict = "none" /\ writes = 0 /\ restored = FALSE /\ late = FALSE
      /\ existed = RightTree(tree)
  BY DEF VerificationInit
<1>4. tree \in [Files -> FileStates]
  BY <1>1, <1>2 DEF FileStates
<1>5. existed \in BOOLEAN
  BY <1>3 DEF RightTree
<1>6. VerificationTypeOK
  <2>1. stage \in Stages
    BY <1>3 DEF Stages, ScanStages
  <2>2. \A S : <<>> \in Seq(S) /\ Len(<<>>) <= 1
    OBVIOUS
  <2>3. verdict \in Verdict
    BY <1>3 DEF Verdict
  <2> QED
    BY <1>3, <1>4, <1>5, <2>1, <2>2, <2>3 DEF VerificationTypeOK
<1>7. World
  BY <1>3, <1>1 DEF World, Possible, Absent
<1>8. Scanning /\ AbsentKept
  BY <1>3, NamesType DEF Scanning, AbsentKept
<1>9. ReadRight /\ Bracketed /\ FinalInputScan /\ Verdicts
  BY <1>3 DEF ReadRight, Bracketed, Later, Finals, FinalInputScan, Verdicts, VerdictRight
<1>10. Accurate /\ Unwritten
  BY <1>3 DEF Accurate, Unwritten, Later, Finals
<1> QED
  BY <1>6, <1>7, <1>8, <1>9, <1>10 DEF VInv

-----------------------------------------------------------------------------
(* A writer. *)

(* What a write makes of one file. *)
LEMMA Written ==
  ASSUME VInv, Write
  PROVE  \E f \in Files, new \in FileStates :
           /\ tree' = [tree EXCEPT ![f] = new]
           /\ new.look = "absent" => new = Absent
           /\ new.stamp <= writes + 1
           /\ ~restored' => ~restored /\ (new = Absent \/ new.stamp = writes + 1)
           /\ root' = IF f \in Range(Outside) /\ (tree[f] = Absent) # (new = Absent)
                      THEN root + 1 ELSE root
           /\ restored' \in BOOLEAN
<1>t. VerificationTypeOK /\ World
  BY DEF VInv
<1>1. PICK f \in Files, keeps \in BOOLEAN : \E look \in LooksOf[f] :
        /\ tree' = [tree EXCEPT ![f] =
                     IF look = "absent" THEN Absent
                     ELSE [look |-> look,
                           stamp |-> IF keeps THEN @.stamp ELSE writes + 1]]
        /\ root' = IF f \in Range(Outside)
                       /\ (tree[f] = Absent) # (look = "absent")
                  THEN root + 1 ELSE root
        /\ restored' = (restored \/ keeps)
  BY DEF Write
<1>2. PICK look \in LooksOf[f] :
        /\ tree' = [tree EXCEPT ![f] =
                     IF look = "absent" THEN Absent
                     ELSE [look |-> look,
                           stamp |-> IF keeps THEN @.stamp ELSE writes + 1]]
        /\ root' = IF f \in Range(Outside)
                       /\ (tree[f] = Absent) # (look = "absent")
                  THEN root + 1 ELSE root
        /\ restored' = (restored \/ keeps)
  BY <1>1
<1>3. look \in Looks
  BY VerificationAssumption
<1>4. tree[f] \in FileStates /\ tree[f].stamp \in Nat /\ tree[f].stamp <= writes
      /\ writes \in Nat
  BY <1>t DEF VerificationTypeOK, FileStates, World, Possible
<1> DEFINE kept == [look |-> look, stamp |-> tree[f].stamp]
           fresh == [look |-> look, stamp |-> writes + 1]
           new == IF look = "absent" THEN Absent ELSE IF keeps THEN kept ELSE fresh
<1>5. tree' = [tree EXCEPT ![f] = new]
  BY <1>2, <1>t DEF VerificationTypeOK
<1>6. new \in FileStates
  BY <1>3, <1>4, AbsentType DEF FileStates
<1>7. (new.look = "absent" => new = Absent) /\ new.stamp <= writes + 1
  BY <1>3, <1>4 DEF Absent
<1>8. new = Absent <=> look = "absent"
  BY DEF Absent
<1>9. ~restored' => ~restored /\ (new = Absent \/ new.stamp = writes + 1)
  BY <1>2
<1>10. restored' \in BOOLEAN
  BY <1>2, <1>t DEF VerificationTypeOK
<1>11. root' = IF f \in Range(Outside) /\ (tree[f] = Absent) # (new = Absent)
               THEN root + 1 ELSE root
  BY <1>2, <1>8
<1> QED
  BY <1>5, <1>6, <1>7, <1>9, <1>10, <1>11

(* A writer keeps the invariant: what it takes away cannot come back with *)
(* its stamp, unless it set a time back.                                  *)
LEMMA WriteStep == VInv /\ Write => VInv'
<1> SUFFICES ASSUME VInv, Write PROVE VInv'
  OBVIOUS
<1>t. VerificationTypeOK /\ World /\ Scanning /\ AbsentKept /\ ReadRight /\ Bracketed
      /\ Accurate /\ Unwritten /\ FinalInputScan /\ Verdicts
  BY DEF VInv
<1>f. PICK f \in Files, new \in FileStates :
           /\ tree' = [tree EXCEPT ![f] = new]
           /\ new.look = "absent" => new = Absent
           /\ new.stamp <= writes + 1
           /\ ~restored' => ~restored /\ (new = Absent \/ new.stamp = writes + 1)
           /\ root' = IF f \in Range(Outside) /\ (tree[f] = Absent) # (new = Absent)
                      THEN root + 1 ELSE root
           /\ restored' \in BOOLEAN
  BY Written
<1>u. /\ stage # "done" /\ writes' = writes + 1
      /\ stage' = stage /\ rootBefore' = rootBefore /\ collected' = collected
      /\ inputScan' = inputScan /\ outputScan' = outputScan /\ payloads' = payloads
      /\ verdict' = verdict
      /\ late' = (late \/ stage \in {"final_input", "final_output"})
      /\ existed' = (existed \/ RightTree(tree'))
  BY DEF Write
<1>w. writes \in Nat /\ root \in Nat /\ root' \in Nat /\ root' >= root
      /\ tree \in [Files -> FileStates] /\ writes' \in Nat /\ writes' # 0
      /\ existed \in BOOLEAN /\ late \in BOOLEAN
  BY <1>t, <1>f, <1>u DEF VerificationTypeOK
<1>n. /\ DOMAIN Outside = 1 .. Len(Outside) /\ DOMAIN Inputs = 1 .. Len(Inputs)
      /\ \A i \in DOMAIN Outside : Outside[i] \in Files
      /\ \A i \in DOMAIN Inputs : Inputs[i] \in Files
  BY NamesType
<1>x. tree' \in [Files -> FileStates]
      /\ \A g \in Files : tree'[g] = IF g = f THEN new ELSE tree[g]
  BY <1>f, <1>w
<1>s. Scope' = Scope /\ Twice' = Twice
  BY <1>u DEF Scope, Twice
<1>p. \A e : Possible(e, writes) /\ e.stamp \in Nat => Possible(e, writes')
  BY <1>u, <1>w DEF Possible
<1>q. \A s \in Seq(FileStates) : \A k \in DOMAIN s : s[k] \in FileStates /\ s[k].stamp \in Nat
  <2> SUFFICES ASSUME NEW s \in Seq(FileStates), NEW k \in DOMAIN s
               PROVE  s[k] \in FileStates /\ s[k].stamp \in Nat
    OBVIOUS
  <2>1. s[k] \in FileStates
    OBVIOUS
  <2> QED
    BY <2>1 DEF FileStates
<1>1. VerificationTypeOK'
  <2>1. existed' \in BOOLEAN /\ late' \in BOOLEAN
    BY <1>u, <1>w DEF RightTree
  <2> QED
    BY <1>t, <1>f, <1>u, <1>w, <1>x, <2>1 DEF VerificationTypeOK
<1>2. World'
  <2>1. \A g \in Files : Possible(tree'[g], writes')
    <3> SUFFICES ASSUME NEW g \in Files PROVE Possible(tree'[g], writes')
      OBVIOUS
    <3>1. Possible(tree[g], writes) /\ tree[g].stamp \in Nat
      BY <1>t, <1>w DEF World, FileStates
    <3>2. CASE g = f
      BY <3>2, <1>x, <1>f, <1>u DEF Possible
    <3>3. CASE g # f
      BY <3>3, <3>1, <1>x, <1>p
    <3> QED
      BY <3>2, <3>3
  <2> QED
    BY <2>1, <1>u, <1>w DEF World
<1>3. Scanning'
  <2>1. \A k \in DOMAIN collected' : Possible(collected'[k], writes')
    BY <1>t, <1>u, <1>p, <1>q DEF Scanning, VerificationTypeOK
  <2>2. rootBefore # <<>> => rootBefore[1] \in Nat
    BY <1>t DEF VerificationTypeOK
  <2> QED
    BY <2>1, <2>2, <1>t, <1>u, <1>w, <1>s DEF Scanning
<1>4. AbsentKept'
  <2> SUFFICES ASSUME stage \notin InputStages, rootBefore = <<root'>>,
                      NEW k \in DOMAIN collected, collected[k] = Absent
               PROVE  tree'[Twice[k]] = Absent
    BY <1>u, <1>s DEF AbsentKept
  <2>1. rootBefore # <<>> /\ rootBefore[1] = root'
    BY <1>w
  <2>2. root' = root
    BY <2>1, <1>t, <1>w DEF Scanning
  <2>3. tree[Twice[k]] = Absent
    BY <1>t, <2>2 DEF AbsentKept
  <2>4. k \in 1 .. 2 * Len(Scope)
    BY <1>t, NamesType DEF VerificationTypeOK, Scanning
  <2>5. Twice[k] \in Files /\ Twice[k] \in Range(Outside)
    BY TwiceType, <2>4
  <2> QED
    BY <2>2, <2>3, <2>5, <1>f, <1>x, <1>w
<1>5. ReadRight'
  <2> SUFFICES ASSUME stage \in Later PROVE ReadRight'
    BY <1>t, <1>u DEF ReadRight
  <2>1. \A i \in DOMAIN Outside : Possible(outputScan[i], writes')
    <3> SUFFICES ASSUME NEW i \in DOMAIN Outside
                 PROVE  Possible(outputScan[i], writes')
      BY <1>u
    <3>1. Possible(outputScan[i], writes)
      BY <1>t DEF ReadRight
    <3>2. i \in DOMAIN outputScan /\ outputScan \in Seq(FileStates)
      BY <1>t, <1>n DEF ReadRight, VerificationTypeOK
    <3> QED
      BY <3>1, <3>2, <1>p, <1>q
  <2> QED
    BY <1>t, <1>u, <2>1 DEF ReadRight, PolicyAllows
<1>6. Bracketed'
  <2> SUFFICES ASSUME stage \in Later, ~restored', ~existed' PROVE Doomed'
    BY <1>u DEF Bracketed
  <2>1. Doomed
    BY <1>t, <1>f, <1>u, <1>w DEF Bracketed
  <2>2. CASE \E i \in DOMAIN Outside : outputScan[i].look \notin {"good", "absent"}
    BY <2>2, <1>u DEF Doomed
  <2>3. ASSUME NEW i \in DOMAIN Outside, outputScan[i] # Absent,
               OutputSeen(i) # outputScan[i]
        PROVE  Doomed'
    <3>1. outputScan[i].stamp \in Nat /\ outputScan[i].stamp <= writes
      BY <2>3, <1>t, <1>q, <1>n DEF ReadRight, Possible, VerificationTypeOK
    <3>2. new # outputScan[i]
      BY <3>1, <2>3, <1>f, <1>w
    <3>3. OutputSeen(i)' # outputScan[i]
      BY <3>2, <2>3, <1>x, <1>u, <1>n DEF OutputSeen
    <3> QED
      BY <3>3, <2>3, <1>u DEF Doomed
  <2>4. ASSUME NEW i \in DOMAIN Inputs, InputSeen(i) # Baseline[i]
        PROVE  Doomed'
    <3>1. new # Baseline[i]
      BY <1>f, <1>w DEF Baseline, Absent
    <3>2. InputSeen(i)' # Baseline[i]
      BY <3>1, <2>4, <1>x, <1>u, <1>n DEF InputSeen
    <3> QED
      BY <3>2 DEF Doomed, Baseline
  <2> QED
    BY <2>1, <2>2, <2>3, <2>4 DEF Doomed
<1>7. Accurate' /\ Unwritten'
  BY <1>u, <1>w DEF Accurate, Unwritten, Undisturbed, Finals
<1>8. FinalInputScan' /\ Verdicts'
  BY <1>t, <1>u DEF FinalInputScan, Verdicts, VerdictRight
<1> QED
  BY <1>1, <1>2, <1>3, <1>4, <1>5, <1>6, <1>7, <1>8 DEF VInv

(* A scan begins. *)
LEMMA BeginStep == VInv /\ BeginScan => VInv'
<1> SUFFICES ASSUME VInv, BeginScan PROVE VInv'
  OBVIOUS
<1>t. VerificationTypeOK /\ World /\ Scanning /\ AbsentKept /\ ReadRight /\ Bracketed
      /\ Accurate /\ Unwritten /\ FinalInputScan /\ Verdicts
  BY DEF VInv
<1>u. /\ stage \in ScanStages /\ rootBefore = <<>>
      /\ rootBefore' = <<root>> /\ collected' = <<>>
      /\ tree' = tree /\ root' = root /\ writes' = writes /\ restored' = restored
      /\ late' = late /\ existed' = existed /\ stage' = stage
      /\ inputScan' = inputScan /\ outputScan' = outputScan /\ payloads' = payloads
      /\ verdict' = verdict
  BY DEF BeginScan, WorldVars, HistoryVars
<1>s. Scope' = Scope /\ Twice' = Twice /\ Len(Scope) \in Nat
  BY <1>u, NamesType DEF Scope, Twice
<1>c. collected = <<>>
  BY <1>t, <1>u DEF Scanning
<1>1. VerificationTypeOK'
  <2>1. root \in Nat
    BY <1>t DEF VerificationTypeOK
  <2>2. <<root>> \in Seq(Nat) /\ Len(<<root>>) <= 1
    BY <2>1
  <2> QED
    BY <1>t, <1>u, <1>c, <2>2 DEF VerificationTypeOK
<1>2. World' /\ ReadRight'
  BY <1>t, <1>u DEF World, ReadRight, PolicyAllows, RightTree
<1>3. Scanning'
  BY <1>t, <1>u, <1>s DEF Scanning, VerificationTypeOK
<1>4. AbsentKept'
  BY <1>u DEF AbsentKept
<1>5. Bracketed' /\ Accurate'
  BY <1>t, <1>u, <1>c, <1>s
     DEF Bracketed, Accurate, Undisturbed, Doomed, InputSeen, OutputSeen
<1>6. Unwritten' /\ FinalInputScan' /\ Verdicts'
  BY <1>t, <1>u DEF Unwritten, FinalInputScan, Verdicts, VerdictRight, RightTree
<1> QED
  BY <1>1, <1>2, <1>3, <1>4, <1>5, <1>6 DEF VInv

(* One file is scanned. *)
LEMMA EntryStep == VInv /\ ScanEntry => VInv'
<1> SUFFICES ASSUME VInv, ScanEntry PROVE VInv'
  OBVIOUS
<1>t. VerificationTypeOK /\ World /\ Scanning /\ AbsentKept /\ ReadRight /\ Bracketed
      /\ Accurate /\ Unwritten /\ FinalInputScan /\ Verdicts
  BY DEF VInv
<1> DEFINE m == Len(collected)
           f == Twice[m + 1]
<1>u. /\ stage \in ScanStages /\ rootBefore # <<>> /\ m < 2 * Len(Scope)
      /\ collected' = Append(collected, tree[f]) /\ rootBefore' = rootBefore
      /\ tree' = tree /\ root' = root /\ writes' = writes /\ restored' = restored
      /\ late' = late /\ existed' = existed /\ stage' = stage
      /\ inputScan' = inputScan /\ outputScan' = outputScan /\ payloads' = payloads
      /\ verdict' = verdict
  BY DEF ScanEntry, WorldVars, HistoryVars, Twice
<1>s. Scope' = Scope /\ Twice' = Twice /\ Len(Scope) \in Nat
  BY <1>u, NamesType DEF Scope, Twice
<1>f. f \in Files /\ tree[f] \in FileStates /\ Possible(tree[f], writes)
  <2>1. m + 1 \in 1 .. 2 * Len(Scope)
    BY <1>t, <1>u, <1>s DEF VerificationTypeOK
  <2>2. f \in Files
    BY <2>1, TwiceType
  <2> QED
    BY <2>2, <1>t DEF VerificationTypeOK, World
<1> HIDE DEF f
<1>m. m \in Nat /\ Len(collected) = m /\ DOMAIN collected = 1 .. m
  BY <1>t DEF VerificationTypeOK
<1> HIDE DEF m
<1>a. /\ collected' \in Seq(FileStates) /\ Len(collected') = m + 1
      /\ DOMAIN collected' = 1 .. m + 1
      /\ \A k \in 1 .. m + 1 :
           collected'[k] = IF k = m + 1 THEN tree[f] ELSE collected[k]
  BY <1>t, <1>u, <1>f, <1>m, AppendProperties DEF VerificationTypeOK
<1>1. VerificationTypeOK'
  BY <1>t, <1>u, <1>a DEF VerificationTypeOK
<1>2. World' /\ ReadRight'
  BY <1>t, <1>u DEF World, ReadRight, PolicyAllows, RightTree
<1>3. Scanning'
  BY <1>t, <1>u, <1>s, <1>a, <1>m, <1>f DEF Scanning
<1>4. AbsentKept'
  <2>1. f = Twice[m + 1]
    BY DEF f, m
  <2> QED
    BY <1>t, <1>u, <1>s, <1>a, <1>m, <2>1 DEF AbsentKept
<1>5. Accurate'
  <2>1. f = Twice[m + 1]
    BY DEF f, m
  <2> QED
    BY <1>t, <1>u, <1>s, <1>a, <1>m, <2>1 DEF Accurate, Undisturbed
<1>6. Bracketed'
  <2> SUFFICES ASSUME stage \in Later, ~restored, ~existed PROVE Doomed'
    BY <1>u DEF Bracketed
  <2>1. Doomed
    BY <1>t DEF Bracketed
  <2>2. CASE \E i \in DOMAIN Outside : outputScan[i].look \notin {"good", "absent"}
    BY <2>2, <1>u DEF Doomed
  <2>g. f = Twice[m + 1] /\ m + 1 \in 1 .. 2 * Len(Scope)
    BY <1>u, <1>m, <1>s DEF f, m
  <2>3. ASSUME NEW i \in DOMAIN Outside, outputScan[i] # Absent,
               OutputSeen(i) # outputScan[i]
        PROVE  Doomed'
    <3>1. CASE stage = "final_output" /\ i = m + 1
      <4>1. Scope = Outside
        BY <3>1 DEF Scope
      <4>2. f = Outside[i]
        BY <3>1, <4>1, <2>g, <2>3, TwiceType, NamesType
      <4>3. OutputSeen(i) = tree[Outside[i]] /\ OutputSeen(i)' = tree[f]
        BY <3>1, <1>u, <1>m, <1>a DEF OutputSeen
      <4> QED
        BY <4>2, <4>3, <2>3, <1>u DEF Doomed
    <3>2. CASE ~(stage = "final_output" /\ i = m + 1)
      <4>1. OutputSeen(i)' = OutputSeen(i)
        BY <3>2, <2>3, <1>u, <1>m, <1>a, NamesType DEF OutputSeen
      <4> QED
        BY <4>1, <2>3, <1>u DEF Doomed
    <3> QED
      BY <3>1, <3>2
  <2>4. ASSUME NEW i \in DOMAIN Inputs, InputSeen(i) # Baseline[i]
        PROVE  Doomed'
    <3>1. CASE stage = "final_input" /\ i = m + 1
      <4>1. Scope = Inputs
        BY <3>1 DEF Scope
      <4>2. f = Inputs[i]
        BY <3>1, <4>1, <2>g, <2>4, TwiceType, NamesType
      <4>3. InputSeen(i) = tree[Inputs[i]] /\ InputSeen(i)' = tree[f]
        BY <3>1, <1>u, <1>m, <1>a DEF InputSeen
      <4> QED
        BY <4>2, <4>3, <2>4, <1>u DEF Doomed, Baseline
    <3>2. CASE ~(stage = "final_input" /\ i = m + 1)
      <4>1. InputSeen(i)' = InputSeen(i)
        BY <3>2, <2>4, <1>u, <1>m, <1>a, NamesType DEF InputSeen
      <4> QED
        BY <4>1, <2>4, <1>u DEF Doomed, Baseline
    <3> QED
      BY <3>1, <3>2
  <2> QED
    BY <2>1, <2>2, <2>3, <2>4 DEF Doomed
<1>7. Unwritten' /\ FinalInputScan' /\ Verdicts'
  BY <1>t, <1>u DEF Unwritten, FinalInputScan, Verdicts, VerdictRight, RightTree
<1> QED
  BY <1>1, <1>2, <1>3, <1>4, <1>5, <1>6, <1>7 DEF VInv

(* A scan that nobody disturbs sees the tree. *)
LEMMA TrueScan ==
  ASSUME VInv, Scanned, Undisturbed
  PROVE  /\ First = [i \in DOMAIN Scope |-> tree[Scope[i]]]
         /\ Second = First
         /\ writes = 0 => Stable
<1>t. VerificationTypeOK /\ Scanning /\ Accurate /\ Unwritten
  BY DEF VInv
<1>1. /\ Scope \in Seq(Files) /\ Len(Scope) \in Nat /\ DOMAIN Scope = 1 .. Len(Scope)
      /\ DOMAIN collected = 1 .. 2 * Len(Scope)
  BY <1>t, NamesType DEF Scanned, VerificationTypeOK
<1>2. \A k \in 1 .. 2 * Len(Scope) : collected[k] = tree[Twice[k]]
  BY <1>1, <1>t DEF Accurate
<1>3. \A i \in 1 .. Len(Scope) : First[i] = tree[Scope[i]] /\ Second[i] = tree[Scope[i]]
  <2> SUFFICES ASSUME NEW i \in 1 .. Len(Scope)
               PROVE  First[i] = tree[Scope[i]] /\ Second[i] = tree[Scope[i]]
    OBVIOUS
  <2>1. First[i] = collected[i] /\ Second[i] = collected[Len(Scope) + i]
    BY <1>t, FirstIs
  <2>2. i \in 1 .. 2 * Len(Scope) /\ Len(Scope) + i \in 1 .. 2 * Len(Scope)
    BY <1>1
  <2>3. Twice[i] = Scope[i] /\ Twice[Len(Scope) + i] = Scope[i]
    BY <1>1, <2>2, TwiceType
  <2> QED
    BY <1>2, <2>1, <2>2, <2>3
<1>4. First \in Seq(FileStates) /\ Second \in Seq(FileStates)
      /\ Len(First) = Len(Scope) /\ Len(Second) = Len(Scope)
  BY <1>t, FirstIs
<1>5. First = [i \in DOMAIN Scope |-> tree[Scope[i]]]
      /\ Second = [i \in DOMAIN Scope |-> tree[Scope[i]]]
  BY <1>1, <1>3, <1>4
<1>6. writes = 0 => Stable
  BY <1>5, <1>t DEF Unwritten, Stable, Scanned
<1> QED
  BY <1>5, <1>6

(* What holds of the tree and of the next scan when a scan is over. *)
LEMMA OverStep ==
  ASSUME VInv, UNCHANGED WorldVars, rootBefore' = <<>>, collected' = <<>>
  PROVE  World' /\ Scanning' /\ AbsentKept'
<1>t. World
  BY DEF VInv
<1>1. /\ tree' = tree /\ root' = root /\ writes' = writes /\ restored' = restored
      /\ late' = late /\ existed' = existed
  BY DEF WorldVars, HistoryVars
<1>2. World'
  BY <1>t, <1>1 DEF World, RightTree
<1>3. Len(Scope') \in Nat
  BY NamesType DEF Scope
<1>4. Scanning' /\ AbsentKept'
  BY <1>1, <1>3 DEF Scanning, AbsentKept
<1> QED
  BY <1>2, <1>4

(* The first scan of the inputs ends with the baseline. *)
LEMMA RightInputs ==
  ASSUME VerificationTypeOK
  PROVE  RightTree(tree) <=>
           /\ \A i \in DOMAIN Inputs : tree[Inputs[i]] = Baseline[i]
           /\ \A i \in DOMAIN Outside :
                tree[Outside[i]].look = IF Outside[i] \in Declared THEN "good" ELSE "absent"
<1>1. (\A i \in DOMAIN Inputs : tree[Inputs[i]] = Baseline[i])
        <=> [i \in DOMAIN Inputs |-> tree[Inputs[i]]] = Baseline
  BY DEF Baseline
<1> QED
  BY <1>1 DEF RightTree

(* The end of the first scan of the inputs. *)
LEMMA InputsStep == VInv /\ InputsScanned => VInv'
<1> SUFFICES ASSUME VInv, InputsScanned PROVE VInv'
  OBVIOUS
<1>t. VerificationTypeOK /\ World /\ Scanning /\ ReadRight /\ Accurate /\ Unwritten
      /\ Verdicts
  BY DEF VInv
<1>u. /\ stage = "input" /\ Scanned /\ rootBefore' = <<>> /\ collected' = <<>>
      /\ tree' = tree /\ root' = root /\ writes' = writes /\ restored' = restored
      /\ late' = late /\ existed' = existed
      /\ inputScan' = inputScan /\ outputScan' = outputScan /\ payloads' = payloads
  BY DEF InputsScanned, ScanOver, WorldVars, HistoryVars
<1>v. \/ Stable /\ First = Baseline /\ stage' = "output" /\ verdict' = verdict
      \/ (~Stable \/ First # Baseline) /\ stage' = "done"
         /\ verdict' \in {"workspace-scan-failure", "input-baseline-mismatch"}
  BY DEF InputsScanned, Ends, Goes
<1>1. World' /\ Scanning' /\ AbsentKept'
  BY <1>u, OverStep DEF WorldVars, HistoryVars
<1>2. VerificationTypeOK'
  BY <1>t, <1>u, <1>v DEF VerificationTypeOK, Stages, ScanStages, Verdict
<1>3. stage' \in {"output", "done"}
  BY <1>v
<1>4. ReadRight' /\ Bracketed' /\ FinalInputScan'
  BY <1>3, <1>t, <1>u DEF ReadRight, Bracketed, FinalInputScan, Later, Finals
<1>5. Accurate'
  BY <1>3, <1>u DEF Accurate
<1>w. ASSUME writes = 0
      PROVE  /\ Stable
             /\ First = Baseline <=>
                  \A i \in DOMAIN Inputs : tree[Inputs[i]] = Baseline[i]
  <2>1. Scope = Inputs
    BY <1>u DEF Scope
  <2>2. First = [i \in DOMAIN Inputs |-> tree[Inputs[i]]] /\ Stable
    BY <1>w, <1>u, <2>1, TrueScan DEF Undisturbed
  <2> QED
    BY <2>2 DEF Baseline
<1>6. Unwritten'
  <2> SUFFICES ASSUME writes = 0, stage' = "output"
               PROVE  \A i \in DOMAIN Inputs : tree[Inputs[i]] = Baseline[i]
    BY <1>u, <1>3 DEF Unwritten, Later, Finals, Baseline
  <2> QED
    BY <1>v, <1>w
<1>7. Verdicts'
  <2>1. CASE stage' = "output"
    BY <2>1, <1>v, <1>u, <1>t DEF Verdicts, VerdictRight
  <2>2. CASE stage' = "done"
    <3>1. verdict' # "passed"
      BY <2>2, <1>v
    <3>2. writes = 0 => ~RightTree(tree)
      BY <2>2, <1>v, <1>w, <1>t, RightInputs
    <3> QED
      BY <2>2, <3>1, <3>2, <1>u DEF Verdicts, VerdictRight, RightTree
  <2> QED
    BY <2>1, <2>2, <1>3
<1> QED
  BY <1>1, <1>2, <1>4, <1>5, <1>6, <1>7 DEF VInv

(* What was absent when the outputs were scanned is absent at the end of a  *)
(* scan during which the root did not change: that moment is the witness.   *)
LEMMA OutputsStep == VInv /\ OutputsScanned => VInv'
<1> SUFFICES ASSUME VInv, OutputsScanned PROVE VInv'
  OBVIOUS
<1>t. VerificationTypeOK /\ World /\ Scanning /\ AbsentKept /\ ReadRight /\ Accurate
      /\ Unwritten /\ Verdicts
  BY DEF VInv
<1>u. /\ stage = "output" /\ Scanned /\ rootBefore' = <<>> /\ collected' = <<>>
      /\ tree' = tree /\ root' = root /\ writes' = writes /\ restored' = restored
      /\ late' = late /\ existed' = existed
      /\ inputScan' = inputScan /\ payloads' = payloads
  BY DEF OutputsScanned, ScanOver, WorldVars, HistoryVars
<1>v. \/ /\ Stable /\ PolicyAllows(First) /\ outputScan' = First
         /\ stage' = AfterOutput /\ verdict' = verdict
      \/ /\ ~Stable \/ ~PolicyAllows(First)
         /\ outputScan' \in {outputScan, First}
         /\ stage' = "done"
         /\ verdict' \in {"workspace-scan-failure", "output-policy-failure"}
  BY DEF OutputsScanned, Ends, Goes
<1>s. Scope = Outside
  BY <1>u DEF Scope
<1>n. /\ DOMAIN Outside = 1 .. Len(Outside) /\ Len(Outside) \in Nat
      /\ \A i \in DOMAIN Outside : Outside[i] \in Files
  BY NamesType
<1>f. /\ First \in Seq(FileStates) /\ Len(First) = Len(Outside)
      /\ \A i \in DOMAIN Outside : First[i] = collected[i]
  BY <1>t, <1>u, <1>s, <1>n, FirstIs
<1>e. payloads = <<>> /\ Len(payloads) = 0 /\ Len(OracleOutputs) \in Nat
  BY <1>t, <1>u, VerificationAssumption DEF ReadRight
<1>h. AfterOutput # "done"
  BY DEF AfterOutput
<1>g. stage' # "done" => stage' \in {"before", "final_input"} /\
        (stage' = "before" <=> Len(OracleOutputs) # 0)
  BY <1>v, <1>e DEF AfterOutput
<1>d. stage' \in {"before", "final_input", "done"}
  BY <1>v, <1>g
<1>1. World' /\ Scanning' /\ AbsentKept'
  BY <1>u, OverStep DEF WorldVars, HistoryVars
<1>2. VerificationTypeOK'
  <2>1. outputScan' \in Seq(FileStates)
    BY <1>v, <1>f, <1>t DEF VerificationTypeOK
  <2> QED
    BY <2>1, <1>t, <1>u, <1>v, <1>d DEF VerificationTypeOK, Stages, ScanStages, Verdict
<1>3. FinalInputScan' /\ Accurate'
  BY <1>d, <1>u DEF FinalInputScan, Accurate
<1>p. \A i \in DOMAIN Outside :
        i \in DOMAIN collected /\ collected[i] \in FileStates
        /\ Possible(collected[i], writes)
  BY <1>t, <1>n, <1>s, <1>u DEF Scanning, VerificationTypeOK, Scanned
<1>4. ReadRight'
  <2> SUFFICES ASSUME stage' # "done" PROVE ReadRight'
    BY <1>d DEF ReadRight, Later, Finals
  <2>1. outputScan' = First /\ PolicyAllows(First)
    BY <1>v
  <2>2. \A i \in DOMAIN Outside : Possible(outputScan'[i], writes')
    BY <2>1, <1>f, <1>p, <1>u
  <2>3. PolicyAllows(outputScan)'
    BY <2>1 DEF PolicyAllows
  <2> QED
    BY <2>1, <2>2, <2>3, <1>f, <1>e, <1>g, <1>d, <1>u DEF ReadRight, Later, Finals
<1>5. Bracketed'
  <2> SUFFICES ASSUME stage' # "done", ~Doomed' PROVE existed
    BY <1>u, <1>d DEF Bracketed, Later, Finals
  <2>1. outputScan' = First /\ PolicyAllows(First) /\ Stable
    BY <1>v
  <2>2. \A i \in DOMAIN Inputs : tree[Inputs[i]] = Baseline[i]
    <3> SUFFICES ASSUME NEW i \in DOMAIN Inputs PROVE tree[Inputs[i]] = Baseline[i]
      OBVIOUS
    <3>1. InputSeen(i)' = Baseline'[i]
      BY DEF Doomed
    <3>2. Baseline' = Baseline
      BY DEF Baseline
    <3>3. ~(i <= Len(collected'))
      BY <1>u, NamesType
    <3> QED
      BY <3>1, <3>2, <3>3, <1>d, <1>u DEF InputSeen
  <2>3. ASSUME NEW i \in DOMAIN Outside
        PROVE  tree[Outside[i]].look = IF Outside[i] \in Declared THEN "good" ELSE "absent"
    <3>1. First[i] = collected[i] /\ i \in DOMAIN collected
          /\ Possible(collected[i], writes)
      BY <1>f, <1>p
    <3>2. CASE First[i] = Absent
      <4>1. rootBefore = <<root>>
        BY <2>1 DEF Stable
      <4>2. tree[Twice[i]] = Absent
        BY <3>1, <3>2, <4>1, <1>t, <1>u DEF AbsentKept, InputStages
      <4>3. Twice[i] = Outside[i]
        BY <1>s, <1>n, TwiceType
      <4>4. Outside[i] \notin Declared
        BY <3>2, <2>1 DEF PolicyAllows
      <4> QED
        BY <4>2, <4>3, <4>4, AbsentType
    <3>3. CASE First[i] # Absent
      <4>1. Outside[i] \in Declared
        BY <3>3, <2>1 DEF PolicyAllows
      <4>2. First[i].look \in {"good", "absent"}
        BY <2>1 DEF Doomed
      <4>3. First[i].look = "good"
        BY <4>2, <3>3, <3>1 DEF Possible
      <4>4. OutputSeen(i)' = tree[Outside[i]]
        BY <1>d, <1>u DEF OutputSeen
      <4>5. OutputSeen(i)' = First[i]
        <5>1. outputScan'[i] = First[i] /\ Absent' = Absent
          BY <2>1 DEF Absent
        <5> QED
          BY <5>1, <3>3 DEF Doomed
      <4> QED
        BY <4>1, <4>3, <4>4, <4>5
    <3> QED
      BY <3>2, <3>3
  <2> QED
    BY <2>2, <2>3, <1>t, RightInputs DEF World
<1>w. ASSUME writes = 0
      PROVE  Stable /\ \A i \in DOMAIN Outside : First[i] = tree[Outside[i]]
  BY <1>w, <1>u, <1>s, TrueScan DEF Undisturbed
<1>6. Unwritten'
  BY <1>t, <1>u, <1>v, <1>w, <1>d DEF Unwritten, Later, Finals, Baseline
<1>7. Verdicts'
  <2>1. CASE stage' # "done"
    BY <2>1, <1>v, <1>u, <1>t DEF Verdicts, VerdictRight
  <2>2. CASE stage' = "done"
    <3>1. verdict' # "passed"
      BY <2>2, <1>v, <1>h
    <3>2. ASSUME writes = 0, RightTree(tree) PROVE FALSE
      <4>1. ~PolicyAllows(First)
        BY <2>2, <1>v, <1>w, <3>2, <1>h
      <4>2. PICK i \in DOMAIN Outside : ~((First[i] # Absent) <=> (Outside[i] \in Declared))
        BY <4>1 DEF PolicyAllows
      <4>3. First[i] = tree[Outside[i]] /\ Possible(tree[Outside[i]], writes)
        BY <3>2, <1>w, <1>t, <1>n DEF World
      <4>4. tree[Outside[i]].look = IF Outside[i] \in Declared THEN "good" ELSE "absent"
        BY <3>2, <1>t, RightInputs
      <4> QED
        BY <4>2, <4>3, <4>4, AbsentType DEF Possible
    <3> QED
      BY <2>2, <3>1, <3>2, <1>u DEF Verdicts, VerdictRight, RightTree
  <2> QED
    BY <2>1, <2>2
<1> QED
  BY <1>1, <1>2, <1>3, <1>4, <1>5, <1>6, <1>7 DEF VInv

(* The scans before and after the bytes of an output. *)
LEMMA CurrentStep == VInv /\ ScanIsCurrent => VInv'
<1> SUFFICES ASSUME VInv, ScanIsCurrent PROVE VInv'
  OBVIOUS
<1>t. VerificationTypeOK /\ World /\ Scanning /\ ReadRight /\ Bracketed /\ Accurate
      /\ Unwritten /\ Verdicts
  BY DEF VInv
<1>u. /\ stage \in {"before", "after"} /\ Scanned /\ rootBefore' = <<>> /\ collected' = <<>>
      /\ tree' = tree /\ root' = root /\ writes' = writes /\ restored' = restored
      /\ late' = late /\ existed' = existed
      /\ inputScan' = inputScan /\ outputScan' = outputScan /\ payloads' = payloads
  BY DEF ScanIsCurrent, ScanOver, WorldVars, HistoryVars
<1>v. \/ /\ verdict' = verdict
         /\ stage' = IF stage = "before" THEN "bytes" ELSE AfterOutput
      \/ /\ ~Stable \/ First # outputScan
         /\ stage' = "done" /\ verdict' = "output-read-failure"
  BY DEF ScanIsCurrent, Ends, Goes
<1>h. AfterOutput \in {"before", "final_input"}
      /\ (AfterOutput = "before" <=> Len(payloads) < Len(OracleOutputs))
  BY DEF AfterOutput
<1>d. stage' \in {"bytes", "before", "final_input", "done"}
  BY <1>v, <1>h
<1>n. /\ DOMAIN Outside = 1 .. Len(Outside) /\ Len(Outside) \in Nat
      /\ DOMAIN Inputs = 1 .. Len(Inputs) /\ Len(Inputs) \in Nat
  BY NamesType
<1>1. World' /\ Scanning' /\ AbsentKept'
  BY <1>u, OverStep DEF WorldVars, HistoryVars
<1>2. VerificationTypeOK'
  BY <1>t, <1>u, <1>v, <1>d DEF VerificationTypeOK, Stages, ScanStages, Verdict
<1>3. FinalInputScan' /\ Accurate'
  BY <1>d, <1>u DEF FinalInputScan, Accurate
<1>4. ReadRight'
  <2>1. Len(payloads) \in Nat /\ Len(OracleOutputs) \in Nat
    BY <1>t, VerificationAssumption DEF VerificationTypeOK
  <2>2. stage \in Later
    BY <1>u DEF Later
  <2> QED
    BY <2>1, <2>2, <1>t, <1>u, <1>v, <1>h, <1>d DEF ReadRight, PolicyAllows, Later, Finals
<1>5. Bracketed'
  <2> SUFFICES ASSUME stage' \in Later, Doomed PROVE Doomed'
    BY <1>t, <1>u DEF Bracketed, Later
  <2>1. stage \notin Finals /\ stage' # "final_output"
    BY <1>u, <1>d DEF Finals
  <2>2. /\ \A i \in DOMAIN Outside : OutputSeen(i)' = OutputSeen(i)
        /\ \A i \in DOMAIN Inputs : InputSeen(i)' = InputSeen(i)
    BY <2>1, <1>u, <1>n DEF OutputSeen, InputSeen, Finals
  <2> QED
    BY <2>2, <1>u DEF Doomed, Baseline, Absent
<1>w. ASSUME writes = 0 PROVE Stable /\ First = outputScan
  <2>1. Scope = Outside
    BY <1>u DEF Scope
  <2>2. Stable /\ First = [i \in DOMAIN Outside |-> tree[Outside[i]]]
    BY <2>1, <1>w, <1>u, TrueScan DEF Undisturbed
  <2>3. /\ outputScan \in Seq(FileStates) /\ Len(outputScan) = Len(Outside)
        /\ \A i \in DOMAIN Outside : outputScan[i] = tree[Outside[i]]
    BY <1>t, <1>u, <1>w DEF VerificationTypeOK, ReadRight, Unwritten, Later
  <2>4. outputScan = [i \in DOMAIN Outside |-> tree[Outside[i]]]
    BY <2>3, <1>n
  <2> QED
    BY <2>2, <2>4
<1>6. Unwritten'
  BY <1>t, <1>u, <1>d DEF Unwritten, Later, Finals, Baseline
<1>7. Verdicts'
  BY <1>v, <1>h, <1>u, <1>t, <1>w DEF Verdicts, VerdictRight
<1> QED
  BY <1>1, <1>2, <1>3, <1>4, <1>5, <1>6, <1>7 DEF VInv

(* The entry of a declared output in the first scan of the outputs. *)
LEMMA EntryIs ==
  ASSUME NEW i \in DOMAIN Outside
  PROVE  EntryOf(Outside[i]) = outputScan[i]
  BY VerificationAssumption DEF EntryOf, IsInjective

(* The bytes that are released are those of the output scan. *)
LEMMA BytesStep == VInv /\ ReadBytes => VInv'
<1> SUFFICES ASSUME VInv, ReadBytes PROVE VInv'
  OBVIOUS
<1>t. VerificationTypeOK /\ World /\ Scanning /\ ReadRight /\ Bracketed /\ Accurate
      /\ Unwritten /\ Verdicts
  BY DEF VInv
<1>u. /\ stage = "bytes"
      /\ tree' = tree /\ root' = root /\ writes' = writes /\ restored' = restored
      /\ late' = late /\ existed' = existed /\ rootBefore' = rootBefore
      /\ collected' = collected /\ inputScan' = inputScan /\ outputScan' = outputScan
  BY DEF ReadBytes, WorldVars, HistoryVars
<1>v. \/ /\ tree[NextOutput] # EntryOf(NextOutput) /\ payloads' = payloads
         /\ stage' = "done" /\ verdict' = "output-read-failure"
      \/ /\ tree[NextOutput] = EntryOf(NextOutput)
         /\ payloads' = Append(payloads, tree[NextOutput].look)
         /\ stage' = "after" /\ verdict' = verdict
  BY DEF ReadBytes, Ends, Goes
<1>n. /\ DOMAIN Outside = 1 .. Len(Outside) /\ Len(Outside) \in Nat
      /\ DOMAIN Inputs = 1 .. Len(Inputs) /\ Len(Inputs) \in Nat
  BY NamesType
<1>c. rootBefore = <<>> /\ collected = <<>>
  BY <1>t, <1>u DEF Scanning, ScanStages
<1>o. PICK o \in DOMAIN Outside : NextOutput = Outside[o]
  <2>1. Len(payloads) + 1 \in 1 .. Len(OracleOutputs)
    BY <1>t, <1>u, VerificationAssumption DEF VerificationTypeOK, ReadRight, Later
  <2>2. NextOutput \in Range(Outside)
    BY <2>1, VerificationAssumption DEF NextOutput
  <2> QED
    BY <2>2 DEF Range
<1>e. EntryOf(NextOutput) = outputScan[o] /\ NextOutput \in Files
  BY <1>o, EntryIs, NamesType
<1>k. tree[NextOutput].look \in Looks
  BY <1>e, <1>t DEF VerificationTypeOK, FileStates
<1>1. World' /\ Scanning' /\ AbsentKept'
  BY <1>u, <1>c, OverStep DEF WorldVars, HistoryVars
<1>2. VerificationTypeOK'
  <2>1. payloads' \in Seq(Looks)
    <3>1. payloads \in Seq(Looks)
      BY <1>t DEF VerificationTypeOK
    <3>2. Append(payloads, tree[NextOutput].look) \in Seq(Looks)
      BY <3>1, <1>k, AppendProperties
    <3> QED
      BY <3>1, <3>2, <1>v
  <2> QED
    BY <2>1, <1>t, <1>u, <1>v DEF VerificationTypeOK, Stages, ScanStages, Verdict
<1>3. FinalInputScan' /\ Accurate'
  BY <1>v, <1>u, <1>c DEF FinalInputScan, Accurate
<1>4. ReadRight'
  <2> SUFFICES ASSUME stage' = "after" PROVE ReadRight'
    BY <1>v DEF ReadRight, Later, Finals
  <2>1. /\ Len(outputScan) = Len(Outside) /\ PolicyAllows(outputScan)
        /\ \A i \in DOMAIN Outside : Possible(outputScan[i], writes)
        /\ Len(payloads) < Len(OracleOutputs)
        /\ \A j \in DOMAIN payloads : \A i \in DOMAIN Outside :
             Outside[i] = OracleOutputs[j] => payloads[j] = outputScan[i].look
    BY <1>t, <1>u DEF ReadRight, Later
  <2>2. /\ payloads \in Seq(Looks) /\ Len(payloads) \in Nat /\ Len(OracleOutputs) \in Nat
        /\ DOMAIN payloads = 1 .. Len(payloads)
    BY <1>t, VerificationAssumption DEF VerificationTypeOK
  <2>3. payloads' = Append(payloads, tree[NextOutput].look)
        /\ tree[NextOutput] = outputScan[o]
    BY <1>v, <1>e
  <2>4. /\ Len(payloads') = Len(payloads) + 1 /\ DOMAIN payloads' = 1 .. Len(payloads) + 1
        /\ \A j \in 1 .. Len(payloads) + 1 :
             payloads'[j] = IF j = Len(payloads) + 1 THEN outputScan[o].look
                            ELSE payloads[j]
    BY <2>2, <2>3, <1>k, AppendProperties
  <2>5. \A i \in DOMAIN Outside :
          Outside[i] = OracleOutputs[Len(payloads) + 1] => i = o
    BY <1>o, VerificationAssumption DEF NextOutput, IsInjective
  <2>6. \A j \in DOMAIN payloads' : \A i \in DOMAIN Outside :
          Outside[i] = OracleOutputs[j] => payloads'[j] = outputScan[i].look
    BY <2>1, <2>2, <2>4, <2>5
  <2> QED
    BY <2>1, <2>2, <2>4, <2>6, <1>u, <1>v DEF ReadRight, PolicyAllows, Later, Finals
<1>5. Bracketed'
  <2> SUFFICES ASSUME stage' \in Later, Doomed PROVE Doomed'
    BY <1>t, <1>u DEF Bracketed, Later
  <2>2. /\ \A i \in DOMAIN Outside : OutputSeen(i)' = OutputSeen(i)
        /\ \A i \in DOMAIN Inputs : InputSeen(i)' = InputSeen(i)
    BY <1>v, <1>u DEF OutputSeen, InputSeen
  <2> QED
    BY <2>2, <1>u DEF Doomed, Baseline, Absent
<1>6. Unwritten'
  BY <1>t, <1>u, <1>v DEF Unwritten, Later, Finals, Baseline
<1>w. writes = 0 => tree[NextOutput] = EntryOf(NextOutput)
  BY <1>t, <1>u, <1>o, <1>e DEF Unwritten, Later
<1>7. Verdicts'
  BY <1>v, <1>u, <1>t, <1>w DEF Verdicts, VerdictRight
<1> QED
  BY <1>1, <1>2, <1>3, <1>4, <1>5, <1>6, <1>7 DEF VInv

(* The end of the final scan of the inputs. *)
LEMMA FinalInputsStep == VInv /\ FinalInputs => VInv'
<1> SUFFICES ASSUME VInv, FinalInputs PROVE VInv'
  OBVIOUS
<1>t. VerificationTypeOK /\ World /\ Scanning /\ ReadRight /\ Bracketed /\ Accurate
      /\ Unwritten /\ Verdicts
  BY DEF VInv
<1>u. /\ stage = "final_input" /\ Scanned /\ rootBefore' = <<>> /\ collected' = <<>>
      /\ tree' = tree /\ root' = root /\ writes' = writes /\ restored' = restored
      /\ late' = late /\ existed' = existed
      /\ outputScan' = outputScan /\ payloads' = payloads
  BY DEF FinalInputs, ScanOver, WorldVars, HistoryVars
<1>v. \/ /\ inputScan' = First /\ stage' = "final_output" /\ verdict' = verdict
      \/ /\ ~Stable /\ inputScan' = inputScan
         /\ stage' = "done" /\ verdict' = "workspace-scan-failure"
  BY DEF FinalInputs, Ends, Goes
<1>n. /\ DOMAIN Outside = 1 .. Len(Outside) /\ Len(Outside) \in Nat
      /\ DOMAIN Inputs = 1 .. Len(Inputs) /\ Len(Inputs) \in Nat
  BY NamesType
<1>s. Scope = Inputs
  BY <1>u DEF Scope
<1>f. /\ First \in Seq(FileStates) /\ Len(First) = Len(Inputs)
      /\ \A i \in DOMAIN Inputs : First[i] = collected[i]
  BY <1>t, <1>u, <1>s, <1>n, FirstIs
<1>1. World' /\ Scanning' /\ AbsentKept'
  BY <1>u, OverStep DEF WorldVars, HistoryVars
<1>2. VerificationTypeOK'
  BY <1>t, <1>u, <1>v, <1>f DEF VerificationTypeOK, Stages, ScanStages, Verdict
<1>3. FinalInputScan'
  BY <1>v, <1>f DEF FinalInputScan
<1>4. ReadRight'
  BY <1>t, <1>u, <1>v DEF ReadRight, PolicyAllows, Later, Finals
<1>w. ASSUME Undisturbed
      PROVE  /\ \A i \in DOMAIN Inputs : First[i] = tree[Inputs[i]]
             /\ writes = 0 => Stable
  BY <1>w, <1>u, <1>s, TrueScan
<1>5. Accurate'
  <2>1. Undisturbed' => Undisturbed
    BY <1>u DEF Undisturbed, Finals
  <2> QED
    BY <2>1, <1>u, <1>v, <1>w DEF Accurate
<1>6. Bracketed'
  <2> SUFFICES ASSUME stage' \in Later, Doomed PROVE Doomed'
    BY <1>t, <1>u DEF Bracketed, Later, Finals
  <2>1. stage' = "final_output" /\ inputScan' = First
    BY <1>v DEF Later, Finals
  <2>2. Len(collected) = 2 * Len(Inputs)
    BY <1>u, <1>s DEF Scanned
  <2>3. \A i \in DOMAIN Outside : OutputSeen(i)' = OutputSeen(i)
    BY <2>1, <1>u, <1>n DEF OutputSeen
  <2>4. \A i \in DOMAIN Inputs : InputSeen(i)' = InputSeen(i)
    BY <2>1, <2>2, <1>u, <1>n, <1>f DEF InputSeen
  <2> QED
    BY <2>3, <2>4, <1>u DEF Doomed, Baseline, Absent
<1>7. Unwritten'
  BY <1>t, <1>u, <1>v DEF Unwritten, Later, Finals, Baseline
<1>8. Verdicts'
  BY <1>v, <1>u, <1>t, <1>w DEF Verdicts, VerdictRight, Undisturbed
<1> QED
  BY <1>1, <1>2, <1>3, <1>4, <1>5, <1>6, <1>7, <1>8 DEF VInv

(* A declared output is judged by what the first scan saw of it. *)
LEMMA Judged ==
  ASSUME VInv, stage = "final_output"
  PROVE  Judgement = "passed" <=>
           \A i \in DOMAIN Outside : Outside[i] \in Declared => outputScan[i].look = "good"
<1>t. VerificationTypeOK /\ ReadRight
  BY DEF VInv
<1>1. /\ Len(outputScan) = Len(Outside) /\ PolicyAllows(outputScan)
      /\ \A i \in DOMAIN Outside : Possible(outputScan[i], writes)
      /\ Len(payloads) = Len(OracleOutputs)
      /\ \A j \in DOMAIN payloads : \A i \in DOMAIN Outside :
           Outside[i] = OracleOutputs[j] => payloads[j] = outputScan[i].look
  BY <1>t DEF ReadRight, Later, Finals
<1>2. payloads \in Seq(Looks) /\ DOMAIN payloads = DOMAIN OracleOutputs
  BY <1>1, <1>t, VerificationAssumption DEF VerificationTypeOK
<1>3. Judgement = "passed" <=>
        \A j \in DOMAIN payloads : payloads[j] \notin {"bad_mode", "malformed", "wrong"}
  BY DEF Judgement
<1>4. ASSUME NEW j \in DOMAIN payloads
      PROVE  payloads[j] \in Looks /\ payloads[j] # "absent"
  <2>1. PICK i \in DOMAIN Outside : Outside[i] = OracleOutputs[j]
    BY <1>2, VerificationAssumption DEF Range
  <2>2. outputScan[i] # Absent
    BY <1>1, <1>2, <2>1 DEF PolicyAllows, Declared, Range
  <2> QED
    BY <1>1, <1>2, <2>1, <2>2 DEF Possible
<1>5. Judgement = "passed" <=> \A j \in DOMAIN payloads : payloads[j] = "good"
  BY <1>3, <1>4 DEF Looks
<1>6. (\A j \in DOMAIN payloads : payloads[j] = "good") <=>
        \A i \in DOMAIN Outside : Outside[i] \in Declared => outputScan[i].look = "good"
  <2>1. ASSUME \A j \in DOMAIN payloads : payloads[j] = "good",
               NEW i \in DOMAIN Outside, Outside[i] \in Declared
        PROVE  outputScan[i].look = "good"
    BY <2>1, <1>1, <1>2 DEF Declared, Range
  <2>2. ASSUME \A i \in DOMAIN Outside :
                  Outside[i] \in Declared => outputScan[i].look = "good",
               NEW j \in DOMAIN payloads
        PROVE  payloads[j] = "good"
    <3>1. PICK i \in DOMAIN Outside : Outside[i] = OracleOutputs[j]
      BY <1>2, VerificationAssumption DEF Range
    <3>2. Outside[i] \in Declared
      BY <3>1, <1>2 DEF Declared, Range
    <3> QED
      BY <2>2, <3>1, <3>2, <1>1
  <2> QED
    BY <2>1, <2>2
<1> QED
  BY <1>5, <1>6

(* The verdict: whoever passes was not doomed. *)
LEMMA FinalStep == VInv /\ FinalOutputs => VInv'
<1> SUFFICES ASSUME VInv, FinalOutputs PROVE VInv'
  OBVIOUS
<1>t. VerificationTypeOK /\ World /\ Scanning /\ ReadRight /\ Bracketed /\ Accurate
      /\ Unwritten /\ FinalInputScan /\ Verdicts
  BY DEF VInv
<1>u. /\ stage = "final_output" /\ Scanned /\ rootBefore' = <<>> /\ collected' = <<>>
      /\ tree' = tree /\ root' = root /\ writes' = writes /\ restored' = restored
      /\ late' = late /\ existed' = existed /\ stage' = "done"
      /\ inputScan' = inputScan /\ outputScan' = outputScan /\ payloads' = payloads
  BY DEF FinalOutputs, ScanOver, Ends, WorldVars, HistoryVars
<1>v. verdict' = IF ~Stable THEN "workspace-scan-failure"
                 ELSE IF inputScan # Baseline THEN "input-baseline-mismatch"
                 ELSE IF First # outputScan THEN "output-read-failure"
                 ELSE Judgement
  BY DEF FinalOutputs, Ends
<1>j. Judgement \in {"oracle-mode-mismatch", "malformed-semantic-output",
                     "semantic-mismatch", "passed"}
  BY DEF Judgement
<1>p. verdict' = "passed" <=>
        Stable /\ inputScan = Baseline /\ First = outputScan /\ Judgement = "passed"
  BY <1>v, <1>j
<1>n. /\ DOMAIN Outside = 1 .. Len(Outside) /\ Len(Outside) \in Nat
      /\ DOMAIN Inputs = 1 .. Len(Inputs) /\ Len(Inputs) \in Nat
      /\ \A i \in DOMAIN Outside : Outside[i] \in Files
  BY NamesType
<1>s. Scope = Outside
  BY <1>u DEF Scope
<1>f. /\ First \in Seq(FileStates) /\ Len(First) = Len(Outside)
      /\ \A i \in DOMAIN Outside : First[i] = collected[i]
  BY <1>t, <1>u, <1>s, <1>n, FirstIs
<1>r. /\ Len(outputScan) = Len(Outside) /\ PolicyAllows(outputScan)
      /\ \A i \in DOMAIN Outside : Possible(outputScan[i], writes)
      /\ outputScan \in Seq(FileStates) /\ inputScan \in Seq(FileStates)
      /\ Len(inputScan) = Len(Inputs)
  BY <1>t, <1>u DEF ReadRight, Later, FinalInputScan, VerificationTypeOK, Finals
<1>1. World' /\ Scanning' /\ AbsentKept'
  BY <1>u, OverStep DEF WorldVars, HistoryVars
<1>2. VerificationTypeOK'
  <2>1. verdict' \in Verdict
    BY <1>v, <1>j DEF Verdict
  <2> QED
    BY <2>1, <1>t, <1>u DEF VerificationTypeOK, Stages
<1>3. ReadRight' /\ Bracketed' /\ FinalInputScan'
  BY <1>u DEF ReadRight, Bracketed, FinalInputScan, Later, Finals
<1>4. Accurate'
  BY <1>u DEF Accurate
<1>5. Unwritten'
  BY <1>u DEF Unwritten, Later, Finals
<1>g. Judgement = "passed" <=>
        \A i \in DOMAIN Outside : Outside[i] \in Declared => outputScan[i].look = "good"
  BY <1>u, Judged
(* Some moment was right. *)
<1>6. verdict' = "passed" /\ ~restored => existed
  <2> SUFFICES ASSUME verdict' = "passed", ~restored, ~existed PROVE FALSE
    OBVIOUS
  <2>1. Doomed
    BY <1>t, <1>u DEF Bracketed, Later, Finals
  <2>2. inputScan = Baseline /\ First = outputScan
        /\ \A i \in DOMAIN Outside : Outside[i] \in Declared => outputScan[i].look = "good"
    BY <1>p, <1>g
  <2>3. ASSUME NEW i \in DOMAIN Outside PROVE outputScan[i].look \in {"good", "absent"}
    BY <2>2, <1>r, AbsentType DEF PolicyAllows
  <2>4. ASSUME NEW i \in DOMAIN Outside PROVE OutputSeen(i) = outputScan[i]
    <3>1. i <= Len(collected)
      BY <1>u, <1>s, <1>n DEF Scanned
    <3> QED
      BY <3>1, <2>2, <1>f, <1>u DEF OutputSeen
  <2>5. ASSUME NEW i \in DOMAIN Inputs PROVE InputSeen(i) = Baseline[i]
    BY <2>2, <1>u DEF InputSeen
  <2> QED
    BY <2>1, <2>3, <2>4, <2>5 DEF Doomed
(* An undisturbed verdict speaks of the tree. *)
<1>7. ASSUME Undisturbed
      PROVE  (Stable /\ inputScan = Baseline /\ First = outputScan
                /\ Judgement = "passed")
               => RightTree(tree)
  <2> SUFFICES ASSUME inputScan = Baseline, First = outputScan, Judgement = "passed"
               PROVE  RightTree(tree)
    OBVIOUS
  <2>1. \A i \in DOMAIN Inputs : tree[Inputs[i]] = Baseline[i]
    BY <1>7, <1>t, <1>u DEF Accurate
  <2>2. \A i \in DOMAIN Outside : outputScan[i] = tree[Outside[i]]
    BY <1>7, <1>u, <1>s, TrueScan
  <2>3. \A i \in DOMAIN Outside :
          tree[Outside[i]].look = IF Outside[i] \in Declared THEN "good" ELSE "absent"
    BY <2>2, <1>g, <1>r, AbsentType DEF PolicyAllows
  <2> QED
    BY <2>1, <2>3, <1>t, RightInputs
<1>8. verdict' = "passed" /\ ~late => RightTree(tree)
  BY <1>7, <1>p, <1>u DEF Undisturbed, Finals
<1>9. ASSUME writes = 0, RightTree(tree) PROVE verdict' = "passed"
  <2>1. /\ \A i \in DOMAIN Inputs : tree[Inputs[i]] = Baseline[i]
        /\ \A i \in DOMAIN Outside :
             tree[Outside[i]].look = IF Outside[i] \in Declared THEN "good" ELSE "absent"
    BY <1>9, <1>t, RightInputs
  <2>2. Stable /\ First = [i \in DOMAIN Outside |-> tree[Outside[i]]]
    BY <1>9, <1>u, <1>s, TrueScan DEF Undisturbed
  <2>3. \A i \in DOMAIN Outside : outputScan[i] = tree[Outside[i]]
    BY <1>9, <1>t, <1>u DEF Unwritten, Later, Finals
  <2>4. outputScan = First
    BY <2>2, <2>3, <1>r, <1>n
  <2>5. \A i \in DOMAIN Inputs : inputScan[i] = Baseline[i]
    BY <2>1, <1>9, <1>t, <1>u DEF Accurate, Undisturbed
  <2>6. inputScan = Baseline
    BY <2>5, <1>r, <1>n DEF Baseline
  <2>7. Judgement = "passed"
    BY <2>1, <2>3, <1>g
  <2> QED
    BY <2>2, <2>4, <2>6, <2>7, <1>p
<1>10. writes = 0 => (verdict' = "passed" <=> RightTree(tree))
  BY <1>7, <1>9, <1>p DEF Undisturbed
<1>11. Verdicts'
  <2>1. RightTree(tree)' <=> RightTree(tree)
    BY <1>u DEF RightTree
  <2> QED
    BY <2>1, <1>6, <1>8, <1>10, <1>u DEF Verdicts, VerdictRight
<1> QED
  BY <1>1, <1>2, <1>3, <1>4, <1>5, <1>11 DEF VInv

(* A step that changes nothing. *)
LEMMA StutterStep == VInv /\ UNCHANGED verificationVars => VInv'
<1> SUFFICES ASSUME VInv, UNCHANGED verificationVars PROVE VInv'
  OBVIOUS
<1>1. /\ tree' = tree /\ root' = root /\ writes' = writes /\ restored' = restored
      /\ late' = late /\ existed' = existed /\ stage' = stage /\ rootBefore' = rootBefore
      /\ collected' = collected /\ inputScan' = inputScan /\ outputScan' = outputScan
      /\ payloads' = payloads /\ verdict' = verdict
  BY DEF verificationVars
<1>2. VerificationTypeOK' /\ World' /\ Scanning' /\ ReadRight' /\ FinalInputScan'
  BY <1>1 DEF VInv, VerificationTypeOK, World, Scanning, ReadRight, FinalInputScan,
              RightTree, PolicyAllows, Scope
<1>3. AbsentKept' /\ Accurate' /\ Unwritten'
  BY <1>1 DEF VInv, AbsentKept, Accurate, Unwritten, Undisturbed, Twice, Scope
<1>4. Bracketed' /\ Verdicts'
  BY <1>1 DEF VInv, Bracketed, Doomed, InputSeen, OutputSeen, Verdicts, VerdictRight,
              RightTree
<1> QED
  BY <1>2, <1>3, <1>4 DEF VInv

(* A workspace that passes was right at some moment if no writer set a   *)
(* time back, is right if the final scans were left alone, and passes if *)
(* it is right and nobody writes: what verify_executable_fixture         *)
(* promises, for every fixture and any number of writes.                 *)
THEOREM VerdictRightCorrect == VerificationSpec => []VerdictRight
<1>1. VInv /\ [VerificationNext]_verificationVars => VInv'
  BY WriteStep, BeginStep, EntryStep, InputsStep, OutputsStep, CurrentStep, BytesStep,
     FinalInputsStep, FinalStep, StutterStep DEF VerificationNext
<1>2. VInv => VerdictRight
  BY DEF VInv, Verdicts
<1> QED
  BY InitInv, <1>1, <1>2, PTL DEF VerificationSpec

(***************************************************************************)
(* FdSnapshot: SnapshotRight.                                              *)
(***************************************************************************)
(* The stages of the capture before there is an object. *)
Unsettled == {"scan", "create", "copy", "check", "seal", "rescan"}

(* Where the capture can be. *)
Captures == Unsettled \cup {"verify", "cleanup", "ready", "failed"}

(* What a user can be doing. *)
Acts == {"idle", "reopen", "compare", "using", "done"}

(* The types of the variables that the proof needs. *)
FdTypeOK ==
  /\ source \in [Slots -> {"right", "wrong"}]
  /\ payload \in [Slots -> {"empty", "right", "wrong"}]
  /\ sealed \in [Slots -> BOOLEAN]
  /\ table \in [Numbers -> {Nothing} \cup Slots \cup Tenants]
  /\ capture \in Captures /\ slot \in Slots
  /\ memfd \in {Nothing} \cup Numbers
  /\ captured \in Seq(Numbers) /\ owned \in Seq(Numbers)
  /\ closed \in BOOLEAN
  /\ act \in [Users -> Acts]
  /\ mine \in [Users -> Seq(Numbers)]
  /\ held \in [Tenants -> {Nothing} \cup Numbers]

(* What the capture has opened, in order. *)
CaptureInv ==
  /\ Len(captured) <= SlotCount
  /\ \A i \in DOMAIN captured : table[captured[i]] = i
  /\ memfd # Nothing => table[memfd] = Len(captured) + 1 /\ Len(captured) < SlotCount
  /\ capture = "scan" => slot = 1
  /\ capture \in {"scan", "create"} => Len(captured) = slot - 1 /\ memfd = Nothing
  /\ capture \in {"copy", "check", "seal"} => Len(captured) = slot - 1 /\ memfd # Nothing
  /\ capture \in {"rescan", "verify"} => Len(captured) = SlotCount /\ memfd = Nothing
  /\ capture \in {"ready", "failed"} => captured = <<>> /\ memfd = Nothing

(* What the object owns: nothing, then what was captured.  If its           *)
(* verification fails it goes on naming what the capture has closed.       *)
ObjectInv ==
  /\ capture \in Unsettled => owned = <<>>
  /\ capture = "verify" =>
       owned = captured /\ \A s \in 1 .. (slot - 1) : Authentic(owned[s])
  /\ capture = "ready" => 
       \A i \in DOMAIN owned : table[owned[i]] = i /\ Authentic(owned[i])
  /\ closed => capture \in {"ready", "failed"}

(* A number occurs in a sequence. *)
In(n, s) == \E i \in DOMAIN s : s[i] = n

(* What the users have to close. *)
UsersInv ==
  /\ capture # "ready" => \A u \in Users : act[u] = "idle"
  /\ \A u \in Users :
       /\ act[u] \notin {"compare", "using"} => mine[u] = <<>>
       /\ act[u] = "compare" => Len(mine[u]) = 1
       /\ \A i \in DOMAIN mine[u] : Authentic(mine[u][i]) /\ ~In(mine[u][i], owned)
       /\ \A i, j \in DOMAIN mine[u] : mine[u][i] = mine[u][j] => i = j
  /\ \A u, v \in Users : u # v =>
       \A i \in DOMAIN mine[u] : ~In(mine[u][i], mine[v])

(* Every open memfd has one who closes it. *)
NoLeak ==
  \A n \in Numbers : table[n] \in Slots =>
    \/ In(n, captured) \/ n = memfd
    \/ (capture = "ready" /\ In(n, owned))
    \/ \E u \in Users : In(n, mine[u])

(* Nobody loses a descriptor, unless a new object failed its *)
(* verification.                                             *)
TenantsInv == (capture = "failed" /\ closed) \/ DescriptorsKept

(* The inductive invariant. *)
FdInv == FdTypeOK /\ CaptureInv /\ ObjectInv /\ UsersInv /\ NoLeak /\ TenantsInv

USE SnapshotAssumption DEF Slots, Nothing

(* The invariant holds before the capture. *)
LEMMA FdInitInv == FdInit => FdInv
<1> SUFFICES ASSUME FdInit PROVE FdInv
  OBVIOUS
<1>e. \A S : <<>> \in Seq(S) /\ Len(<<>>) = 0 /\ DOMAIN <<>> = {}
  OBVIOUS
<1>1. FdTypeOK
  <2>1. /\ source \in [Slots -> {"right", "wrong"}]
        /\ payload \in [Slots -> {"empty", "right", "wrong"}]
        /\ sealed \in [Slots -> BOOLEAN]
        /\ slot \in Slots
    BY DEF FdInit
  <2>2. /\ table \in [Numbers -> {Nothing} \cup Slots \cup Tenants]
        /\ held \in [Tenants -> {Nothing} \cup Numbers]
        /\ memfd \in {Nothing} \cup Numbers
    BY DEF FdInit
  <2>3. /\ captured \in Seq(Numbers) /\ owned \in Seq(Numbers)
        /\ mine \in [Users -> Seq(Numbers)]
    BY <1>e DEF FdInit
  <2>4. capture \in Captures /\ act \in [Users -> Acts] /\ closed \in BOOLEAN
    BY DEF FdInit, Captures, Unsettled, Acts
  <2> QED
    BY <2>1, <2>2, <2>3, <2>4 DEF FdTypeOK
<1>2. CaptureInv
  BY <1>e DEF FdInit, CaptureInv
<1>3. ObjectInv /\ UsersInv
  BY <1>e DEF FdInit, ObjectInv, UsersInv, Unsettled, In
<1>4. NoLeak /\ TenantsInv
  BY <1>e DEF FdInit, NoLeak, TenantsInv, DescriptorsKept, In
<1> QED
  BY <1>1, <1>2, <1>3, <1>4 DEF FdInv

(* Sequences of numbers. *)
LEMMA RestOf ==
  ASSUME NEW s \in Seq(Numbers), s # <<>>
  PROVE  /\ Head(s) \in Numbers /\ Head(s) = s[1] /\ 1 \in DOMAIN s
         /\ Tail(s) \in Seq(Numbers) /\ Len(Tail(s)) = Len(s) - 1
         /\ DOMAIN Tail(s) = 1 .. Len(s) - 1 /\ DOMAIN s = 1 .. Len(s) /\ Len(s) \in Nat
         /\ \A i \in 1 .. Len(s) - 1 : Tail(s)[i] = s[i + 1]
         /\ \A n : In(n, s) <=> n = Head(s) \/ In(n, Tail(s))
<1>1. /\ Head(s) \in Numbers /\ Head(s) = s[1] /\ 1 \in DOMAIN s
      /\ Tail(s) \in Seq(Numbers) /\ Len(Tail(s)) = Len(s) - 1 /\ Len(s) \in Nat
      /\ DOMAIN s = 1 .. Len(s) /\ Len(s) >= 1
      /\ \A i \in 1 .. Len(s) - 1 : Tail(s)[i] = s[i + 1]
  BY HeadTailProperties
<1>2. DOMAIN Tail(s) = 1 .. Len(s) - 1
  BY <1>1
<1>3. ASSUME NEW n PROVE In(n, s) <=> n = Head(s) \/ In(n, Tail(s))
  <2>1. ASSUME NEW i \in DOMAIN s, s[i] = n PROVE n = Head(s) \/ In(n, Tail(s))
    <3>1. CASE i = 1
      BY <3>1, <2>1, <1>1
    <3>2. CASE i # 1
      <4>1. i - 1 \in 1 .. Len(s) - 1 /\ Tail(s)[i - 1] = s[i]
        BY <3>2, <1>1
      <4> QED
        BY <4>1, <2>1, <1>2 DEF In
    <3> QED
      BY <3>1, <3>2
  <2>2. ASSUME NEW i \in DOMAIN Tail(s), Tail(s)[i] = n PROVE In(n, s)
    <3>1. i + 1 \in DOMAIN s /\ s[i + 1] = n
      BY <2>2, <1>1, <1>2
    <3> QED
      BY <3>1 DEF In
  <2> QED
    BY <2>1, <2>2, <1>1 DEF In
<1> QED
  BY <1>1, <1>2, <1>3

(* What Cleanup leaves of the captured numbers, and what it closes. *)
LEMMA FrontOf ==
  ASSUME NEW s \in Seq(Numbers), s # <<>>
  PROVE  /\ Last(s) \in Numbers /\ Last(s) = s[Len(s)] /\ Len(s) \in DOMAIN s
         /\ Front(s) \in Seq(Numbers) /\ Len(Front(s)) = Len(s) - 1
         /\ DOMAIN Front(s) = 1 .. Len(s) - 1 /\ DOMAIN s = 1 .. Len(s) /\ Len(s) \in Nat
         /\ \A i \in 1 .. Len(s) - 1 : Front(s)[i] = s[i]
         /\ \A n : In(n, s) <=> n = Last(s) \/ In(n, Front(s))
<1>1. DOMAIN s = 1 .. Len(s) /\ Len(s) \in Nat /\ Len(s) # 0
  OBVIOUS
<1>2. Last(s) = s[Len(s)] /\ Len(s) \in DOMAIN s /\ Last(s) \in Numbers
  BY <1>1 DEF Last
<1>3. Front(s) = [i \in 1 .. Len(s) - 1 |-> s[i]]
  BY <1>1 DEF Front
<1>4. Front(s) \in Seq(Numbers) /\ Len(Front(s)) = Len(s) - 1
      /\ DOMAIN Front(s) = 1 .. Len(s) - 1
  <2>1. \A i \in 1 .. Len(s) - 1 : s[i] \in Numbers
    BY <1>1
  <2>2. Len(s) - 1 \in Nat
    BY <1>1
  <2> QED
    BY <1>3, <2>1, <2>2
<1>5. \A n : In(n, s) <=> n = Last(s) \/ In(n, Front(s))
  BY <1>1, <1>2, <1>3, <1>4 DEF In
<1> QED
  BY <1>1, <1>2, <1>3, <1>4, <1>5

(* What Seal makes of the captured numbers. *)
LEMMA MoreOf ==
  ASSUME NEW s \in Seq(Numbers), NEW e \in Numbers
  PROVE  /\ Append(s, e) \in Seq(Numbers) /\ Len(Append(s, e)) = Len(s) + 1
         /\ DOMAIN Append(s, e) = 1 .. Len(s) + 1 /\ DOMAIN s = 1 .. Len(s) /\ Len(s) \in Nat
         /\ \A i \in 1 .. Len(s) + 1 :
              Append(s, e)[i] = IF i = Len(s) + 1 THEN e ELSE s[i]
         /\ \A n : In(n, Append(s, e)) <=> n = e \/ In(n, s)
<1>1. /\ Append(s, e) \in Seq(Numbers) /\ Len(Append(s, e)) = Len(s) + 1
      /\ DOMAIN Append(s, e) = 1 .. Len(s) + 1 /\ DOMAIN s = 1 .. Len(s) /\ Len(s) \in Nat
      /\ \A i \in 1 .. Len(s) + 1 :
              Append(s, e)[i] = IF i = Len(s) + 1 THEN e ELSE s[i]
  BY AppendProperties
<1>2. \A n : In(n, Append(s, e)) <=> n = e \/ In(n, s)
  BY <1>1 DEF In
<1> QED
  BY <1>1, <1>2

-----------------------------------------------------------------------------
(* The capture, while no thread uses the object yet. *)

(* Nobody has anything to close before the object is returned. *)
LEMMA NoUsers ==
  ASSUME FdInv, capture # "ready"
  PROVE  \A u \in Users : act[u] = "idle" /\ mine[u] = <<>>
  BY DEF FdInv, UsersInv

(* An error during the capture. *)
LEMMA RaiseStep == FdInv /\ Raise => FdInv'
<1> SUFFICES ASSUME FdInv, Raise PROVE FdInv'
  OBVIOUS
<1>t. FdTypeOK /\ CaptureInv /\ ObjectInv /\ UsersInv /\ NoLeak /\ TenantsInv
  BY DEF FdInv
<1>u. /\ capture \in Unsettled \cup {"verify"} /\ capture' = "cleanup"
      /\ slot' = slot /\ memfd' = memfd /\ captured' = captured /\ table' = table
      /\ source' = source /\ payload' = payload /\ sealed' = sealed
      /\ owned' = owned /\ closed' = closed /\ lock' = lock
      /\ act' = act /\ mine' = mine /\ held' = held
  BY DEF Raise, Unsettled, contentVars, objectVars, threadVars
<1>1. FdTypeOK'
  BY <1>t, <1>u DEF FdTypeOK, Captures
<1>2. CaptureInv'
  BY <1>t, <1>u DEF CaptureInv
<1>3. ObjectInv'
  BY <1>t, <1>u DEF ObjectInv, Unsettled
<1>4. UsersInv'
  BY <1>t, <1>u DEF UsersInv, Authentic, In, Unsettled
<1>5. NoLeak'
  BY <1>t, <1>u DEF NoLeak, In, Unsettled
<1>6. TenantsInv'
  BY <1>t, <1>u DEF TenantsInv, DescriptorsKept, Unsettled
<1> QED
  BY <1>1, <1>2, <1>3, <1>4, <1>5, <1>6 DEF FdInv

(* The first scan of the files. *)
LEMMA FirstScanStep == FdInv /\ FirstScan => FdInv'
<1> SUFFICES ASSUME FdInv, FirstScan PROVE FdInv'
  OBVIOUS
<1>t. FdTypeOK /\ CaptureInv /\ ObjectInv /\ UsersInv /\ NoLeak /\ TenantsInv
  BY DEF FdInv
<1>u. /\ capture = "scan" /\ capture' = "create"
      /\ slot' = slot /\ memfd' = memfd /\ captured' = captured /\ table' = table
      /\ source' = source /\ payload' = payload /\ sealed' = sealed
      /\ owned' = owned /\ closed' = closed /\ lock' = lock
      /\ act' = act /\ mine' = mine /\ held' = held
  BY DEF FirstScan, objectVars, threadVars
<1>1. FdTypeOK'
  BY <1>t, <1>u DEF FdTypeOK, Captures, Unsettled
<1>2. CaptureInv'
  BY <1>t, <1>u DEF CaptureInv
<1>3. ObjectInv'
  BY <1>t, <1>u DEF ObjectInv, Unsettled
<1>4. UsersInv'
  BY <1>t, <1>u DEF UsersInv, Authentic, In
<1>5. NoLeak' /\ TenantsInv'
  BY <1>t, <1>u DEF NoLeak, In, TenantsInv, DescriptorsKept
<1> QED
  BY <1>1, <1>2, <1>3, <1>4, <1>5 DEF FdInv

(* A memfd gets a number that nobody else has. *)
LEMMA CreateStep == FdInv /\ MemfdCreate => FdInv'
<1> SUFFICES ASSUME FdInv, MemfdCreate PROVE FdInv'
  OBVIOUS
<1>t. FdTypeOK /\ CaptureInv /\ ObjectInv /\ UsersInv /\ NoLeak /\ TenantsInv
  BY DEF FdInv
<1>u. /\ capture = "create" /\ capture' = "copy"
      /\ slot' = slot /\ captured' = captured
      /\ source' = source /\ payload' = payload /\ sealed' = sealed
      /\ owned' = owned /\ closed' = closed /\ lock' = lock
      /\ act' = act /\ mine' = mine /\ held' = held
  BY DEF MemfdCreate, objectVars, threadVars
<1>n. PICK n \in Numbers : table[n] = Nothing /\ table' = [table EXCEPT ![n] = slot]
                           /\ memfd' = n
  BY DEF MemfdCreate, Opened
<1>x. /\ table' \in [Numbers -> {Nothing} \cup Slots \cup Tenants]
      /\ \A k \in Numbers : table'[k] = IF k = n THEN slot ELSE table[k]
  BY <1>n, <1>t DEF FdTypeOK
<1>s. slot \in 1 .. SlotCount /\ Len(captured) = slot - 1 /\ captured \in Seq(Numbers)
      /\ DOMAIN captured = 1 .. Len(captured)
  BY <1>t, <1>u DEF FdTypeOK, CaptureInv
<1>m. \A u \in Users : act[u] = "idle" /\ mine[u] = <<>>
  BY <1>u, NoUsers
<1>1. FdTypeOK'
  BY <1>t, <1>u, <1>n, <1>x DEF FdTypeOK, Captures, Unsettled
<1>2. CaptureInv'
  <2>1. \A i \in DOMAIN captured : captured[i] \in Numbers /\ captured[i] # n
    BY <1>t, <1>n, <1>s DEF CaptureInv
  <2> QED
    BY <2>1, <1>t, <1>u, <1>n, <1>x, <1>s DEF CaptureInv
<1>3. ObjectInv'
  BY <1>t, <1>u DEF ObjectInv, Unsettled
<1>4. UsersInv'
  BY <1>t, <1>u, <1>m DEF UsersInv, In
<1>5. NoLeak'
  <2> SUFFICES ASSUME NEW k \in Numbers, table'[k] \in Slots
               PROVE  In(k, captured) \/ k = n
    BY <1>u, <1>n DEF NoLeak
  <2> QED
    BY <1>t, <1>x, <1>u, <1>m DEF NoLeak, In, CaptureInv
<1>6. TenantsInv'
  BY <1>t, <1>u, <1>x, <1>n DEF TenantsInv, DescriptorsKept, FdTypeOK
<1> QED
  BY <1>1, <1>2, <1>3, <1>4, <1>5, <1>6 DEF FdInv

(* The copy and its check: nothing is opened or closed. *)
LEMMA CopyStep == FdInv /\ (Copy \/ Check) => FdInv'
<1> SUFFICES ASSUME FdInv, Copy \/ Check PROVE FdInv'
  OBVIOUS
<1>t. FdTypeOK /\ CaptureInv /\ ObjectInv /\ UsersInv /\ NoLeak /\ TenantsInv
  BY DEF FdInv
<1>u. /\ capture \in {"copy", "check"} /\ capture' \in {"check", "seal"}
      /\ slot' = slot /\ memfd' = memfd /\ captured' = captured /\ table' = table
      /\ source' = source /\ sealed' = sealed
      /\ owned' = owned /\ closed' = closed /\ lock' = lock
      /\ act' = act /\ mine' = mine /\ held' = held
  BY DEF Copy, Check, contentVars, objectVars, threadVars
<1>p. payload' \in [Slots -> {"empty", "right", "wrong"}]
  <2>1. CASE Copy
    BY <2>1, <1>t DEF Copy, FdTypeOK
  <2>2. CASE Check
    BY <2>2, <1>t DEF Check, FdTypeOK, contentVars
  <2> QED
    BY <2>1, <2>2
<1>m. \A u \in Users : act[u] = "idle" /\ mine[u] = <<>>
  BY <1>u, NoUsers
<1>1. FdTypeOK'
  BY <1>t, <1>u, <1>p DEF FdTypeOK, Captures, Unsettled
<1>2. CaptureInv'
  BY <1>t, <1>u DEF CaptureInv
<1>3. ObjectInv'
  BY <1>t, <1>u DEF ObjectInv, Unsettled
<1>4. UsersInv'
  BY <1>t, <1>u, <1>m DEF UsersInv, In
<1>5. NoLeak' /\ TenantsInv'
  BY <1>t, <1>u DEF NoLeak, In, TenantsInv, DescriptorsKept
<1> QED
  BY <1>1, <1>2, <1>3, <1>4, <1>5 DEF FdInv

(* A memfd that was sealed is one of the captured. *)
LEMMA SealStep == FdInv /\ Seal => FdInv'
<1> SUFFICES ASSUME FdInv, Seal PROVE FdInv'
  OBVIOUS
<1>t. FdTypeOK /\ CaptureInv /\ ObjectInv /\ UsersInv /\ NoLeak /\ TenantsInv
  BY DEF FdInv
<1>u. /\ capture = "seal" /\ sealed' = [sealed EXCEPT ![slot] = TRUE]
      /\ captured' = Append(captured, memfd) /\ memfd' = Nothing
      /\ \/ slot = SlotCount /\ capture' = "rescan" /\ slot' = slot
         \/ slot # SlotCount /\ capture' = "create" /\ slot' = slot + 1
      /\ source' = source /\ payload' = payload /\ table' = table
      /\ owned' = owned /\ closed' = closed /\ lock' = lock
      /\ act' = act /\ mine' = mine /\ held' = held
  BY DEF Seal, objectVars, threadVars
<1>s. /\ slot \in 1 .. SlotCount /\ Len(captured) = slot - 1 /\ captured \in Seq(Numbers)
      /\ memfd \in Numbers /\ table[memfd] = slot
  BY <1>t, <1>u DEF FdTypeOK, CaptureInv
<1>a. /\ captured' \in Seq(Numbers) /\ Len(captured') = slot
      /\ DOMAIN captured' = 1 .. slot /\ DOMAIN captured = 1 .. slot - 1
      /\ \A i \in 1 .. slot : captured'[i] = IF i = slot THEN memfd ELSE captured[i]
      /\ \A n : In(n, captured') <=> n = memfd \/ In(n, captured)
  BY <1>u, <1>s, MoreOf
<1>m. \A u \in Users : act[u] = "idle" /\ mine[u] = <<>>
  BY <1>u, NoUsers
<1>1. FdTypeOK'
  <2>1. slot' \in Slots /\ capture' \in Captures /\ memfd' \in {Nothing} \cup Numbers
    BY <1>u, <1>s DEF Captures, Unsettled
  <2>2. sealed' \in [Slots -> BOOLEAN]
    BY <1>t, <1>u DEF FdTypeOK
  <2> QED
    BY <2>1, <2>2, <1>t, <1>u, <1>a DEF FdTypeOK
<1>2. CaptureInv'
  BY <1>t, <1>u, <1>s, <1>a DEF CaptureInv
<1>3. ObjectInv'
  BY <1>t, <1>u DEF ObjectInv, Unsettled
<1>4. UsersInv'
  BY <1>t, <1>u, <1>m DEF UsersInv, In
<1>5. NoLeak'
  <2> SUFFICES ASSUME NEW k \in Numbers, table[k] \in Slots PROVE In(k, captured')
    BY <1>u DEF NoLeak
  <2> QED
    BY <1>t, <1>a, <1>u, <1>m DEF NoLeak, In
<1>6. TenantsInv'
  BY <1>t, <1>u DEF TenantsInv, DescriptorsKept
<1> QED
  BY <1>1, <1>2, <1>3, <1>4, <1>5, <1>6 DEF FdInv

(* The object is made and owns what was captured. *)
LEMMA SecondScanStep == FdInv /\ SecondScan => FdInv'
<1> SUFFICES ASSUME FdInv, SecondScan PROVE FdInv'
  OBVIOUS
<1>t. FdTypeOK /\ CaptureInv /\ ObjectInv /\ UsersInv /\ NoLeak /\ TenantsInv
  BY DEF FdInv
<1>u. /\ capture = "rescan" /\ capture' = "verify" /\ slot' = 1 /\ owned' = captured
      /\ memfd' = memfd /\ captured' = captured /\ table' = table
      /\ source' = source /\ payload' = payload /\ sealed' = sealed
      /\ closed' = closed /\ lock' = lock
      /\ act' = act /\ mine' = mine /\ held' = held
  BY DEF SecondScan, contentVars, threadVars
<1>m. \A u \in Users : act[u] = "idle" /\ mine[u] = <<>>
  BY <1>u, NoUsers
<1>1. FdTypeOK'
  BY <1>t, <1>u DEF FdTypeOK, Captures, Unsettled
<1>2. CaptureInv'
  BY <1>t, <1>u DEF CaptureInv
<1>3. ObjectInv'
  BY <1>t, <1>u DEF ObjectInv, Unsettled
<1>4. UsersInv'
  BY <1>t, <1>u, <1>m DEF UsersInv, In
<1>5. NoLeak' /\ TenantsInv'
  BY <1>t, <1>u DEF NoLeak, In, TenantsInv, DescriptorsKept
<1> QED
  BY <1>1, <1>2, <1>3, <1>4, <1>5 DEF FdInv

(* One more of the owned descriptors is verified; after the last the *)
(* object is ready, and all of them are sealed and right.            *)
LEMMA PostInitStep == FdInv /\ PostInit => FdInv'
<1> SUFFICES ASSUME FdInv, PostInit PROVE FdInv'
  OBVIOUS
<1>t. FdTypeOK /\ CaptureInv /\ ObjectInv /\ UsersInv /\ NoLeak /\ TenantsInv
  BY DEF FdInv
<1>u. /\ capture = "verify" /\ Verified(owned[slot], slot)
      /\ \/ slot = SlotCount /\ capture' = "ready" /\ captured' = <<>> /\ slot' = slot
         \/ slot # SlotCount /\ capture' = "verify" /\ captured' = captured /\ slot' = slot + 1
      /\ memfd' = memfd /\ table' = table
      /\ source' = source /\ payload' = payload /\ sealed' = sealed
      /\ owned' = owned /\ closed' = closed /\ lock' = lock
      /\ act' = act /\ mine' = mine /\ held' = held
  BY DEF PostInit, contentVars, objectVars, threadVars
<1>s. /\ slot \in 1 .. SlotCount /\ Len(captured) = SlotCount /\ captured \in Seq(Numbers)
      /\ DOMAIN captured = 1 .. SlotCount /\ memfd = Nothing /\ owned = captured
      /\ \A i \in DOMAIN captured : captured[i] \in Numbers /\ table[captured[i]] = i
      /\ \A s \in 1 .. slot - 1 : Authentic(owned[s])
  BY <1>t, <1>u DEF FdTypeOK, CaptureInv, ObjectInv
<1>v. \A s \in 1 .. slot : Authentic(owned[s])
  <2>1. Authentic(owned[slot])
    BY <1>u, <1>s DEF Verified, Authentic
  <2> QED
    BY <2>1, <1>s
<1>e. \A S : <<>> \in Seq(S) /\ Len(<<>>) = 0 /\ DOMAIN <<>> = {}
  OBVIOUS
<1>m. \A u \in Users : act[u] = "idle" /\ mine[u] = <<>>
  BY <1>u, NoUsers
<1>1. FdTypeOK'
  <2>1. slot' \in Slots
    BY <1>u, <1>s
  <2>2. capture' \in Captures
    BY <1>u DEF Captures
  <2>3. captured' \in Seq(Numbers)
    <3>1. <<>> \in Seq(Numbers)
      OBVIOUS
    <3> QED
      BY <3>1, <1>u, <1>s
  <2> QED
    BY <2>1, <2>2, <2>3, <1>t, <1>u DEF FdTypeOK
<1>2. CaptureInv'
  BY <1>t, <1>u, <1>s, <1>e DEF CaptureInv
<1>3. ObjectInv'
  <2>1. \A n : Authentic(n)' <=> Authentic(n)
    BY <1>u DEF Authentic
  <2>2. CASE capture' = "ready"
    BY <2>1, <2>2, <1>t, <1>u, <1>s, <1>v DEF ObjectInv, Unsettled
  <2>3. CASE capture' = "verify"
    <3>1. \A s \in 1 .. slot' - 1 : Authentic(owned[s])'
      BY <2>3, <1>u, <1>s, <1>v DEF Authentic
    <3> QED
      BY <2>3, <3>1, <1>t, <1>u, <1>s DEF ObjectInv, Unsettled
  <2> QED
    BY <2>2, <2>3, <1>u
<1>4. UsersInv'
  BY <1>t, <1>u, <1>m DEF UsersInv, In
<1>5. NoLeak'
  BY <1>t, <1>u, <1>s, <1>m DEF NoLeak, In
<1>6. TenantsInv'
  BY <1>t, <1>u DEF TenantsInv, DescriptorsKept
<1> QED
  BY <1>1, <1>2, <1>3, <1>4, <1>5, <1>6 DEF FdInv

(* Closing what refers to a memfd takes nothing from a tenant. *)
LEMMA CleanupStep == FdInv /\ Cleanup => FdInv'
<1> SUFFICES ASSUME FdInv, Cleanup PROVE FdInv'
  OBVIOUS
<1>t. FdTypeOK /\ CaptureInv /\ ObjectInv /\ UsersInv /\ NoLeak /\ TenantsInv
  BY DEF FdInv
<1>u. /\ capture = "cleanup"
      /\ slot' = slot /\ source' = source /\ payload' = payload /\ sealed' = sealed
      /\ owned' = owned /\ closed' = closed /\ lock' = lock
      /\ act' = act /\ mine' = mine /\ held' = held
  BY DEF Cleanup, contentVars, objectVars, threadVars
<1>m. \A u \in Users : act[u] = "idle" /\ mine[u] = <<>>
  BY <1>u, NoUsers
<1>s. captured \in Seq(Numbers) /\ DOMAIN captured = 1 .. Len(captured)
      /\ table \in [Numbers -> {Nothing} \cup Slots \cup Tenants]
      /\ \A i \in DOMAIN captured : captured[i] \in Numbers /\ table[captured[i]] = i
  BY <1>t DEF FdTypeOK, CaptureInv
<1>c. ~closed
  BY <1>t, <1>u DEF ObjectInv
<1>1. CASE memfd # Nothing
  <2>1. /\ table' = [table EXCEPT ![memfd] = Nothing] /\ memfd' = Nothing
        /\ capture' = capture /\ captured' = captured
    BY <1>1 DEF Cleanup, Close
  <2>2. memfd \in Numbers /\ table[memfd] = Len(captured) + 1 /\ Len(captured) < SlotCount
    BY <1>1, <1>t DEF FdTypeOK, CaptureInv
  <2>3. /\ table' \in [Numbers -> {Nothing} \cup Slots \cup Tenants]
        /\ \A k \in Numbers : table'[k] = IF k = memfd THEN Nothing ELSE table[k]
    BY <2>1, <2>2, <1>s
  <2>4. FdTypeOK'
    BY <1>t, <1>u, <2>1, <2>3 DEF FdTypeOK
  <2>5. CaptureInv'
    BY <1>t, <1>u, <1>s, <2>1, <2>2, <2>3 DEF CaptureInv
  <2>6. ObjectInv' /\ UsersInv'
    BY <1>t, <1>u, <1>m, <2>1 DEF ObjectInv, UsersInv, Unsettled, In
  <2>7. NoLeak'
    BY <1>t, <1>u, <1>m, <2>1, <2>3 DEF NoLeak, In
  <2>8. TenantsInv'
    <3>1. Len(captured) + 1 \in Slots
      BY <2>2, <1>s
    <3> QED
      BY <3>1, <1>t, <1>u, <1>c, <2>1, <2>2, <2>3 DEF TenantsInv, DescriptorsKept, FdTypeOK
  <2> QED
    BY <2>4, <2>5, <2>6, <2>7, <2>8 DEF FdInv
<1>2. CASE memfd = Nothing /\ captured # <<>>
  <2>1. /\ table' = [table EXCEPT ![Last(captured)] = Nothing] /\ memfd' = Nothing
        /\ capture' = capture /\ captured' = Front(captured)
    BY <1>2 DEF Cleanup, Close
  <2>2. /\ Last(captured) \in Numbers /\ Last(captured) = captured[Len(captured)]
        /\ Len(captured) \in DOMAIN captured
        /\ captured' \in Seq(Numbers) /\ Len(captured') = Len(captured) - 1
        /\ DOMAIN captured' = 1 .. Len(captured) - 1
        /\ \A i \in 1 .. Len(captured) - 1 : captured'[i] = captured[i]
        /\ \A n : In(n, captured) <=> n = Last(captured) \/ In(n, captured')
    BY <1>2, <1>s, <2>1, FrontOf
  <2> DEFINE last == Last(captured)
  <2>3. /\ table' \in [Numbers -> {Nothing} \cup Slots \cup Tenants]
        /\ \A k \in Numbers : table'[k] = IF k = last THEN Nothing ELSE table[k]
        /\ table[last] = Len(captured) /\ last \in Numbers
    BY <2>1, <2>2, <1>s
  <2> HIDE DEF last
  <2>4. FdTypeOK'
    BY <1>t, <1>u, <2>1, <2>2, <2>3 DEF FdTypeOK
  <2>5. CaptureInv'
    <3>1. \A i \in DOMAIN captured' : table'[captured'[i]] = i
      BY <1>s, <2>2, <2>3
    <3> QED
      BY <3>1, <1>t, <1>u, <1>s, <2>1, <2>2 DEF CaptureInv
  <2>6. ObjectInv' /\ UsersInv'
    BY <1>t, <1>u, <1>m, <2>1 DEF ObjectInv, UsersInv, Unsettled, In
  <2>7. NoLeak'
    <3> SUFFICES ASSUME NEW k \in Numbers, table'[k] \in Slots PROVE In(k, captured')
      BY DEF NoLeak
    <3>1. table[k] \in Slots /\ k # last
      BY <2>3
    <3>2. In(k, captured)
      BY <3>1, <1>t, <1>u, <1>m, <1>2 DEF NoLeak, In
    <3> QED
      BY <3>1, <3>2, <2>2 DEF last
  <2>8. TenantsInv'
    <3>1. Len(captured) \in Slots
      BY <2>2, <1>s, <1>t DEF CaptureInv
    <3> QED
      BY <3>1, <1>t, <1>u, <1>c, <2>1, <2>3 DEF TenantsInv, DescriptorsKept, FdTypeOK
  <2> QED
    BY <2>4, <2>5, <2>6, <2>7, <2>8 DEF FdInv
<1>3. CASE memfd = Nothing /\ captured = <<>>
  <2>1. capture' = "failed" /\ captured' = captured /\ memfd' = memfd /\ table' = table
    BY <1>3 DEF Cleanup
  <2>2. FdTypeOK'
    BY <1>t, <1>u, <2>1 DEF FdTypeOK, Captures
  <2>3. CaptureInv'
    BY <1>t, <1>u, <1>3, <2>1 DEF CaptureInv
  <2>4. ObjectInv' /\ UsersInv'
    BY <1>t, <1>u, <1>m, <2>1 DEF ObjectInv, UsersInv, Unsettled, In
  <2>5. NoLeak'
    BY <1>t, <1>u, <1>m, <2>1 DEF NoLeak, In
  <2>6. TenantsInv'
    BY <1>t, <1>u, <1>c, <2>1 DEF TenantsInv, DescriptorsKept
  <2> QED
    BY <2>2, <2>3, <2>4, <2>5, <2>6 DEF FdInv
<1> QED
  BY <1>1, <1>2, <1>3

(* The finalizer of an object that nobody got closes whatever has its       *)
(* numbers by then: only tenants have any.                                 *)
LEMMA FinalizerStep == FdInv /\ Finalizer => FdInv'
<1> SUFFICES ASSUME FdInv, Finalizer PROVE FdInv'
  OBVIOUS
<1>t. FdTypeOK /\ CaptureInv /\ ObjectInv /\ UsersInv /\ NoLeak /\ TenantsInv
  BY DEF FdInv
<1>u. /\ capture = "failed" /\ capture' = capture /\ owned # <<>>
      /\ table' = [table EXCEPT ![Head(owned)] = Nothing] /\ owned' = Tail(owned)
      /\ closed' = TRUE
      /\ slot' = slot /\ memfd' = memfd /\ captured' = captured
      /\ source' = source /\ payload' = payload /\ sealed' = sealed
      /\ act' = act /\ mine' = mine /\ held' = held /\ lock' = lock
  BY DEF Finalizer, Close, captureVars, contentVars, threadVars
<1>m. \A u \in Users : act[u] = "idle" /\ mine[u] = <<>>
  BY <1>u, NoUsers
<1>h. Head(owned) \in Numbers /\ owned' \in Seq(Numbers)
  BY <1>u, <1>t, RestOf DEF FdTypeOK
<1>x. /\ table' \in [Numbers -> {Nothing} \cup Slots \cup Tenants]
      /\ \A k \in Numbers : table'[k] = table[k] \/ table'[k] = Nothing
  BY <1>u, <1>h, <1>t DEF FdTypeOK
<1>1. FdTypeOK'
  BY <1>t, <1>u, <1>h, <1>x DEF FdTypeOK
<1>2. CaptureInv'
  BY <1>t, <1>u DEF CaptureInv
<1>3. ObjectInv' /\ UsersInv'
  BY <1>t, <1>u, <1>m DEF ObjectInv, UsersInv, Unsettled, In
<1>4. NoLeak'
  BY <1>t, <1>u, <1>m, <1>x DEF NoLeak, In, CaptureInv
<1>5. TenantsInv'
  BY <1>u DEF TenantsInv
<1> QED
  BY <1>1, <1>2, <1>3, <1>4, <1>5 DEF FdInv

-----------------------------------------------------------------------------
(* The methods of the object. *)

(* Who does something uses an object that was returned. *)
LEMMA InUse ==
  ASSUME FdInv, NEW u \in Users, act[u] # "idle"
  PROVE  capture = "ready"
  BY DEF FdInv, UsersInv

(* A thread enters duplicate_regular_fd. *)
LEMMA DuplicateStep == ASSUME NEW u \in Users PROVE FdInv /\ Duplicate(u) => FdInv'
<1> SUFFICES ASSUME FdInv, Duplicate(u) PROVE FdInv'
  OBVIOUS
<1>t. FdTypeOK /\ CaptureInv /\ ObjectInv /\ UsersInv /\ NoLeak /\ TenantsInv
  BY DEF FdInv
<1>u. /\ capture = "ready" /\ act[u] = "idle"
      /\ lock' \in {lock, u}
      /\ \E what \in {"done", "reopen"} : act' = [act EXCEPT ![u] = what]
      /\ capture' = capture /\ slot' = slot /\ memfd' = memfd /\ captured' = captured
      /\ source' = source /\ payload' = payload /\ sealed' = sealed
      /\ table' = table /\ owned' = owned /\ closed' = closed
      /\ mine' = mine /\ held' = held
  BY DEF Duplicate, Become, captureVars, contentVars
<1>1. FdTypeOK'
  BY <1>t, <1>u DEF FdTypeOK, Acts
<1>2. CaptureInv' /\ ObjectInv'
  BY <1>t, <1>u DEF CaptureInv, ObjectInv, Authentic
<1>3. UsersInv'
  <2>1. mine[u] = <<>>
    BY <1>t, <1>u DEF UsersInv
  <2>2. \A v \in Users : act'[v] = act[v] \/ (v = u /\ act'[v] \in {"done", "reopen"})
    BY <1>t, <1>u DEF FdTypeOK
  <2>3. \A n : Authentic(n)' <=> Authentic(n)
    BY <1>u DEF Authentic
  <2> QED
    BY <2>1, <2>2, <2>3, <1>t, <1>u DEF UsersInv, In
<1>4. NoLeak' /\ TenantsInv'
  BY <1>t, <1>u DEF NoLeak, In, TenantsInv, DescriptorsKept
<1> QED
  BY <1>1, <1>2, <1>3, <1>4 DEF FdInv

(* A new number nobody else has; what it refers to has just been verified.  *)
LEMMA ReopenStep == ASSUME NEW u \in Users PROVE FdInv /\ Reopen(u) => FdInv'
<1> SUFFICES ASSUME FdInv, Reopen(u) PROVE FdInv'
  OBVIOUS
<1>t. FdTypeOK /\ CaptureInv /\ ObjectInv /\ UsersInv /\ NoLeak /\ TenantsInv
  BY DEF FdInv
<1>u. /\ act[u] = "reopen" /\ act' = [act EXCEPT ![u] = "compare"]
      /\ capture' = capture /\ slot' = slot /\ memfd' = memfd /\ captured' = captured
      /\ source' = source /\ payload' = payload /\ sealed' = sealed
      /\ owned' = owned /\ closed' = closed /\ lock' = lock /\ held' = held
  BY DEF Reopen, Become, captureVars, contentVars, objectVars
<1>n. PICK s \in Slots, n \in Numbers :
        /\ sealed[s] /\ payload[s] = "right" /\ table[n] = Nothing
        /\ table' = [table EXCEPT ![n] = s] /\ mine' = [mine EXCEPT ![u] = <<n>>]
  BY DEF Reopen, Verified, Opened
<1>r. capture = "ready" /\ captured = <<>> /\ memfd = Nothing
  BY <1>u, <1>t, InUse DEF CaptureInv
<1>x. /\ table' \in [Numbers -> {Nothing} \cup Slots \cup Tenants]
      /\ \A k \in Numbers : table'[k] = IF k = n THEN s ELSE table[k]
  BY <1>n, <1>t DEF FdTypeOK
<1>y. /\ mine' \in [Users -> Seq(Numbers)] /\ mine'[u] = <<n>>
      /\ \A v \in Users : v # u => mine'[v] = mine[v]
      /\ act' \in [Users -> Acts] /\ act'[u] = "compare"
      /\ \A v \in Users : v # u => act'[v] = act[v]
  <2>1. <<n>> \in Seq(Numbers)
    OBVIOUS
  <2> QED
    BY <2>1, <1>n, <1>u, <1>t DEF FdTypeOK, Acts
<1>o. /\ owned \in Seq(Numbers)
      /\ \A i \in DOMAIN owned : owned[i] \in Numbers /\ table[owned[i]] = i /\ Authentic(owned[i])
  BY <1>t, <1>r DEF FdTypeOK, ObjectInv
<1>p. \A v \in Users : \A i \in DOMAIN mine[v] : mine[v][i] \in Numbers
  BY <1>t DEF FdTypeOK
<1>q. \A k \in Numbers : Authentic(k) => k # n /\ Authentic(k)'
  BY <1>x, <1>n, <1>u DEF Authentic
<1>w. Authentic(n)'
  BY <1>x, <1>n, <1>u DEF Authentic
<1>f. ~In(n, owned) /\ \A v \in Users : ~In(n, mine[v])
  BY <1>o, <1>p, <1>q, <1>t DEF In, UsersInv
<1>1. FdTypeOK'
  BY <1>t, <1>u, <1>x, <1>y DEF FdTypeOK
<1>2. CaptureInv'
  BY <1>r, <1>u, <1>t DEF CaptureInv
<1>3. ObjectInv'
  BY <1>r, <1>u, <1>t, <1>o, <1>q, <1>x DEF ObjectInv, Unsettled
<1>4. UsersInv'
  <2>1. ASSUME NEW v \in Users
        PROVE  /\ act'[v] \notin {"compare", "using"} => mine'[v] = <<>>
               /\ act'[v] = "compare" => Len(mine'[v]) = 1
               /\ \A i \in DOMAIN mine'[v] :
                    Authentic(mine[v][i])' /\ ~In(mine'[v][i], owned')
               /\ \A i, j \in DOMAIN mine'[v] : mine'[v][i] = mine'[v][j] => i = j
    <3>1. CASE v = u
      <4>1. DOMAIN mine'[v] = {1} /\ mine'[v][1] = n /\ Len(mine'[v]) = 1
        BY <3>1, <1>y
      <4> QED
        BY <4>1, <3>1, <1>y, <1>w, <1>f, <1>u DEF In
    <3>2. CASE v # u
      BY <3>2, <1>y, <1>p, <1>q, <1>t, <1>u DEF UsersInv, In
    <3> QED
      BY <3>1, <3>2
  <2>2. ASSUME NEW v \in Users, NEW w \in Users, v # w, NEW i \in DOMAIN mine'[v]
        PROVE  ~In(mine'[v][i], mine'[w])
    <3>1. CASE v = u
      BY <3>1, <2>2, <1>y, <1>f DEF In
    <3>2. CASE w = u
      BY <3>2, <2>2, <1>y, <1>f DEF In
    <3>3. CASE v # u /\ w # u
      BY <3>3, <2>2, <1>y, <1>t DEF UsersInv
    <3> QED
      BY <3>1, <3>2, <3>3
  <2> QED
    BY <2>1, <2>2, <1>r, <1>u DEF UsersInv
<1>5. NoLeak'
  <2> SUFFICES ASSUME NEW k \in Numbers, table'[k] \in Slots
               PROVE  In(k, owned) \/ \E v \in Users : In(k, mine'[v])
    BY <1>u, <1>r DEF NoLeak
  <2>1. CASE k = n
    BY <2>1, <1>y DEF In
  <2>2. CASE k # n
    <3>1. In(k, owned) \/ \E v \in Users : In(k, mine[v])
      BY <2>2, <1>x, <1>r, <1>t DEF NoLeak, In
    <3>2. mine[u] = <<>>
      BY <1>u, <1>t DEF UsersInv
    <3> QED
      BY <3>1, <3>2, <1>y DEF In
  <2> QED
    BY <2>1, <2>2
<1>6. TenantsInv'
  BY <1>t, <1>u, <1>x, <1>n, <1>r DEF TenantsInv, DescriptorsKept, FdTypeOK
<1> QED
  BY <1>1, <1>2, <1>3, <1>4, <1>5, <1>6 DEF FdInv

(* The caller of duplicate_regular_fd gets its descriptor. *)
LEMMA ReturnStep == ASSUME NEW u \in Users PROVE FdInv /\ Return(u) => FdInv'
<1> SUFFICES ASSUME FdInv, Return(u) PROVE FdInv'
  OBVIOUS
<1>t. FdTypeOK /\ CaptureInv /\ ObjectInv /\ UsersInv /\ NoLeak /\ TenantsInv
  BY DEF FdInv
<1>u. /\ act[u] = "compare" /\ act' = [act EXCEPT ![u] = "using"] /\ lock' = Nothing
      /\ capture' = capture /\ slot' = slot /\ memfd' = memfd /\ captured' = captured
      /\ source' = source /\ payload' = payload /\ sealed' = sealed
      /\ table' = table /\ owned' = owned /\ closed' = closed
      /\ mine' = mine /\ held' = held
  BY DEF Return, Become, captureVars, contentVars
<1>r. capture = "ready"
  BY <1>u, InUse
<1>1. FdTypeOK'
  BY <1>t, <1>u DEF FdTypeOK, Acts
<1>2. CaptureInv' /\ ObjectInv'
  BY <1>t, <1>u DEF CaptureInv, ObjectInv, Authentic
<1>3. UsersInv'
  <2>1. \A v \in Users : act'[v] = act[v] \/ (v = u /\ act'[v] = "using")
    BY <1>t, <1>u DEF FdTypeOK
  <2>2. \A n : Authentic(n)' <=> Authentic(n)
    BY <1>u DEF Authentic
  <2> QED
    BY <2>1, <2>2, <1>r, <1>t, <1>u DEF UsersInv, In
<1>4. NoLeak' /\ TenantsInv'
  BY <1>t, <1>u DEF NoLeak, In, TenantsInv, DescriptorsKept
<1> QED
  BY <1>1, <1>2, <1>3, <1>4 DEF FdInv

(* A user closes the first number it has to close: nobody else's. *)
LEMMA CloseOne ==
  ASSUME FdInv, NEW u \in Users, NEW what \in {"using", "done"},
         act[u] \in {"compare", "using"}, mine[u] # <<>>,
         what = "done" => Len(mine[u]) = 1,
         table' = [table EXCEPT ![Head(mine[u])] = Nothing],
         mine' = [mine EXCEPT ![u] = Tail(mine[u])],
         act' = [act EXCEPT ![u] = what],
         UNCHANGED <<captureVars, contentVars, owned, closed, held>>
  PROVE  FdInv'
<1>t. FdTypeOK /\ CaptureInv /\ ObjectInv /\ UsersInv /\ NoLeak /\ TenantsInv
  BY DEF FdInv
<1>u. /\ capture' = capture /\ slot' = slot /\ memfd' = memfd /\ captured' = captured
      /\ source' = source /\ payload' = payload /\ sealed' = sealed
      /\ owned' = owned /\ closed' = closed /\ held' = held
  BY DEF captureVars, contentVars
<1>r. capture = "ready" /\ captured = <<>> /\ memfd = Nothing
  BY <1>t, InUse DEF CaptureInv
<1> DEFINE n == Head(mine[u])
           rest == Tail(mine[u])
<1>m. mine[u] \in Seq(Numbers)
  BY <1>t DEF FdTypeOK
<1>h. /\ n \in Numbers /\ n = mine[u][1] /\ 1 \in DOMAIN mine[u]
      /\ rest \in Seq(Numbers) /\ Len(rest) = Len(mine[u]) - 1
      /\ DOMAIN rest = 1 .. Len(mine[u]) - 1 /\ DOMAIN mine[u] = 1 .. Len(mine[u])
      /\ Len(mine[u]) \in Nat
      /\ \A i \in 1 .. Len(mine[u]) - 1 : rest[i] = mine[u][i + 1]
      /\ \A k : In(k, mine[u]) <=> k = n \/ In(k, rest)
  BY <1>m, RestOf
<1>y. /\ mine' \in [Users -> Seq(Numbers)] /\ mine'[u] = rest
      /\ \A v \in Users : v # u => mine'[v] = mine[v]
      /\ act' \in [Users -> Acts] /\ act'[u] = what
      /\ \A v \in Users : v # u => act'[v] = act[v]
  BY <1>h, <1>t DEF FdTypeOK, Acts
<1>x. /\ table' \in [Numbers -> {Nothing} \cup Slots \cup Tenants]
      /\ \A k \in Numbers : table'[k] = IF k = n THEN Nothing ELSE table[k]
  BY <1>h, <1>t DEF FdTypeOK
<1>a. Authentic(n) /\ ~In(n, owned) /\ \A v \in Users : v # u => ~In(n, mine[v])
  BY <1>h, <1>t DEF UsersInv
<1> HIDE DEF n, rest
<1>i. ~In(n, rest)
  <2> SUFFICES ASSUME NEW i \in DOMAIN rest, rest[i] = n PROVE FALSE
    BY DEF In
  <2>1. i + 1 \in DOMAIN mine[u] /\ mine[u][i + 1] = mine[u][1] /\ i + 1 # 1
    BY <1>h
  <2> QED
    BY <2>1, <1>h, <1>t DEF UsersInv
<1>o. /\ owned \in Seq(Numbers)
      /\ \A i \in DOMAIN owned : owned[i] \in Numbers /\ table[owned[i]] = i
                                 /\ Authentic(owned[i]) /\ owned[i] # n
  BY <1>t, <1>r, <1>a DEF FdTypeOK, ObjectInv, In
<1>p. \A v \in Users : \A i \in DOMAIN mine[v] : mine[v][i] \in Numbers
  BY <1>t DEF FdTypeOK
<1>q. \A k \in Numbers : Authentic(k) /\ k # n => Authentic(k)'
  BY <1>x, <1>u DEF Authentic
<1> DEFINE Still(k) == table'[k] \in Slots /\ sealed'[table'[k]] /\ payload'[table'[k]] = "right"
<1>z. \A k \in Numbers : Authentic(k) /\ k # n => Still(k)
  BY <1>x, <1>u DEF Authentic
<1>1. FdTypeOK'
  BY <1>t, <1>u, <1>x, <1>y DEF FdTypeOK
<1>2. CaptureInv'
  BY <1>r, <1>u, <1>t DEF CaptureInv
<1>3. ObjectInv'
  BY <1>r, <1>u, <1>t, <1>o, <1>q, <1>x DEF ObjectInv, Unsettled
<1>4. UsersInv'
  <2>1. ASSUME NEW v \in Users
        PROVE  /\ act'[v] \notin {"compare", "using"} => mine'[v] = <<>>
               /\ act'[v] = "compare" => Len(mine'[v]) = 1
               /\ \A i \in DOMAIN mine'[v] :
                    Authentic(mine[v][i])' /\ ~In(mine'[v][i], owned')
               /\ \A i, j \in DOMAIN mine'[v] : mine'[v][i] = mine'[v][j] => i = j
    <3>1. CASE v = u
      <4>1. what = "done" => rest = <<>>
        BY <1>h
      <4>2. ASSUME NEW i \in DOMAIN rest
            PROVE  Still(rest[i]) /\ ~In(rest[i], owned)
        <5>1. i + 1 \in DOMAIN mine[u] /\ rest[i] = mine[u][i + 1]
          BY <1>h
        <5>2. Authentic(rest[i]) /\ ~In(rest[i], owned) /\ rest[i] \in Numbers
          BY <5>1, <1>t, <1>p DEF UsersInv
        <5>3. rest[i] # n
          BY <1>i DEF In
        <5> QED
          BY <5>2, <5>3, <1>z
      <4>3. ASSUME NEW i \in DOMAIN rest, NEW j \in DOMAIN rest, rest[i] = rest[j]
            PROVE  i = j
        <5>1. /\ i + 1 \in DOMAIN mine[u] /\ j + 1 \in DOMAIN mine[u]
              /\ mine[u][i + 1] = mine[u][j + 1]
          BY <4>3, <1>h
        <5>2. i + 1 = j + 1
          BY <5>1, <1>t DEF UsersInv
        <5> QED
          BY <5>2, <1>h
      <4>4. \A i \in DOMAIN mine'[v] : Authentic(mine[v][i])'
        BY <3>1, <4>2, <1>y DEF Authentic
      <4> QED
        BY <3>1, <4>1, <4>2, <4>3, <4>4, <1>y, <1>u
    <3>2. CASE v # u
      BY <3>2, <1>y, <1>p, <1>q, <1>a, <1>t, <1>u DEF UsersInv, In
    <3> QED
      BY <3>1, <3>2
  <2>2. ASSUME NEW v \in Users, NEW w \in Users, v # w, NEW i \in DOMAIN mine'[v]
        PROVE  ~In(mine'[v][i], mine'[w])
    <3>1. \A k : In(k, mine'[v]) => In(k, mine[v])
      BY <1>y, <1>h
    <3>2. \A k : In(k, mine'[w]) => In(k, mine[w])
      BY <1>y, <1>h
    <3>3. \A k : ~(In(k, mine[v]) /\ In(k, mine[w]))
      BY <2>2, <1>t DEF UsersInv, In
    <3>4. In(mine'[v][i], mine'[v])
      BY <2>2 DEF In
    <3> QED
      BY <3>1, <3>2, <3>3, <3>4
  <2> QED
    BY <2>1, <2>2, <1>r, <1>u DEF UsersInv
<1>5. NoLeak'
  <2> SUFFICES ASSUME NEW k \in Numbers, table'[k] \in Slots
               PROVE  In(k, owned) \/ \E v \in Users : In(k, mine'[v])
    BY <1>u, <1>r DEF NoLeak
  <2>1. k # n /\ table[k] \in Slots
    BY <1>x
  <2>2. In(k, owned) \/ \E v \in Users : In(k, mine[v])
    BY <2>1, <1>r, <1>t DEF NoLeak, In
  <2> QED
    BY <2>1, <2>2, <1>y, <1>h
<1>6. TenantsInv'
  BY <1>t, <1>u, <1>x, <1>a, <1>r DEF TenantsInv, DescriptorsKept, FdTypeOK, Authentic
<1> QED
  BY <1>1, <1>2, <1>3, <1>4, <1>5, <1>6 DEF FdInv

(* A sequence of one element has nothing behind its head. *)
LEMMA OnlyOne ==
  ASSUME NEW s \in Seq(Numbers), Len(s) = 1
  PROVE  s # <<>> /\ Head(s) = s[1] /\ Tail(s) = <<>>
<1>1. s # <<>> /\ Head(s) = s[1]
  OBVIOUS
<1>2. Tail(s) \in Seq(Numbers) /\ Len(Tail(s)) = 0
  OBVIOUS
<1> QED
  BY <1>1, <1>2, EmptySeq

(* A thread closes a descriptor that it has to close. *)
LEMMA CloseMineStep == ASSUME NEW u \in Users PROVE FdInv /\ CloseMine(u) => FdInv'
<1> SUFFICES ASSUME FdInv, CloseMine(u) PROVE FdInv'
  OBVIOUS
<1>1. FdTypeOK
  BY DEF FdInv
<1> DEFINE what == IF Len(mine[u]) = 1 THEN "done" ELSE "using"
<1>2. /\ act[u] = "using" /\ mine[u] # <<>>
      /\ table' = [table EXCEPT ![Head(mine[u])] = Nothing]
      /\ mine' = [mine EXCEPT ![u] = Tail(mine[u])]
      /\ UNCHANGED <<captureVars, contentVars, owned, closed, held>>
  BY DEF CloseMine, Close, objectVars
<1>3. act' = [act EXCEPT ![u] = what]
  <2>1. act = [act EXCEPT ![u] = "using"]
    BY <1>1, <1>2 DEF FdTypeOK
  <2> QED
    BY <2>1 DEF CloseMine, Become
<1> QED
  BY <1>2, <1>3, CloseOne

(* duplicate_regular_fd fails under the lock. *)
LEMMA RefuseStep == ASSUME NEW u \in Users PROVE FdInv /\ Refuse(u) => FdInv'
<1> SUFFICES ASSUME FdInv, Refuse(u) PROVE FdInv'
  OBVIOUS
<1>t. FdTypeOK /\ CaptureInv /\ ObjectInv /\ UsersInv /\ NoLeak /\ TenantsInv
  BY DEF FdInv
<1>u. /\ act[u] \in {"reopen", "compare"}
      /\ act' = [act EXCEPT ![u] = "done"] /\ mine' = [mine EXCEPT ![u] = <<>>]
      /\ UNCHANGED <<captureVars, contentVars, owned, closed, held>>
  BY DEF Refuse, Become
<1>1. CASE act[u] = "compare"
  <2>1. mine[u] \in Seq(Numbers) /\ Len(mine[u]) = 1
    BY <1>1, <1>t DEF FdTypeOK, UsersInv
  <2>2. mine[u] # <<>> /\ Head(mine[u]) = mine[u][1] /\ Tail(mine[u]) = <<>>
    BY <2>1, OnlyOne
  <2>3. table' = [table EXCEPT ![Head(mine[u])] = Nothing]
    BY <2>2 DEF Refuse, Close
  <2> QED
    BY <1>1, <1>u, <2>1, <2>2, <2>3, CloseOne
<1>2. CASE act[u] = "reopen"
  <2>1. mine[u] = <<>> /\ table' = table
    BY <1>2, <1>t DEF Refuse, UsersInv
  <2>2. mine' = mine
    BY <2>1, <1>u, <1>t DEF FdTypeOK
  <2>3. /\ capture' = capture /\ slot' = slot /\ memfd' = memfd /\ captured' = captured
        /\ source' = source /\ payload' = payload /\ sealed' = sealed
        /\ owned' = owned /\ closed' = closed /\ held' = held
    BY <1>u DEF captureVars, contentVars
  <2>4. \A v \in Users : act'[v] = act[v] \/ (v = u /\ act'[v] = "done")
    BY <1>u, <1>t DEF FdTypeOK
  <2>5. FdTypeOK'
    BY <1>t, <1>u, <2>1, <2>2, <2>3 DEF FdTypeOK, Acts
  <2>6. CaptureInv' /\ ObjectInv'
    BY <1>t, <2>1, <2>3 DEF CaptureInv, ObjectInv, Authentic
  <2>7. UsersInv'
    <3>1. \A n : Authentic(n)' <=> Authentic(n)
      BY <2>1, <2>3 DEF Authentic
    <3>2. capture = "ready"
      BY <1>2, InUse
    <3> QED
      BY <3>1, <3>2, <2>1, <2>2, <2>3, <2>4, <1>t DEF UsersInv, In
  <2>8. NoLeak' /\ TenantsInv'
    BY <1>t, <2>1, <2>2, <2>3 DEF NoLeak, In, TenantsInv, DescriptorsKept
  <2> QED
    BY <2>5, <2>6, <2>7, <2>8 DEF FdInv
<1> QED
  BY <1>1, <1>2, <1>u

(* close() moves the numbers from the object to the thread that closes it.  *)
LEMMA TakeOwnedStep == ASSUME NEW u \in Users PROVE FdInv /\ TakeOwned(u) => FdInv'
<1> SUFFICES ASSUME FdInv, TakeOwned(u) PROVE FdInv'
  OBVIOUS
<1>t. FdTypeOK /\ CaptureInv /\ ObjectInv /\ UsersInv /\ NoLeak /\ TenantsInv
  BY DEF FdInv
<1>u. /\ capture = "ready" /\ act[u] = "idle"
      /\ \/ /\ closed /\ act' = [act EXCEPT ![u] = "done"]
            /\ mine' = mine /\ owned' = owned /\ closed' = closed
         \/ /\ ~closed /\ act' = [act EXCEPT ![u] = "using"]
            /\ mine' = [mine EXCEPT ![u] = owned] /\ owned' = <<>> /\ closed' = TRUE
      /\ capture' = capture /\ slot' = slot /\ memfd' = memfd /\ captured' = captured
      /\ source' = source /\ payload' = payload /\ sealed' = sealed
      /\ table' = table /\ held' = held
  BY DEF TakeOwned, Become, captureVars, contentVars
<1>r. captured = <<>> /\ memfd = Nothing /\ mine[u] = <<>>
  BY <1>u, <1>t DEF CaptureInv, UsersInv
<1>e. <<>> \in Seq(Numbers) /\ DOMAIN <<>> = {}
  OBVIOUS
<1>q. \A n : Authentic(n)' <=> Authentic(n)
  BY <1>u DEF Authentic
<1>2. CaptureInv'
  BY <1>u, <1>t DEF CaptureInv
<1>3. ObjectInv'
  BY <1>u, <1>t, <1>q, <1>e DEF ObjectInv, Unsettled
<1>6. TenantsInv'
  BY <1>u, <1>t DEF TenantsInv, DescriptorsKept
<1>7. CASE closed
  <2>1. mine' = mine /\ owned' = owned /\ act' = [act EXCEPT ![u] = "done"] /\ closed' = closed
    BY <1>7, <1>u
  <2>2. FdTypeOK'
    BY <2>1, <1>t, <1>u DEF FdTypeOK, Acts
  <2>3. \A v \in Users : act'[v] = act[v] \/ (v = u /\ act'[v] = "done")
    BY <2>1, <1>t DEF FdTypeOK
  <2>4. UsersInv'
    BY <2>1, <2>3, <1>q, <1>r, <1>t, <1>u DEF UsersInv, In
  <2>5. NoLeak'
    BY <2>1, <1>t, <1>u DEF NoLeak, In
  <2> QED
    BY <2>2, <2>4, <2>5, <1>2, <1>3, <1>6 DEF FdInv
<1>8. CASE ~closed
  <2>1. /\ mine' = [mine EXCEPT ![u] = owned] /\ owned' = <<>> /\ closed' = TRUE
        /\ act' = [act EXCEPT ![u] = "using"]
    BY <1>8, <1>u
  <2>2. /\ mine' \in [Users -> Seq(Numbers)] /\ mine'[u] = owned
        /\ \A v \in Users : v # u => mine'[v] = mine[v]
        /\ act' \in [Users -> Acts] /\ act'[u] = "using"
        /\ \A v \in Users : v # u => act'[v] = act[v]
    BY <2>1, <1>t DEF FdTypeOK, Acts
  <2>3. FdTypeOK'
    BY <2>1, <2>2, <1>t, <1>u, <1>e DEF FdTypeOK
  <2>4. \A i \in DOMAIN owned : table[owned[i]] = i /\ Authentic(owned[i])
    BY <1>u, <1>t DEF ObjectInv
  <2>5. UsersInv'
    <3>1. ASSUME NEW v \in Users
          PROVE  /\ act'[v] \notin {"compare", "using"} => mine'[v] = <<>>
                 /\ act'[v] = "compare" => Len(mine'[v]) = 1
                 /\ \A i \in DOMAIN mine'[v] :
                      Authentic(mine'[v][i]) /\ ~In(mine'[v][i], owned')
                 /\ \A i, j \in DOMAIN mine'[v] : mine'[v][i] = mine'[v][j] => i = j
      <4>1. CASE v = u
        BY <4>1, <2>1, <2>2, <2>4, <1>e DEF In
      <4>2. CASE v # u
        BY <4>2, <2>1, <2>2, <1>e, <1>t DEF UsersInv, In
      <4> QED
        BY <4>1, <4>2
    <3>2. ASSUME NEW v \in Users, NEW w \in Users, v # w, NEW i \in DOMAIN mine'[v]
          PROVE  ~In(mine'[v][i], mine'[w])
      <4>1. CASE v = u
        BY <4>1, <3>2, <2>2, <1>t DEF In, UsersInv
      <4>2. CASE w = u
        BY <4>2, <3>2, <2>2, <1>t DEF In, UsersInv
      <4>3. CASE v # u /\ w # u
        BY <4>3, <3>2, <2>2, <1>t DEF UsersInv
      <4> QED
        BY <4>1, <4>2, <4>3
    <3>3. \A v \in Users : \A i \in DOMAIN mine'[v] : Authentic(mine[v][i])'
      BY <3>1, <1>u DEF Authentic
    <3> QED
      BY <3>1, <3>2, <3>3, <1>u DEF UsersInv
  <2>6. NoLeak'
    <3> SUFFICES ASSUME NEW k \in Numbers, table[k] \in Slots
                 PROVE  \E v \in Users : In(k, mine'[v])
      BY <1>u DEF NoLeak
    <3>1. In(k, owned) \/ \E v \in Users : In(k, mine[v])
      BY <1>r, <1>e, <1>t DEF NoLeak, In
    <3> QED
      BY <3>1, <2>2, <1>r, <1>e DEF In
  <2> QED
    BY <2>3, <2>5, <2>6, <1>2, <1>3, <1>6 DEF FdInv
<1> QED
  BY <1>7, <1>8

-----------------------------------------------------------------------------
(* Everybody else. *)

(* Another part of the process opens a file: it gets a free number. *)
LEMMA OpensStep == ASSUME NEW t \in Tenants PROVE FdInv /\ TenantOpens(t) => FdInv'
<1> SUFFICES ASSUME FdInv, TenantOpens(t) PROVE FdInv'
  OBVIOUS
<1>t. FdTypeOK /\ CaptureInv /\ ObjectInv /\ UsersInv /\ NoLeak /\ TenantsInv
  BY DEF FdInv
<1>u. /\ held[t] = Nothing
      /\ capture' = capture /\ slot' = slot /\ memfd' = memfd /\ captured' = captured
      /\ source' = source /\ payload' = payload /\ sealed' = sealed
      /\ owned' = owned /\ closed' = closed /\ act' = act /\ mine' = mine
  BY DEF TenantOpens, captureVars, contentVars, objectVars
<1>n. PICK n \in Numbers : /\ table[n] = Nothing /\ table' = [table EXCEPT ![n] = t]
                           /\ held' = [held EXCEPT ![t] = n]
  BY DEF TenantOpens, Opened
<1>x. /\ table' \in [Numbers -> {Nothing} \cup Slots \cup Tenants]
      /\ \A k \in Numbers : table'[k] = IF k = n THEN t ELSE table[k]
  BY <1>n, <1>t DEF FdTypeOK
<1>1. FdTypeOK'
  BY <1>t, <1>u, <1>n, <1>x DEF FdTypeOK
<1>2. CaptureInv'
  BY <1>t, <1>u, <1>n, <1>x DEF CaptureInv, FdTypeOK
<1>q. \A k \in Numbers : Authentic(k) => Authentic(k)'
  BY <1>x, <1>n, <1>u DEF Authentic
<1>3. ObjectInv'
  <2>1. \A i \in DOMAIN owned : owned[i] \in Numbers
    BY <1>t DEF FdTypeOK
  <2>2. capture = "verify" => \A s \in 1 .. slot - 1 : owned[s] \in Numbers
    BY <1>t DEF FdTypeOK, ObjectInv, CaptureInv
  <2> QED
    BY <2>1, <2>2, <1>t, <1>u, <1>x, <1>q, <1>n DEF ObjectInv, Authentic
<1>4. UsersInv'
  <2>1. \A v \in Users : \A i \in DOMAIN mine[v] :
          mine[v][i] \in Numbers /\ Authentic(mine[v][i])
    BY <1>t DEF FdTypeOK, UsersInv
  <2>2. \A v \in Users : \A i \in DOMAIN mine[v] : Authentic(mine[v][i])'
    BY <2>1, <1>x, <1>n, <1>u DEF Authentic
  <2> QED
    BY <2>2, <1>t, <1>u DEF UsersInv, In
<1>5. NoLeak'
  BY <1>t, <1>u, <1>x DEF NoLeak, In
<1>6. TenantsInv'
  BY <1>t, <1>u, <1>x, <1>n DEF TenantsInv, DescriptorsKept, FdTypeOK
<1> QED
  BY <1>1, <1>2, <1>3, <1>4, <1>5, <1>6 DEF FdInv

(* A tenant closes its own file; only after a snapshot that failed may the  *)
(* number have become another tenant's.                                    *)
LEMMA ClosesStep == ASSUME NEW t \in Tenants PROVE FdInv /\ TenantCloses(t) => FdInv'
<1> SUFFICES ASSUME FdInv, TenantCloses(t) PROVE FdInv'
  OBVIOUS
<1>t. FdTypeOK /\ CaptureInv /\ ObjectInv /\ UsersInv /\ NoLeak /\ TenantsInv
  BY DEF FdInv
<1>u. /\ held[t] # Nothing
      /\ capture' = capture /\ slot' = slot /\ memfd' = memfd /\ captured' = captured
      /\ source' = source /\ payload' = payload /\ sealed' = sealed
      /\ owned' = owned /\ closed' = closed /\ act' = act /\ mine' = mine
  BY DEF TenantCloses, captureVars, contentVars, objectVars
<1> DEFINE n == held[t]
<1>n. /\ n \in Numbers /\ table' = [table EXCEPT ![n] = Nothing]
      /\ held' = [held EXCEPT ![t] = Nothing]
  BY <1>u, <1>t DEF TenantCloses, Close, FdTypeOK
<1>x. /\ table' \in [Numbers -> {Nothing} \cup Slots \cup Tenants]
      /\ \A k \in Numbers : table'[k] = IF k = n THEN Nothing ELSE table[k]
  BY <1>n, <1>t DEF FdTypeOK
<1>f. table[n] \notin Slots
  <2>1. CASE capture = "failed"
    <3>1. \A u \in Users : mine[u] = <<>>
      BY <2>1, NoUsers
    <3> QED
      BY <2>1, <3>1, <1>t, <1>n DEF NoLeak, In, CaptureInv
  <2>2. CASE capture # "failed"
    BY <2>2, <1>t, <1>u DEF TenantsInv, DescriptorsKept
  <2> QED
    BY <2>1, <2>2
<1> HIDE DEF n
<1>1. FdTypeOK'
  BY <1>t, <1>u, <1>n, <1>x DEF FdTypeOK
<1>2. CaptureInv'
  <2>1. \A i \in DOMAIN captured : captured[i] \in Numbers /\ i \in Slots
    BY <1>t DEF FdTypeOK, CaptureInv
  <2>2. memfd # Nothing => memfd \in Numbers /\ Len(captured) + 1 \in Slots
    BY <1>t DEF FdTypeOK, CaptureInv
  <2> QED
    BY <2>1, <2>2, <1>t, <1>u, <1>f, <1>x DEF CaptureInv
<1>3. ObjectInv'
  <2>1. \A i \in DOMAIN owned : owned[i] \in Numbers
    BY <1>t DEF FdTypeOK
  <2>2. capture = "verify" => \A s \in 1 .. slot - 1 : owned[s] \in Numbers
    BY <1>t DEF FdTypeOK, ObjectInv, CaptureInv
  <2> QED
    BY <2>1, <2>2, <1>t, <1>u, <1>x, <1>f, <1>n DEF ObjectInv, Authentic
<1>4. UsersInv'
  <2>1. \A v \in Users : \A i \in DOMAIN mine[v] :
          mine[v][i] \in Numbers /\ Authentic(mine[v][i])
    BY <1>t DEF FdTypeOK, UsersInv
  <2>2. \A v \in Users : \A i \in DOMAIN mine[v] : Authentic(mine[v][i])'
    BY <2>1, <1>x, <1>f, <1>u DEF Authentic
  <2> QED
    BY <2>2, <1>t, <1>u DEF UsersInv, In
<1>5. NoLeak'
  BY <1>t, <1>u, <1>x DEF NoLeak, In
<1>6. TenantsInv'
  <2>1. CASE capture = "failed" /\ closed
    BY <2>1, <1>u DEF TenantsInv
  <2>2. CASE ~(capture = "failed" /\ closed)
    BY <2>2, <1>t, <1>u, <1>n, <1>x DEF TenantsInv, DescriptorsKept, FdTypeOK, n
  <2> QED
    BY <2>1, <2>2
<1> QED
  BY <1>1, <1>2, <1>3, <1>4, <1>5, <1>6 DEF FdInv

(* No write reaches a sealed memfd. *)
LEMMA TamperStep ==
  ASSUME NEW s \in Slots
  PROVE  FdInv /\ (WriteSource(s) \/ WriteMemfd(s)) => FdInv'
<1> SUFFICES ASSUME FdInv, WriteSource(s) \/ WriteMemfd(s) PROVE FdInv'
  OBVIOUS
<1>t. FdTypeOK /\ CaptureInv /\ ObjectInv /\ UsersInv /\ NoLeak /\ TenantsInv
  BY DEF FdInv
<1>u. /\ capture' = capture /\ slot' = slot /\ memfd' = memfd /\ captured' = captured
      /\ sealed' = sealed /\ table' = table /\ held' = held
      /\ owned' = owned /\ closed' = closed /\ act' = act /\ mine' = mine
  BY DEF WriteSource, WriteMemfd, captureVars, objectVars, threadVars
<1>p. /\ source' \in [Slots -> {"right", "wrong"}]
      /\ payload' \in [Slots -> {"empty", "right", "wrong"}]
      /\ \A q \in Slots : sealed[q] => payload'[q] = payload[q]
  <2>1. CASE WriteSource(s)
    BY <2>1, <1>t DEF WriteSource, FdTypeOK
  <2>2. CASE WriteMemfd(s)
    BY <2>2, <1>t DEF WriteMemfd, FdTypeOK
  <2> QED
    BY <2>1, <2>2
<1>q. \A k \in Numbers : Authentic(k) => Authentic(k)'
  BY <1>p, <1>u DEF Authentic
<1>1. FdTypeOK'
  BY <1>t, <1>u, <1>p DEF FdTypeOK
<1>2. CaptureInv' /\ NoLeak' /\ TenantsInv'
  BY <1>t, <1>u DEF CaptureInv, NoLeak, In, TenantsInv, DescriptorsKept
<1>3. ObjectInv'
  BY <1>t, <1>u, <1>p DEF ObjectInv, Authentic
<1>4. UsersInv'
  <2>1. \A v \in Users : \A i \in DOMAIN mine[v] : Authentic(mine[v][i])'
    BY <1>t, <1>u, <1>p DEF Authentic, UsersInv
  <2> QED
    BY <2>1, <1>t, <1>u DEF UsersInv, In
<1> QED
  BY <1>1, <1>2, <1>3, <1>4 DEF FdInv

(* A step that changes nothing. *)
LEMMA FdStutterStep == FdInv /\ UNCHANGED fdVars => FdInv'
<1> SUFFICES ASSUME FdInv, UNCHANGED fdVars PROVE FdInv'
  OBVIOUS
<1>t. FdTypeOK /\ CaptureInv /\ ObjectInv /\ UsersInv /\ NoLeak /\ TenantsInv
  BY DEF FdInv
<1>u. /\ capture' = capture /\ slot' = slot /\ memfd' = memfd /\ captured' = captured
      /\ source' = source /\ payload' = payload /\ sealed' = sealed /\ table' = table
      /\ held' = held /\ owned' = owned /\ closed' = closed /\ act' = act /\ mine' = mine
      /\ lock' = lock
  BY DEF fdVars
<1>1. FdTypeOK' /\ CaptureInv'
  BY <1>t, <1>u DEF FdTypeOK, CaptureInv
<1>2. ObjectInv' /\ UsersInv'
  BY <1>t, <1>u DEF ObjectInv, UsersInv, Authentic, In
<1>3. NoLeak' /\ TenantsInv'
  BY <1>t, <1>u DEF NoLeak, In, TenantsInv, DescriptorsKept
<1> QED
  BY <1>1, <1>2, <1>3 DEF FdInv

(* Every step keeps the invariant. *)
LEMMA InvStep == FdInv /\ [FdNext]_fdVars => FdInv'
<1>1. FdInv /\ (\E u \in Users : Method(u)) => FdInv'
  BY DuplicateStep, ReopenStep, ReturnStep, RefuseStep, TakeOwnedStep, CloseMineStep
     DEF Method
<1>2. FdInv /\ Elsewhere => FdInv'
  BY OpensStep, ClosesStep, TamperStep DEF Elsewhere
<1> QED
  BY <1>1, <1>2, RaiseStep, FirstScanStep, CreateStep, CopyStep, SealStep, SecondScanStep,
     PostInitStep, CleanupStep, FinalizerStep, FdStutterStep DEF FdNext

(* Every descriptor that the snapshot holds or has given out is sealed  *)
(* and right, none is left open that nobody will close, and unless the  *)
(* verification of a new object failed nobody loses a descriptor to the *)
(* close of another: for any number of files, threads, tenants and      *)
(* writes.                                                              *)
THEOREM SnapshotRightCorrect == FdSpec => []SnapshotRight
<1>1. FdInv => SnapshotRight
  <2> SUFFICES ASSUME FdInv PROVE SnapshotRight
    OBVIOUS
  <2>t. FdTypeOK /\ CaptureInv /\ ObjectInv /\ UsersInv /\ NoLeak /\ TenantsInv
    BY DEF FdInv
  <2>1. \A n \in Handles : Authentic(n)
    <3> SUFFICES ASSUME NEW n \in Handles PROVE Authentic(n)
      OBVIOUS
    <3>1. CASE capture = "ready" /\ In(n, owned)
      BY <3>1, <2>t DEF ObjectInv, In
    <3>2. CASE \E u \in Users : In(n, mine[u])
      BY <3>2, <2>t DEF UsersInv, In
    <3> QED
      BY <3>1, <3>2 DEF Handles, ToSet, In
  <2>2. \A n \in Numbers : table[n] \in Slots => n \in Accountable
    BY <2>t DEF NoLeak, Accountable, ToSet, In
  <2>3. capture = "failed" => \A n \in Numbers : table[n] \notin Slots
    <3> SUFFICES ASSUME capture = "failed" PROVE \A n \in Numbers : table[n] \notin Slots
      OBVIOUS
    <3>1. \A u \in Users : mine[u] = <<>>
      BY NoUsers
    <3>2. captured = <<>> /\ memfd = Nothing
      BY <2>t DEF CaptureInv
    <3> QED
      BY <3>1, <3>2, <2>t DEF NoLeak, In
  <2>4. ~(capture = "failed" /\ closed) => DescriptorsKept
    BY <2>t DEF TenantsInv
  <2> QED
    BY <2>1, <2>2, <2>3, <2>4 DEF SnapshotRight
<1> QED
  BY FdInitInv, InvStep, <1>1, PTL DEF FdSpec

(***************************************************************************)
(* CpuAccounting: CpuRight.  A sum over processes is the number of its      *)
(* units, so that the facts about cardinalities take the place of an        *)
(* induction.                                                              *)
(***************************************************************************)
(* The life of a process. *)
States == {"unborn", "live", "zombie", "reaped"}

(* The types of all variables. *)
CpuTypeOK ==
  /\ life \in [Procs -> States] /\ parent \in [Procs -> {PidOne} \cup Procs]
  /\ own \in [Procs -> Nat] /\ children \in [Procs -> Nat]
  /\ consumed \in Nat /\ lost \in Nat
  /\ pc \in {"reap", "scan", "account", "end"}
  /\ listed \in SUBSET Procs /\ position \in 0 .. MaxProcs
  /\ live_cpu \in Nat /\ wait4_cpu \in Nat /\ cumulative_cpu \in Nat
  /\ all_reaped \in BOOLEAN /\ consumed_before \in Nat /\ quiet \in BOOLEAN

(* The time a process would hand over to the one who waits for it. *)
Due == [p \in Procs |-> IF p \in Present THEN own[p] + children[p] ELSE 0]

(* The sum of a function over a set, without recursion: its units counted. *)
Units(due, S) == UNION {{p} \X (1 .. due[p]) : p \in S}

(* The sum of due over S. *)
Total(due, S) == Cardinality(Units(due, S))

(* What the scan has still to come across. *)
After(i) == {p \in Procs : p > i}

(* The processes after the last one scanned. *)
Unscanned == After(position)

(* A process that is not a child of PID 1 has a parent that lives and is  *)
(* older; PIDs are given in order; and when PID 1 has no child, nobody is *)
(* left.                                                                  *)
FamilyTree ==
  /\ \A p \in Procs : p \in Present /\ parent[p] # PidOne =>
       life[parent[p]] = "live" /\ parent[p] < p
  /\ \A p, q \in Procs : life[p] = "unborn" /\ p < q => life[q] = "unborn"
  /\ \A p \in Procs : life[p] = "unborn" => own[p] = 0 /\ children[p] = 0
  /\ all_reaped => Present = {}

(* Every microsecond is with PID 1, with a process that is there, or *)
(* dropped.                                                          *)
NothingLost == wait4_cpu + lost + Total(Due, Procs) = consumed

(* What was scanned and what is still to be scanned is never more than    *)
(* what was used: time moves from a child to its older parent, so against *)
(* the direction of the scan.                                             *)
ScanInv ==
  /\ pc = "scan" => wait4_cpu + live_cpu + Total(Due, Unscanned) <= consumed
  /\ pc = "account" => wait4_cpu + live_cpu <= consumed
  /\ cumulative_cpu <= consumed

(* What the rounding of two fields of one process can lose. *)
Slack == 2 * (Tick - 1)

(* In a scan that no wait disturbs nothing that was used before it is *)
(* missed.                                                            *)
QuietInv ==
  /\ quiet /\ pc = "scan" =>
       /\ listed \subseteq Present
       /\ consumed_before <=
            wait4_cpu + lost + live_cpu + Slack * Cardinality(listed \ Unscanned)
              + Total(Due, listed \cap Unscanned)
  /\ quiet /\ pc = "account" =>
       consumed_before <= wait4_cpu + lost + live_cpu + Slack * Cardinality(listed)

(* The inductive invariant. *)
CpuInv == CpuTypeOK /\ FamilyTree /\ NothingLost /\ ScanInv /\ QuietInv

USE AccountingAssumption

(* There are finitely many units. *)
LEMMA UnitsFinite ==
  ASSUME NEW due \in [Procs -> Nat], NEW S \in SUBSET Procs
  PROVE  IsFiniteSet(Units(due, S)) /\ Total(due, S) \in Nat
<1> DEFINE pieces == [p \in S |-> {p} \X (1 .. due[p])]
           all == {pieces[p] : p \in S}
<1>1. IsFiniteSet(S)
  <2>1. IsFiniteSet(Procs)
    BY FS_Interval DEF Procs
  <2> QED
    BY <2>1, FS_Subset
<1>2. IsFiniteSet(all)
  <2>1. pieces \in Surjection(S, all)
    BY DEF Surjection
  <2> QED
    BY <1>1, <2>1, FS_Surjection
<1>3. \A T \in all : IsFiniteSet(T)
  <2> SUFFICES ASSUME NEW p \in S PROVE IsFiniteSet(pieces[p])
    OBVIOUS
  <2>1. IsFiniteSet({p})
    BY FS_Singleton
  <2>2. IsFiniteSet(1 .. due[p])
    BY FS_Interval
  <2>3. IsFiniteSet({p} \X (1 .. due[p]))
    BY <2>1, <2>2, FS_Product
  <2> QED
    BY <2>3
<1>4. Units(due, S) = UNION all
  BY DEF Units
<1>5. IsFiniteSet(Units(due, S))
  BY <1>2, <1>3, <1>4, FS_UNION
<1> QED
  BY <1>5, FS_CardinalityType DEF Total

(* One member of the sum taken out of it. *)
LEMMA TotalSplit ==
  ASSUME NEW due \in [Procs -> Nat], NEW S \in SUBSET Procs, NEW p \in S
  PROVE  Total(due, S) = Total(due, S \ {p}) + due[p]
<1> DEFINE rest == Units(due, S \ {p})
           its == {p} \X (1 .. due[p])
<1>1. IsFiniteSet(rest) /\ Cardinality(rest) \in Nat
  <2>1. S \ {p} \in SUBSET Procs
    OBVIOUS
  <2> QED
    BY <2>1, UnitsFinite DEF Total
<1>2. IsFiniteSet(its) /\ Cardinality(its) = due[p]
  <2>0. due[p] \in Nat
    OBVIOUS
  <2>1. IsFiniteSet({p}) /\ Cardinality({p}) = 1
    BY FS_Singleton
  <2>2. IsFiniteSet(1 .. due[p]) /\ Cardinality(1 .. due[p]) = due[p]
    BY <2>0, FS_Interval
  <2>3. /\ IsFiniteSet(its)
        /\ Cardinality(its) = Cardinality({p}) * Cardinality(1 .. due[p])
    BY <2>1, <2>2, FS_Product
  <2>4. Cardinality(its) = 1 * due[p]
    BY <2>1, <2>2, <2>3
  <2> QED
    BY <2>0, <2>3, <2>4
<1>3. Units(due, S) = rest \cup its
  BY DEF Units
<1>4. rest \cap its = {}
  BY DEF Units
<1>5. Cardinality(rest \cap its) = 0
  BY <1>4, FS_EmptySet
<1>6. Cardinality(rest \cup its) = Cardinality(rest) + Cardinality(its) - Cardinality(rest \cap its)
  BY <1>1, <1>2, FS_Union
<1> QED
  BY <1>1, <1>2, <1>3, <1>5, <1>6 DEF Total

(* Two sums that differ in zeros only are the same. *)
LEMMA SameTotal ==
  ASSUME NEW due \in [Procs -> Nat], NEW later \in [Procs -> Nat],
         NEW S \in SUBSET Procs, NEW T \in SUBSET Procs,
         \A p \in S : due[p] = 0 \/ (p \in T /\ later[p] = due[p]),
         \A p \in T : later[p] = 0 \/ (p \in S /\ later[p] = due[p])
  PROVE  Total(later, T) = Total(due, S)
<1>1. \A u : u \in Units(later, T) <=> \E p \in T : u \in {p} \X (1 .. later[p])
  BY DEF Units
<1>2. \A u : u \in Units(due, S) <=> \E p \in S : u \in {p} \X (1 .. due[p])
  BY DEF Units
<1>3. \A p \in Procs : \A u : due[p] = 0 => u \notin {p} \X (1 .. due[p])
  OBVIOUS
<1>4. \A p \in Procs : \A u : later[p] = 0 => u \notin {p} \X (1 .. later[p])
  OBVIOUS
<1>5. Units(later, T) = Units(due, S)
  BY <1>1, <1>2, <1>3, <1>4, Zenon
<1> QED
  BY <1>5 DEF Total

(* The empty sum. *)
LEMMA NoTotal == ASSUME NEW due PROVE Total(due, {}) = 0
<1>1. Units(due, {}) = {}
  BY DEF Units
<1> QED
  BY <1>1, FS_EmptySet DEF Total

(* What one change of a function does to its sums. *)
LEMMA OneChanges ==
  ASSUME NEW due \in [Procs -> Nat], NEW later \in [Procs -> Nat],
         NEW p \in Procs, \A q \in Procs : q # p => later[q] = due[q],
         NEW S \in SUBSET Procs
  PROVE  /\ Total(due, S) \in Nat /\ Total(later, S) \in Nat
         /\ p \in S => Total(later, S) = Total(due, S) - due[p] + later[p]
         /\ p \notin S => Total(later, S) = Total(due, S)
<1>1. Total(due, S) \in Nat /\ Total(later, S) \in Nat
  BY UnitsFinite
<1>2. CASE p \in S
  <2>1. S \ {p} \in SUBSET Procs
    OBVIOUS
  <2>2. Total(later, S \ {p}) = Total(due, S \ {p})
    BY <2>1, SameTotal
  <2>3. Total(due, S \ {p}) \in Nat
    BY <2>1, UnitsFinite
  <2>4. Total(due, S) = Total(due, S \ {p}) + due[p]
    BY <1>2, TotalSplit
  <2>5. Total(later, S) = Total(later, S \ {p}) + later[p]
    BY <1>2, TotalSplit
  <2>6. due[p] \in Nat /\ later[p] \in Nat
    OBVIOUS
  <2> QED
    BY <1>1, <1>2, <2>2, <2>3, <2>4, <2>5, <2>6
<1>3. CASE p \notin S
  <2>1. Total(later, S) = Total(due, S)
    BY <1>3, SameTotal
  <2> QED
    BY <1>1, <1>3, <2>1
<1> QED
  BY <1>2, <1>3

(* What lies in a part lies in the whole. *)
LEMMA PartOf ==
  ASSUME NEW due \in [Procs -> Nat], NEW S \in SUBSET Procs, NEW T \in SUBSET S
  PROVE  Total(due, T) <= Total(due, S)
<1>1. Units(due, T) \in SUBSET Units(due, S)
  BY DEF Units
<1>2. IsFiniteSet(Units(due, S))
  BY UnitsFinite
<1> QED
  BY <1>1, <1>2, FS_Subset DEF Total

(* What is due is a number. *)
LEMMA DueType == CpuTypeOK => Due \in [Procs -> Nat]
BY DEF CpuTypeOK, Due

(* The invariants of the next state, in words that the lemmas on totals use. *)
LEMMA NextSays ==
  /\ NothingLost' <=> wait4_cpu' + lost' + Total(Due', Procs) = consumed'
  /\ ScanInv' <=>
       /\ pc' = "scan" =>
            wait4_cpu' + live_cpu' + Total(Due', After(position')) <= consumed'
       /\ pc' = "account" => wait4_cpu' + live_cpu' <= consumed'
       /\ cumulative_cpu' <= consumed'
  /\ QuietInv' <=>
       /\ quiet' /\ pc' = "scan" =>
            /\ listed' \subseteq Present'
            /\ consumed_before' <=
                 wait4_cpu' + lost' + live_cpu'
                   + Slack * Cardinality(listed' \ After(position'))
                   + Total(Due', listed' \cap After(position'))
       /\ quiet' /\ pc' = "account" =>
            consumed_before' <=
              wait4_cpu' + lost' + live_cpu' + Slack * Cardinality(listed')
  BY DEF NothingLost, ScanInv, QuietInv, Total, Units, Due, Unscanned, After, Slack

(* The slack of a set of processes is a number. *)
LEMMA SlackType ==
  /\ Slack \in Nat
  /\ \A S \in SUBSET Procs : Cardinality(S) \in Nat /\ Slack * Cardinality(S) \in Nat
<1>1. Slack \in Nat
  BY DEF Slack
<1>2. ASSUME NEW S \in SUBSET Procs PROVE Cardinality(S) \in Nat
  <2>1. IsFiniteSet(Procs)
    BY FS_Interval DEF Procs
  <2>2. IsFiniteSet(S)
    BY <2>1, FS_Subset
  <2> QED
    BY <2>2, FS_CardinalityType
<1>3. \A n \in Nat : Slack * n \in Nat
  BY <1>1
<1> QED
  BY <1>1, <1>2, <1>3

(* What the watcher has in hand, while the processes go on and none is lost. *)
LEMMA NobodyWaits ==
  ASSUME CpuTypeOK, NothingLost, ScanInv, QuietInv, UNCHANGED supervisorVars,
         NEW more \in Nat,
         consumed' = consumed + more, lost' = lost, quiet' = quiet,
         Present \subseteq Present', Due' \in [Procs -> Nat],
         \A S \in SUBSET Procs :
            /\ Total(Due, S) <= Total(Due', S)
            /\ Total(Due', S) <= Total(Due, S) + more,
         Total(Due', Procs) = Total(Due, Procs) + more
  PROVE  NothingLost' /\ ScanInv' /\ QuietInv'
<1> DEFINE n == Slack * Cardinality(listed \ After(position))
           m == Slack * Cardinality(listed)
<1>1. /\ pc' = pc /\ listed' = listed /\ position' = position /\ live_cpu' = live_cpu
      /\ wait4_cpu' = wait4_cpu /\ cumulative_cpu' = cumulative_cpu
      /\ consumed_before' = consumed_before
  BY DEF supervisorVars
<1>2. /\ After(position) \in SUBSET Procs /\ listed \cap After(position) \in SUBSET Procs
      /\ listed \in SUBSET Procs /\ listed \ After(position) \in SUBSET Procs
  BY DEF After, CpuTypeOK
<1>3. \A S \in SUBSET Procs : Total(Due, S) \in Nat /\ Total(Due', S) \in Nat
  BY UnitsFinite, DueType
<1>4. n \in Nat /\ m \in Nat
  BY <1>2, SlackType
<1>5. NothingLost'
  <2>1. wait4_cpu + lost + Total(Due, Procs) = consumed
    BY DEF NothingLost
  <2>2. Total(Due, Procs) \in Nat
    BY <1>3
  <2>3. wait4_cpu' + lost' + Total(Due', Procs) = consumed'
    BY <1>1, <2>1, <2>2 DEF CpuTypeOK
  <2> QED
    BY <2>3, NextSays
<1>6. ScanInv'
  <2>1. /\ pc = "scan" =>
             wait4_cpu + live_cpu + Total(Due, After(position)) <= consumed
        /\ pc = "account" => wait4_cpu + live_cpu <= consumed
        /\ cumulative_cpu <= consumed
    BY DEF ScanInv, Unscanned
  <2>2. /\ Total(Due', After(position)) <= Total(Due, After(position)) + more
        /\ Total(Due, After(position)) \in Nat /\ Total(Due', After(position)) \in Nat
    BY <1>2, <1>3
  <2>3. pc' = "scan" =>
          wait4_cpu' + live_cpu' + Total(Due', After(position')) <= consumed'
    BY <1>1, <2>1, <2>2 DEF CpuTypeOK
  <2>4. /\ pc' = "account" => wait4_cpu' + live_cpu' <= consumed'
        /\ cumulative_cpu' <= consumed'
    BY <1>1, <2>1 DEF CpuTypeOK
  <2> QED
    BY <2>3, <2>4, NextSays
<1>7. QuietInv'
  <2>1. /\ quiet /\ pc = "scan" =>
             /\ listed \subseteq Present
             /\ consumed_before <=
                  wait4_cpu + lost + live_cpu + n + Total(Due, listed \cap After(position))
        /\ quiet /\ pc = "account" => consumed_before <= wait4_cpu + lost + live_cpu + m
    BY DEF QuietInv, Unscanned
  <2>2. /\ Total(Due, listed \cap After(position)) <= Total(Due', listed \cap After(position))
        /\ Total(Due, listed \cap After(position)) \in Nat
        /\ Total(Due', listed \cap After(position)) \in Nat
    BY <1>2, <1>3
  <2>3. /\ quiet' /\ pc' = "scan" =>
             /\ listed' \subseteq Present'
             /\ consumed_before' <=
                  wait4_cpu' + lost' + live_cpu' + n
                    + Total(Due', listed' \cap After(position'))
        /\ quiet' /\ pc' = "account" =>
             consumed_before' <= wait4_cpu' + lost' + live_cpu' + m
    <3> HIDE DEF n, m
    <3> QED
      BY <1>1, <1>4, <2>1, <2>2 DEF CpuTypeOK
  <2> QED
    BY <1>1, <2>3, NextSays
<1> QED
  BY <1>5, <1>6, <1>7

(* A process uses CPU time. *)
LEMMA BurnStep ==
  ASSUME CpuInv, NEW p \in Procs, Burn(p), UNCHANGED supervisorVars
  PROVE  CpuInv'
<1>t. CpuTypeOK /\ FamilyTree /\ NothingLost /\ ScanInv /\ QuietInv
  BY DEF CpuInv
<1>u. /\ life[p] = "live" /\ own' = [own EXCEPT ![p] = @ + 1] /\ consumed' = consumed + 1
      /\ life' = life /\ parent' = parent /\ children' = children /\ lost' = lost
      /\ quiet' = quiet
  BY DEF Burn
<1>1. CpuTypeOK'
  BY <1>t, <1>u DEF CpuTypeOK, supervisorVars
<1>2. FamilyTree'
  BY <1>t, <1>u DEF FamilyTree, Present, CpuTypeOK, supervisorVars
<1>3. Due \in [Procs -> Nat] /\ Due' \in [Procs -> Nat]
  BY <1>t, <1>1, DueType DEF CpuTypeOK, Due
<1>4. Due'[p] = Due[p] + 1 /\ \A q \in Procs : q # p => Due'[q] = Due[q]
  BY <1>t, <1>u DEF Due, Present, CpuTypeOK
<1>5. \A S \in SUBSET Procs :
        /\ Total(Due, S) \in Nat /\ Total(Due', S) \in Nat
        /\ p \in S => Total(Due', S) = Total(Due, S) - Due[p] + Due'[p]
        /\ p \notin S => Total(Due', S) = Total(Due, S)
  <2> HIDE DEF Due
  <2> QED
    BY <1>3, <1>4, OneChanges
<1>6. \A S \in SUBSET Procs :
        /\ Total(Due, S) <= Total(Due', S)
        /\ Total(Due', S) <= Total(Due, S) + 1
        /\ p \in S => Total(Due', S) = Total(Due, S) + 1
  BY <1>3, <1>4, <1>5
<1>7. Present' = Present
  BY <1>u DEF Present
<1> QED
  BY <1>t, <1>u, <1>1, <1>2, <1>3, <1>6, <1>7, NobodyWaits DEF CpuInv

(* One more process, which has used nothing, or one process less that runs. *)
LEMMA NothingDue ==
  ASSUME CpuTypeOK, NothingLost, ScanInv, QuietInv, UNCHANGED supervisorVars,
         consumed' = consumed, lost' = lost, quiet' = quiet,
         Present \subseteq Present', Due' = Due
  PROVE  NothingLost' /\ ScanInv' /\ QuietInv'
<1>1. Due \in [Procs -> Nat] /\ Due' \in [Procs -> Nat]
  BY DueType
<1>2. \A S \in SUBSET Procs : Total(Due, S) \in Nat
  BY <1>1, UnitsFinite
<1>3. \A S \in SUBSET Procs :
        /\ Total(Due, S) <= Total(Due', S)
        /\ Total(Due', S) <= Total(Due, S) + 0
  <2> SUFFICES ASSUME NEW S \in SUBSET Procs
               PROVE  /\ Total(Due, S) <= Total(Due', S)
                      /\ Total(Due', S) <= Total(Due, S) + 0
    OBVIOUS
  <2>1. Total(Due', S) = Total(Due, S)
    OBVIOUS
  <2> QED
    BY <1>2, <2>1
<1>4. Procs \in SUBSET Procs
  OBVIOUS
<1>5. Total(Due', Procs) = Total(Due, Procs) + 0
  <2>1. Total(Due', Procs) = Total(Due, Procs)
    OBVIOUS
  <2>2. Total(Due, Procs) \in Nat
    BY <1>2, <1>4
  <2> QED
    BY <2>1, <2>2
<1>6. consumed' = consumed + 0
  BY DEF CpuTypeOK
<1> QED
  BY <1>1, <1>3, <1>5, <1>6, NobodyWaits

(* A process forks: the child is the youngest of all. *)
LEMMA SpawnStep ==
  ASSUME CpuInv, NEW p \in Procs, NEW child \in Procs, Spawn(p, child),
         UNCHANGED supervisorVars
  PROVE  CpuInv'
<1>t. CpuTypeOK /\ FamilyTree /\ NothingLost /\ ScanInv /\ QuietInv
  BY DEF CpuInv
<1>u. /\ life[p] = "live" /\ life[child] = "unborn"
      /\ \A q \in Procs : q < child => life[q] # "unborn"
      /\ life' = [life EXCEPT ![child] = "live"]
      /\ parent' = [parent EXCEPT ![child] = p]
      /\ own' = own /\ children' = children /\ consumed' = consumed /\ lost' = lost
      /\ quiet' = quiet
  BY DEF Spawn
<1>1. CpuTypeOK'
  <2>1. life' \in [Procs -> States] /\ parent' \in [Procs -> {PidOne} \cup Procs]
    BY <1>t, <1>u DEF CpuTypeOK, States
  <2> QED
    BY <1>t, <1>u, <2>1 DEF CpuTypeOK, supervisorVars
<1>2. p < child
  <2>1. p # child /\ ~(child < p)
    BY <1>t, <1>u DEF FamilyTree
  <2> QED
    BY <2>1 DEF Procs
<1>3. /\ \A q \in Procs : q # child => life'[q] = life[q] /\ parent'[q] = parent[q]
      /\ life'[child] = "live" /\ parent'[child] = p
  BY <1>t, <1>u DEF CpuTypeOK
<1>4. Present' = Present \cup {child}
  BY <1>3 DEF Present
<1>5. FamilyTree'
  <2>1. \A q \in Procs : q \in Present' /\ parent'[q] # PidOne =>
           life'[parent'[q]] = "live" /\ parent'[q] < q
    <3> SUFFICES ASSUME NEW q \in Procs, q \in Present', parent'[q] # PidOne
                 PROVE  life'[parent'[q]] = "live" /\ parent'[q] < q
      OBVIOUS
    <3>1. CASE q = child
      BY <3>1, <1>u, <1>2, <1>3
    <3>2. CASE q # child
      <4>1. life[parent[q]] = "live" /\ parent[q] < q /\ parent[q] \in Procs
        BY <3>2, <1>t, <1>3, <1>4 DEF FamilyTree, CpuTypeOK
      <4> QED
        BY <4>1, <3>2, <1>u, <1>3
    <3> QED
      BY <3>1, <3>2
  <2>2. \A q, r \in Procs : life'[q] = "unborn" /\ q < r => life'[r] = "unborn"
    <3> SUFFICES ASSUME NEW q \in Procs, NEW r \in Procs, life'[q] = "unborn", q < r
                 PROVE  life'[r] = "unborn"
      OBVIOUS
    <3>1. q # child /\ life[q] = "unborn" /\ life[r] = "unborn"
      BY <1>t, <1>3 DEF FamilyTree
    <3>2. r # child
      BY <1>u, <3>1
    <3> QED
      BY <1>3, <3>1, <3>2
  <2>3. \A q \in Procs : life'[q] = "unborn" => own'[q] = 0 /\ children'[q] = 0
    BY <1>t, <1>u, <1>3 DEF FamilyTree
  <2>4. ~all_reaped
    BY <1>t, <1>u DEF FamilyTree, Present
  <2>5. all_reaped' = all_reaped
    BY DEF supervisorVars
  <2> QED
    BY <2>1, <2>2, <2>3, <2>4, <2>5 DEF FamilyTree
<1>6. own[child] + children[child] = 0
  BY <1>t, <1>u DEF FamilyTree
<1>7. Due' = Due
  BY <1>u, <1>4, <1>6 DEF Due
<1> QED
  BY <1>t, <1>u, <1>1, <1>4, <1>5, <1>7, NothingDue DEF CpuInv

(* What is left of a family when one of its members ends.  Its children are *)
(* PID 1's from now on.                                                     *)
LEMMA FamilyGoesOn ==
  ASSUME CpuTypeOK, FamilyTree, NEW p \in Procs, life[p] = "live",
         NEW state \in {"zombie", "reaped"},
         life' = [life EXCEPT ![p] = state], parent' = Adopted(p),
         own' = own, children' = children, all_reaped' = all_reaped
  PROVE  FamilyTree'
<1>1. \A q \in Procs : q # p => life'[q] = life[q]
  BY DEF CpuTypeOK
<1>2. life'[p] = state /\ life'[p] # "unborn"
  BY DEF CpuTypeOK
<1>3. \A q \in Procs :
        /\ parent[q] = p => parent'[q] = PidOne
        /\ parent[q] # p => parent'[q] = parent[q]
  BY DEF Adopted
<1>4. Present' \subseteq Present
  BY <1>1, <1>2 DEF Present
<1>5. \A q \in Procs : q \in Present' /\ parent'[q] # PidOne =>
        life'[parent'[q]] = "live" /\ parent'[q] < q
  <2> SUFFICES ASSUME NEW q \in Procs, q \in Present', parent'[q] # PidOne
               PROVE  life'[parent'[q]] = "live" /\ parent'[q] < q
    OBVIOUS
  <2>1. parent[q] # p /\ parent'[q] = parent[q]
    BY <1>3
  <2>2. life[parent[q]] = "live" /\ parent[q] < q /\ parent[q] \in Procs
    BY <2>1, <1>4 DEF FamilyTree, CpuTypeOK
  <2> QED
    BY <2>1, <2>2, <1>1
<1>6. \A q, r \in Procs : life'[q] = "unborn" /\ q < r => life'[r] = "unborn"
  <2> SUFFICES ASSUME NEW q \in Procs, NEW r \in Procs, life'[q] = "unborn", q < r
               PROVE  life'[r] = "unborn"
    OBVIOUS
  <2>1. q # p /\ life[q] = "unborn"
    BY <1>1, <1>2
  <2>2. life[r] = "unborn" /\ r # p
    BY <2>1 DEF FamilyTree
  <2> QED
    BY <2>2, <1>1
<1>7. \A q \in Procs : life'[q] = "unborn" => own'[q] = 0 /\ children'[q] = 0
  BY <1>1, <1>2 DEF FamilyTree
<1> QED
  BY <1>4, <1>5, <1>6, <1>7 DEF FamilyTree

(* A process ends and stays due. *)
LEMMA ExitStep ==
  ASSUME CpuInv, NEW p \in Procs, Exit(p), UNCHANGED supervisorVars
  PROVE  CpuInv'
<1>t. CpuTypeOK /\ FamilyTree /\ NothingLost /\ ScanInv /\ QuietInv
  BY DEF CpuInv
<1>u. /\ life[p] = "live" /\ life' = [life EXCEPT ![p] = "zombie"]
      /\ parent' = Adopted(p)
      /\ own' = own /\ children' = children /\ consumed' = consumed /\ lost' = lost
      /\ quiet' = quiet /\ all_reaped' = all_reaped
  BY DEF Exit, supervisorVars
<1>1. CpuTypeOK'
  <2>1. life' \in [Procs -> States] /\ parent' \in [Procs -> {PidOne} \cup Procs]
    BY <1>t, <1>u DEF CpuTypeOK, States, Adopted
  <2> QED
    BY <1>t, <1>u, <2>1 DEF CpuTypeOK, supervisorVars
<1>2. FamilyTree'
  BY <1>t, <1>u, FamilyGoesOn DEF CpuTypeOK
<1>3. Present' = Present
  BY <1>t, <1>u DEF Present, CpuTypeOK
<1>4. Due' = Due
  BY <1>u, <1>3 DEF Due
<1> QED
  BY <1>t, <1>u, <1>1, <1>2, <1>3, <1>4, NothingDue DEF CpuInv

(* A wait between processes of the run: the books still balance, and what   *)
(* the scan has still to come across has not grown.                        *)
LEMMA SomebodyWaits ==
  ASSUME CpuTypeOK, NothingLost, ScanInv, UNCHANGED supervisorVars,
         consumed' = consumed, quiet' = FALSE, lost' \in Nat,
         Due' \in [Procs -> Nat],
         Total(Due', Procs) + lost' = Total(Due, Procs) + lost,
         Total(Due', After(position)) <= Total(Due, After(position))
  PROVE  NothingLost' /\ ScanInv' /\ QuietInv'
<1>1. /\ pc' = pc /\ listed' = listed /\ position' = position /\ live_cpu' = live_cpu
      /\ wait4_cpu' = wait4_cpu /\ cumulative_cpu' = cumulative_cpu
      /\ consumed_before' = consumed_before
  BY DEF supervisorVars
<1>2. Procs \in SUBSET Procs /\ After(position) \in SUBSET Procs
  BY DEF After
<1>3. \A S \in SUBSET Procs : Total(Due, S) \in Nat /\ Total(Due', S) \in Nat
  BY UnitsFinite, DueType
<1>4. NothingLost'
  <2>1. wait4_cpu + lost + Total(Due, Procs) = consumed
    BY DEF NothingLost
  <2>2. Total(Due, Procs) \in Nat /\ Total(Due', Procs) \in Nat
    BY <1>2, <1>3
  <2>3. wait4_cpu' + lost' + Total(Due', Procs) = consumed'
    BY <1>1, <2>1, <2>2 DEF CpuTypeOK
  <2> QED
    BY <2>3, NextSays
<1>5. ScanInv'
  <2>1. /\ pc = "scan" =>
             wait4_cpu + live_cpu + Total(Due, After(position)) <= consumed
        /\ pc = "account" => wait4_cpu + live_cpu <= consumed
        /\ cumulative_cpu <= consumed
    BY DEF ScanInv, Unscanned
  <2>2. Total(Due, After(position)) \in Nat /\ Total(Due', After(position)) \in Nat
    BY <1>2, <1>3
  <2>3. pc' = "scan" =>
          wait4_cpu' + live_cpu' + Total(Due', After(position')) <= consumed'
    BY <1>1, <2>1, <2>2 DEF CpuTypeOK
  <2>4. /\ pc' = "account" => wait4_cpu' + live_cpu' <= consumed'
        /\ cumulative_cpu' <= consumed'
    BY <1>1, <2>1 DEF CpuTypeOK
  <2> QED
    BY <2>3, <2>4, NextSays
<1>6. QuietInv'
  BY NextSays
<1> QED
  BY <1>4, <1>5, <1>6

(* A process ends and the kernel drops its time. *)
LEMMA AutoreapStep ==
  ASSUME CpuInv, NEW p \in Procs, Autoreap(p), UNCHANGED supervisorVars
  PROVE  CpuInv'
<1>t. CpuTypeOK /\ FamilyTree /\ NothingLost /\ ScanInv /\ QuietInv
  BY DEF CpuInv
<1>u. /\ life[p] = "live" /\ life' = [life EXCEPT ![p] = "reaped"]
      /\ parent' = Adopted(p) /\ lost' = lost + own[p] + children[p]
      /\ own' = own /\ children' = children /\ consumed' = consumed
      /\ quiet' = FALSE /\ all_reaped' = all_reaped
  BY DEF Autoreap, supervisorVars
<1>1. CpuTypeOK'
  <2>1. life' \in [Procs -> States] /\ parent' \in [Procs -> {PidOne} \cup Procs]
    BY <1>t, <1>u DEF CpuTypeOK, States, Adopted
  <2>2. lost' \in Nat
    BY <1>t, <1>u DEF CpuTypeOK
  <2> QED
    BY <1>t, <1>u, <2>1, <2>2 DEF CpuTypeOK, supervisorVars
<1>2. FamilyTree'
  BY <1>t, <1>u, FamilyGoesOn
<1>3. Due \in [Procs -> Nat] /\ Due' \in [Procs -> Nat]
  BY <1>t, <1>1, DueType DEF CpuTypeOK, Due
<1>4. /\ Due[p] = own[p] + children[p] /\ Due'[p] = 0
      /\ \A q \in Procs : q # p => Due'[q] = Due[q]
  BY <1>t, <1>u DEF Due, Present, CpuTypeOK
<1>5. \A S \in SUBSET Procs :
        /\ Total(Due, S) \in Nat /\ Total(Due', S) \in Nat
        /\ p \in S => Total(Due', S) = Total(Due, S) - Due[p] + Due'[p]
        /\ p \notin S => Total(Due', S) = Total(Due, S)
  <2> HIDE DEF Due
  <2> QED
    BY <1>3, <1>4, OneChanges
<1>6. Procs \in SUBSET Procs /\ After(position) \in SUBSET Procs
  BY DEF After
<1>7. own[p] \in Nat /\ children[p] \in Nat /\ Due[p] \in Nat /\ lost \in Nat
  BY <1>t, <1>3 DEF CpuTypeOK
<1>8. Total(Due', Procs) + lost' = Total(Due, Procs) + lost
  BY <1>u, <1>4, <1>5, <1>6, <1>7
<1>9. Total(Due', After(position)) <= Total(Due, After(position))
  BY <1>4, <1>5, <1>6, <1>7
<1>10. lost' \in Nat
  BY <1>u, <1>7
<1> QED
  BY <1>t, <1>u, <1>1, <1>2, <1>3, <1>8, <1>9, <1>10, SomebodyWaits DEF CpuInv

(* The time of a child goes to its parent, which is older: it may leave *)
(* what is still to be scanned, and never comes into it.                *)
LEMMA WaitChildStep ==
  ASSUME CpuInv, NEW p \in Procs, NEW q \in Procs, WaitChild(p, q),
         UNCHANGED supervisorVars
  PROVE  CpuInv'
<1>t. CpuTypeOK /\ FamilyTree /\ NothingLost /\ ScanInv /\ QuietInv
  BY DEF CpuInv
<1>u. /\ life[p] = "live" /\ life[q] = "zombie" /\ parent[q] = p
      /\ life' = [life EXCEPT ![q] = "reaped"]
      /\ children' = [children EXCEPT ![p] = @ + own[q] + children[q]]
      /\ parent' = parent /\ own' = own /\ consumed' = consumed /\ lost' = lost
      /\ quiet' = FALSE /\ all_reaped' = all_reaped
  BY DEF WaitChild, supervisorVars
<1>1. CpuTypeOK'
  <2>1. life' \in [Procs -> States]
    BY <1>t, <1>u DEF CpuTypeOK, States
  <2>2. children[p] + own[q] + children[q] \in Nat
    BY <1>t DEF CpuTypeOK
  <2>3. children' \in [Procs -> Nat]
    BY <1>t, <1>u, <2>2 DEF CpuTypeOK
  <2> QED
    BY <1>t, <1>u, <2>1, <2>3 DEF CpuTypeOK, supervisorVars
<1>2. p < q /\ p # q
  <2>1. q \in Present /\ parent[q] # PidOne
    BY <1>u DEF Present, PidOne, Procs
  <2> QED
    BY <1>t, <1>u, <2>1 DEF FamilyTree, Procs
<1>3. /\ \A r \in Procs : r # q => life'[r] = life[r]
      /\ life'[q] = "reaped"
      /\ \A r \in Procs : r # p => children'[r] = children[r]
      /\ children'[p] = children[p] + own[q] + children[q]
  BY <1>t, <1>u DEF CpuTypeOK
<1>4. FamilyTree'
  <2>1. Present' \subseteq Present
    BY <1>3 DEF Present
  <2>2. \A r \in Procs : r \in Present' /\ parent'[r] # PidOne =>
           life'[parent'[r]] = "live" /\ parent'[r] < r
    <3> SUFFICES ASSUME NEW r \in Procs, r \in Present', parent'[r] # PidOne
                 PROVE  life'[parent'[r]] = "live" /\ parent'[r] < r
      OBVIOUS
    <3>1. life[parent[r]] = "live" /\ parent[r] < r /\ parent[r] \in Procs
      BY <1>t, <1>u, <2>1 DEF FamilyTree, CpuTypeOK
    <3> QED
      BY <1>u, <1>3, <3>1
  <2>3. \A r, s \in Procs : life'[r] = "unborn" /\ r < s => life'[s] = "unborn"
    <3> SUFFICES ASSUME NEW r \in Procs, NEW s \in Procs, life'[r] = "unborn", r < s
                 PROVE  life'[s] = "unborn"
      OBVIOUS
    <3>1. life[r] = "unborn"
      BY <1>3
    <3>2. life[s] = "unborn" /\ s # q
      BY <1>t, <1>u, <3>1 DEF FamilyTree
    <3> QED
      BY <1>3, <3>2
  <2>4. \A r \in Procs : life'[r] = "unborn" => own'[r] = 0 /\ children'[r] = 0
    <3> SUFFICES ASSUME NEW r \in Procs, life'[r] = "unborn"
                 PROVE  own'[r] = 0 /\ children'[r] = 0
      OBVIOUS
    <3>1. life[r] = "unborn" /\ r # p
      BY <1>u, <1>3
    <3> QED
      BY <1>t, <1>u, <1>3, <3>1 DEF FamilyTree
  <2> QED
    BY <1>t, <1>u, <2>1, <2>2, <2>3, <2>4 DEF FamilyTree
<1> DEFINE middle == [Due EXCEPT ![q] = 0]
<1>5. Due \in [Procs -> Nat] /\ middle \in [Procs -> Nat] /\ Due' \in [Procs -> Nat]
  BY <1>t, <1>1, DueType DEF CpuTypeOK, Due
<1>6. /\ Due[p] \in Nat /\ Due[q] \in Nat
      /\ middle[q] = 0 /\ \A r \in Procs : r # q => middle[r] = Due[r]
  BY <1>5
<1>7. /\ Due'[p] = Due[p] + Due[q]
      /\ \A r \in Procs : r # p => Due'[r] = middle[r]
  <2>1. /\ Due[p] = own[p] + children[p] /\ Due[q] = own[q] + children[q]
        /\ Due'[q] = 0 /\ Due'[p] = own[p] + children[p] + own[q] + children[q]
        /\ \A r \in Procs : r # p /\ r # q => Due'[r] = Due[r]
    BY <1>t, <1>u, <1>2, <1>3 DEF Due, Present, CpuTypeOK
  <2>2. own[p] \in Nat /\ children[p] \in Nat /\ own[q] \in Nat /\ children[q] \in Nat
    BY <1>t DEF CpuTypeOK
  <2>3. Due'[p] = Due[p] + Due[q]
    BY <2>1, <2>2
  <2> QED
    BY <1>6, <2>1, <2>3
<1>8. \A S \in SUBSET Procs :
        /\ Total(Due, S) \in Nat /\ Total(middle, S) \in Nat
        /\ q \in S => Total(middle, S) = Total(Due, S) - Due[q] + middle[q]
        /\ q \notin S => Total(middle, S) = Total(Due, S)
  <2> HIDE DEF Due, middle
  <2> QED
    BY <1>5, <1>6, OneChanges
<1>9. \A S \in SUBSET Procs :
        /\ Total(Due', S) \in Nat
        /\ p \in S => Total(Due', S) = Total(middle, S) - middle[p] + Due'[p]
        /\ p \notin S => Total(Due', S) = Total(middle, S)
  <2> DEFINE after == Due'
  <2>1. /\ middle \in [Procs -> Nat] /\ after \in [Procs -> Nat]
        /\ \A r \in Procs : r # p => after[r] = middle[r]
    BY <1>5, <1>7
  <2> HIDE DEF middle, after
  <2> TAKE S \in SUBSET Procs
  <2>2. /\ Total(after, S) \in Nat
        /\ p \in S => Total(after, S) = Total(middle, S) - middle[p] + after[p]
        /\ p \notin S => Total(after, S) = Total(middle, S)
    BY <2>1, OneChanges
  <2> QED
    BY <2>2 DEF after
<1>10. middle[p] = Due[p] /\ middle[q] = 0
  BY <1>2, <1>6
<1>11. Total(Due', Procs) = Total(Due, Procs)
  <2> HIDE DEF Due, middle
  <2>1. Procs \in SUBSET Procs
    OBVIOUS
  <2> QED
    BY <2>1, <1>6, <1>7, <1>8, <1>9, <1>10
<1>12. Total(Due', After(position)) <= Total(Due, After(position))
  <2> HIDE DEF Due, middle
  <2>1. After(position) \in SUBSET Procs /\ (p \in After(position) => q \in After(position))
    BY <1>t, <1>2 DEF After, Procs, CpuTypeOK
  <2> QED
    BY <2>1, <1>6, <1>7, <1>8, <1>9, <1>10
<1>13. lost' \in Nat /\ Total(Due', Procs) + lost' = Total(Due, Procs) + lost
  BY <1>t, <1>u, <1>11 DEF CpuTypeOK
<1> QED
  BY <1>t, <1>u, <1>1, <1>4, <1>5, <1>12, <1>13, SomebodyWaits DEF CpuInv

(* Rounding down to whole ticks loses less than a tick, and adds nothing. *)
LEMMA WholeTicks ==
  ASSUME NEW t \in Nat
  PROVE  LET ticks == (t \div Tick) * Tick
         IN  ticks \in Nat /\ ticks <= t /\ t <= ticks + (Tick - 1)
<1>1. t \div Tick \in Nat
  OBVIOUS
<1>2. t = Tick * (t \div Tick) + (t % Tick)
  OBVIOUS
<1>3. t % Tick \in 0 .. (Tick - 1)
  OBVIOUS
<1>4. Tick * (t \div Tick) = (t \div Tick) * Tick
  BY <1>1
<1>5. (t \div Tick) * Tick \in Nat
  BY <1>1
<1> QED
  BY <1>2, <1>3, <1>4, <1>5

(* What /proc says of a process, compared with its time. *)
LEMMA ReadingIs ==
  ASSUME CpuTypeOK, NEW p \in Procs
  PROVE  /\ Reading(p) \in Nat /\ Reading(p) <= own[p] + children[p]
         /\ own[p] + children[p] <= Reading(p) + Slack
<1> DEFINE a == own[p] \div Tick
           b == children[p] \div Tick
<1>1. own[p] \in Nat /\ children[p] \in Nat
  BY DEF CpuTypeOK
<1>2. /\ a * Tick \in Nat /\ a * Tick <= own[p] /\ own[p] <= a * Tick + (Tick - 1)
      /\ b * Tick \in Nat /\ b * Tick <= children[p]
      /\ children[p] <= b * Tick + (Tick - 1)
  BY <1>1, WholeTicks
<1>3. a \in Nat /\ b \in Nat
  BY <1>1
<1>4. (a + b) * Tick = a * Tick + b * Tick
  <2> HIDE DEF a, b
  <2> QED
    BY <1>3
<1>5. Reading(p) = a * Tick + b * Tick
  BY <1>4 DEF Reading
<1>6. Slack = (Tick - 1) + (Tick - 1)
  BY DEF Slack
<1> QED
  <2> HIDE DEF a, b
  <2> QED
    BY <1>1, <1>2, <1>5, <1>6

(* wait4 takes over the time of a process and of the children it waited *)
(* for.                                                                 *)
LEMMA ReapStep ==
  ASSUME CpuInv, NEW p \in Procs, ReapChild(p)
  PROVE  CpuInv'
<1>t. CpuTypeOK /\ FamilyTree /\ NothingLost /\ ScanInv /\ QuietInv
  BY DEF CpuInv
<1>u. /\ pc = "reap" /\ life[p] = "zombie" /\ parent[p] = PidOne
      /\ life' = [life EXCEPT ![p] = "reaped"]
      /\ wait4_cpu' = wait4_cpu + own[p] + children[p]
      /\ parent' = parent /\ own' = own /\ children' = children
      /\ consumed' = consumed /\ lost' = lost /\ pc' = pc /\ listed' = listed
      /\ position' = position /\ live_cpu' = live_cpu
      /\ cumulative_cpu' = cumulative_cpu /\ all_reaped' = all_reaped
      /\ consumed_before' = consumed_before /\ quiet' = quiet
  BY DEF ReapChild, Collectable
<1>1. CpuTypeOK'
  <2>1. life' \in [Procs -> States]
    BY <1>t, <1>u DEF CpuTypeOK, States
  <2>2. wait4_cpu' \in Nat
    BY <1>t, <1>u DEF CpuTypeOK
  <2> QED
    BY <1>t, <1>u, <2>1, <2>2 DEF CpuTypeOK
<1>3. /\ \A r \in Procs : r # p => life'[r] = life[r]
      /\ life'[p] = "reaped"
  BY <1>t, <1>u DEF CpuTypeOK
<1>4. FamilyTree'
  <2>1. Present' \subseteq Present
    BY <1>3 DEF Present
  <2>2. \A r \in Procs : r \in Present' /\ parent'[r] # PidOne =>
           life'[parent'[r]] = "live" /\ parent'[r] < r
    <3> SUFFICES ASSUME NEW r \in Procs, r \in Present', parent'[r] # PidOne
                 PROVE  life'[parent'[r]] = "live" /\ parent'[r] < r
      OBVIOUS
    <3>1. life[parent[r]] = "live" /\ parent[r] < r /\ parent[r] \in Procs
      BY <1>t, <1>u, <2>1 DEF FamilyTree, CpuTypeOK
    <3> QED
      BY <1>u, <1>3, <3>1
  <2>3. \A r, s \in Procs : life'[r] = "unborn" /\ r < s => life'[s] = "unborn"
    <3> SUFFICES ASSUME NEW r \in Procs, NEW s \in Procs, life'[r] = "unborn", r < s
                 PROVE  life'[s] = "unborn"
      OBVIOUS
    <3>1. life[r] = "unborn"
      BY <1>3
    <3>2. life[s] = "unborn" /\ s # p
      BY <1>t, <1>u, <3>1 DEF FamilyTree
    <3> QED
      BY <1>3, <3>2
  <2>4. \A r \in Procs : life'[r] = "unborn" => own'[r] = 0 /\ children'[r] = 0
    BY <1>t, <1>u, <1>3 DEF FamilyTree
  <2> QED
    BY <1>t, <1>u, <2>1, <2>2, <2>3, <2>4 DEF FamilyTree
<1>5. Due \in [Procs -> Nat] /\ Due' \in [Procs -> Nat]
  BY <1>t, <1>1, DueType DEF CpuTypeOK, Due
<1>6. /\ Due[p] = own[p] + children[p] /\ Due'[p] = 0
      /\ \A q \in Procs : q # p => Due'[q] = Due[q]
  BY <1>t, <1>u DEF Due, Present, CpuTypeOK
<1>7. /\ Total(Due, Procs) \in Nat
      /\ Total(Due', Procs) = Total(Due, Procs) - Due[p] + Due'[p]
  <2> HIDE DEF Due
  <2>1. Procs \in SUBSET Procs
    OBVIOUS
  <2> QED
    BY <2>1, <1>5, <1>6, OneChanges
<1>8. NothingLost'
  <2>1. wait4_cpu + lost + Total(Due, Procs) = consumed
    BY <1>t DEF NothingLost
  <2>2. own[p] \in Nat /\ children[p] \in Nat
    BY <1>t DEF CpuTypeOK
  <2>3. wait4_cpu' + lost' + Total(Due', Procs) = consumed'
    BY <1>t, <1>u, <1>6, <1>7, <2>1, <2>2 DEF CpuTypeOK
  <2> QED
    BY <2>3, NextSays
<1>9. ScanInv' /\ QuietInv'
  <2>1. cumulative_cpu <= consumed
    BY <1>t DEF ScanInv
  <2> QED
    BY <1>u, <2>1, NextSays
<1> QED
  BY <1>1, <1>4, <1>8, <1>9 DEF CpuInv

(* The oldest process has no parent that lives: it is a child of PID 1. *)
LEMMA OldestIsMine ==
  ASSUME CpuTypeOK, FamilyTree, Present # {}
  PROVE  HasChild
<1>1. Present \subseteq Nat
  BY DEF Present, Procs
<1>2. IsWellFoundedOn(OpToRel(<, Nat), Nat)
  BY NatLessThanWellFounded
<1>3. PICK oldest \in Present :
        \A q \in Present : ~(<<q, oldest>> \in OpToRel(<, Nat))
  BY <1>1, <1>2, WFMin
<1>4. \A q \in Present : ~(q < oldest)
  BY <1>1, <1>3 DEF OpToRel
<1>5. oldest \in Procs
  BY DEF Present
<1>6. CASE parent[oldest] = PidOne
  BY <1>6 DEF HasChild
<1>7. CASE parent[oldest] # PidOne
  <2>1. life[parent[oldest]] = "live" /\ parent[oldest] < oldest /\ parent[oldest] \in Procs
    BY <1>5, <1>7 DEF FamilyTree, CpuTypeOK
  <2>2. parent[oldest] \in Present
    BY <2>1 DEF Present
  <2> QED
    BY <1>4, <2>1, <2>2
<1> QED
  BY <1>6, <1>7

(* A scan begins with everything still to be scanned. *)
LEMMA OpenStep ==
  ASSUME CpuInv, OpenProc
  PROVE  CpuInv'
<1>t. CpuTypeOK /\ FamilyTree /\ NothingLost /\ ScanInv /\ QuietInv
  BY DEF CpuInv
<1>u. /\ all_reaped' = (all_reaped \/ ~HasChild)
      /\ pc' = "scan" /\ listed' = Present /\ position' = 0 /\ live_cpu' = 0
      /\ consumed_before' = consumed /\ quiet' = TRUE
      /\ life' = life /\ parent' = parent /\ own' = own /\ children' = children
      /\ consumed' = consumed /\ lost' = lost
      /\ wait4_cpu' = wait4_cpu /\ cumulative_cpu' = cumulative_cpu
  BY DEF OpenProc, namespaceVars
<1>1. CpuTypeOK'
  <2>1. listed' \in SUBSET Procs /\ position' \in 0 .. MaxProcs
    BY <1>u DEF Present
  <2>2. all_reaped' \in BOOLEAN
    BY <1>u
  <2> QED
    BY <1>t, <1>u, <2>1, <2>2 DEF CpuTypeOK
<1>2. Present' = Present /\ Due' = Due
  BY <1>u DEF Due, Present
<1>3. FamilyTree'
  <2>1. all_reaped' => Present = {}
    BY <1>t, <1>u, OldestIsMine DEF FamilyTree
  <2> QED
    BY <1>t, <1>u, <1>2, <2>1 DEF FamilyTree
<1>4. wait4_cpu + lost + Total(Due, Procs) = consumed
  BY <1>t DEF NothingLost
<1>5. NothingLost'
  BY <1>u, <1>2, <1>4, NextSays
<1>6. Due \in [Procs -> Nat] /\ Present \in SUBSET Procs /\ After(0) = Procs
  BY <1>t, DueType DEF Present, After, Procs
<1>7. Total(Due, Procs) \in Nat /\ Total(Due, Present) = Total(Due, Procs)
  <2>1. Procs \in SUBSET Procs
    OBVIOUS
  <2>2. \A p \in Procs : Due[p] = 0 \/ p \in Present
    BY DEF Due
  <2>3. \A p \in Present : p \in Procs
    BY <1>6
  <2> HIDE DEF Due
  <2> QED
    BY <1>6, <2>1, <2>2, <2>3, UnitsFinite, SameTotal
<1>8. ScanInv'
  <2>1. wait4_cpu' + live_cpu' + Total(Due', After(position')) <= consumed'
    BY <1>t, <1>u, <1>2, <1>4, <1>6, <1>7 DEF CpuTypeOK
  <2>2. cumulative_cpu' <= consumed'
    BY <1>t, <1>u DEF ScanInv
  <2> QED
    BY <1>u, <2>1, <2>2, NextSays
<1>9. QuietInv'
  <2>1. listed' \cap After(position') = Present /\ listed' \ After(position') = {}
    BY <1>u, <1>6
  <2>2. Slack * Cardinality({}) = 0
    BY FS_EmptySet, SlackType
  <2>3. consumed_before' <=
          wait4_cpu' + lost' + live_cpu' + Slack * Cardinality(listed' \ After(position'))
            + Total(Due', listed' \cap After(position'))
    <3>1. Slack * Cardinality(listed' \ After(position')) = 0
      BY <2>1, <2>2
    <3>2. Total(Due', listed' \cap After(position')) = Total(Due, Procs)
      BY <2>1, <1>2, <1>7
    <3> QED
      BY <3>1, <3>2, <1>t, <1>u, <1>4, <1>7 DEF CpuTypeOK
  <2> QED
    BY <1>u, <1>2, <2>3, NextSays
<1> QED
  BY <1>1, <1>3, <1>5, <1>8, <1>9 DEF CpuInv

(* One entry of the scan. *)
LEMMA ScanStep ==
  ASSUME CpuInv, ScanProcess
  PROVE  CpuInv'
<1> DEFINE next == position + 1
<1>t. CpuTypeOK /\ FamilyTree /\ NothingLost /\ ScanInv /\ QuietInv
  BY DEF CpuInv
<1>u. /\ pc = "scan" /\ position < MaxProcs /\ position' = next
      /\ life' = life /\ parent' = parent /\ own' = own /\ children' = children
      /\ consumed' = consumed /\ lost' = lost /\ pc' = pc /\ listed' = listed
      /\ wait4_cpu' = wait4_cpu /\ cumulative_cpu' = cumulative_cpu
      /\ all_reaped' = all_reaped /\ consumed_before' = consumed_before
      /\ quiet' = quiet
  BY DEF ScanProcess, namespaceVars
<1>n. next \in Procs /\ next \in After(position) /\ next \notin After(next)
  BY <1>t, <1>u DEF CpuTypeOK, Procs, After
<1>l. \/ next \in Present /\ live_cpu' = live_cpu + Reading(next)
      \/ (next \notin Present \/ next \notin listed) /\ live_cpu' = live_cpu
  BY <1>u DEF ScanProcess
<1>r. /\ Reading(next) \in Nat /\ own[next] + children[next] \in Nat
      /\ Reading(next) <= own[next] + children[next]
      /\ own[next] + children[next] <= Reading(next) + Slack
  BY <1>t, <1>n, ReadingIs DEF CpuTypeOK
<1>1. CpuTypeOK'
  <2>1. position' \in 0 .. MaxProcs
    BY <1>t, <1>u DEF CpuTypeOK
  <2>2. live_cpu' \in Nat
    BY <1>t, <1>l, <1>r DEF CpuTypeOK
  <2> QED
    BY <1>t, <1>u, <2>1, <2>2 DEF CpuTypeOK
<1>2. Present' = Present /\ Due' = Due
  BY <1>u DEF Due, Present
<1>3. FamilyTree'
  BY <1>t, <1>u, <1>2 DEF FamilyTree
<1>4. NothingLost'
  BY <1>t, <1>u, <1>2, NextSays DEF NothingLost
<1>5. /\ Due \in [Procs -> Nat]
      /\ next \in Present => Due[next] = own[next] + children[next]
      /\ next \notin Present => Due[next] = 0
  BY <1>t, <1>n, DueType DEF Due
<1>6. After(next) = After(position) \ {next}
  <2>1. position \in Int /\ \A p \in Procs : p \in Int
    BY <1>t DEF Procs, CpuTypeOK
  <2>2. \A p \in Procs : p > next <=> (p > position /\ p # next)
    BY <2>1
  <2> QED
    BY <2>2 DEF After
<1>7. /\ Total(Due, After(next)) \in Nat
      /\ Total(Due, After(position)) = Total(Due, After(next)) + Due[next]
  <2> HIDE DEF next
  <2>1. After(position) \in SUBSET Procs /\ After(next) \in SUBSET Procs
    BY DEF After
  <2> QED
    BY <1>n, <1>5, <1>6, <2>1, UnitsFinite, TotalSplit
<1>8. ScanInv'
  <2>1. /\ wait4_cpu + live_cpu + Total(Due, After(position)) <= consumed
        /\ cumulative_cpu <= consumed
    BY <1>t, <1>u DEF ScanInv, Unscanned
  <2>2. live_cpu' <= live_cpu + Due[next] /\ Due[next] \in Nat
    <3> HIDE DEF next
    <3> QED
      BY <1>t, <1>n, <1>l, <1>r, <1>5 DEF CpuTypeOK
  <2>3. wait4_cpu' + live_cpu' + Total(Due', After(position')) <= consumed'
    <3>1. Total(Due', After(position')) = Total(Due, After(next))
      BY <1>u, <1>2
    <3>2. live_cpu' \in Nat
      BY <1>1 DEF CpuTypeOK
    <3> HIDE DEF next
    <3> QED
      BY <1>t, <1>u, <1>7, <2>1, <2>2, <3>1, <3>2 DEF CpuTypeOK
  <2> QED
    BY <1>u, <2>1, <2>3, NextSays
<1>9. QuietInv'
  <2> SUFFICES ASSUME quiet
               PROVE  /\ listed \subseteq Present
                      /\ consumed_before <=
                           wait4_cpu + lost + live_cpu'
                             + Slack * Cardinality(listed \ After(next))
                             + Total(Due, listed \cap After(next))
    BY <1>u, <1>2, NextSays
  <2> DEFINE before == Cardinality(listed \ After(position))
             after  == Cardinality(listed \ After(next))
             rest   == Total(Due, listed \cap After(next))
             slack  == Slack * after
             slackBefore == Slack * before
  <2>1. /\ listed \subseteq Present
        /\ consumed_before <=
             wait4_cpu + lost + live_cpu + Slack * before
               + Total(Due, listed \cap After(position))
    BY <1>t, <1>u DEF QuietInv, Unscanned
  <2>2. /\ listed \in SUBSET Procs /\ listed \cap After(next) \in SUBSET Procs
        /\ listed \cap After(position) \in SUBSET Procs
        /\ listed \ After(next) \in SUBSET Procs
        /\ listed \ After(position) \in SUBSET Procs
    BY <1>t DEF CpuTypeOK
  <2>3. /\ rest \in Nat /\ before \in Nat /\ after \in Nat
        /\ Slack \in Nat /\ Slack * before \in Nat /\ Slack * after \in Nat
    <3> HIDE DEF next
    <3> QED
      BY <1>5, <2>2, UnitsFinite, SlackType
  <2>4. CASE next \in listed
    <3>1. next \in Present /\ live_cpu' = live_cpu + Reading(next)
      BY <1>l, <2>1, <2>4
    <3>2. Total(Due, listed \cap After(position)) = rest + Due[next]
      <4>1. listed \cap After(next) = (listed \cap After(position)) \ {next}
        BY <1>6
      <4> HIDE DEF next
      <4> QED
        BY <1>n, <1>5, <2>2, <2>4, <4>1, TotalSplit
    <3>3. after = before + 1
      <4>1. listed \ After(next) = (listed \ After(position)) \cup {next}
        BY <1>6, <1>n, <2>4
      <4>2. next \notin listed \ After(position)
        BY <1>n
      <4>3. IsFiniteSet(listed \ After(position))
        <5>1. IsFiniteSet(Procs)
          BY FS_Interval DEF Procs
        <5> QED
          BY <5>1, <2>2, FS_Subset
      <4> HIDE DEF next
      <4> QED
        BY <4>1, <4>2, <4>3, FS_AddElement
    <3>4. Slack * after = Slack * before + Slack
      <4> HIDE DEF after, before
      <4> QED
        BY <2>3, <3>3
    <3>5. consumed_before <= wait4_cpu + lost + live_cpu' + slack + rest
      <4>1. /\ consumed_before <=
                 wait4_cpu + lost + live_cpu + slackBefore + (rest + Due[next])
            /\ slack = slackBefore + Slack
            /\ slack \in Nat /\ slackBefore \in Nat
        BY <2>1, <2>3, <3>2, <3>4
      <4> HIDE DEF next, after, before, rest, slack, slackBefore
      <4> QED
        BY <1>t, <1>r, <1>5, <2>3, <3>1, <4>1 DEF CpuTypeOK
    <3> QED
      BY <2>1, <3>5
  <2>5. CASE next \notin listed
    <3>1. listed \cap After(next) = listed \cap After(position)
      BY <1>6, <2>5
    <3>2. listed \ After(next) = listed \ After(position)
      BY <1>6, <2>5
    <3>3. live_cpu <= live_cpu' /\ live_cpu' \in Nat
      <4> HIDE DEF next
      <4> QED
        BY <1>t, <1>1, <1>l, <1>r DEF CpuTypeOK
    <3>4. after = before /\ Total(Due, listed \cap After(position)) = rest
      BY <3>1, <3>2
    <3>5. consumed_before <= wait4_cpu + lost + live_cpu' + slack + rest
      <4>1. /\ consumed_before <= wait4_cpu + lost + live_cpu + slack + rest
            /\ slack \in Nat /\ rest \in Nat
        BY <2>1, <2>3, <3>4
      <4>2. /\ consumed_before \in Nat /\ wait4_cpu \in Nat /\ lost \in Nat
            /\ live_cpu \in Nat
        BY <1>t DEF CpuTypeOK
      <4> HIDE DEF next, after, before, rest, slack, slackBefore
      <4>3. \A a, b, c, d, e, f, g \in Nat :
              a <= b + c + d + e + f /\ d <= g => a <= b + c + g + e + f
        OBVIOUS
      <4>4. live_cpu <= live_cpu' /\ live_cpu' \in Nat
        BY <3>3
      <4> QED
        BY <4>1, <4>2, <4>3, <4>4
    <3> QED
      BY <2>1, <3>5
  <2> QED
    BY <2>4, <2>5
<1> QED
  BY <1>1, <1>3, <1>4, <1>8, <1>9 DEF CpuInv

(* A scan ends with nothing still to be scanned. *)
LEMMA CloseStep ==
  ASSUME CpuInv, CloseProc
  PROVE  CpuInv'
<1>t. CpuTypeOK /\ FamilyTree /\ NothingLost /\ ScanInv /\ QuietInv
  BY DEF CpuInv
<1>u. /\ pc = "scan" /\ position = MaxProcs /\ pc' = "account" /\ position' = position
      /\ life' = life /\ parent' = parent /\ own' = own /\ children' = children
      /\ consumed' = consumed /\ lost' = lost /\ listed' = listed
      /\ live_cpu' = live_cpu
      /\ wait4_cpu' = wait4_cpu /\ cumulative_cpu' = cumulative_cpu
      /\ all_reaped' = all_reaped /\ consumed_before' = consumed_before
      /\ quiet' = quiet
  BY DEF CloseProc, namespaceVars
<1>1. CpuTypeOK'
  BY <1>t, <1>u DEF CpuTypeOK
<1>2. Present' = Present /\ Due' = Due
  BY <1>u DEF Due, Present
<1>3. FamilyTree'
  BY <1>t, <1>u, <1>2 DEF FamilyTree
<1>4. NothingLost'
  BY <1>t, <1>u, <1>2, NextSays DEF NothingLost
<1>5. After(position) = {}
  BY <1>u DEF After, Procs
<1>6. Total(Due, {}) = 0
  BY NoTotal
<1>7. ScanInv'
  <2>1. /\ wait4_cpu + live_cpu + Total(Due, After(position)) <= consumed
        /\ cumulative_cpu <= consumed
    BY <1>t, <1>u DEF ScanInv, Unscanned
  <2>2. wait4_cpu + live_cpu <= consumed
    BY <1>t, <1>5, <1>6, <2>1 DEF CpuTypeOK
  <2> QED
    BY <1>u, <2>1, <2>2, NextSays
<1>8. QuietInv'
  <2> SUFFICES ASSUME quiet
               PROVE  consumed_before <=
                        wait4_cpu + lost + live_cpu + Slack * Cardinality(listed)
    BY <1>u, NextSays
  <2>1. consumed_before <=
          wait4_cpu + lost + live_cpu + Slack * Cardinality(listed \ After(position))
            + Total(Due, listed \cap After(position))
    BY <1>t, <1>u DEF QuietInv, Unscanned
  <2>2. listed \ After(position) = listed /\ listed \cap After(position) = {}
    BY <1>5
  <2>3. listed \in SUBSET Procs
    BY <1>t DEF CpuTypeOK
  <2>4. Slack * Cardinality(listed) \in Nat
    BY <2>3, SlackType
  <2> DEFINE m == Slack * Cardinality(listed)
  <2>5. consumed_before <= wait4_cpu + lost + live_cpu + m + 0 /\ m \in Nat
    BY <1>6, <2>1, <2>2, <2>4
  <2>6. consumed_before <= wait4_cpu + lost + live_cpu + m
    <3> HIDE DEF m
    <3> QED
      BY <1>t, <2>5 DEF CpuTypeOK
  <2> QED
    BY <2>6
<1> QED
  BY <1>1, <1>3, <1>4, <1>7, <1>8 DEF CpuInv

(* The maximum is never more than what was used. *)
LEMMA AccountStep ==
  ASSUME CpuInv, Account
  PROVE  CpuInv'
<1>t. CpuTypeOK /\ FamilyTree /\ NothingLost /\ ScanInv /\ QuietInv
  BY DEF CpuInv
<1>u. /\ pc = "account" /\ pc' \in {"end", "reap"}
      /\ cumulative_cpu' \in {cumulative_cpu, wait4_cpu + live_cpu}
      /\ life' = life /\ parent' = parent /\ own' = own /\ children' = children
      /\ consumed' = consumed /\ lost' = lost /\ listed' = listed
      /\ position' = position /\ live_cpu' = live_cpu /\ wait4_cpu' = wait4_cpu
      /\ all_reaped' = all_reaped /\ consumed_before' = consumed_before
      /\ quiet' = quiet
  BY DEF Account, Larger, namespaceVars
<1>1. CpuTypeOK'
  BY <1>t, <1>u DEF CpuTypeOK
<1>2. Present' = Present /\ Due' = Due
  BY <1>u DEF Due, Present
<1>3. FamilyTree'
  BY <1>t, <1>u, <1>2 DEF FamilyTree
<1>4. NothingLost'
  BY <1>t, <1>u, <1>2, NextSays DEF NothingLost
<1>5. cumulative_cpu' <= consumed'
  BY <1>t, <1>u DEF ScanInv
<1>6. ScanInv' /\ QuietInv'
  BY <1>u, <1>5, NextSays
<1> QED
  BY <1>1, <1>3, <1>4, <1>6 DEF CpuInv

(* The invariant holds when the primary has been forked. *)
LEMMA CpuInitInv == CpuInit => CpuInv
<1> SUFFICES ASSUME CpuInit PROVE CpuInv
  OBVIOUS
<1>1. CpuTypeOK
  <2>1. life \in [Procs -> States] /\ parent \in [Procs -> {PidOne} \cup Procs]
    BY DEF CpuInit, States
  <2>2. own \in [Procs -> Nat] /\ children \in [Procs -> Nat]
    BY DEF CpuInit
  <2>3. listed \in SUBSET Procs /\ position \in 0 .. MaxProcs
    BY DEF CpuInit
  <2> QED
    BY <2>1, <2>2, <2>3 DEF CpuInit, CpuTypeOK
<1>2. FamilyTree
  BY DEF CpuInit, FamilyTree, Present, PidOne, Procs
<1>3. NothingLost
  <2>1. /\ \A p \in Procs : Due[p] = 0
        /\ Due \in [Procs -> Nat] /\ Procs \in SUBSET Procs /\ {} \in SUBSET Procs
    BY DEF CpuInit, Due
  <2>2. Total(Due, Procs) = Total(Due, {})
    <3> HIDE DEF Due
    <3> QED
      BY <2>1, SameTotal
  <2>3. Total(Due, Procs) = 0
    BY <2>2, NoTotal
  <2> QED
    BY <2>3 DEF CpuInit, NothingLost
<1>4. ScanInv /\ QuietInv
  BY DEF CpuInit, ScanInv, QuietInv
<1> QED
  BY <1>1, <1>2, <1>3, <1>4 DEF CpuInv

(* A step that changes nothing. *)
LEMMA StutterInv == CpuInv /\ UNCHANGED cpuVars => CpuInv'
<1> SUFFICES ASSUME CpuInv, UNCHANGED cpuVars PROVE CpuInv'
  OBVIOUS
<1>t. CpuTypeOK /\ FamilyTree /\ NothingLost /\ ScanInv /\ QuietInv
  BY DEF CpuInv
<1>u. /\ life' = life /\ parent' = parent /\ own' = own /\ children' = children
      /\ consumed' = consumed /\ lost' = lost /\ pc' = pc /\ listed' = listed
      /\ position' = position /\ live_cpu' = live_cpu /\ wait4_cpu' = wait4_cpu
      /\ cumulative_cpu' = cumulative_cpu /\ all_reaped' = all_reaped
      /\ consumed_before' = consumed_before /\ quiet' = quiet
  BY DEF cpuVars, namespaceVars, supervisorVars
<1>1. CpuTypeOK'
  BY <1>t, <1>u DEF CpuTypeOK
<1>2. Present' = Present /\ Due' = Due
  BY <1>u DEF Due, Present
<1>3. FamilyTree'
  BY <1>t, <1>u, <1>2 DEF FamilyTree
<1>4. NothingLost'
  BY <1>t, <1>u, <1>2, NextSays DEF NothingLost
<1>5. ScanInv'
  BY <1>t, <1>u, <1>2, NextSays DEF ScanInv, Unscanned
<1>6. QuietInv'
  BY <1>t, <1>u, <1>2, NextSays DEF QuietInv, Unscanned
<1> QED
  BY <1>1, <1>3, <1>4, <1>5, <1>6 DEF CpuInv

(* Every step keeps the invariant. *)
LEMMA StepInv == CpuInv /\ [CpuNext]_cpuVars => CpuInv'
<1> SUFFICES ASSUME CpuInv, [CpuNext]_cpuVars PROVE CpuInv'
  OBVIOUS
<1>1. CASE Watcher
  BY <1>1, ReapStep, OpenStep, ScanStep, CloseStep, AccountStep DEF Watcher
<1>2. CASE Namespace
  BY <1>2, BurnStep, ExitStep, AutoreapStep, SpawnStep, WaitChildStep DEF Namespace
<1>3. CASE UNCHANGED cpuVars
  BY <1>3, StutterInv
<1> QED
  BY <1>1, <1>2, <1>3 DEF CpuNext

(* The invariant implies the property. *)
LEMMA InvRight == CpuInv => CpuRight
<1> SUFFICES ASSUME CpuInv PROVE CpuRight
  OBVIOUS
<1>t. CpuTypeOK /\ FamilyTree /\ NothingLost /\ ScanInv /\ QuietInv
  BY DEF CpuInv
<1>0. Due \in [Procs -> Nat] /\ Procs \in SUBSET Procs
  BY <1>t, DueType
<1>1. Total(Due, Procs) \in Nat
  <2> HIDE DEF Due
  <2> QED
    BY <1>0, UnitsFinite
<1>2. wait4_cpu + lost + Total(Due, Procs) = consumed
  BY <1>t DEF NothingLost
<1>3. NoOvercount
  BY <1>t, <1>1, <1>2 DEF NoOvercount, ScanInv, CpuTypeOK
<1>4. AllAccounted
  <2> SUFFICES ASSUME all_reaped PROVE wait4_cpu + lost = consumed
    BY DEF AllAccounted
  <2>1. Present = {}
    BY <1>t DEF FamilyTree
  <2>2. \A p \in Procs : Due[p] = 0
    BY <2>1 DEF Due
  <2>3. {} \in SUBSET Procs
    OBVIOUS
  <2>4. Total(Due, Procs) = Total(Due, {})
    <3> HIDE DEF Due
    <3> QED
      BY <1>0, <2>2, <2>3, SameTotal
  <2>5. Total(Due, Procs) = 0
    BY <2>4, NoTotal
  <2> QED
    BY <1>t, <1>2, <2>5 DEF CpuTypeOK
<1>5. QuietScanSeesAll
  <2> SUFFICES ASSUME pc = "account", quiet
               PROVE  wait4_cpu + live_cpu + lost + 2 * (Tick - 1) * Cardinality(listed)
                        >= consumed_before
    BY DEF QuietScanSeesAll
  <2>1. consumed_before <= wait4_cpu + lost + live_cpu + Slack * Cardinality(listed)
    BY <1>t DEF QuietInv
  <2>2. listed \in SUBSET Procs
    BY <1>t DEF CpuTypeOK
  <2>3. Slack * Cardinality(listed) \in Nat
    BY <2>2, SlackType
  <2>4. Slack * Cardinality(listed) = 2 * (Tick - 1) * Cardinality(listed)
    BY DEF Slack
  <2> QED
    BY <1>t, <2>1, <2>3, <2>4 DEF CpuTypeOK
<1> QED
  BY <1>3, <1>4, <1>5 DEF CpuRight

(* No CPU time is counted twice, all of it is accounted for once         *)
(* everybody is reaped, and a scan that no wait disturbs misses nothing  *)
(* but fractions of ticks: the watcher of                                *)
(* cbds-development-candidate-supervisor.c, for any number of processes, *)
(* any time and any tick.                                                *)
THEOREM CpuRightCorrect == CpuSpec => []CpuRight
<1>1. CpuSpec => []CpuInv
  BY CpuInitInv, StepInv, PTL DEF CpuSpec
<1> QED
  BY <1>1, InvRight, PTL
================================================================================
