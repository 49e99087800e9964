-------------------------- MODULE FixtureVerification --------------------------
(***************************************************************************)
(* executable_fixture_verifier.py over executable_workspace.py: a workspace *)
(* is verified while something may still write to it.  Nothing stops the    *)
(* writers; every scan is made twice, and every byte that is released is    *)
(* bracketed by scans.                                                     *)
(*                                                                         *)
(* A file is what it looks like to the verifier, and a stamp, its mtime.   *)
(* One file of a scan is read at once: a stat before and after refuses one *)
(* that changes meanwhile.  All files outside input/ are top-level ones;    *)
(* symlinks, limits and the binding of handle and bundle are left out.     *)
(***************************************************************************)
EXTENDS Naturals, Sequences, Functions

CONSTANTS
  Inputs, Outside,       \* file names in scan order: below input/, the others
  OracleOutputs,         \* those of Outside that the fixture declares, in order
  LooksOf,               \* per file, what it may come to look like
  MaxWrites              \* bound: writes during a verification

VARIABLES
  tree,                  \* per file: [look, stamp]
  root,                  \* ctime of the workspace: top-level files come and go
  stage,
  rootBefore, collected, \* the stable scan under way: its two collections
  inputScan, outputScan, \* results of scans that are still needed
  payloads,              \* declared outputs released so far
  verdict,
  writes, restored, late, existed  \* history: what the writers did; whether the
                                   \* tree was right at some moment

verificationVars == <<tree, root, stage, rootBefore, collected, inputScan, outputScan,
                      payloads, verdict, writes, restored, late, existed>>

Files == Range(Inputs) \cup Range(Outside)
Declared == Range(OracleOutputs)

(* What a declared output looks like to the oracle.                        *)
Looks == {"absent", "good", "bad_mode", "malformed", "wrong"}

ASSUME VerificationAssumption ==
  /\ \A names \in {Inputs, Outside} :
       names \in Seq(Range(names)) /\ IsInjective(names)
  /\ Range(Inputs) \cap Range(Outside) = {}
  /\ OracleOutputs \in Seq(Range(Outside))
  /\ LooksOf \in [Files -> SUBSET Looks]
  /\ MaxWrites \in Nat

Absent == [look |-> "absent", stamp |-> 0]

(* What the fixture's author expects: the baseline, and the oracle's output.*)
Baseline == [i \in DOMAIN Inputs |-> [look |-> "good", stamp |-> 0]]
RightTree(t) ==
  /\ [i \in DOMAIN Inputs |-> t[Inputs[i]]] = Baseline
  /\ \A i \in DOMAIN Outside :
       t[Outside[i]].look = IF Outside[i] \in Declared THEN "good" ELSE "absent"

VerificationInit ==
  /\ \E looks \in [Files -> UNION {LooksOf[f] : f \in Files}] :
       /\ \A f \in Files : looks[f] \in LooksOf[f]
       /\ tree = [f \in Files |-> [look |-> looks[f], stamp |-> 0]]
  /\ root = 0 /\ stage = "input"
  /\ rootBefore = <<>> /\ collected = <<>>
  /\ inputScan = <<>> /\ outputScan = <<>> /\ payloads = <<>>
  /\ verdict = "none" /\ writes = 0 /\ restored = FALSE /\ late = FALSE
  /\ existed = RightTree(tree)

------------------------------------------------------------------------------
(* A writer: a process of the candidate, or another program.  It may give a *)
(* file the time it had before.                                            *)
Write ==
  /\ stage # "done" /\ writes < MaxWrites
  /\ \E f \in Files, keeps \in BOOLEAN : \E look \in LooksOf[f] :
       /\ tree' = [tree EXCEPT ![f] =
                     IF look = "absent" THEN Absent
                     ELSE [look |-> look,
                           stamp |-> IF keeps THEN @.stamp ELSE writes + 1]]
       /\ tree' # tree
       /\ root' = IF f \in Range(Outside)
                       /\ (tree[f] = Absent) # (look = "absent")
                  THEN root + 1 ELSE root
       /\ restored' = (restored \/ keeps)
  /\ writes' = writes + 1
  /\ late' = (late \/ stage \in {"final_input", "final_output"})
  /\ existed' = (existed \/ RightTree(tree'))
  /\ UNCHANGED <<stage, rootBefore, collected, inputScan, outputScan, payloads,
                 verdict>>

------------------------------------------------------------------------------
(* _stable_scan: the root's metadata, the tree twice, the root's again.    *)

Scope == IF stage \in {"input", "final_input"} THEN Inputs ELSE Outside
ScanStages == {"input", "output", "before", "after", "final_input", "final_output"}
HistoryVars == <<writes, restored, late, existed>>
WorldVars == <<tree, root, HistoryVars>>

BeginScan ==
  /\ stage \in ScanStages /\ rootBefore = <<>>
  /\ rootBefore' = <<root>> /\ collected' = <<>>
  /\ UNCHANGED <<WorldVars, stage, inputScan, outputScan, payloads, verdict>>

ScanEntry ==
  /\ stage \in ScanStages /\ rootBefore # <<>>
  /\ Len(collected) < 2 * Len(Scope)
  /\ collected' = Append(collected, tree[(Scope \o Scope)[Len(collected) + 1]])
  /\ UNCHANGED <<WorldVars, stage, rootBefore, inputScan, outputScan, payloads,
                 verdict>>

First  == SubSeq(collected, 1, Len(Scope))
Second == SubSeq(collected, Len(Scope) + 1, 2 * Len(Scope))
Stable == First = Second /\ rootBefore = <<root>>

Scanned == stage \in ScanStages /\ rootBefore # <<>> /\ Len(collected) = 2 * Len(Scope)

Ends(result) == stage' = "done" /\ verdict' = result
Goes(next) == stage' = next /\ UNCHANGED verdict
ScanOver == rootBefore' = <<>> /\ collected' = <<>>

------------------------------------------------------------------------------
(* verify_executable_fixture.                                              *)

InputsScanned ==
  /\ stage = "input" /\ Scanned /\ ScanOver
  /\ IF ~Stable THEN Ends("workspace-scan-failure")
     ELSE IF First # Baseline THEN Ends("input-baseline-mismatch")
     ELSE Goes("output")
  /\ UNCHANGED <<WorldVars, inputScan, outputScan, payloads>>

(* validate_expected_output_policy: the declared files and no others.      *)
PolicyAllows(scan) ==
  \A i \in DOMAIN Outside : (scan[i] # Absent) <=> (Outside[i] \in Declared)

(* The next declared output, or the final scans.                           *)
AfterOutput ==
  IF Len(payloads) < Len(OracleOutputs) THEN "before" ELSE "final_input"

OutputsScanned ==
  /\ stage = "output" /\ Scanned /\ ScanOver
  /\ IF ~Stable THEN Ends("workspace-scan-failure") /\ UNCHANGED outputScan
     ELSE /\ outputScan' = First
          /\ IF PolicyAllows(First) THEN Goes(AfterOutput)
             ELSE Ends("output-policy-failure")
  /\ UNCHANGED <<WorldVars, inputScan, payloads>>

(* read_output_bytes: the scan is still current, the bytes are the scan's,  *)
(* and it is current afterwards.                                           *)
NextOutput == OracleOutputs[Len(payloads) + 1]
EntryOf(f) == outputScan[CHOOSE i \in DOMAIN Outside : Outside[i] = f]

ScanIsCurrent ==
  /\ stage \in {"before", "after"} /\ Scanned /\ ScanOver
  /\ IF ~Stable \/ First # outputScan THEN Ends("output-read-failure")
     ELSE IF stage = "before" THEN Goes("bytes")
     ELSE Goes(AfterOutput)
  /\ UNCHANGED <<WorldVars, inputScan, outputScan, payloads>>

ReadBytes ==
  /\ stage = "bytes"
  /\ IF tree[NextOutput] # EntryOf(NextOutput)
     THEN Ends("output-read-failure") /\ UNCHANGED payloads
     ELSE /\ payloads' = Append(payloads, tree[NextOutput].look)
          /\ Goes("after")
  /\ UNCHANGED <<WorldVars, rootBefore, collected, inputScan, outputScan>>

FinalInputs ==
  /\ stage = "final_input" /\ Scanned /\ ScanOver
  /\ IF ~Stable THEN Ends("workspace-scan-failure") /\ UNCHANGED inputScan
     ELSE inputScan' = First /\ Goes("final_output")
  /\ UNCHANGED <<WorldVars, outputScan, payloads>>

(* What is said of outputs whose bytes and names hold.                     *)
Judgement ==
  LET some(look) == \E i \in DOMAIN payloads : payloads[i] = look IN
  CASE some("bad_mode")  -> "oracle-mode-mismatch"
    [] ~some("bad_mode") /\ some("malformed") -> "malformed-semantic-output"
    [] ~some("bad_mode") /\ ~some("malformed") /\ some("wrong") -> "semantic-mismatch"
    [] OTHER -> "passed"

(* Mutant: the inputs are not looked at again. *)
FinalOutputsOnly ==
  /\ stage = "final_output" /\ Scanned /\ ScanOver
  /\ Ends(IF ~Stable THEN "workspace-scan-failure"
          ELSE IF First # outputScan THEN "output-read-failure"
          ELSE Judgement)
  /\ UNCHANGED <<WorldVars, inputScan, outputScan, payloads>>

FinalOutputs ==
  /\ stage = "final_output" /\ Scanned /\ ScanOver
  /\ Ends(IF ~Stable THEN "workspace-scan-failure"
          ELSE IF inputScan # Baseline THEN "input-baseline-mismatch"
          ELSE IF First # outputScan THEN "output-read-failure"
          ELSE Judgement)
  /\ UNCHANGED <<WorldVars, inputScan, outputScan, payloads>>

VerificationNext ==
  \/ Write \/ BeginScan \/ ScanEntry \/ InputsScanned \/ OutputsScanned
  \/ ScanIsCurrent \/ ReadBytes \/ FinalInputs \/ FinalOutputs

VerificationSpec == VerificationInit /\ [][VerificationNext]_verificationVars

------------------------------------------------------------------------------
(* What passed was right as a whole: if no writer set a time back, there    *)
(* was a moment at which all inputs were the baseline and all outputs the   *)
(* oracle's, although no scan sees more than one file at a time; and        *)
(* whatever they did, the tree is still right if they had stopped when the  *)
(* final scans began.  A workspace nobody writes to passes if it is right. *)
VerdictRight ==
  /\ verdict = "passed" /\ ~restored => existed
  /\ verdict = "passed" /\ ~late => RightTree(tree)
  /\ stage = "done" /\ writes = 0 => (verdict = "passed" <=> RightTree(tree))
=============================================================================
