------------------------ MODULE LifecycleSupervisorProofs ------------------------
(***************************************************************************)
(* For every set of scenarios, every set of failing calls and every size of *)
(* a pipe: the decoder refuses a frame of the lifecycle supervisor only    *)
(* because two incidents are in it; what passes the canary has happened;   *)
(* and a run that nothing disturbed passes it.                             *)
(***************************************************************************)
EXTENDS LifecycleSupervisor, FiniteSetTheorems, SequenceTheorems, TLAPS

USE DEF PidOne, Primary, Procs, Streams, Cap

-----------------------------------------------------------------------------
(* The inductive invariant. *)

Statuses == {"zero", "error", "write_error", "SIGSYS", "SIGKILL"}

(* The types of what the frame is made of. *)
Books ==
  /\ life \in [Procs -> {"unborn", "live", "zombie", "reaped"}]
  /\ parent \in [Procs -> Procs \cup {PidOne}]
  /\ exit_status \in Statuses \cup {"none"}
  /\ pipe \in [Streams -> Nat]
  /\ observed \in [Streams -> 0 .. Cap + 1]
  /\ overflow \in [Streams -> BOOLEAN]
  /\ timed_out \in BOOLEAN /\ primary_reaped \in BOOLEAN /\ all_reaped \in BOOLEAN
  /\ descendants_reaped \in Nat

(* drain_capture raises the flag with the count. *)
Captures == \A s \in Streams : overflow[s] <=> observed[s] > Cap

(* What PID 1 knows of the primary is true. *)
PrimaryKnown ==
  /\ pc = "fork" => life[Primary] = "unborn"
  /\ pc \notin {"fork", "silent"} => life[Primary] # "unborn"
  /\ life[Primary] = "unborn" => Live = {}
  /\ parent[Primary] = PidOne
  /\ life[Primary] \in {"zombie", "reaped"} => exit_status # "none"
  /\ primary_reaped <=> life[Primary] = "reaped"
  /\ primary_reaped => descendants_reaped > 0
  /\ all_reaped => primary_reaped

(* What the three keep together. *)
IInv == Books /\ Captures /\ PrimaryKnown /\ RefusedOnlyForTwo

-----------------------------------------------------------------------------
(* The frame.                                                              *)

(* A set with two different elements does not have at most one. *)
LEMMA TwoElements ==
  ASSUME NEW S, IsFiniteSet(S), NEW x \in S, NEW y \in S, x # y
  PROVE  Cardinality(S) > 1
<1>1. Cardinality(S) \in Nat
  BY FS_CardinalityType
<1>2. Cardinality(S) # 0
  BY FS_EmptySet
<1>3. Cardinality(S) # 1
  BY FS_Singleton
<1> QED
  BY <1>1, <1>2, <1>3

(* The frame that Report writes. *)
Written(error, sole) ==
  [outcome |-> Outcome(error), status |-> Status, flags |-> ResultFlags(sole),
   observed |-> observed, reaped |-> descendants_reaped]

(* The flags that the decoder looks at, and what each one says. *)
LEMMA FlagsSay ==
  ASSUME Books, NEW error \in BOOLEAN, NEW sole \in BOOLEAN
  PROVE  LET f == Written(error, sole) IN
         /\ "REQUEST_VALIDATED" \in f.flags /\ "PID1_VERIFIED" \in f.flags
         /\ "PRIMARY_REAPED" \in f.flags <=> primary_reaped
         /\ "ALL_DESCENDANTS_REAPED" \in f.flags <=> all_reaped
         /\ "STDOUT_OVERFLOW" \in f.flags <=> overflow["stdout"]
         /\ "STDERR_OVERFLOW" \in f.flags <=> overflow["stderr"]
         /\ "TIMED_OUT" \in f.flags <=> timed_out
<1> DEFINE given == [STDOUT_OVERFLOW |-> overflow["stdout"],
                 STDERR_OVERFLOW |-> overflow["stderr"],
                 TIMED_OUT |-> timed_out, PRIMARY_REAPED |-> primary_reaped,
                 ALL_DESCENDANTS_REAPED |-> all_reaped, SOLE_PID1 |-> sole,
                 TERMINATION_SIGNAL_RECEIVED |-> termination_signal_received]
<1>1. Written(error, sole).flags =
        ({"REQUEST_VALIDATED", "PID1_VERIFIED"}
           \cup (IF ready_seen THEN Confinement ELSE {})) \cup Raised(given)
  BY DEF Written, ResultFlags
<1>2. /\ "PRIMARY_REAPED" \in Raised(given) <=> primary_reaped
      /\ "ALL_DESCENDANTS_REAPED" \in Raised(given) <=> all_reaped
      /\ "STDOUT_OVERFLOW" \in Raised(given) <=> overflow["stdout"]
      /\ "STDERR_OVERFLOW" \in Raised(given) <=> overflow["stderr"]
      /\ "TIMED_OUT" \in Raised(given) <=> timed_out
  BY DEF Raised
<1> HIDE DEF given
<1> QED
  BY <1>1, <1>2 DEF Confinement

(* A frame without an error is that of a primary that was waited for.      *)
LEMMA WrittenIsRefusedOnlyForTwo ==
  ASSUME Books, Captures, PrimaryKnown, pc = "report",
         NEW error \in BOOLEAN, NEW sole \in BOOLEAN,
         ~error => sole, sole => Present = {},
         ~Accepted(Written(error, sole))
  PROVE  LET f == Written(error, sole) IN
         \/ Cardinality(Incidents(f)) > 1
         \/ f.outcome = "SUPERVISOR_ERROR" /\ Incidents(f) # {}
<1> DEFINE f == Written(error, sole)
           I == Incidents(f)
<1>1. /\ f.outcome = Outcome(error) /\ f.status = Status
      /\ f.observed = observed /\ f.reaped = descendants_reaped
  BY DEF Written
<1>2. /\ "REQUEST_VALIDATED" \in f.flags /\ "PID1_VERIFIED" \in f.flags
      /\ "PRIMARY_REAPED" \in f.flags <=> primary_reaped
      /\ "ALL_DESCENDANTS_REAPED" \in f.flags <=> all_reaped
      /\ "STDOUT_OVERFLOW" \in f.flags <=> overflow["stdout"]
      /\ "STDERR_OVERFLOW" \in f.flags <=> overflow["stderr"]
      /\ "TIMED_OUT" \in f.flags <=> timed_out
  BY FlagsSay
<1>3. /\ I \subseteq {"STDOUT_OVERFLOW", "STDERR_OVERFLOW", "TIMED_OUT"}
      /\ "STDOUT_OVERFLOW" \in I <=> overflow["stdout"]
      /\ "STDERR_OVERFLOW" \in I <=> overflow["stderr"]
      /\ "TIMED_OUT" \in I <=> timed_out
  BY <1>2 DEF Incidents
<1>4. IsFiniteSet({"STDOUT_OVERFLOW", "STDERR_OVERFLOW", "TIMED_OUT"})
  <2>1. IsFiniteSet({"STDOUT_OVERFLOW"})
    BY FS_Singleton
  <2>2. IsFiniteSet({"STDOUT_OVERFLOW"} \cup {"STDERR_OVERFLOW"})
    BY <2>1, FS_AddElement
  <2>3. IsFiniteSet(({"STDOUT_OVERFLOW"} \cup {"STDERR_OVERFLOW"}) \cup {"TIMED_OUT"})
    BY <2>2, FS_AddElement
  <2>4. ({"STDOUT_OVERFLOW"} \cup {"STDERR_OVERFLOW"}) \cup {"TIMED_OUT"}
          = {"STDOUT_OVERFLOW", "STDERR_OVERFLOW", "TIMED_OUT"}
    OBVIOUS
  <2> QED
    BY <2>3, <2>4
<1>5. IsFiniteSet(I)
  BY <1>3, <1>4, FS_Subset
<1>6. life[Primary] # "unborn"
  BY DEF PrimaryKnown
<1>7. ~error => primary_reaped /\ Status \in Statuses
  <2>1. ~error => life[Primary] = "reaped"
    BY <1>6 DEF Present, Books
  <2> QED
    BY <2>1 DEF PrimaryKnown, Books, Status
<1>8. ChildStatusValid(f)
  <2>1. primary_reaped => exit_status # "none" /\ descendants_reaped >= 1
    BY DEF PrimaryKnown, Books
  <2> QED
    BY <2>1, <1>1, <1>2 DEF ChildStatusValid, Status
<1>9. all_reaped => primary_reaped
  BY DEF PrimaryKnown
<1>10. /\ "STDOUT_OVERFLOW" \in f.flags <=> f.observed["stdout"] > Cap
       /\ "STDERR_OVERFLOW" \in f.flags <=> f.observed["stderr"] > Cap
  BY <1>1, <1>2 DEF Captures
<1>11. ~OutcomeValid(f)
  <2> HIDE DEF f
  <2> QED
    BY <1>2, <1>8, <1>9, <1>10 DEF Accepted, f
<1> HIDE DEF f, I
<1>12. CASE error
  <2>1. f.outcome = "SUPERVISOR_ERROR"
    BY <1>1, <1>12 DEF Outcome
  <2>2. Incidents(f) # {}
    BY <2>1, <1>11 DEF OutcomeValid
  <2> QED
    BY <2>1, <2>2 DEF f
<1>13. CASE ~error
  <2>1. CASE overflow["stdout"]
    <3>1. f.outcome = "STDOUT_OVERFLOW"
      BY <1>1, <1>13, <2>1 DEF Outcome
    <3>2. I # {"STDOUT_OVERFLOW"}
      BY <3>1, <1>11 DEF OutcomeValid, I
    <3>3. PICK x \in I : x # "STDOUT_OVERFLOW"
      BY <3>2, <2>1, <1>3
    <3> QED
      BY <3>3, <2>1, <1>3, <1>5, TwoElements DEF f, I
  <2>2. CASE ~overflow["stdout"] /\ overflow["stderr"]
    <3>1. f.outcome = "STDERR_OVERFLOW"
      BY <1>1, <1>13, <2>2 DEF Outcome
    <3>2. I # {"STDERR_OVERFLOW"}
      BY <3>1, <1>11 DEF OutcomeValid, I
    <3>3. PICK x \in I : x # "STDERR_OVERFLOW"
      BY <3>2, <2>2, <1>3
    <3> QED
      BY <3>3, <2>2, <1>3, <1>5, TwoElements DEF f, I
  <2>3. CASE ~overflow["stdout"] /\ ~overflow["stderr"] /\ timed_out
    <3>1. f.outcome = "WALL_TIMEOUT"
      BY <1>1, <1>13, <2>3 DEF Outcome
    <3>2. I = {"TIMED_OUT"}
      BY <2>3, <1>3
    <3> QED
      BY <3>1, <3>2, <1>11 DEF OutcomeValid, I
  <2>4. CASE ~overflow["stdout"] /\ ~overflow["stderr"] /\ ~timed_out
    <3>1. I = {}
      BY <2>4, <1>3
    <3>2. f.status \in Statuses
      BY <1>1, <1>7, <1>13
    <3>3. f.outcome = IF f.status \in {"SIGKILL", "SIGSYS"} THEN "SIGNAL"
                      ELSE IF f.status # "zero" THEN "NONZERO" ELSE "NORMAL"
      BY <1>1, <1>13, <2>4 DEF Outcome
    <3> QED
      BY <3>1, <3>2, <3>3, <1>11 DEF OutcomeValid, I, Statuses
  <2> QED
    BY <2>1, <2>2, <2>3, <2>4
<1> QED
  BY <1>12, <1>13
-----------------------------------------------------------------------------
(* Steps.                                                                  *)

(* The fresh supervisor, before its fork, satisfies the invariant. *)
LEMMA InitInv == LifecycleInit => IInv
<1> SUFFICES ASSUME LifecycleInit PROVE IInv
  OBVIOUS
<1>1. Books
  <2>1. /\ life \in [Procs -> {"unborn", "live", "zombie", "reaped"}]
        /\ parent \in [Procs -> Procs \cup {PidOne}]
    BY DEF LifecycleInit
  <2>2. /\ pipe \in [Streams -> Nat] /\ observed \in [Streams -> 0 .. Cap + 1]
        /\ overflow \in [Streams -> BOOLEAN]
    BY DEF LifecycleInit
  <2> QED
    BY <2>1, <2>2 DEF LifecycleInit, Books
<1>2. Captures
  BY DEF LifecycleInit, Captures
<1>3. PrimaryKnown
  BY DEF LifecycleInit, PrimaryKnown, Live
<1>4. RefusedOnlyForTwo
  BY DEF LifecycleInit, RefusedOnlyForTwo
<1> QED
  BY <1>1, <1>2, <1>3, <1>4 DEF IInv

(* The end of a process changes nothing that PID 1 believes of the primary. *)
LEMMA EndsInv ==
  ASSUME Books, Captures, PrimaryKnown, RefusedOnlyForTwo,
         NEW p \in Procs, life[p] = "live",
         NEW status \in Statuses, Ends(p, status),
         UNCHANGED <<pc, timed_out, reapVars, captureVars, frame>>,
         pipe' \in [Streams -> Nat]
  PROVE  IInv'
<1> USE DEF captureVars, reapVars
<1>1. Books'
  BY DEF Books, Ends
<1>2. Captures'
  BY DEF Captures
<1>3. PrimaryKnown'
  <2>1. life[Primary] # "unborn"
    BY DEF PrimaryKnown, Live
  <2>2. life' = [life EXCEPT ![p] = "zombie"] /\ life'[Primary] # "unborn"
    BY <2>1 DEF Ends, Books
  <2>3. parent'[Primary] = PidOne
    BY DEF Ends, PrimaryKnown, Books
  <2>4. exit_status' = IF p = Primary THEN status ELSE exit_status
    BY DEF Ends
  <2>5. p = Primary => ~primary_reaped
    BY DEF PrimaryKnown
  <2>6. life'[Primary] \in {"zombie", "reaped"} => exit_status' # "none"
    <3>1. CASE p = Primary
      BY <3>1, <2>4 DEF Statuses
    <3>2. CASE p # Primary
      <4>1. life'[Primary] = life[Primary]
        BY <3>2, <2>2 DEF Books
      <4> QED
        BY <4>1, <3>2, <2>4 DEF PrimaryKnown
    <3> QED
      BY <3>1, <3>2
  <2>7. primary_reaped' <=> life'[Primary] = "reaped"
    BY <2>2, <2>5 DEF PrimaryKnown, Books
  <2>8. pc' # "fork"
    BY <2>1 DEF PrimaryKnown
  <2> QED
    BY <2>2, <2>3, <2>6, <2>7, <2>8 DEF PrimaryKnown
<1>4. RefusedOnlyForTwo'
  BY DEF RefusedOnlyForTwo, Accepted, Incidents, ChildStatusValid, OutcomeValid
<1> QED
  BY <1>1, <1>2, <1>3, <1>4 DEF IInv

(* A step that touches none of the books. *)
LEMMA QuietInv ==
  ASSUME Books, Captures, PrimaryKnown, RefusedOnlyForTwo,
         UNCHANGED <<life, parent, exit_status, pc, timed_out, reapVars, captureVars,
                     frame>>,
         pipe' \in [Streams -> Nat]
  PROVE  IInv'
<1> USE DEF captureVars, reapVars
<1>1. Books' /\ Captures'
  BY DEF Books, Captures
<1>2. PrimaryKnown'
  BY DEF PrimaryKnown, Live
<1>3. RefusedOnlyForTwo'
  BY DEF RefusedOnlyForTwo, Accepted, Incidents, ChildStatusValid, OutcomeValid
<1> QED
  BY <1>1, <1>2, <1>3 DEF IInv

(* Counting one more of anything keeps the counters natural numbers. *)
LEMMA OneMore ==
  ASSUME NEW S, NEW counts \in [S -> Nat], NEW s \in S
  PROVE  [counts EXCEPT ![s] = @ + 1] \in [S -> Nat]
OBVIOUS

(* Whatever a scenario's process does. *)
LEMMA NamespaceInv ==
  ASSUME Books, Captures, PrimaryKnown, RefusedOnlyForTwo, Namespace
  PROVE  IInv'
<1> USE DEF SupervisorUnchanged, stopVars
<1>1. PICK p \in Procs :
        Confine(p) \/ Write(p) \/ ForkChild(p) \/ Notify(p) \/ Await(p) \/ Finish(p)
  BY DEF Namespace
<1>2. pipe \in [Streams -> Nat]
  BY DEF Books
<1>3. CASE Confine(p)
  <2>1. life[p] = "live" /\ UNCHANGED <<pipe, pc, timed_out, reapVars, captureVars, frame>>
    BY <1>3 DEF Confine, Runs, Live
  <2>2. Ends(p, "error") \/ UNCHANGED <<life, parent, exit_status>>
    BY <1>3 DEF Confine
  <2> QED
    BY <2>1, <2>2, <1>2, EndsInv, QuietInv DEF Statuses
<1>4. CASE Write(p)
  <2>1. PICK s \in Streams, instruction \in {"stdout", "flood_stdout", "stderr",
                                             "flood_stderr"} : WriteUnit(p, s, instruction)
    BY <1>4 DEF Write
  <2>2. life[p] = "live" /\ UNCHANGED <<pc, timed_out, reapVars, captureVars, frame>>
    BY <2>1 DEF WriteUnit, Runs, Live
  <2>3. /\ Ends(p, "write_error") \/ UNCHANGED <<life, parent, exit_status>>
        /\ pipe' = pipe \/ pipe' = [pipe EXCEPT ![s] = @ + 1]
    BY <2>1 DEF WriteUnit
  <2>4. pipe' \in [Streams -> Nat]
    <3> HIDE DEF Streams
    <3>1. [pipe EXCEPT ![s] = @ + 1] \in [Streams -> Nat]
      BY <1>2, OneMore
    <3> QED
      BY <2>3, <3>1, <1>2, Zenon
  <2> QED
    BY <2>2, <2>3, <2>4, EndsInv, QuietInv DEF Statuses
<1>5. CASE ForkChild(p)
  <2>1. CASE Ends(p, "error")
    <3>1. life[p] = "live" /\ UNCHANGED <<pipe, pc, timed_out, reapVars, captureVars, frame>>
      BY <1>5 DEF ForkChild, Runs, Live
    <3> QED
      BY <3>1, <2>1, <1>2, EndsInv DEF Statuses
  <2>2. CASE ~Ends(p, "error")
    <3>1. PICK q \in Procs :
            /\ life[q] = "unborn"
            /\ life' = [life EXCEPT ![q] = "live"]
            /\ parent' = [parent EXCEPT ![q] = p]
            /\ UNCHANGED exit_status
      BY <1>5, <2>2 DEF ForkChild
    <3>2. UNCHANGED <<pipe, pc, timed_out, reapVars, captureVars, frame>>
      BY <1>5 DEF ForkChild
    <3>3. life[Primary] # "unborn" /\ q # Primary
      BY <3>1, <1>5 DEF PrimaryKnown, ForkChild, Runs, Live
    <3>4. Books' /\ Captures'
      BY <3>1, <3>2 DEF Books, Captures, captureVars, reapVars
    <3>5. PrimaryKnown'
      <4>1. life'[Primary] = life[Primary] /\ parent'[Primary] = parent[Primary]
        BY <3>1, <3>3 DEF Books
      <4> QED
        BY <4>1, <3>1, <3>2, <3>3 DEF PrimaryKnown, reapVars
    <3>6. RefusedOnlyForTwo'
      BY <3>2 DEF RefusedOnlyForTwo, Accepted, Incidents, ChildStatusValid, OutcomeValid
    <3> QED
      BY <3>4, <3>5, <3>6 DEF IInv
  <2> QED
    BY <2>1, <2>2
<1>6. CASE Notify(p)
  BY <1>6, <1>2, QuietInv DEF Notify
<1>7. CASE Await(p)
  <2>1. life[p] = "live" /\ UNCHANGED <<pipe, pc, timed_out, reapVars, captureVars, frame>>
    BY <1>7 DEF Await, Runs, Live
  <2>2. Ends(p, "error") \/ UNCHANGED <<life, parent, exit_status>>
    BY <1>7 DEF Await
  <2> QED
    BY <2>1, <2>2, <1>2, EndsInv, QuietInv DEF Statuses
<1>8. CASE Finish(p)
  <2>1. life[p] = "live" /\ UNCHANGED <<pipe, pc, timed_out, reapVars, captureVars, frame>>
    BY <1>8 DEF Finish, Runs, Live
  <2>2. Ends(p, "zero") \/ Ends(p, "SIGSYS") \/ Ends(p, "SIGKILL")
    BY <1>8 DEF Finish
  <2> QED
    BY <2>1, <2>2, <1>2, EndsInv DEF Statuses
<1> QED
  BY <1>1, <1>3, <1>4, <1>5, <1>6, <1>7, <1>8

(* A step of PID 1 that neither reaps nor reads nor reports. *)
LEMMA ControlInv ==
  ASSUME Books, Captures, PrimaryKnown, RefusedOnlyForTwo,
         UNCHANGED <<life, parent, exit_status, pipe, reapVars, observed, overflow, frame>>,
         timed_out' \in BOOLEAN,
         pc \notin {"fork", "reported"}, pc' \notin {"fork", "reported"},
         pc = "silent" => pc' = "silent"
  PROVE  IInv'
<1> USE DEF reapVars
<1>1. Books' /\ Captures'
  BY DEF Books, Captures
<1>2. PrimaryKnown'
  BY DEF PrimaryKnown, Live
<1>3. RefusedOnlyForTwo'
  BY DEF RefusedOnlyForTwo
<1> QED
  BY <1>1, <1>2, <1>3 DEF IInv

(* The fork: the primary exists from now on, and PID 1 knows it. *)
LEMMA ForkInv ==
  ASSUME Books, Captures, PrimaryKnown, RefusedOnlyForTwo, Fork
  PROVE  IInv'
<1> USE DEF stopVars, reapVars
<1>1. /\ pc = "fork" /\ life[Primary] = "unborn"
      /\ UNCHANGED <<parent, exit_status, pipe, timed_out, primary_reaped, all_reaped,
                     descendants_reaped, observed, overflow, frame>>
  BY DEF Fork, PrimaryKnown
<1>2. \/ pc' = "silent" /\ UNCHANGED life
      \/ pc' = "reap" /\ life' = [life EXCEPT ![Primary] = "live"]
  BY DEF Fork
<1>3. Books' /\ Captures'
  BY <1>1, <1>2 DEF Books, Captures
<1>4. PrimaryKnown'
  <2>1. CASE pc' = "silent" /\ UNCHANGED life
    BY <2>1, <1>1 DEF PrimaryKnown, Live
  <2>2. CASE pc' = "reap" /\ life' = [life EXCEPT ![Primary] = "live"]
    <3>1. life'[Primary] = "live"
      BY <2>2 DEF Books
    <3> QED
      BY <3>1, <2>2, <1>1 DEF PrimaryKnown
  <2> QED
    BY <1>2, <2>1, <2>2
<1>5. RefusedOnlyForTwo'
  BY <1>2 DEF RefusedOnlyForTwo
<1> QED
  BY <1>3, <1>4, <1>5 DEF IInv

(* reap_available: the counters and the primary status move together. *)
LEMMA ReapInv ==
  ASSUME Books, Captures, PrimaryKnown, RefusedOnlyForTwo,
         ReapOver \/ \E p \in Procs : ReapChild(p)
  PROVE  IInv'
<1> USE DEF stopVars, reapVars, captureVars, processVars, streamVars
<1>1. pc \in {"reap", "sweep_reap"} /\ life[Primary] # "unborn"
  BY DEF ReapOver, ReapChild, Reaping, PrimaryKnown
<1>2. ASSUME NEW p \in Procs, ReapChild(p) PROVE IInv'
  <2>1. /\ life[p] = "zombie" /\ life' = [life EXCEPT ![p] = "reaped"]
        /\ descendants_reaped' = descendants_reaped + 1
        /\ primary_reaped' = (primary_reaped \/ p = Primary)
        /\ UNCHANGED <<parent, exit_status, pipe, pc, timed_out, all_reaped, observed,
                       overflow, frame>>
    BY <1>2 DEF ReapChild
  <2>2. Books' /\ Captures'
    BY <2>1 DEF Books, Captures
  <2>3. descendants_reaped' > 0
    BY <2>1 DEF Books
  <2>4. PrimaryKnown'
    <3>1. CASE p = Primary
      <4>1. life'[Primary] = "reaped" /\ exit_status # "none"
        BY <3>1, <2>1 DEF Books, PrimaryKnown
      <4>2. primary_reaped' = TRUE
        BY <3>1, <2>1
      <4>3. parent'[Primary] = PidOne
        BY <2>1 DEF PrimaryKnown
      <4> QED
        BY <4>1, <4>2, <4>3, <2>1, <1>1, <2>3 DEF PrimaryKnown
    <3>2. CASE p # Primary
      <4>1. life'[Primary] = life[Primary]
        BY <3>2, <2>1 DEF Books
      <4>2. (primary_reaped' <=> primary_reaped) /\ (all_reaped' <=> all_reaped)
        BY <3>2, <2>1
      <4>3. parent'[Primary] = PidOne /\ exit_status' = exit_status /\ pc' = pc
        BY <2>1 DEF PrimaryKnown
      <4> QED
        BY <4>1, <4>2, <4>3, <1>1, <2>3 DEF PrimaryKnown
    <3> QED
      BY <3>1, <3>2
  <2>5. RefusedOnlyForTwo'
    BY <2>1, <1>1 DEF RefusedOnlyForTwo
  <2> QED
    BY <2>2, <2>4, <2>5 DEF IInv
<1>3. CASE ReapOver
  <2>1. /\ all_reaped' \in BOOLEAN
        /\ all_reaped' => all_reaped \/ Children = {}
        /\ pc' \in {"drain", "decide", "sweep_clock"}
        /\ UNCHANGED <<life, parent, exit_status, pipe, timed_out, primary_reaped,
                       descendants_reaped, observed, overflow, frame>>
    BY <1>3 DEF ReapOver, AfterReaping, MayFail, Books
  <2>2. Books' /\ Captures'
    BY <2>1 DEF Books, Captures
  <2>3. Children = {} => primary_reaped
    <3>1. Children = {} => life[Primary] \notin {"live", "zombie"}
      BY DEF Children, Present, PrimaryKnown
    <3>2. life[Primary] \in {"unborn", "live", "zombie", "reaped"}
      BY DEF Books
    <3>3. life[Primary] = "reaped" => primary_reaped
      BY DEF PrimaryKnown
    <3> QED
      BY <3>1, <3>2, <3>3, <1>1
  <2>4. PrimaryKnown'
    BY <2>1, <2>3, <1>1 DEF PrimaryKnown, Live
  <2>5. RefusedOnlyForTwo'
    BY <2>1 DEF RefusedOnlyForTwo
  <2> QED
    BY <2>2, <2>4, <2>5 DEF IInv
<1> QED
  BY <1>2, <1>3

(* Reading a pipe: the count and the flag move together. *)
LEMMA DrainType ==
  ASSUME Books, Captures, NEW streams, Drain(streams)
  PROVE  /\ pipe' \in [Streams -> Nat]
         /\ observed' \in [Streams -> 0 .. Cap + 1]
         /\ overflow' \in [Streams -> BOOLEAN]
         /\ Captures'
<1>1. ASSUME NEW s \in Streams
      PROVE  /\ Captured(s).total \in 0 .. Cap + 1 /\ Captured(s).left \in Nat
             /\ Captured(s).overflow \in BOOLEAN
             /\ Captured(s).overflow <=> Captured(s).total > Cap
  <2> HIDE DEF Streams
  <2>1. pipe[s] \in Nat /\ observed[s] \in 0 .. 2
    BY DEF Books
  <2> DEFINE room == Cap + 1 - observed[s]
             amount == IF pipe[s] < room THEN pipe[s] ELSE room
  <2>2. room \in Nat /\ observed[s] + room = 2
    BY <2>1
  <2> HIDE DEF room
  <2>3. amount \in Nat /\ amount <= room /\ amount <= pipe[s]
    BY <2>1, <2>2
  <2>4. Captured(s) = [total |-> observed[s] + amount, left |-> pipe[s] - amount,
                       overflow |-> observed[s] + amount > Cap,
                       closes |-> observed[s] + amount > Cap \/ Live = {}]
    BY DEF Captured, room
  <2> HIDE DEF amount
  <2>5. observed[s] + amount \in 0 .. Cap + 1 /\ pipe[s] - amount \in Nat
    BY <2>1, <2>2, <2>3
  <2>6. /\ Captured(s).total = observed[s] + amount
        /\ Captured(s).left = pipe[s] - amount
        /\ Captured(s).overflow = (observed[s] + amount > Cap)
    BY <2>4
  <2>7. Captured(s).overflow \in BOOLEAN
    BY <2>6
  <2>8. Captured(s).overflow <=> Captured(s).total > Cap
    BY <2>6
  <2> QED
    BY <2>5, <2>6, <2>7, <2>8
<1>2. /\ pipe \in [Streams -> Nat] /\ observed \in [Streams -> 0 .. Cap + 1]
      /\ overflow \in [Streams -> BOOLEAN]
  BY DEF Books
<1> QED
  BY <1>1, <1>2 DEF Drain, Captures

(* A drain keeps the whole invariant: it touches nothing but captures. *)
LEMMA DrainInv ==
  ASSUME Books, Captures, PrimaryKnown, RefusedOnlyForTwo, NEW streams, Drain(streams),
         UNCHANGED <<processVars, stopVars, reapVars, frame>>,
         pc \notin {"fork", "silent"}, pc' \notin {"fork", "silent", "reported"}
  PROVE  IInv'
<1> USE DEF processVars, stopVars, reapVars
<1>1. Books' /\ Captures'
  BY DrainType DEF Books
<1>2. PrimaryKnown'
  BY DEF PrimaryKnown, Live
<1>3. RefusedOnlyForTwo'
  BY DEF RefusedOnlyForTwo
<1> QED
  BY <1>1, <1>2, <1>3 DEF IInv

(* The only step that writes a frame. *)
LEMMA ReportInv ==
  ASSUME Books, Captures, PrimaryKnown, RefusedOnlyForTwo, Report
  PROVE  IInv'
<1> USE DEF processVars, streamVars, stopVars, reapVars, captureVars
<1>1. pc = "report" /\ pc' \in {"silent", "reported"}
  BY DEF Report
<1>2. UNCHANGED <<life, parent, exit_status, pipe, timed_out, primary_reaped, all_reaped,
                 descendants_reaped, observed, overflow>>
  BY DEF Report
<1>3. Books' /\ Captures'
  BY <1>2 DEF Books, Captures
<1>4. PrimaryKnown'
  BY <1>1, <1>2 DEF PrimaryKnown, Live
<1>5. RefusedOnlyForTwo'
  <2>1. SUFFICES ASSUME pc' = "reported", ~Accepted(frame')
                 PROVE  \/ Cardinality(Incidents(frame')) > 1
                        \/ frame'.outcome = "SUPERVISOR_ERROR" /\ Incidents(frame') # {}
    BY DEF RefusedOnlyForTwo, Accepted, Incidents, ChildStatusValid, OutcomeValid
  <2>2. PICK unreadable \in MayFail("proc"), unsent \in MayFail("result") :
          LET sole  == Present = {} /\ ~unreadable
              error == infrastructure_error \/ ~ready_seen \/ ~sole
          IN IF unsent THEN pc' = "silent" /\ UNCHANGED frame
             ELSE /\ pc' = "reported"
                  /\ frame' = [outcome |-> Outcome(error), status |-> Status,
                               flags |-> ResultFlags(sole), observed |-> observed,
                               reaped |-> descendants_reaped]
    BY DEF Report
  <2> DEFINE sole  == Present = {} /\ ~unreadable
             error == infrastructure_error \/ ~ready_seen \/ ~sole
  <2>3. frame' = Written(error, sole)
    BY <2>1, <2>2 DEF Written
  <2>4. sole \in BOOLEAN /\ error \in BOOLEAN /\ (~error => sole)
        /\ (sole => Present = {})
    OBVIOUS
  <2> HIDE DEF sole, error
  <2>5. ~Accepted(Written(error, sole))
    BY <2>1, <2>3
  <2> QED
    BY <2>3, <2>4, <2>5, <1>1, WrittenIsRefusedOnlyForTwo
<1> QED
  BY <1>3, <1>4, <1>5 DEF IInv

(* Every step of PID 1, of the namespace and of the clock keeps IInv. *)
LEMMA StepInv == IInv /\ [LifecycleNext]_lifecycleVars => IInv'
<1> SUFFICES ASSUME Books, Captures, PrimaryKnown, RefusedOnlyForTwo,
                    [LifecycleNext]_lifecycleVars
             PROVE  IInv'
  BY DEF IInv
<1> USE DEF processVars, streamVars, clockVars, stopVars, reapVars, captureVars
<1>1. CASE Namespace
  BY <1>1, NamespaceInv
<1>2. CASE Signal \/ Clock
  <2>1. /\ UNCHANGED <<life, parent, exit_status, pc, timed_out, reapVars, captureVars, frame>>
        /\ UNCHANGED pipe
    BY <1>2 DEF Signal, Clock
  <2>2. pipe' \in [Streams -> Nat]
    BY <2>1 DEF Books
  <2> QED
    BY <2>1, <2>2, QuietInv
<1>3. CASE Fork
  BY <1>3, ForkInv
<1>4. CASE ReapOver \/ \E p \in Procs : ReapChild(p)
  BY <1>4, ReapInv
<1>5. CASE Decide
  <2>1. timed_out' \in BOOLEAN
    BY <1>5 DEF Decide, Books
  <2>2. /\ pc = "decide" /\ pc' \in {"sweep", "stdout"}
        /\ UNCHANGED <<life, parent, exit_status, pipe, reapVars, observed, overflow, frame>>
    BY <1>5 DEF Decide
  <2> QED
    BY <2>1, <2>2, ControlInv
<1>6. CASE DrainStdout \/ DrainStderr
  <2>1. PICK s \in Streams, next \in {"stderr", "ready"} : DrainStream(s, next)
    BY <1>6 DEF DrainStdout, DrainStderr
  <2> QED
    BY <2>1, DrainInv DEF DrainStream
<1>7. CASE DrainReady
  <2>1. /\ pc = "ready" /\ pc' \in {"sweep", "reap"}
        /\ UNCHANGED <<life, parent, exit_status, pipe, timed_out, reapVars, observed,
                       overflow, frame>>
    BY <1>7 DEF DrainReady
  <2>2. timed_out' \in BOOLEAN
    BY <2>1 DEF Books
  <2> QED
    BY <2>1, <2>2, ControlInv
<1>8. CASE Sweep \/ SweepClock
  <2>1. /\ pc \in {"sweep", "sweep_clock"} /\ pc' \in {"drain", "sweep_reap"}
        /\ UNCHANGED <<life, parent, exit_status, pipe, timed_out, reapVars, observed,
                       overflow, frame>>
    BY <1>8 DEF Sweep, SweepClock
  <2>2. timed_out' \in BOOLEAN
    BY <2>1 DEF Books
  <2> QED
    BY <2>1, <2>2, ControlInv
<1>9. CASE FinalDrain
  BY <1>9, DrainInv DEF FinalDrain
<1>10. CASE Report
  BY <1>10, ReportInv
<1>11. CASE UNCHANGED lifecycleVars
  <2>1. pipe' \in [Streams -> Nat]
    BY <1>11 DEF lifecycleVars, Books
  <2> QED
    BY <1>11, <2>1, QuietInv DEF lifecycleVars
<1> QED
  BY <1>1, <1>2, <1>3, <1>4, <1>5, <1>6, <1>7, <1>8, <1>9, <1>10, <1>11
  DEF LifecycleNext, Supervisor

(* The decoder refuses a frame of this supervisor only when two incidents,  *)
(* or an incident and an error, are in it: main() of                       *)
(* cbds-development-supervisor.c against _validate_result_semantics.        *)
THEOREM RefusedOnlyForTwoCorrect == LifecycleSpec => []RefusedOnlyForTwo
<1>1. LifecycleInit => IInv
  BY InitInv
<1>2. IInv /\ [LifecycleNext]_lifecycleVars => IInv'
  BY StepInv
<1>3. IInv => RefusedOnlyForTwo
  BY DEF IInv
<1> QED
  BY <1>1, <1>2, <1>3, PTL DEF LifecycleSpec

-----------------------------------------------------------------------------
(* Scripts: how far each process of a scenario is.                          *)

Words == {"ready", "fork", "await", "notify", "idle", "stdout", "stderr", "flood_stdout",
          "flood_stderr", "forbidden", "exit"}

(* What is left of a script. *)
IsRest(rest, whole) ==
  /\ Len(rest) <= Len(whole)
  /\ \A i \in 1 .. Len(rest) : rest[i] = whole[Len(whole) - Len(rest) + i]

(* Nothing is done yet. *)
LEMMA RestOfAll ==
  ASSUME NEW whole \in Seq(Words)
  PROVE  IsRest(whole, whole)
BY DEF IsRest

(* One word done: the rest of a rest is a rest. *)
LEMMA RestGoesOn ==
  ASSUME NEW whole \in Seq(Words), NEW rest \in Seq(Words), IsRest(rest, whole),
         rest # <<>>
  PROVE  /\ Tail(rest) \in Seq(Words) /\ Len(Tail(rest)) = Len(rest) - 1
         /\ Len(rest) \in 1 .. Len(whole)
         /\ Head(rest) = whole[Len(whole) - Len(rest) + 1]
         /\ IsRest(Tail(rest), whole)
<1>1. /\ Tail(rest) \in Seq(Words) /\ Len(Tail(rest)) = Len(rest) - 1
      /\ Len(rest) \in Nat /\ Len(rest) # 0 /\ Len(whole) \in Nat
      /\ Head(rest) = rest[1]
      /\ \A i \in 1 .. Len(Tail(rest)) : Tail(rest)[i] = rest[i + 1]
  BY HeadTailProperties, EmptySeq, LenProperties
<1>2. Len(rest) \in 1 .. Len(whole)
  BY <1>1 DEF IsRest
<1>3. Head(rest) = whole[Len(whole) - Len(rest) + 1]
  BY <1>1, <1>2 DEF IsRest
<1>4. IsRest(Tail(rest), whole)
  <2>1. ASSUME NEW i \in 1 .. Len(Tail(rest))
        PROVE  Tail(rest)[i] = whole[Len(whole) - Len(Tail(rest)) + i]
    <3>1. i + 1 \in 1 .. Len(rest)
      BY <1>1
    <3>2. rest[i + 1] = whole[Len(whole) - Len(rest) + (i + 1)]
      BY <3>1 DEF IsRest
    <3>3. Len(whole) - Len(rest) + (i + 1) = Len(whole) - Len(Tail(rest)) + i
      BY <1>1
    <3> QED
      BY <3>2, <3>3, <1>1
  <2> QED
    BY <2>1, <1>1, <1>2 DEF IsRest
<1> QED
  BY <1>1, <1>2, <1>3, <1>4

(* The script of the primary, from its readiness byte on. *)
Whole == <<"ready">> \o PrimaryScript(scenario)

(* The readiness byte comes before the script of the scenario. *)
LEMMA WholeHas ==
  ASSUME NEW s \in Seq(Words), s = PrimaryScript(scenario)
  PROVE  /\ Whole \in Seq(Words) /\ Len(Whole) = 1 + Len(s) /\ Whole[1] = "ready"
         /\ \A i \in 2 .. 1 + Len(s) : Whole[i] = s[i - 1]
<1>1. <<"ready">> \in Seq(Words) /\ Len(<<"ready">>) = 1 /\ <<"ready">>[1] = "ready"
  <2>1. "ready" \in Words
    BY DEF Words
  <2> QED
    BY <2>1
<1>2. Whole = <<"ready">> \o s
  BY DEF Whole
<1>3. /\ Whole \in Seq(Words) /\ Len(Whole) = Len(<<"ready">>) + Len(s)
      /\ \A i \in 1 .. Len(<<"ready">>) + Len(s) :
           Whole[i] = IF i <= Len(<<"ready">>) THEN <<"ready">>[i]
                      ELSE s[i - Len(<<"ready">>)]
  BY <1>1, <1>2, ConcatProperties
<1>4. Len(s) \in Nat
  OBVIOUS
<1>5. ASSUME NEW i \in 2 .. 1 + Len(s) PROVE Whole[i] = s[i - 1]
  <2>1. i \in 1 .. 1 + Len(s) /\ ~(i <= 1)
    BY <1>4
  <2> QED
    BY <2>1, <1>3, <1>1
<1>6. Whole[1] = "ready"
  BY <1>1, <1>3, <1>4
<1> QED
  BY <1>1, <1>3, <1>5, <1>6

(* The nine scripts of run_fixed_scenario, word by word. *)
LEMMA WholeIs ==
  ASSUME scenario \in KnownScenarios
  PROVE  /\ Whole \in Seq(Words) /\ Whole[1] = "ready"
         /\ scenario = "normal" =>
              Len(Whole) = 4 /\ Whole[2] = "stdout" /\ Whole[3] = "stderr" /\ Whole[4] = "exit"
         /\ scenario = "double_fork" =>
              /\ Len(Whole) = 5 /\ Whole[2] = "fork" /\ Whole[3] = "await"
              /\ Whole[4] = "stdout" /\ Whole[5] = "exit"
         /\ scenario = "zombie" =>
              Len(Whole) = 4 /\ Whole[2] = "fork" /\ Whole[3] = "stdout" /\ Whole[4] = "exit"
         /\ scenario = "timeout" => Len(Whole) = 2 /\ Whole[2] = "idle"
         /\ scenario = "stdout" => Len(Whole) = 2 /\ Whole[2] = "flood_stdout"
         /\ scenario = "stderr" => Len(Whole) = 2 /\ Whole[2] = "flood_stderr"
         /\ scenario = "fan-out" =>
              /\ Len(Whole) = 5 /\ Whole[2] = "fork" /\ Whole[3] = "fork"
              /\ Whole[4] = "fork" /\ Whole[5] = "idle"
         /\ scenario = "forbidden" => Len(Whole) = 2 /\ Whole[2] = "forbidden"
         /\ scenario = "spoof" => Len(Whole) = 3 /\ Whole[2] = "stdout" /\ Whole[3] = "exit"
<1>1. CASE scenario = "normal"
  <2> DEFINE s == <<"stdout", "stderr", "exit">>
  <2>1. s = PrimaryScript(scenario)
    BY <1>1 DEF PrimaryScript
  <2>2. s \in Seq(Words) /\ Len(s) = 3 /\ s[1] = "stdout" /\ s[2] = "stderr" /\ s[3] = "exit"
    BY DEF Words
  <2> HIDE DEF s
  <2>3. /\ Whole \in Seq(Words) /\ Len(Whole) = 1 + Len(s) /\ Whole[1] = "ready"
        /\ \A i \in 2 .. 1 + Len(s) : Whole[i] = s[i - 1]
    BY <2>1, <2>2, WholeHas
  <2>4. Len(Whole) = 4 /\ Whole[2] = "stdout" /\ Whole[3] = "stderr" /\ Whole[4] = "exit"
    BY <2>2, <2>3
  <2> QED
    BY <2>3, <2>4, <1>1
<1>2. CASE scenario = "double_fork"
  <2> DEFINE s == <<"fork", "await", "stdout", "exit">>
  <2>1. s = PrimaryScript(scenario)
    BY <1>2 DEF PrimaryScript
  <2>2. s \in Seq(Words) /\ Len(s) = 4 /\ s[1] = "fork" /\ s[2] = "await" /\ s[3] = "stdout" /\ s[4] = "exit"
    BY DEF Words
  <2> HIDE DEF s
  <2>3. /\ Whole \in Seq(Words) /\ Len(Whole) = 1 + Len(s) /\ Whole[1] = "ready"
        /\ \A i \in 2 .. 1 + Len(s) : Whole[i] = s[i - 1]
    BY <2>1, <2>2, WholeHas
  <2>4. Len(Whole) = 5 /\ Whole[2] = "fork" /\ Whole[3] = "await" /\ Whole[4] = "stdout" /\ Whole[5] = "exit"
    BY <2>2, <2>3
  <2> QED
    BY <2>3, <2>4, <1>2
<1>3. CASE scenario = "zombie"
  <2> DEFINE s == <<"fork", "stdout", "exit">>
  <2>1. s = PrimaryScript(scenario)
    BY <1>3 DEF PrimaryScript
  <2>2. s \in Seq(Words) /\ Len(s) = 3 /\ s[1] = "fork" /\ s[2] = "stdout" /\ s[3] = "exit"
    BY DEF Words
  <2> HIDE DEF s
  <2>3. /\ Whole \in Seq(Words) /\ Len(Whole) = 1 + Len(s) /\ Whole[1] = "ready"
        /\ \A i \in 2 .. 1 + Len(s) : Whole[i] = s[i - 1]
    BY <2>1, <2>2, WholeHas
  <2>4. Len(Whole) = 4 /\ Whole[2] = "fork" /\ Whole[3] = "stdout" /\ Whole[4] = "exit"
    BY <2>2, <2>3
  <2> QED
    BY <2>3, <2>4, <1>3
<1>4. CASE scenario = "timeout"
  <2> DEFINE s == <<"idle">>
  <2>1. s = PrimaryScript(scenario)
    BY <1>4 DEF PrimaryScript
  <2>2. s \in Seq(Words) /\ Len(s) = 1 /\ s[1] = "idle"
    BY DEF Words
  <2> HIDE DEF s
  <2>3. /\ Whole \in Seq(Words) /\ Len(Whole) = 1 + Len(s) /\ Whole[1] = "ready"
        /\ \A i \in 2 .. 1 + Len(s) : Whole[i] = s[i - 1]
    BY <2>1, <2>2, WholeHas
  <2>4. Len(Whole) = 2 /\ Whole[2] = "idle"
    BY <2>2, <2>3
  <2> QED
    BY <2>3, <2>4, <1>4
<1>5. CASE scenario = "stdout"
  <2> DEFINE s == <<"flood_stdout">>
  <2>1. s = PrimaryScript(scenario)
    BY <1>5 DEF PrimaryScript
  <2>2. s \in Seq(Words) /\ Len(s) = 1 /\ s[1] = "flood_stdout"
    BY DEF Words
  <2> HIDE DEF s
  <2>3. /\ Whole \in Seq(Words) /\ Len(Whole) = 1 + Len(s) /\ Whole[1] = "ready"
        /\ \A i \in 2 .. 1 + Len(s) : Whole[i] = s[i - 1]
    BY <2>1, <2>2, WholeHas
  <2>4. Len(Whole) = 2 /\ Whole[2] = "flood_stdout"
    BY <2>2, <2>3
  <2> QED
    BY <2>3, <2>4, <1>5
<1>6. CASE scenario = "stderr"
  <2> DEFINE s == <<"flood_stderr">>
  <2>1. s = PrimaryScript(scenario)
    BY <1>6 DEF PrimaryScript
  <2>2. s \in Seq(Words) /\ Len(s) = 1 /\ s[1] = "flood_stderr"
    BY DEF Words
  <2> HIDE DEF s
  <2>3. /\ Whole \in Seq(Words) /\ Len(Whole) = 1 + Len(s) /\ Whole[1] = "ready"
        /\ \A i \in 2 .. 1 + Len(s) : Whole[i] = s[i - 1]
    BY <2>1, <2>2, WholeHas
  <2>4. Len(Whole) = 2 /\ Whole[2] = "flood_stderr"
    BY <2>2, <2>3
  <2> QED
    BY <2>3, <2>4, <1>6
<1>7. CASE scenario = "fan-out"
  <2> DEFINE s == <<"fork", "fork", "fork", "idle">>
  <2>1. s = PrimaryScript(scenario)
    BY <1>7 DEF PrimaryScript
  <2>2. s \in Seq(Words) /\ Len(s) = 4 /\ s[1] = "fork" /\ s[2] = "fork" /\ s[3] = "fork" /\ s[4] = "idle"
    BY DEF Words
  <2> HIDE DEF s
  <2>3. /\ Whole \in Seq(Words) /\ Len(Whole) = 1 + Len(s) /\ Whole[1] = "ready"
        /\ \A i \in 2 .. 1 + Len(s) : Whole[i] = s[i - 1]
    BY <2>1, <2>2, WholeHas
  <2>4. Len(Whole) = 5 /\ Whole[2] = "fork" /\ Whole[3] = "fork" /\ Whole[4] = "fork" /\ Whole[5] = "idle"
    BY <2>2, <2>3
  <2> QED
    BY <2>3, <2>4, <1>7
<1>8. CASE scenario = "forbidden"
  <2> DEFINE s == <<"forbidden">>
  <2>1. s = PrimaryScript(scenario)
    BY <1>8 DEF PrimaryScript
  <2>2. s \in Seq(Words) /\ Len(s) = 1 /\ s[1] = "forbidden"
    BY DEF Words
  <2> HIDE DEF s
  <2>3. /\ Whole \in Seq(Words) /\ Len(Whole) = 1 + Len(s) /\ Whole[1] = "ready"
        /\ \A i \in 2 .. 1 + Len(s) : Whole[i] = s[i - 1]
    BY <2>1, <2>2, WholeHas
  <2>4. Len(Whole) = 2 /\ Whole[2] = "forbidden"
    BY <2>2, <2>3
  <2> QED
    BY <2>3, <2>4, <1>8
<1>9. CASE scenario = "spoof"
  <2> DEFINE s == <<"stdout", "exit">>
  <2>1. s = PrimaryScript(scenario)
    BY <1>9 DEF PrimaryScript
  <2>2. s \in Seq(Words) /\ Len(s) = 2 /\ s[1] = "stdout" /\ s[2] = "exit"
    BY DEF Words
  <2> HIDE DEF s
  <2>3. /\ Whole \in Seq(Words) /\ Len(Whole) = 1 + Len(s) /\ Whole[1] = "ready"
        /\ \A i \in 2 .. 1 + Len(s) : Whole[i] = s[i - 1]
    BY <2>1, <2>2, WholeHas
  <2>4. Len(Whole) = 3 /\ Whole[2] = "stdout" /\ Whole[3] = "exit"
    BY <2>2, <2>3
  <2> QED
    BY <2>3, <2>4, <1>9
<1> QED
  BY <1>1, <1>2, <1>3, <1>4, <1>5, <1>6, <1>7, <1>8, <1>9 DEF KnownScenarios

(* The script of the first process that the primary forks. *)
ChildScript == CASE scenario = "double_fork" -> <<"fork", "notify", "exit">>
                 [] scenario = "zombie" -> <<"exit">>
                 [] OTHER -> <<"idle">>

(* The three scripts of that process, word by word. *)
LEMMA ChildIs ==
  /\ ChildScript \in Seq(Words)
  /\ scenario = "double_fork" =>
       /\ Len(ChildScript) = 3 /\ ChildScript[1] = "fork"
       /\ ChildScript[2] = "notify" /\ ChildScript[3] = "exit"
  /\ scenario = "zombie" => Len(ChildScript) = 1 /\ ChildScript[1] = "exit"
  /\ scenario \notin {"double_fork", "zombie"} =>
       Len(ChildScript) = 1 /\ ChildScript[1] = "idle"
<1>1. CASE scenario = "double_fork"
  <2>1. ChildScript = <<"fork", "notify", "exit">>
    BY <1>1 DEF ChildScript
  <2> QED
    BY <2>1, <1>1 DEF Words
<1>2. CASE scenario = "zombie"
  <2>1. ChildScript = <<"exit">>
    BY <1>2 DEF ChildScript
  <2> QED
    BY <2>1, <1>2 DEF Words
<1>3. CASE scenario \notin {"double_fork", "zombie"}
  <2>1. ChildScript = <<"idle">>
    BY <1>3 DEF ChildScript
  <2> QED
    BY <2>1, <1>3 DEF Words
<1> QED
  BY <1>1, <1>2, <1>3

(* The script of every other process. *)
LEMMA IdleIs == <<"idle">> \in Seq(Words) /\ Len(<<"idle">>) = 1 /\ <<"idle">>[1] = "idle"
BY DEF Words

(* How many words a process has still to do. *)
Left(p) == Len(script[p])

(* It has been forked. *)
Born(p) == life[p] # "unborn"

(* Every process is somewhere in the script of its scenario. *)
Scripts ==
  /\ scenario \in KnownScenarios
  /\ script \in [Procs -> Seq(Words)]
  /\ Born(1) => IsRest(script[1], Whole)
  /\ Born(2) => IsRest(script[2], ChildScript)
  /\ Born(3) => IsRest(script[3], <<"idle">>)
  /\ Born(4) => IsRest(script[4], <<"idle">>)

(* A script has a length, and the empty one has none. *)
LEMMA Lengths ==
  ASSUME Scripts, NEW p \in Procs
  PROVE  Left(p) \in Nat /\ (Left(p) = 0 <=> script[p] = <<>>)
<1>1. script[p] \in Seq(Words)
  BY DEF Scripts
<1> QED
  BY <1>1, EmptySeq, LenProperties DEF Left

(* What a process does next says how far it is. *)
LEMMA Runs1 ==
  ASSUME Scripts, Born(1), script[1] # <<>>
  PROVE  /\ Left(1) \in 1 .. Len(Whole) /\ Head(script[1]) = Whole[Len(Whole) - Left(1) + 1]
         /\ Tail(script[1]) \in Seq(Words) /\ Len(Tail(script[1])) = Left(1) - 1
         /\ IsRest(Tail(script[1]), Whole)
<1>1. Whole \in Seq(Words) /\ script[1] \in Seq(Words) /\ IsRest(script[1], Whole)
  BY WholeIs DEF Scripts
<1> QED
  BY <1>1, RestGoesOn DEF Left

(* The same of the first child. *)
LEMMA Runs2 ==
  ASSUME Scripts, Born(2), script[2] # <<>>
  PROVE  /\ Left(2) \in 1 .. Len(ChildScript)
         /\ Head(script[2]) = ChildScript[Len(ChildScript) - Left(2) + 1]
         /\ Tail(script[2]) \in Seq(Words) /\ Len(Tail(script[2])) = Left(2) - 1
         /\ IsRest(Tail(script[2]), ChildScript)
<1>1. ChildScript \in Seq(Words) /\ script[2] \in Seq(Words) /\ IsRest(script[2], ChildScript)
  BY ChildIs DEF Scripts
<1> QED
  BY <1>1, RestGoesOn DEF Left

(* The other children only idle. *)
LEMMA Runs3 ==
  ASSUME Scripts, NEW p \in {3, 4}, Born(p), script[p] # <<>>
  PROVE  Left(p) = 1 /\ Head(script[p]) = "idle"
<1>1. script[p] \in Seq(Words) /\ IsRest(script[p], <<"idle">>)
  BY DEF Scripts
<1>2. /\ Len(script[p]) \in 1 .. Len(<<"idle">>)
      /\ Head(script[p]) = <<"idle">>[Len(<<"idle">>) - Len(script[p]) + 1]
  BY <1>1, RestGoesOn, IdleIs
<1> DEFINE w == <<"idle">>
<1>3. Len(w) = 1 /\ w[1] = "idle"
  BY IdleIs
<1>4. Len(script[p]) \in 1 .. Len(w) /\ Head(script[p]) = w[Len(w) - Len(script[p]) + 1]
  BY <1>2
<1> HIDE DEF w
<1>5. Len(script[p]) = 1
  BY <1>3, <1>4
<1> QED
  BY <1>3, <1>4, <1>5 DEF Left

(* The word that a process runs tells where in which scenario it is. *)
LEMMA HeadsSay ==
  ASSUME Scripts, NEW p \in Procs, NEW i, Runs(p, i)
  PROVE  /\ Born(p) /\ life[p] = "live" /\ p \notin doomed /\ script[p] # <<>> /\ Left(p) > 0
         /\ i = "ready" <=> p = 1 /\ Left(1) = Len(Whole)
         /\ i = "fork" =>
              \/ p = 1 /\ scenario = "zombie" /\ Left(1) = 3
              \/ p = 1 /\ scenario = "double_fork" /\ Left(1) = 4
              \/ p = 1 /\ scenario = "fan-out" /\ Left(1) \in {2, 3, 4}
              \/ p = 2 /\ scenario = "double_fork" /\ Left(2) = 3
         /\ i = "notify" => p = 2 /\ scenario = "double_fork" /\ Left(2) = 2
         /\ i = "await" => p = 1 /\ scenario = "double_fork" /\ Left(1) = 3
         /\ i = "exit" =>
              /\ Left(p) = 1 /\ p \in {1, 2}
              /\ p = 1 => scenario \in {"normal", "double_fork", "zombie", "spoof"}
         /\ i = "forbidden" => p = 1 /\ Left(p) = 1 /\ scenario = "forbidden"
         /\ i = "stdout" =>
              p = 1 /\ \/ scenario = "normal" /\ Left(1) = 3
                       \/ scenario \in {"double_fork", "zombie", "spoof"} /\ Left(1) = 2
         /\ i = "stderr" => p = 1 /\ scenario = "normal" /\ Left(1) = 2
         /\ i = "flood_stdout" => p = 1 /\ scenario = "stdout" /\ Left(1) = 1
         /\ i = "flood_stderr" => p = 1 /\ scenario = "stderr" /\ Left(1) = 1
         /\ i = "idle" => Left(p) = 1
<1>1. Born(p) /\ life[p] = "live" /\ p \notin doomed /\ script[p] # <<>> /\ Head(script[p]) = i
  BY DEF Runs, Live, Born
<1>2. Left(p) > 0
  BY <1>1, Lengths
<1> SUFFICES
      /\ i = "ready" <=> p = 1 /\ Left(1) = Len(Whole)
      /\ i = "fork" =>
           \/ p = 1 /\ scenario = "zombie" /\ Left(1) = 3
           \/ p = 1 /\ scenario = "double_fork" /\ Left(1) = 4
           \/ p = 1 /\ scenario = "fan-out" /\ Left(1) \in {2, 3, 4}
           \/ p = 2 /\ scenario = "double_fork" /\ Left(2) = 3
      /\ i = "notify" => p = 2 /\ scenario = "double_fork" /\ Left(2) = 2
      /\ i = "await" => p = 1 /\ scenario = "double_fork" /\ Left(1) = 3
      /\ i = "exit" =>
           /\ Left(p) = 1 /\ p \in {1, 2}
           /\ p = 1 => scenario \in {"normal", "double_fork", "zombie", "spoof"}
      /\ i = "forbidden" => p = 1 /\ Left(p) = 1 /\ scenario = "forbidden"
      /\ i = "stdout" =>
           p = 1 /\ \/ scenario = "normal" /\ Left(1) = 3
                    \/ scenario \in {"double_fork", "zombie", "spoof"} /\ Left(1) = 2
      /\ i = "stderr" => p = 1 /\ scenario = "normal" /\ Left(1) = 2
      /\ i = "flood_stdout" => p = 1 /\ scenario = "stdout" /\ Left(1) = 1
      /\ i = "flood_stderr" => p = 1 /\ scenario = "stderr" /\ Left(1) = 1
      /\ i = "idle" => Left(p) = 1
  BY <1>1, <1>2
<1>3. CASE p = 1
  <2>1. Left(1) \in 1 .. Len(Whole) /\ i = Whole[Len(Whole) - Left(1) + 1]
    BY <1>1, <1>3, Runs1
  <2>2. scenario \in KnownScenarios
    BY DEF Scripts
  <2>3. CASE scenario = "normal"
    <3>1. /\ Len(Whole) = 4 /\ Whole[1] = "ready"
          /\ Whole[2] = "stdout" /\ Whole[3] = "stderr" /\ Whole[4] = "exit"
      BY <2>2, <2>3, WholeIs
    <3> QED
      BY <3>1, <1>3, <2>1, <2>3
  <2>4. CASE scenario = "double_fork"
    <3>1. /\ Len(Whole) = 5 /\ Whole[1] = "ready"
          /\ Whole[2] = "fork" /\ Whole[3] = "await" /\ Whole[4] = "stdout" /\ Whole[5] = "exit"
      BY <2>2, <2>4, WholeIs
    <3> QED
      BY <3>1, <1>3, <2>1, <2>4
  <2>5. CASE scenario = "zombie"
    <3>1. /\ Len(Whole) = 4 /\ Whole[1] = "ready"
          /\ Whole[2] = "fork" /\ Whole[3] = "stdout" /\ Whole[4] = "exit"
      BY <2>2, <2>5, WholeIs
    <3> QED
      BY <3>1, <1>3, <2>1, <2>5
  <2>6. CASE scenario = "timeout"
    <3>1. /\ Len(Whole) = 2 /\ Whole[1] = "ready"
          /\ Whole[2] = "idle"
      BY <2>2, <2>6, WholeIs
    <3> QED
      BY <3>1, <1>3, <2>1, <2>6
  <2>7. CASE scenario = "stdout"
    <3>1. /\ Len(Whole) = 2 /\ Whole[1] = "ready"
          /\ Whole[2] = "flood_stdout"
      BY <2>2, <2>7, WholeIs
    <3> QED
      BY <3>1, <1>3, <2>1, <2>7
  <2>8. CASE scenario = "stderr"
    <3>1. /\ Len(Whole) = 2 /\ Whole[1] = "ready"
          /\ Whole[2] = "flood_stderr"
      BY <2>2, <2>8, WholeIs
    <3> QED
      BY <3>1, <1>3, <2>1, <2>8
  <2>9. CASE scenario = "fan-out"
    <3>1. /\ Len(Whole) = 5 /\ Whole[1] = "ready"
          /\ Whole[2] = "fork" /\ Whole[3] = "fork" /\ Whole[4] = "fork" /\ Whole[5] = "idle"
      BY <2>2, <2>9, WholeIs
    <3> QED
      BY <3>1, <1>3, <2>1, <2>9
  <2>10. CASE scenario = "forbidden"
    <3>1. /\ Len(Whole) = 2 /\ Whole[1] = "ready"
          /\ Whole[2] = "forbidden"
      BY <2>2, <2>10, WholeIs
    <3> QED
      BY <3>1, <1>3, <2>1, <2>10
  <2>11. CASE scenario = "spoof"
    <3>1. /\ Len(Whole) = 3 /\ Whole[1] = "ready"
          /\ Whole[2] = "stdout" /\ Whole[3] = "exit"
      BY <2>2, <2>11, WholeIs
    <3> QED
      BY <3>1, <1>3, <2>1, <2>11
  <2> QED
    BY <2>2, <2>3, <2>4, <2>5, <2>6, <2>7, <2>8, <2>9, <2>10, <2>11 DEF KnownScenarios
<1>4. CASE p = 2
  <2>1. Left(2) \in 1 .. Len(ChildScript) /\ i = ChildScript[Len(ChildScript) - Left(2) + 1]
    BY <1>1, <1>4, Runs2
  <2>2. CASE scenario = "double_fork"
    <3>1. Len(ChildScript) = 3 /\ ChildScript[1] = "fork" /\ ChildScript[2] = "notify" /\ ChildScript[3] = "exit"
      BY <2>2, ChildIs
    <3> QED
      BY <3>1, <1>4, <2>1, <2>2
  <2>3. CASE scenario = "zombie"
    <3>1. Len(ChildScript) = 1 /\ ChildScript[1] = "exit"
      BY <2>3, ChildIs
    <3> QED
      BY <3>1, <1>4, <2>1, <2>3
  <2>4. CASE scenario \notin {"double_fork", "zombie"}
    <3>1. Len(ChildScript) = 1 /\ ChildScript[1] = "idle"
      BY <2>4, ChildIs
    <3> QED
      BY <3>1, <1>4, <2>1, <2>4
  <2> QED
    BY <2>2, <2>3, <2>4
<1>5. CASE p \in {3, 4}
  BY <1>1, <1>2, <1>5, Runs3
<1> QED
  BY <1>3, <1>4, <1>5

-----------------------------------------------------------------------------
(* What has happened so far: who was born, who was told, who is left.      *)

(* Who has been born by when. *)
Births ==
  /\ Born(4) => Born(3)
  /\ Born(3) => Born(2)
  /\ Born(2) => Born(1)
  /\ Born(1) =>
       /\ Born(2) <=> \/ scenario = "zombie" /\ Left(1) < 3
                      \/ scenario \in {"double_fork", "fan-out"} /\ Left(1) < 4
       /\ Born(3) <=> \/ scenario = "double_fork" /\ Left(1) < 4 /\ Left(2) < 3
                      \/ scenario = "fan-out" /\ Left(1) < 3
       /\ Born(4) <=> scenario = "fan-out" /\ Left(1) < 2

(* The primary of the double fork goes on when the daemon exists. *)
Told ==
  /\ notified <=> scenario = "double_fork" /\ Born(2) /\ Left(2) < 2
  /\ scenario = "double_fork" /\ Born(1) /\ Left(1) < 3 => notified

(* A process that is not a child of PID 1 has a parent that lives and is *)
(* older; once PID 1 has found no child, nobody is left.                 *)
Family ==
  /\ \A p \in Procs : p \in Present /\ parent[p] # PidOne =>
       life[parent[p]] = "live" /\ parent[p] < p
  /\ all_reaped => Present = {}

(* A process that was waited for counts for one. *)
One(p) == IF life[p] = "reaped" THEN 1 ELSE 0

(* The counter of the frame counts the processes that were waited for. *)
Counted == descendants_reaped = One(1) + One(2) + One(3) + One(4)

(* A readiness byte was written by a primary that went on. *)
ReadyGone ==
  /\ ready_pipe \in Nat
  /\ ready_seen \/ ready_pipe > 0 => Born(1) /\ Left(1) < Len(Whole)

(* The primary that exited, or was stopped by the filter, was at its end. *)
Ended == exit_status \in {"zero", "SIGSYS"} => Born(1) /\ Left(1) = 0

(* A frame that claims to be alone was written with nobody left, from *)
(* what PID 1 still knows.                                            *)
FrameTrue ==
  pc = "reported" /\ "SOLE_PID1" \in frame.flags =>
    Present = {} /\ frame = Written(infrastructure_error, TRUE)

(* The second inductive invariant: what the scenario has done so far. *)
Played ==
  Scripts /\ Births /\ Told /\ Family /\ Counted /\ ReadyGone /\ Ended /\ FrameTrue

(* The scripts depend on the scenario only. *)
LEMMA SameScenario ==
  ASSUME scenario' = scenario
  PROVE  Whole' = Whole /\ ChildScript' = ChildScript
BY DEF Whole, ChildScript

(* One process does one word. *)
LEMMA ProceedsScripts ==
  ASSUME Scripts, NEW p \in {1, 2}, Born(p), script[p] # <<>>, Proceeds(p),
         UNCHANGED scenario, \A q \in Procs : Born(q)' <=> Born(q)
  PROVE  /\ Scripts'
         /\ Left(p) > 0 /\ Left(p)' = Left(p) - 1
         /\ \A q \in Procs : q # p => Left(q)' = Left(q)
<1>1. /\ script \in [Procs -> Seq(Words)]
      /\ script' = [script EXCEPT ![p] = Tail(script[p])]
  BY DEF Scripts, Proceeds
<1>2. Tail(script[p]) \in Seq(Words) /\ Len(Tail(script[p])) = Left(p) - 1
  BY Runs1, Runs2
<1>3. /\ script' \in [Procs -> Seq(Words)] /\ script'[p] = Tail(script[p])
      /\ \A q \in Procs : q # p => script'[q] = script[q]
  BY <1>1, <1>2
<1>4. Left(p) > 0 /\ Left(p)' = Left(p) - 1
  <2>1. Left(p) > 0
    BY Lengths
  <2> QED
    BY <2>1, <1>2, <1>3 DEF Left
<1>5. \A q \in Procs : q # p => Left(q)' = Left(q)
  BY <1>3 DEF Left
<1>6. Scripts'
  <2>1. Whole' = Whole /\ ChildScript' = ChildScript
    BY SameScenario
  <2>2. p = 1 => IsRest(script'[1], Whole)
    BY <1>3, Runs1
  <2>3. p = 2 => IsRest(script'[2], ChildScript)
    BY <1>3, Runs2
  <2> QED
    BY <1>3, <2>1, <2>2, <2>3 DEF Scripts
<1> QED
  BY <1>4, <1>5, <1>6

(* Nobody does a word. *)
LEMMA QuietScripts ==
  ASSUME Scripts, UNCHANGED <<scenario, script>>, \A q \in Procs : Born(q)' <=> Born(q)
  PROVE  /\ Scripts'
         /\ \A q \in Procs : Left(q)' = Left(q)
<1>1. Whole' = Whole /\ ChildScript' = ChildScript
  BY SameScenario
<1> QED
  BY <1>1 DEF Scripts, Left

(* A process that ends. *)
LEMMA EndsPlayed ==
  ASSUME Books, Played, NEW p \in Procs, life[p] = "live",
         NEW status \in Statuses, Ends(p, status),
         \/ script' = script /\ status \notin {"zero", "SIGSYS"}
         \/ Proceeds(p) /\ script[p] # <<>> /\ Left(p) = 1 /\ p \in {1, 2},
         UNCHANGED <<scenario, notified, ready_pipe, pc, infrastructure_error, all_reaped,
                     descendants_reaped, ready_seen, frame>>
  PROVE  Played'
<1> USE DEF Played
<1>1. /\ life' = [life EXCEPT ![p] = "zombie"]
      /\ parent' = [q \in Procs |-> IF parent[q] = p THEN PidOne ELSE parent[q]]
      /\ exit_status' = IF p = Primary THEN status ELSE exit_status
  BY DEF Ends
<1>2. life \in [Procs -> {"unborn", "live", "zombie", "reaped"}]
  BY DEF Books
<1>3. /\ \A q \in Procs : life'[q] = IF q = p THEN "zombie" ELSE life[q]
      /\ \A q \in Procs : Born(q)' <=> Born(q)
      /\ Born(p) /\ p \in Present
  BY <1>1, <1>2 DEF Born, Present
<1>4. /\ Scripts'
      /\ \A q \in Procs : Left(q) \in Nat
      /\ \A q \in Procs : q # p => Left(q)' = Left(q)
      /\ Left(p)' = Left(p) \/ (p \in {1, 2} /\ Left(p) = 1 /\ Left(p)' = 0)
      /\ status \in {"zero", "SIGSYS"} => Left(p)' = 0
  <2>1. \A q \in Procs : Left(q) \in Nat
    BY Lengths
  <2>2. CASE script' = script /\ status \notin {"zero", "SIGSYS"}
    <3>1. Scripts' /\ \A q \in Procs : Left(q)' = Left(q)
      BY <2>2, <1>3, QuietScripts
    <3> QED
      BY <2>1, <2>2, <3>1
  <2>3. CASE Proceeds(p) /\ script[p] # <<>> /\ Left(p) = 1 /\ p \in {1, 2}
    <3>2. /\ Scripts' /\ Left(p)' = Left(p) - 1
          /\ \A q \in Procs : q # p => Left(q)' = Left(q)
      BY <2>3, <1>3, ProceedsScripts
    <3>3. Left(p)' = 0
      BY <2>3, <3>2
    <3> QED
      BY <2>1, <2>3, <3>2, <3>3
  <2> QED
    BY <2>2, <2>3
<1>5. Births'
  BY <1>3, <1>4 DEF Births
<1>6. Told'
  BY <1>3, <1>4 DEF Told
<1>7. Family'
  <2>1. ~all_reaped
    BY <1>3 DEF Family
  <2>2. ASSUME NEW q \in Procs, q \in Present', parent'[q] # PidOne
        PROVE  life'[parent'[q]] = "live" /\ parent'[q] < q
    <3>1. parent'[q] = parent[q] /\ parent[q] # p /\ parent[q] # PidOne
      BY <1>1, <2>2
    <3>2. q \in Present
      BY <2>2, <1>3 DEF Present
    <3>3. life[parent[q]] = "live" /\ parent[q] < q /\ parent[q] \in Procs
      BY <3>1, <3>2 DEF Family, Books
    <3> QED
      BY <3>1, <3>3, <1>3
  <2> QED
    BY <2>1, <2>2 DEF Family
<1>8. Counted'
  <2>1. \A q \in Procs : One(q)' = One(q)
    BY <1>3 DEF One
  <2> QED
    BY <2>1 DEF Counted
<1>9. ReadyGone'
  <2>1. Whole' = Whole
    BY SameScenario
  <2>2. Len(Whole) \in Nat
    BY WholeIs DEF Scripts
  <2>3. Left(1)' <= Left(1) /\ Left(1)' \in Nat /\ Left(1) \in Nat
    BY <1>4
  <2> QED
    BY <2>1, <2>2, <2>3, <1>3 DEF ReadyGone
<1>10. Ended'
  BY <1>1, <1>3, <1>4 DEF Ended, Statuses
<1>11. FrameTrue'
  <2>1. Present # {}
    BY <1>3
  <2> QED
    BY <2>1 DEF FrameTrue
<1> QED
  BY <1>4, <1>5, <1>6, <1>7, <1>8, <1>9, <1>10, <1>11

(* A process that goes on to its next instruction. *)
LEMMA GoesOnPlayed ==
  ASSUME Books, Played, NEW p \in Procs,
         NEW i \in {"ready", "stdout", "stderr", "notify", "await"},
         Runs(p, i), Proceeds(p),
         i = "await" => notified,
         notified' <=> (notified \/ i = "notify"),
         ready_pipe' = IF i = "ready" THEN 1 ELSE ready_pipe,
         UNCHANGED <<scenario, life, parent, exit_status, pc, infrastructure_error,
                     all_reaped, descendants_reaped, ready_seen, frame>>
  PROVE  Played'
<1> USE DEF Played
<1>1. /\ Born(p) /\ life[p] = "live" /\ script[p] # <<>> /\ Left(p) > 0
      /\ i = "ready" <=> p = 1 /\ Left(1) = Len(Whole)
      /\ i = "notify" => p = 2 /\ scenario = "double_fork" /\ Left(2) = 2
      /\ i = "await" => p = 1 /\ scenario = "double_fork" /\ Left(1) = 3
      /\ i = "stdout" =>
           p = 1 /\ \/ scenario = "normal" /\ Left(1) = 3
                    \/ scenario \in {"double_fork", "zombie", "spoof"} /\ Left(1) = 2
      /\ i = "stderr" => p = 1 /\ scenario = "normal" /\ Left(1) = 2
  BY HeadsSay
<1>2. p \in {1, 2}
  BY <1>1
<1>3. /\ \A q \in Procs : Born(q)' <=> Born(q)
      /\ (Born(1)' <=> Born(1)) /\ (Born(2)' <=> Born(2))
      /\ (Born(3)' <=> Born(3)) /\ (Born(4)' <=> Born(4))
  BY DEF Born
<1>4. /\ Scripts'
      /\ Left(p)' = Left(p) - 1
      /\ \A q \in Procs : q # p => Left(q)' = Left(q)
  BY <1>1, <1>2, <1>3, ProceedsScripts
<1>5. /\ \A q \in Procs : Left(q) \in Nat
      /\ Left(1) \in Nat /\ Left(2) \in Nat /\ Len(Whole) \in Nat
      /\ scenario \in {"double_fork", "fan-out"} => Len(Whole) = 5
      /\ scenario = "zombie" => Len(Whole) = 4
  BY Lengths, WholeIs DEF Scripts
<1>6. ASSUME p = 1 PROVE Births' /\ Told'
  <2>1. Left(1)' = Left(1) - 1 /\ Left(2)' = Left(2)
    BY <1>4, <1>6
  <2>2. CASE scenario = "double_fork"
    <3>1. Len(Whole) = 5
      BY <2>2, <1>5
    <3>2. Left(1) \in {2, 3, 5} /\ (Left(1) = 3 => i = "await") /\ i # "notify"
      <4>1. CASE i \in {"ready", "notify", "await"}
        BY <4>1, <3>1, <1>1, <1>6
      <4>2. CASE i \in {"stdout", "stderr"}
        BY <4>2, <3>1, <2>2, <1>1, <1>6
      <4> QED
        BY <4>1, <4>2
    <3>3. (Left(1) = 3 => notified) /\ (notified' <=> notified)
      BY <3>2
    <3> QED
      BY <3>2, <3>3, <2>1, <2>2, <1>3, <1>5 DEF Births, Told
  <2>3. CASE scenario = "zombie"
    <3>1. Len(Whole) = 4
      BY <2>3, <1>5
    <3>2. Left(1) \in {2, 4} /\ (notified' <=> notified)
      BY <3>1, <2>3, <1>1, <1>6
    <3> QED
      BY <3>2, <2>1, <2>3, <1>3, <1>5 DEF Births, Told
  <2>4. CASE scenario = "fan-out"
    <3>1. Len(Whole) = 5
      BY <2>4, <1>5
    <3>2. Left(1) = 5 /\ (notified' <=> notified)
      BY <3>1, <2>4, <1>1, <1>6
    <3> QED
      BY <3>2, <2>1, <2>4, <1>3, <1>5 DEF Births, Told
  <2>5. CASE scenario \notin {"double_fork", "zombie", "fan-out"}
    <3>1. notified' <=> notified
      BY <2>5, <1>1
    <3> QED
      BY <3>1, <2>1, <2>5, <1>3, <1>5 DEF Births, Told
  <2> QED
    BY <2>2, <2>3, <2>4, <2>5
<1>7. ASSUME p = 2 PROVE Births' /\ Told'
  <2>1. /\ scenario = "double_fork" /\ Left(2) = 2 /\ Left(2)' = 1 /\ Left(1)' = Left(1)
        /\ i = "notify"
    BY <1>1, <1>4, <1>7
  <2> QED
    BY <2>1, <1>1, <1>3, <1>5, <1>7 DEF Births, Told
<1>8. Births' /\ Told'
  BY <1>2, <1>6, <1>7
<1>9. Family'
  BY DEF Family, Present
<1>10. Counted'
  BY DEF Counted, One
<1>11. ReadyGone'
  <2>1. Whole' = Whole
    BY SameScenario
  <2>2. Left(1)' <= Left(1) /\ Left(1)' \in Nat
    BY <1>4, <1>5, <1>1
  <2> QED
    BY <2>1, <2>2, <1>1, <1>3, <1>4, <1>5 DEF ReadyGone
<1>12. Ended'
  BY <1>1, <1>3, <1>4 DEF Ended
<1>13. FrameTrue'
  <2>1. Present # {}
    BY <1>1 DEF Present
  <2> QED
    BY <2>1 DEF FrameTrue
<1> QED
  BY <1>4, <1>8, <1>9, <1>10, <1>11, <1>12, <1>13

(* The next process to be born is the first that is not. *)
LEMMA OthersBorn ==
  ASSUME Books, Births, NEW q \in Procs, life[q] = "unborn",
         \A r \in Procs : r < q => life[r] # "unborn"
  PROVE  /\ q = 2 => Born(1) /\ ~Born(3) /\ ~Born(4)
         /\ q = 3 => Born(1) /\ Born(2) /\ ~Born(4)
         /\ q = 4 => Born(1) /\ Born(2) /\ Born(3)
BY DEF Births, Born

(* A process that forks. *)
LEMMA ForkPlayed ==
  ASSUME Books, Played, NEW p \in Procs, Runs(p, "fork"), NEW q \in Procs,
         life[q] = "unborn", \A r \in Procs : r < q => life[r] # "unborn",
         life' = [life EXCEPT ![q] = "live"],
         parent' = [parent EXCEPT ![q] = p],
         script' = [script EXCEPT ![p] = Tail(@), ![q] = ScriptOfChild(p)],
         UNCHANGED <<scenario, exit_status, notified, ready_pipe, pc, infrastructure_error,
                     all_reaped, descendants_reaped, ready_seen, frame>>
  PROVE  Played'
<1> USE DEF Played
<1>1. /\ Born(p) /\ life[p] = "live" /\ script[p] # <<>> /\ Left(p) > 0
      /\ p \in Present
      /\ \/ p = 1 /\ scenario = "zombie" /\ Left(1) = 3
         \/ p = 1 /\ scenario = "double_fork" /\ Left(1) = 4
         \/ p = 1 /\ scenario = "fan-out" /\ Left(1) \in {2, 3, 4}
         \/ p = 2 /\ scenario = "double_fork" /\ Left(2) = 3
  BY HeadsSay DEF Present
<1>2. /\ life \in [Procs -> {"unborn", "live", "zombie", "reaped"}]
      /\ parent \in [Procs -> Procs \cup {PidOne}]
      /\ script \in [Procs -> Seq(Words)]
  BY DEF Books, Scripts
<1>3. p # q /\ p \in {1, 2} /\ q \in {2, 3, 4}
  BY <1>1 DEF Born, Births
<1>4. /\ \A r \in Procs : life'[r] = IF r = q THEN "live" ELSE life[r]
      /\ \A r \in Procs : parent'[r] = IF r = q THEN p ELSE parent[r]
      /\ \A r \in Procs : r # q => (Born(r)' <=> Born(r))
      /\ Born(q)'
  BY <1>2 DEF Born
<1>5. \/ q = 2 /\ p = 1 /\ scenario = "zombie" /\ Left(1) = 3
      \/ q = 2 /\ p = 1 /\ scenario = "double_fork" /\ Left(1) = 4
      \/ q = 2 /\ p = 1 /\ scenario = "fan-out" /\ Left(1) = 4
      \/ q = 3 /\ p = 1 /\ scenario = "fan-out" /\ Left(1) = 3
      \/ q = 4 /\ p = 1 /\ scenario = "fan-out" /\ Left(1) = 2
      \/ q = 3 /\ p = 2 /\ scenario = "double_fork" /\ Left(2) = 3
  BY <1>1, <1>3, OthersBorn DEF Births, Born
<1>6. /\ ScriptOfChild(p) \in Seq(Words)
      /\ q = 2 => ScriptOfChild(p) = ChildScript
      /\ q \in {3, 4} => ScriptOfChild(p) = <<"idle">>
  <2>1. q = 2 => ScriptOfChild(p) = ChildScript
    <3>1. CASE q = 2 /\ scenario = "double_fork"
      <4>1. ScriptOfChild(p) = <<"fork", "notify", "exit">>
        BY <3>1, <1>5 DEF ScriptOfChild
      <4> QED
        BY <4>1, <3>1 DEF ChildScript
    <3>2. CASE q = 2 /\ scenario = "zombie"
      <4>1. ScriptOfChild(p) = <<"exit">>
        BY <3>2 DEF ScriptOfChild
      <4> QED
        BY <4>1, <3>2 DEF ChildScript
    <3>3. CASE q = 2 /\ scenario = "fan-out"
      <4>1. ScriptOfChild(p) = <<"idle">>
        BY <3>3 DEF ScriptOfChild
      <4> QED
        BY <4>1, <3>3 DEF ChildScript
    <3> QED
      BY <3>1, <3>2, <3>3, <1>5
  <2>2. q \in {3, 4} => ScriptOfChild(p) = <<"idle">>
    <3>1. q \in {3, 4} => ~(scenario = "double_fork" /\ p = Primary) /\ scenario # "zombie"
      BY <1>5
    <3> QED
      BY <3>1, Zenon DEF ScriptOfChild
  <2> QED
    BY <2>1, <2>2, <1>3, ChildIs, IdleIs
<1>7. /\ Tail(script[p]) \in Seq(Words) /\ Len(Tail(script[p])) = Left(p) - 1
      /\ p = 1 => IsRest(Tail(script[p]), Whole)
      /\ p = 2 => IsRest(Tail(script[p]), ChildScript)
  BY <1>1, <1>3, Runs1, Runs2
<1>8. /\ script' \in [Procs -> Seq(Words)]
      /\ script'[p] = Tail(script[p]) /\ script'[q] = ScriptOfChild(p)
      /\ \A r \in Procs : r # p /\ r # q => script'[r] = script[r]
  BY <1>2, <1>3, <1>6, <1>7
<1>9. /\ Left(p)' = Left(p) - 1
      /\ \A r \in Procs : r # p /\ r # q => Left(r)' = Left(r)
      /\ q = 2 => Left(2)' = Len(ChildScript)
  BY <1>6, <1>7, <1>8 DEF Left
<1>10. Scripts'
  <2>1. Whole' = Whole /\ ChildScript' = ChildScript
    BY SameScenario
  <2>2. IsRest(ChildScript, ChildScript) /\ IsRest(<<"idle">>, <<"idle">>)
    BY ChildIs, IdleIs, RestOfAll
  <2>3. scenario' \in KnownScenarios
    BY DEF Scripts
  <2>4. Born(1)' => IsRest(script'[1], Whole)
    <3>1. CASE p = 1
      BY <3>1, <1>7, <1>8
    <3>2. CASE p # 1
      <4>1. script'[1] = script[1] /\ (Born(1)' => Born(1))
        BY <3>2, <1>3, <1>4, <1>8
      <4> QED
        BY <4>1 DEF Scripts
    <3> QED
      BY <3>1, <3>2
  <2>5. Born(2)' => IsRest(script'[2], ChildScript)
    <3>1. CASE q = 2
      BY <3>1, <1>6, <1>8, <2>2
    <3>2. CASE p = 2
      BY <3>2, <1>7, <1>8
    <3>3. CASE q # 2 /\ p # 2
      <4>1. script'[2] = script[2] /\ (Born(2)' => Born(2))
        BY <3>3, <1>4, <1>8
      <4> QED
        BY <4>1 DEF Scripts
    <3> QED
      BY <3>1, <3>2, <3>3
  <2>6. ASSUME NEW r \in {3, 4}, Born(r)' PROVE IsRest(script'[r], <<"idle">>)
    <3>1. CASE q = r
      BY <3>1, <1>6, <1>8, <2>2
    <3>2. CASE q # r
      <4>1. script'[r] = script[r] /\ Born(r)
        BY <3>2, <2>6, <1>3, <1>4, <1>8
      <4> QED
        BY <4>1 DEF Scripts
    <3> QED
      BY <3>1, <3>2
  <2> QED
    BY <2>1, <2>3, <2>4, <2>5, <2>6, <1>8 DEF Scripts
<1>11. /\ \A r \in Procs : Left(r) \in Nat
       /\ Left(1) \in Nat /\ Left(2) \in Nat
       /\ Left(1)' = IF p = 1 THEN Left(1) - 1 ELSE Left(1)
       /\ Left(2)' = IF q = 2 THEN Len(ChildScript) ELSE IF p = 2 THEN Left(2) - 1 ELSE Left(2)
  BY <1>3, <1>9, Lengths
<1>12. Births'
  <2>1. scenario = "double_fork" => Len(ChildScript) = 3
    BY ChildIs
  <2>2. /\ q = 2 => Born(1) /\ ~Born(3) /\ ~Born(4)
        /\ q = 3 => Born(1) /\ Born(2) /\ ~Born(4)
        /\ q = 4 => Born(1) /\ Born(2) /\ Born(3)
    BY OthersBorn
  <2>3. /\ q # 1 => (Born(1)' <=> Born(1))
        /\ q # 2 => (Born(2)' <=> Born(2))
        /\ q # 3 => (Born(3)' <=> Born(3))
        /\ q # 4 => (Born(4)' <=> Born(4))
        /\ q = 2 => Born(2)'
        /\ q = 3 => Born(3)'
        /\ q = 4 => Born(4)'
    BY <1>4
  <2>4. CASE q = 2
    <3>1. /\ p = 1 /\ Left(1)' = Left(1) - 1 /\ Left(2)' = Len(ChildScript)
          /\ \/ scenario = "zombie" /\ Left(1) = 3
             \/ scenario = "double_fork" /\ Left(1) = 4
             \/ scenario = "fan-out" /\ Left(1) = 4
      BY <2>4, <1>5, <1>11
    <3>2. /\ Born(1)' /\ Born(2)' /\ ~Born(3)' /\ ~Born(4)'
      BY <2>2, <2>3, <2>4
    <3>3. CASE scenario = "double_fork"
      <4>1. Len(ChildScript) = 3
        BY <3>3, <2>1
      <4> QED
        BY <4>1, <3>1, <3>2, <3>3 DEF Births
    <3>4. CASE scenario \in {"zombie", "fan-out"}
      BY <3>1, <3>2, <3>4 DEF Births
    <3> QED
      BY <3>1, <3>3, <3>4
  <2>5. CASE q = 3
    BY <2>2, <2>3, <2>5, <1>5, <1>11 DEF Births
  <2>6. CASE q = 4
    BY <2>2, <2>3, <2>6, <1>5, <1>11 DEF Births
  <2> QED
    BY <2>4, <2>5, <2>6, <1>3
<1>13. Told'
  <2>1. ~notified
    <3>1. q = 2 => ~Born(2)
      BY <1>4 DEF Born
    <3>2. q = 3 => scenario # "double_fork" \/ Left(2) = 3
      BY <1>5
    <3> QED
      BY <3>1, <1>5 DEF Told, Births
  <2>2. scenario = "double_fork" => ~(Born(2)' /\ Left(2)' < 2)
    <3>1. CASE scenario = "double_fork" /\ q = 2
      <4>1. Len(ChildScript) = 3
        BY <3>1, ChildIs
      <4> QED
        BY <4>1, <3>1, <1>11
    <3>2. CASE scenario = "double_fork" /\ q = 3
      <4>1. p = 2 /\ Left(2) = 3
        BY <3>2, <1>5
      <4> QED
        BY <4>1, <3>2, <1>11
    <3> QED
      BY <3>1, <3>2, <1>5
  <2>3. scenario = "double_fork" /\ Born(1)' => ~(Left(1)' < 3)
    <3>1. CASE scenario = "double_fork" /\ p = 1
      <4>1. Left(1) = 4
        BY <3>1, <1>5
      <4> QED
        BY <4>1, <3>1, <1>11
    <3>2. CASE scenario = "double_fork" /\ p = 2
      <4>1. Left(1)' = Left(1) /\ Born(1)
        BY <3>2, <1>1, <1>11 DEF Births
      <4> QED
        BY <4>1, <2>1, <3>2 DEF Told
    <3> QED
      BY <3>1, <3>2, <1>3
  <2> QED
    BY <2>1, <2>2, <2>3 DEF Told
<1>14. Family'
  <2>1. ~all_reaped
    BY <1>1 DEF Family
  <2>2. ASSUME NEW r \in Procs, r \in Present', parent'[r] # PidOne
        PROVE  life'[parent'[r]] = "live" /\ parent'[r] < r
    <3>1. CASE r = q
      BY <3>1, <1>1, <1>3, <1>4, <1>5
    <3>2. CASE r # q
      <4>1. r \in Present /\ parent'[r] = parent[r]
        BY <3>2, <2>2, <1>4 DEF Present
      <4>2. life[parent[r]] = "live" /\ parent[r] < r /\ parent[r] \in Procs
        BY <4>1, <2>2, <1>2 DEF Family
      <4> QED
        BY <4>1, <4>2, <1>4
    <3> QED
      BY <3>1, <3>2
  <2> QED
    BY <2>1, <2>2 DEF Family
<1>15. Counted'
  <2>1. \A r \in Procs : One(r)' = One(r)
    BY <1>4 DEF One
  <2> QED
    BY <2>1 DEF Counted
<1>16. ReadyGone'
  <2>1. Whole' = Whole
    BY SameScenario
  <2>2. Len(Whole) \in Nat
    BY WholeIs DEF Scripts
  <2>3. Left(1)' <= Left(1) /\ Left(1)' \in Nat
    BY <1>3, <1>9, <1>11, <1>1
  <2> QED
    BY <2>1, <2>2, <2>3, <1>3, <1>4, <1>11 DEF ReadyGone
<1>17. Ended'
  BY <1>1, <1>3, <1>4, <1>9 DEF Ended
<1>18. FrameTrue'
  <2>1. Present # {}
    BY <1>1
  <2> QED
    BY <2>1 DEF FrameTrue
<1> QED
  BY <1>10, <1>12, <1>13, <1>14, <1>15, <1>16, <1>17, <1>18

(* A step that moves no process: what it may do to the rest. *)
LEMMA QuietPlayed ==
  ASSUME Books, Played,
         UNCHANGED <<scenario, life, parent, script, exit_status, notified,
                     descendants_reaped>>,
         ready_pipe' \in Nat,
         ready_seen' \/ ready_pipe' > 0 => ready_seen \/ ready_pipe > 0,
         all_reaped' => Present = {}, FrameTrue'
  PROVE  Played'
<1> USE DEF Played
<1>1. \A q \in Procs : Born(q)' <=> Born(q)
  BY DEF Born
<1>2. Scripts' /\ \A q \in Procs : Left(q)' = Left(q)
  BY <1>1, QuietScripts
<1>3. Whole' = Whole
  BY SameScenario
<1>4. Births' /\ Told' /\ Ended'
  BY <1>1, <1>2 DEF Births, Told, Ended
<1>5. Family' /\ Counted'
  BY DEF Family, Present, Counted, One
<1>6. ReadyGone'
  BY <1>1, <1>2, <1>3 DEF ReadyGone
<1> QED
  BY <1>2, <1>4, <1>5, <1>6

-----------------------------------------------------------------------------
(* The steps of the namespace and of PID 1 keep it.                        *)

(* Before the report nothing is said of the frame. *)
LEMMA NoFrameYet == pc' # "reported" => FrameTrue'
BY DEF FrameTrue

(* Nothing of what the frame is about changes. *)
LEMMA SameFrame ==
  ASSUME FrameTrue,
         UNCHANGED <<pc, frame, life, exit_status, infrastructure_error, stopVars, reapVars,
                     observed, overflow, ready_seen>>
  PROVE  FrameTrue'
<1> USE DEF stopVars, reapVars
<1>1. Written(infrastructure_error, TRUE)' = Written(infrastructure_error, TRUE)
  BY DEF Written, Outcome, Status, ResultFlags
<1> QED
  BY <1>1 DEF FrameTrue, Present

(* Whatever a process of the scenario does keeps Played. *)
LEMMA NamespacePlayed ==
  ASSUME Books, Played, Namespace
  PROVE  Played'
<1> USE DEF SupervisorUnchanged, stopVars, captureVars, reapVars
<1>1. PICK p \in Procs :
        Confine(p) \/ Write(p) \/ ForkChild(p) \/ Notify(p) \/ Await(p) \/ Finish(p)
  BY DEF Namespace
<1>2. Scripts /\ FrameTrue /\ ready_pipe \in Nat
  BY DEF Played, ReadyGone
<1>3. CASE Confine(p)
  <2>1. /\ Runs(p, "ready") /\ life[p] = "live"
        /\ UNCHANGED <<scenario, notified, pc, infrastructure_error, all_reaped,
                       descendants_reaped, ready_seen, frame>>
    BY <1>3 DEF Confine, Runs, Live
  <2>2. CASE Ends(p, "error") /\ UNCHANGED <<script, ready_pipe>>
    BY <2>1, <2>2, EndsPlayed DEF Statuses
  <2>3. CASE ready_pipe' = 1 /\ Proceeds(p) /\ UNCHANGED <<life, parent, exit_status>>
    <3>1. notified' <=> (notified \/ "ready" = "notify")
      BY <2>1, <2>3, <1>3 DEF Confine
    <3>2. "ready" \in {"ready", "stdout", "stderr", "notify", "await"}
      OBVIOUS
    <3> QED
      BY <2>1, <2>3, <3>1, <3>2, GoesOnPlayed
  <2> QED
    BY <1>3, <2>2, <2>3 DEF Confine
<1>4. CASE Write(p)
  <2>1. PICK s \in Streams, instruction \in {"stdout", "flood_stdout", "stderr",
                                             "flood_stderr"} :
          /\ WriteUnit(p, s, instruction)
          /\ instruction \in {"stdout", "stderr"} => instruction = s
          /\ instruction \in {"flood_stdout", "flood_stderr"} => instruction # s
    BY <1>4 DEF Write
  <2>2. /\ Runs(p, instruction) /\ life[p] = "live"
        /\ UNCHANGED <<scenario, notified, ready_pipe, pc, infrastructure_error, stopVars,
                       reapVars, observed, overflow, ready_seen, frame>>
    BY <2>1 DEF WriteUnit, Runs, Live
  <2>3. CASE Ends(p, "write_error") /\ UNCHANGED script
    BY <2>2, <2>3, EndsPlayed DEF Statuses
  <2>4. CASE UNCHANGED <<life, parent, exit_status>> /\ instruction = s /\ Proceeds(p)
    <3>1. notified' <=> (notified \/ instruction = "notify")
      BY <2>2
    <3>2. ready_pipe' = IF instruction = "ready" THEN 1 ELSE ready_pipe
      BY <2>2
    <3>3. instruction \in {"ready", "stdout", "stderr", "notify", "await"}
      BY <2>4
    <3> QED
      BY <2>2, <2>4, <3>1, <3>2, <3>3, GoesOnPlayed
  <2>5. CASE UNCHANGED <<life, parent, exit_status, script>>
    <3>1. FrameTrue'
      BY <2>2, <2>5, <1>2, SameFrame
    <3>2. all_reaped' => Present = {}
      BY <2>2 DEF Played, Family
    <3> QED
      BY <2>2, <2>5, <3>1, <3>2, <1>2, QuietPlayed
  <2> QED
    BY <2>1, <2>3, <2>4, <2>5 DEF WriteUnit
<1>5. CASE ForkChild(p)
  <2>1. /\ Runs(p, "fork") /\ life[p] = "live"
        /\ UNCHANGED <<scenario, notified, ready_pipe, pc, infrastructure_error, all_reaped,
                       descendants_reaped, ready_seen, frame>>
    BY <1>5 DEF ForkChild, Runs, Live
  <2>2. CASE Ends(p, "error") /\ UNCHANGED script
    BY <2>1, <2>2, EndsPlayed DEF Statuses
  <2>3. CASE \E q \in Procs :
               /\ life[q] = "unborn" /\ \A r \in Procs : r < q => life[r] # "unborn"
               /\ life' = [life EXCEPT ![q] = "live"]
               /\ parent' = [parent EXCEPT ![q] = p]
               /\ script' = [script EXCEPT ![p] = Tail(@), ![q] = ScriptOfChild(p)]
               /\ UNCHANGED exit_status
    BY <2>1, <2>3, ForkPlayed
  <2> QED
    BY <1>5, <2>2, <2>3 DEF ForkChild
<1>6. CASE Notify(p)
  <2>1. notified' <=> (notified \/ "notify" = "notify")
    BY <1>6 DEF Notify
  <2>2. "notify" \in {"ready", "stdout", "stderr", "notify", "await"}
    OBVIOUS
  <2> QED
    BY <1>6, <2>1, <2>2, GoesOnPlayed DEF Notify
<1>7. CASE Await(p)
  <2>1. /\ Runs(p, "await") /\ life[p] = "live"
        /\ UNCHANGED <<scenario, notified, ready_pipe, pc, infrastructure_error, all_reaped,
                       descendants_reaped, ready_seen, frame>>
    BY <1>7 DEF Await, Runs, Live
  <2>2. CASE notified /\ Proceeds(p) /\ UNCHANGED <<life, parent, exit_status>>
    <3>1. notified' <=> (notified \/ "await" = "notify")
      BY <2>1, <2>2
    <3>2. "await" \in {"ready", "stdout", "stderr", "notify", "await"}
      OBVIOUS
    <3> QED
      BY <2>1, <2>2, <3>1, <3>2, GoesOnPlayed
  <2>3. CASE Ends(p, "error") /\ UNCHANGED script
    BY <2>1, <2>3, EndsPlayed DEF Statuses
  <2> QED
    BY <1>7, <2>2, <2>3 DEF Await
<1>8. CASE Finish(p)
  <2>1. /\ life[p] = "live"
        /\ UNCHANGED <<scenario, notified, ready_pipe, pc, infrastructure_error, all_reaped,
                       descendants_reaped, ready_seen, frame>>
    BY <1>8 DEF Finish, Runs, Live
  <2>2. CASE Runs(p, "exit") /\ Ends(p, "zero") /\ Proceeds(p)
    <3>1. script[p] # <<>> /\ Left(p) = 1 /\ p \in {1, 2}
      BY <2>2, <1>2, HeadsSay
    <3> QED
      BY <2>1, <2>2, <3>1, EndsPlayed DEF Statuses
  <2>3. CASE Runs(p, "forbidden") /\ Ends(p, "SIGSYS") /\ Proceeds(p)
    <3>1. script[p] # <<>> /\ Left(p) = 1 /\ p \in {1, 2}
      BY <2>3, <1>2, HeadsSay
    <3> QED
      BY <2>1, <2>3, <3>1, EndsPlayed DEF Statuses
  <2>4. CASE Ends(p, "SIGKILL") /\ UNCHANGED script
    BY <2>1, <2>4, EndsPlayed DEF Statuses
  <2> QED
    BY <1>8, <2>2, <2>3, <2>4 DEF Finish
<1> QED
  BY <1>1, <1>3, <1>4, <1>5, <1>6, <1>7, <1>8

(* PID 1 forks the primary. *)
LEMMA StartPlayed ==
  ASSUME Books, PrimaryKnown, Played, Fork
  PROVE  Played'
<1> USE DEF Played, stopVars, reapVars
<1>1. /\ pc = "fork" /\ life[1] = "unborn" /\ pc' # "reported"
      /\ UNCHANGED <<scenario, parent, exit_status, notified, ready_pipe,
                     all_reaped, descendants_reaped, ready_seen>>
  BY DEF Fork, PrimaryKnown
<1>2. FrameTrue'
  BY <1>1, NoFrameYet
<1>3. CASE UNCHANGED <<life, script>>
  BY <1>1, <1>2, <1>3, QuietPlayed DEF Family, ReadyGone
<1>4. CASE /\ life' = [life EXCEPT ![1] = "live"]
           /\ script' = [script EXCEPT ![1] = <<"ready">> \o PrimaryScript(scenario)]
  <2>1. ~Born(1) /\ ~Born(2) /\ ~Born(3) /\ ~Born(4)
    BY <1>1 DEF Births, Born
  <2>2. Whole' = Whole /\ ChildScript' = ChildScript
    BY <1>1, SameScenario
  <2>3. Whole \in Seq(Words) /\ IsRest(Whole, Whole) /\ Len(Whole) \in Nat
    <3>1. Whole \in Seq(Words)
      BY WholeIs DEF Scripts
    <3> QED
      BY <3>1, RestOfAll, LenProperties
  <2>4. life \in [Procs -> {"unborn", "live", "zombie", "reaped"}]
    BY DEF Books
  <2>5. /\ life'[1] = "live" /\ life'[2] = "unborn" /\ life'[3] = "unborn" /\ life'[4] = "unborn"
        /\ Born(1)' /\ ~Born(2)' /\ ~Born(3)' /\ ~Born(4)'
    BY <1>4, <2>1, <2>4 DEF Born
  <2>6. script' = [script EXCEPT ![1] = Whole] /\ script \in [Procs -> Seq(Words)]
    BY <1>4 DEF Whole, Scripts
  <2>7. script' \in [Procs -> Seq(Words)] /\ script'[1] = Whole
    BY <2>3, <2>6
  <2>8. Left(1)' = Len(Whole)
    BY <2>7 DEF Left
  <2>9. Scripts'
    BY <1>1, <2>2, <2>3, <2>5, <2>7 DEF Scripts
  <2>10. /\ scenario \in {"double_fork", "fan-out"} => Len(Whole) = 5
         /\ scenario = "zombie" => Len(Whole) = 4
    BY WholeIs DEF Scripts
  <2>11. Births'
    <3>1. CASE scenario \in {"double_fork", "fan-out"}
      <4>1. Left(1)' = 5
        BY <3>1, <2>8, <2>10
      <4> QED
        BY <4>1, <3>1, <1>1, <2>5 DEF Births
    <3>2. CASE scenario = "zombie"
      <4>1. Left(1)' = 4
        BY <3>2, <2>8, <2>10
      <4> QED
        BY <4>1, <3>2, <1>1, <2>5 DEF Births
    <3>3. CASE scenario \notin {"double_fork", "fan-out", "zombie"}
      BY <3>3, <1>1, <2>5 DEF Births
    <3> QED
      BY <3>1, <3>2, <3>3
  <2>12. Told'
    <3>1. ~notified
      BY <2>1 DEF Told
    <3>2. scenario = "double_fork" => Left(1)' = 5
      BY <2>8, <2>10
    <3> QED
      BY <3>1, <3>2, <1>1, <2>5 DEF Told
  <2>13. Family'
    <3>1. ASSUME NEW q \in Procs PROVE q \in Present' => q = 1
      BY <2>5 DEF Present
    <3>2. parent'[1] = PidOne
      BY <1>1 DEF PrimaryKnown
    <3>3. ~all_reaped
      BY <1>1 DEF PrimaryKnown
    <3> QED
      BY <3>1, <3>2, <3>3, <1>1 DEF Family
  <2>14. Counted'
    <3>1. \A q \in Procs : One(q)' = One(q)
      BY <1>1, <2>1, <2>5 DEF One, Born
    <3> QED
      BY <3>1, <1>1 DEF Counted
  <2>15. ReadyGone'
    BY <1>1, <2>1 DEF ReadyGone
  <2>16. Ended'
    BY <1>1, <2>1 DEF Ended
  <2> QED
    BY <1>2, <2>9, <2>11, <2>12, <2>13, <2>14, <2>15, <2>16
<1> QED
  BY <1>3, <1>4 DEF Fork

(* PID 1 waits for one process: it is counted, and it has no children. *)
LEMMA ReapPlayed ==
  ASSUME Books, Played, NEW p \in Procs, ReapChild(p)
  PROVE  Played'
<1> USE DEF Played, Reaping, stopVars, captureVars, processVars, streamVars
<1>1. /\ p \in Present /\ life[p] = "zombie" /\ life' = [life EXCEPT ![p] = "reaped"]
      /\ descendants_reaped' = descendants_reaped + 1
      /\ pc' # "reported"
      /\ UNCHANGED <<scenario, parent, script, exit_status, notified, ready_pipe, pc,
                     infrastructure_error, all_reaped, ready_seen, frame>>
  BY DEF ReapChild, Children
<1>2. life \in [Procs -> {"unborn", "live", "zombie", "reaped"}]
      /\ parent \in [Procs -> Procs \cup {PidOne}] /\ descendants_reaped \in Nat
  BY DEF Books
<1>3. /\ \A q \in Procs : life'[q] = IF q = p THEN "reaped" ELSE life[q]
      /\ \A q \in Procs : Born(q)' <=> Born(q)
      /\ (Born(1)' <=> Born(1)) /\ (Born(2)' <=> Born(2))
      /\ (Born(3)' <=> Born(3)) /\ (Born(4)' <=> Born(4))
  BY <1>1, <1>2 DEF Born
<1>4. Scripts' /\ \A q \in Procs : Left(q)' = Left(q)
  BY <1>1, <1>3, QuietScripts
<1>5. Births'
  BY <1>1, <1>3, <1>4 DEF Births
<1>6. Told' /\ Ended'
  BY <1>1, <1>3, <1>4 DEF Told, Ended
<1>7. Family'
  <2>1. ~all_reaped
    BY <1>1 DEF Family
  <2>2. ASSUME NEW q \in Procs, q \in Present', parent'[q] # PidOne
        PROVE  life'[parent'[q]] = "live" /\ parent'[q] < q
    <3>1. q \in Present /\ parent'[q] = parent[q]
      BY <1>1, <1>3, <2>2 DEF Present
    <3>2. life[parent[q]] = "live" /\ parent[q] < q /\ parent[q] \in Procs
      BY <3>1, <2>2, <1>2 DEF Family
    <3> QED
      BY <3>1, <3>2, <1>1, <1>3
  <2> QED
    BY <1>1, <2>1, <2>2 DEF Family
<1>8. Counted'
  <2>1. \A q \in Procs : One(q)' = IF q = p THEN 1 ELSE One(q)
    BY <1>3 DEF One
  <2>2. One(p) = 0 /\ \A q \in Procs : One(q) \in 0 .. 1
    BY <1>1 DEF One
  <2> QED
    BY <1>1, <1>2, <2>1, <2>2 DEF Counted
<1>9. ReadyGone'
  <2>1. Whole' = Whole
    BY <1>1, SameScenario
  <2> QED
    BY <1>1, <1>3, <1>4, <2>1 DEF ReadyGone
<1>10. FrameTrue'
  BY <1>1, NoFrameYet
<1> QED
  BY <1>4, <1>5, <1>6, <1>7, <1>8, <1>9, <1>10

(* Nobody has a parent that is not there: no child, then nobody. *)
LEMMA NoChildNobody ==
  ASSUME Books, Family, Children = {}
  PROVE  Present = {}
<1>1. parent \in [Procs -> Procs \cup {PidOne}]
  BY DEF Books
<1>2. ASSUME NEW p \in Present
      PROVE  parent[p] \in Procs /\ parent[p] < p /\ parent[p] \in Present
  <2>1. p \in Procs /\ parent[p] # PidOne
    BY DEF Children, Present
  <2> QED
    BY <1>1, <2>1 DEF Family, Present
<1>3. 1 \notin Present
  BY <1>2
<1>4. 2 \notin Present
  <2>1. ASSUME 2 \in Present PROVE FALSE
    <3>1. parent[2] \in Procs /\ parent[2] < 2 /\ parent[2] \in Present
      BY <2>1, <1>2
    <3> QED
      BY <3>1, <1>3
  <2> QED
    BY <2>1
<1>5. 3 \notin Present
  <2>1. ASSUME 3 \in Present PROVE FALSE
    <3>1. parent[3] \in Procs /\ parent[3] < 3 /\ parent[3] \in Present
      BY <2>1, <1>2
    <3> QED
      BY <3>1, <1>3, <1>4
  <2> QED
    BY <2>1
<1>6. 4 \notin Present
  <2>1. ASSUME 4 \in Present PROVE FALSE
    <3>1. parent[4] \in Procs /\ parent[4] < 4 /\ parent[4] \in Present
      BY <2>1, <1>2
    <3> QED
      BY <3>1, <1>3, <1>4, <1>5
  <2> QED
    BY <2>1
<1> QED
  BY <1>3, <1>4, <1>5, <1>6 DEF Present

(* Reading the ready pipe invents no byte. *)
LEMMA ReadReadyKeeps ==
  ASSUME ready_pipe \in Nat, ReadReady
  PROVE  /\ ready_pipe' \in Nat
         /\ ready_seen' \/ ready_pipe' > 0 => ready_seen \/ ready_pipe > 0
<1>1. ready_pipe' = 0 \/ ready_pipe' = ready_pipe
  BY DEF ReadReady
<1>2. ready_seen' => ready_seen \/ ready_pipe > 0
  BY DEF ReadReady
<1> QED
  BY <1>1, <1>2

(* Before the fork nothing has been played. *)
LEMMA InitPlayed == LifecycleInit => Played
<1> SUFFICES ASSUME LifecycleInit PROVE Played
  OBVIOUS
<1>1. ~Born(1) /\ ~Born(2) /\ ~Born(3) /\ ~Born(4)
  BY DEF LifecycleInit, Born
<1>2. Scripts
  <2>1. scenario \in KnownScenarios
    BY ScenarioAssumption DEF LifecycleInit
  <2>2. <<>> \in Seq(Words)
    OBVIOUS
  <2>3. script \in [Procs -> Seq(Words)]
    BY <2>2 DEF LifecycleInit
  <2> QED
    BY <1>1, <2>1, <2>3 DEF Scripts
<1>3. Births
  BY <1>1 DEF Births
<1>4. Told
  BY <1>1 DEF Told, LifecycleInit
<1>5. Family
  BY DEF Family, LifecycleInit
<1>6. Counted
  BY DEF Counted, One, LifecycleInit
<1>7. ReadyGone
  BY DEF ReadyGone, LifecycleInit
<1>8. Ended
  BY DEF Ended, LifecycleInit
<1>9. FrameTrue
  BY DEF FrameTrue, LifecycleInit
<1> QED
  BY <1>2, <1>3, <1>4, <1>5, <1>6, <1>7, <1>8, <1>9 DEF Played

(* What the canary learns from three of the flags. *)
LEMMA RaisedSay ==
  ASSUME NEW error, NEW sole \in BOOLEAN
  PROVE  /\ "SOLE_PID1" \in Written(error, sole).flags <=> sole
         /\ "SECCOMP_INSTALLED" \in Written(error, sole).flags => ready_seen
         /\ "PRIMARY_REAPED" \in Written(error, sole).flags => primary_reaped
<1> DEFINE given == [STDOUT_OVERFLOW |-> overflow["stdout"],
                 STDERR_OVERFLOW |-> overflow["stderr"],
                 TIMED_OUT |-> timed_out, PRIMARY_REAPED |-> primary_reaped,
                 ALL_DESCENDANTS_REAPED |-> all_reaped, SOLE_PID1 |-> sole,
                 TERMINATION_SIGNAL_RECEIVED |-> termination_signal_received]
<1>1. Written(error, sole).flags =
        ({"REQUEST_VALIDATED", "PID1_VERIFIED"}
           \cup (IF ready_seen THEN Confinement ELSE {})) \cup Raised(given)
  BY DEF Written, ResultFlags
<1>2. /\ "SOLE_PID1" \in Raised(given) <=> sole
      /\ "SECCOMP_INSTALLED" \notin Raised(given)
      /\ "PRIMARY_REAPED" \in Raised(given) => primary_reaped
  BY DEF Raised
<1> HIDE DEF given
<1> QED
  BY <1>1, <1>2 DEF Confinement

(* The frame is true when it is written. *)
LEMMA ReportPlayed ==
  ASSUME Books, Played, Report
  PROVE  Played'
<1> USE DEF Played, processVars, streamVars, stopVars, reapVars, captureVars
<1>1. UNCHANGED <<scenario, life, parent, script, exit_status, notified, ready_pipe,
                 all_reaped, primary_reaped, timed_out, termination_signal_received,
                 descendants_reaped, observed, overflow, ready_seen>>
  BY DEF Report
<1>2. FrameTrue'
  <2>1. SUFFICES ASSUME pc' = "reported", "SOLE_PID1" \in frame'.flags
                 PROVE  Present' = {} /\ frame' = Written(infrastructure_error, TRUE)'
    BY DEF FrameTrue
  <2>2. PICK unreadable \in MayFail("proc"), unsent \in MayFail("result") :
          LET sole  == Present = {} /\ ~unreadable
              error == infrastructure_error \/ ~ready_seen \/ ~sole
          IN /\ infrastructure_error' = error
             /\ IF unsent THEN pc' = "silent" /\ UNCHANGED frame
                ELSE /\ pc' = "reported"
                     /\ frame' = [outcome |-> Outcome(error), status |-> Status,
                                  flags |-> ResultFlags(sole), observed |-> observed,
                                  reaped |-> descendants_reaped]
    BY DEF Report
  <2> DEFINE sole  == Present = {} /\ ~unreadable
             error == infrastructure_error \/ ~ready_seen \/ ~sole
  <2>3. frame' = Written(error, sole) /\ infrastructure_error' = error
    BY <2>1, <2>2 DEF Written
  <2>4. sole \in BOOLEAN
    OBVIOUS
  <2>5. "SOLE_PID1" \in Written(error, sole).flags <=> sole
    <3> HIDE DEF sole, error
    <3> QED
      BY <2>4, RaisedSay
  <2>6. sole /\ sole = TRUE /\ Present = {}
    BY <2>1, <2>3, <2>5
  <2>7. Written(infrastructure_error, TRUE)' = Written(infrastructure_error', TRUE)
    BY <1>1 DEF Written, Outcome, Status, ResultFlags
  <2>8. Present' = {}
    BY <1>1, <2>6 DEF Present
  <2> HIDE DEF sole, error
  <2> QED
    BY <2>3, <2>6, <2>7, <2>8
<1>3. /\ ready_pipe' \in Nat
      /\ ready_seen' \/ ready_pipe' > 0 => ready_seen \/ ready_pipe > 0
      /\ all_reaped' => Present = {}
  BY <1>1 DEF ReadyGone, Family
<1> QED
  BY <1>1, <1>2, <1>3, QuietPlayed

(* Every step keeps Played. *)
LEMMA StepPlayed == IInv /\ Played /\ [LifecycleNext]_lifecycleVars => Played'
<1> SUFFICES ASSUME Books, PrimaryKnown, Played, [LifecycleNext]_lifecycleVars
             PROVE  Played'
  BY DEF IInv
<1> USE DEF processVars, streamVars, clockVars, stopVars, reapVars, captureVars
<1>1. ready_pipe \in Nat /\ (all_reaped => Present = {}) /\ FrameTrue
  BY DEF Played, ReadyGone, Family
<1>2. CASE Namespace
  BY <1>2, NamespacePlayed
<1>3. CASE Signal \/ Clock
  <2>1. pc' # "reported"
    BY <1>3 DEF Signal, Clock
  <2>2. UNCHANGED <<scenario, life, parent, script, exit_status, notified, ready_pipe,
                    ready_seen, all_reaped, descendants_reaped>>
    BY <1>3 DEF Signal, Clock
  <2> QED
    BY <2>1, <2>2, <1>1, NoFrameYet, QuietPlayed
<1>4. CASE Fork
  BY <1>4, StartPlayed
<1>5. CASE \E p \in Procs : ReapChild(p)
  BY <1>5, ReapPlayed
<1>6. CASE ReapOver
  <2>1. /\ pc' # "reported"
        /\ UNCHANGED <<scenario, life, parent, script, exit_status, notified, ready_pipe,
                       ready_seen, descendants_reaped>>
        /\ all_reaped' => all_reaped \/ Children = {}
    BY <1>6 DEF ReapOver, AfterReaping
  <2>2. all_reaped' => Present = {}
    BY <2>1, <1>1, NoChildNobody DEF Played
  <2> QED
    BY <2>1, <2>2, <1>1, NoFrameYet, QuietPlayed
<1>7. CASE Decide \/ Sweep \/ SweepClock
  <2>1. pc' # "reported"
    BY <1>7 DEF Decide, Sweep, SweepClock
  <2>2. UNCHANGED <<scenario, life, parent, script, exit_status, notified, ready_pipe,
                    ready_seen, all_reaped, descendants_reaped>>
    BY <1>7 DEF Decide, Sweep, SweepClock
  <2> QED
    BY <2>1, <2>2, <1>1, NoFrameYet, QuietPlayed
<1>8. CASE DrainStdout \/ DrainStderr
  <2>1. pc' # "reported"
    BY <1>8 DEF DrainStdout, DrainStderr, DrainStream
  <2>2. UNCHANGED <<scenario, life, parent, script, exit_status, notified, ready_pipe,
                    ready_seen, all_reaped, descendants_reaped>>
    BY <1>8 DEF DrainStdout, DrainStderr, DrainStream
  <2> QED
    BY <2>1, <2>2, <1>1, NoFrameYet, QuietPlayed
<1>9. CASE DrainReady \/ FinalDrain
  <2>1. pc' # "reported" /\ ReadReady
    BY <1>9 DEF DrainReady, FinalDrain
  <2>2. UNCHANGED <<scenario, life, parent, script, exit_status, notified, all_reaped,
                    descendants_reaped>>
    BY <1>9 DEF DrainReady, FinalDrain
  <2> QED
    BY <2>1, <2>2, <1>1, NoFrameYet, ReadReadyKeeps, QuietPlayed
<1>10. CASE Report
  BY <1>10, ReportPlayed
<1>11. CASE UNCHANGED lifecycleVars
  <2>1. FrameTrue'
    BY <1>1, <1>11, SameFrame DEF lifecycleVars
  <2> QED
    BY <1>1, <1>11, <2>1, QuietPlayed DEF lifecycleVars
<1> QED
  BY <1>2, <1>3, <1>4, <1>5, <1>6, <1>7, <1>8, <1>9, <1>10, <1>11
  DEF LifecycleNext, Supervisor

(* A script that has nothing left, or one word. *)
LEMMA OneLeft ==
  ASSUME NEW rest \in Seq(Words)
  PROVE  /\ Len(rest) = 0 => rest = <<>>
         /\ Len(rest) = 1 => rest = <<Head(rest)>>
<1>1. Len(rest) = 0 => rest = <<>>
  BY EmptySeq
<1>2. ASSUME Len(rest) = 1 PROVE rest = <<Head(rest)>>
  <2>1. rest[1] \in Words /\ Head(rest) = rest[1]
    BY <1>2, ElementOfSeq, HeadTailProperties, EmptySeq
  <2> DEFINE one == <<Head(rest)>>
  <2>2. one \in Seq(Words) /\ Len(one) = 1 /\ one[1] = rest[1]
    BY <2>1
  <2> HIDE DEF one
  <2>3. rest = one
    BY <2>2, <1>2, SeqEqual
  <2> QED
    BY <2>3 DEF one
<1> QED
  BY <1>1, <1>2

-----------------------------------------------------------------------------
(* A frame that passes says what has happened.                             *)

(* A word at a time: what the head of a script that is not over can be.     *)
LEMMA HeadsLeft ==
  ASSUME Scripts, NEW p \in Procs, Born(p), script[p] # <<>>,
         p = 1 => Left(1) < Len(Whole),
         p = 1 => (scenario \in {"zombie"} => Left(1) < 3),
         p = 1 => (scenario \in {"double_fork"} => Left(1) < 4),
         p = 1 => (scenario = "fan-out" => Left(1) < 2),
         p = 2 => (scenario = "double_fork" => Left(2) < 2)
  PROVE  Head(script[p]) \notin {"ready", "fork", "notify"}
<1>1. scenario \in KnownScenarios
  BY DEF Scripts
<1>2. CASE p = 1
  <2>1. Left(1) \in 1 .. Len(Whole) /\ Head(script[1]) = Whole[Len(Whole) - Left(1) + 1]
    BY <1>2, Runs1
  <2>2. Left(1) < Len(Whole)
    BY <1>2
  <2>3. CASE scenario = "normal"
    <3>1. Len(Whole) = 4 /\ Whole[2] = "stdout" /\ Whole[3] = "stderr" /\ Whole[4] = "exit"
      BY <1>1, <2>3, WholeIs
    <3> QED
      BY <3>1, <1>2, <2>1, <2>2
  <2>4. CASE scenario = "double_fork"
    <3>1. Len(Whole) = 5 /\ Whole[3] = "await" /\ Whole[4] = "stdout" /\ Whole[5] = "exit"
      BY <1>1, <2>4, WholeIs
    <3>2. Left(1) < 4
      BY <1>2, <2>4
    <3> QED
      BY <3>1, <3>2, <1>2, <2>1
  <2>5. CASE scenario = "zombie"
    <3>1. Len(Whole) = 4 /\ Whole[3] = "stdout" /\ Whole[4] = "exit"
      BY <1>1, <2>5, WholeIs
    <3>2. Left(1) < 3
      BY <1>2, <2>5
    <3> QED
      BY <3>1, <3>2, <1>2, <2>1
  <2>6. CASE scenario = "timeout"
    <3>1. Len(Whole) = 2 /\ Whole[2] = "idle"
      BY <1>1, <2>6, WholeIs
    <3> QED
      BY <3>1, <1>2, <2>1, <2>2
  <2>7. CASE scenario = "stdout"
    <3>1. Len(Whole) = 2 /\ Whole[2] = "flood_stdout"
      BY <1>1, <2>7, WholeIs
    <3> QED
      BY <3>1, <1>2, <2>1, <2>2
  <2>8. CASE scenario = "stderr"
    <3>1. Len(Whole) = 2 /\ Whole[2] = "flood_stderr"
      BY <1>1, <2>8, WholeIs
    <3> QED
      BY <3>1, <1>2, <2>1, <2>2
  <2>9. CASE scenario = "fan-out"
    <3>1. Len(Whole) = 5 /\ Whole[5] = "idle"
      BY <1>1, <2>9, WholeIs
    <3>2. Left(1) < 2
      BY <1>2, <2>9
    <3> QED
      BY <3>1, <3>2, <1>2, <2>1
  <2>10. CASE scenario = "forbidden"
    <3>1. Len(Whole) = 2 /\ Whole[2] = "forbidden"
      BY <1>1, <2>10, WholeIs
    <3> QED
      BY <3>1, <1>2, <2>1, <2>2
  <2>11. CASE scenario = "spoof"
    <3>1. Len(Whole) = 3 /\ Whole[2] = "stdout" /\ Whole[3] = "exit"
      BY <1>1, <2>11, WholeIs
    <3> QED
      BY <3>1, <1>2, <2>1, <2>2
  <2> QED
    BY <1>1, <2>3, <2>4, <2>5, <2>6, <2>7, <2>8, <2>9, <2>10, <2>11 DEF KnownScenarios
<1>3. CASE p = 2
  <2>1. Left(2) \in 1 .. Len(ChildScript)
        /\ Head(script[2]) = ChildScript[Len(ChildScript) - Left(2) + 1]
    BY <1>3, Runs2
  <2>2. CASE scenario = "double_fork"
    <3>1. Len(ChildScript) = 3 /\ ChildScript[3] = "exit"
      BY <2>2, ChildIs
    <3>2. Left(2) < 2
      BY <1>3, <2>2
    <3> QED
      BY <3>1, <3>2, <1>3, <2>1
  <2>3. CASE scenario = "zombie"
    <3>1. Len(ChildScript) = 1 /\ ChildScript[1] = "exit"
      BY <2>3, ChildIs
    <3> QED
      BY <3>1, <1>3, <2>1
  <2>4. CASE scenario \notin {"double_fork", "zombie"}
    <3>1. Len(ChildScript) = 1 /\ ChildScript[1] = "idle"
      BY <2>4, ChildIs
    <3> QED
      BY <3>1, <1>3, <2>1
  <2> QED
    BY <2>2, <2>3, <2>4
<1>4. CASE p \in {3, 4}
  <2>1. Head(script[p]) = "idle"
    BY <1>4, Runs3
  <2> QED
    BY <2>1
<1> QED
  BY <1>2, <1>3, <1>4

(* From the flags, the counter and the status of a frame that passes back *)
(* to the scripts.                                                        *)
LEMMA PlayedSays ==
  ASSUME IInv, Played, pc = "reported", FixedResultValid(frame)
  PROVE  /\ Present = {}
         /\ script[Primary] \in {<<>>, <<"idle">>, <<"flood_stdout">>, <<"flood_stderr">>}
         /\ \A p \in Procs : life[p] # "unborn" =>
              script[p] = <<>> \/ Head(script[p]) \notin {"ready", "fork", "notify"}
<1> USE DEF Played, IInv
<1>1. /\ "SOLE_PID1" \in frame.flags /\ "SECCOMP_INSTALLED" \in frame.flags
      /\ "PRIMARY_REAPED" \in frame.flags
      /\ frame.reaped >= MinimumReaped(scenario)
      /\ frame.status \in ExpectedStatus(scenario)
  BY DEF FixedResultValid, MandatoryFlags, Confinement
<1>2. Present = {} /\ frame = Written(infrastructure_error, TRUE)
  BY <1>1 DEF FrameTrue
<1>3. /\ frame.status = Status /\ frame.reaped = descendants_reaped
  BY <1>2 DEF Written
<1>4. ready_seen /\ primary_reaped
  BY <1>1, <1>2, RaisedSay
<1>5. Born(1) /\ Left(1) < Len(Whole)
  BY <1>4 DEF ReadyGone
<1>6. exit_status \in ExpectedStatus(scenario)
  BY <1>1, <1>3, <1>4 DEF Status
<1>7. scenario \in {"normal", "double_fork", "zombie", "forbidden", "spoof"} => Left(1) = 0
  <2>1. ASSUME scenario \in {"normal", "double_fork", "zombie", "forbidden", "spoof"}
        PROVE  exit_status \in {"zero", "SIGSYS"}
    <3>1. CASE scenario = "forbidden"
      BY <3>1, <1>6 DEF ExpectedStatus, Timeouts
    <3>2. CASE scenario # "forbidden"
      BY <3>2, <2>1, <1>6 DEF ExpectedStatus, Timeouts
    <3> QED
      BY <3>1, <3>2
  <2> QED
    BY <2>1 DEF Ended
<1>8. /\ One(1) \in 0 .. 1 /\ One(2) \in 0 .. 1 /\ One(3) \in 0 .. 1 /\ One(4) \in 0 .. 1
      /\ One(1) = 1 => Born(1)
      /\ One(2) = 1 => Born(2)
      /\ One(3) = 1 => Born(3)
      /\ One(4) = 1 => Born(4)
      /\ descendants_reaped = One(1) + One(2) + One(3) + One(4)
  BY DEF One, Born, Counted
<1>9. Left(1) \in Nat /\ Left(2) \in Nat /\ Len(Whole) \in Nat
  BY Lengths, WholeIs DEF Scripts
<1>10. scenario = "fan-out" => Left(1) < 2
  <2>1. ASSUME scenario = "fan-out" PROVE Left(1) < 2
    <3>1. descendants_reaped >= 4
      BY <2>1, <1>1, <1>3 DEF MinimumReaped
    <3>2. Born(4)
      BY <3>1, <1>8
    <3> QED
      BY <2>1, <3>2, <1>5 DEF Births
  <2> QED
    BY <2>1
<1>11. scenario = "double_fork" => Left(2) < 2
  BY <1>5, <1>7 DEF Told
<1>12. scenario \in {"timeout", "stdout", "stderr"} => Left(1) < 2
  <2>1. ASSUME scenario \in {"timeout", "stdout", "stderr"} PROVE Left(1) < 2
    <3>1. Len(Whole) = 2
      BY <2>1, WholeIs DEF Scripts
    <3> QED
      BY <3>1, <1>5, <1>9
  <2> QED
    BY <2>1
<1>13. script[1] \in {<<>>, <<"idle">>, <<"flood_stdout">>, <<"flood_stderr">>}
  <2>1. script[1] \in Seq(Words) /\ scenario \in KnownScenarios
    BY DEF Scripts
  <2>2. Left(1) = 0 => script[1] = <<>>
    BY <2>1, OneLeft DEF Left
  <2>3. Left(1) = 1 => script[1] = <<Head(script[1])>> /\ script[1] # <<>>
    BY <2>1, OneLeft, EmptySeq, Lengths DEF Left
  <2>4. ASSUME Left(1) = 1
        PROVE  Head(script[1]) = Whole[Len(Whole)]
    BY <2>3, <2>4, <1>5, <1>9, Runs1
  <2>5. CASE scenario \in {"timeout", "fan-out"}
    <3>1. Whole[Len(Whole)] = "idle"
      BY <2>1, <2>5, WholeIs
    <3>2. Left(1) \in {0, 1}
      BY <2>5, <1>9, <1>10, <1>12
    <3>3. Left(1) = 1 => script[1] = <<"idle">>
      BY <3>1, <2>3, <2>4
    <3> QED
      BY <3>2, <3>3, <2>2
  <2>6. CASE scenario = "stdout"
    <3>1. Whole[Len(Whole)] = "flood_stdout"
      BY <2>1, <2>6, WholeIs
    <3>2. Left(1) \in {0, 1}
      BY <2>6, <1>9, <1>12
    <3>3. Left(1) = 1 => script[1] = <<"flood_stdout">>
      BY <3>1, <2>3, <2>4
    <3> QED
      BY <3>2, <3>3, <2>2
  <2>7. CASE scenario = "stderr"
    <3>1. Whole[Len(Whole)] = "flood_stderr"
      BY <2>1, <2>7, WholeIs
    <3>2. Left(1) \in {0, 1}
      BY <2>7, <1>9, <1>12
    <3>3. Left(1) = 1 => script[1] = <<"flood_stderr">>
      BY <3>1, <2>3, <2>4
    <3> QED
      BY <3>2, <3>3, <2>2
  <2>8. CASE scenario \in {"normal", "double_fork", "zombie", "forbidden", "spoof"}
    BY <2>8, <2>2, <1>7
  <2> QED
    BY <2>1, <2>5, <2>6, <2>7, <2>8 DEF KnownScenarios
<1>14. ASSUME NEW p \in Procs, life[p] # "unborn", script[p] # <<>>
       PROVE  Head(script[p]) \notin {"ready", "fork", "notify"}
  <2>1. Born(p)
    BY <1>14 DEF Born
  <2>2. scenario \in {"zombie", "double_fork"} => Left(1) < 2
    BY <1>7
  <2> QED
    BY <2>1, <2>2, <1>5, <1>9, <1>10, <1>11, <1>14, HeadsLeft
<1> QED
  BY <1>2, <1>13, <1>14

(* What passes the canary has happened: _validate_fixed_result of           *)
(* development_supervisor_canary.py against what main() and                 *)
(* run_fixed_scenario did.                                                 *)
THEOREM PassedMeansPlayedCorrect == LifecycleSpec => []PassedMeansPlayed
<1>1. LifecycleInit => IInv /\ Played
  BY InitInv, InitPlayed
<1>2. IInv /\ Played /\ [LifecycleNext]_lifecycleVars => IInv' /\ Played'
  BY StepInv, StepPlayed
<1>3. IInv /\ Played => PassedMeansPlayed
  BY PlayedSays DEF PassedMeansPlayed
<1> QED
  BY <1>1, <1>2, <1>3, PTL DEF LifecycleSpec

-----------------------------------------------------------------------------
(* A run that nothing disturbs.                                            *)

Moments == {"off", "armed", "expired"}

(* The timers: each is armed once, and a primary that is too late is killed *)
(* in the same turn.                                                       *)
Timers ==
  /\ open \in [Streams -> BOOLEAN] /\ terminating \in BOOLEAN
  /\ grace \in Moments /\ final_grace \in Moments
  /\ ~terminating => grace = "off"
  /\ pc \in {"fork", "reap", "decide", "stdout", "stderr", "ready", "sweep"} =>
       final_grace = "off"
  /\ pc = "fork" => ~timed_out
  /\ timed_out => life[1] # "live" \/ 1 \in doomed

(* There is no output before the readiness byte. *)
Mute ==
  \A s \in Streams : pipe[s] > 0 \/ observed[s] > 0 => Born(1) /\ Left(1) < Len(Whole)

(* Before the fork no timer is armed and nothing was written. *)
LEMMA InitTimers == LifecycleInit => Timers /\ Mute
<1> SUFFICES ASSUME LifecycleInit PROVE Timers /\ Mute
  OBVIOUS
<1>1. open \in [Streams -> BOOLEAN] /\ terminating \in BOOLEAN
  BY DEF LifecycleInit
<1>2. Timers
  BY <1>1 DEF LifecycleInit, Timers, Moments
<1>3. Mute
  BY DEF LifecycleInit, Mute
<1> QED
  BY <1>2, <1>3

(* What a process of the scenario can do to the clock and to the primary.   *)
LEMMA NamespaceMoves ==
  ASSUME Books, PrimaryKnown, Scripts, Namespace
  PROVE  /\ UNCHANGED <<scenario, doomed, open, pc, infrastructure_error, stopVars,
                        clockVars, reapVars, captureVars, frame>>
         /\ faulted => faulted'
         /\ life'[1] = "live" => life[1] = "live"
         /\ \/ script'[1] = script[1]
            \/ /\ life[1] = "live" /\ 1 \notin doomed
               /\ script[1] # <<>> /\ script'[1] = Tail(script[1])
<1> USE DEF SupervisorUnchanged
<1>1. PICK p \in Procs :
        Confine(p) \/ Write(p) \/ ForkChild(p) \/ Notify(p) \/ Await(p) \/ Finish(p)
  BY DEF Namespace
<1>2. /\ life \in [Procs -> {"unborn", "live", "zombie", "reaped"}]
      /\ script \in [Procs -> Seq(Words)]
  BY DEF Books, Scripts
<1>3. /\ UNCHANGED <<scenario, doomed, open, pc, infrastructure_error, stopVars,
                     clockVars, reapVars, captureVars, frame>>
      /\ faulted => faulted'
      /\ life[p] = "live"
  <2>1. CASE Confine(p)
    BY <2>1 DEF Confine, Failing, Runs, Live
  <2>2. CASE Write(p)
    BY <2>2 DEF Write, WriteUnit, Runs, Live
  <2>3. CASE ForkChild(p)
    BY <2>3 DEF ForkChild, Failing, Runs, Live
  <2>4. CASE Notify(p)
    BY <2>4 DEF Notify, Runs, Live
  <2>5. CASE Await(p)
    BY <2>5 DEF Await, Runs, Live
  <2>6. CASE Finish(p)
    BY <2>6 DEF Finish, Runs, Live
  <2> QED
    BY <1>1, <2>1, <2>2, <2>3, <2>4, <2>5, <2>6
<1>4. \/ UNCHANGED life \/ life' = [life EXCEPT ![p] = "zombie"]
      \/ \E q \in Procs : /\ life[q] = "unborn" /\ p \notin doomed
                          /\ life' = [life EXCEPT ![q] = "live"]
                          /\ script' = [script EXCEPT ![p] = Tail(@), ![q] = ScriptOfChild(p)]
  BY <1>1 DEF Confine, Write, WriteUnit, ForkChild, Notify, Await, Finish, Ends, Runs
<1>5. \/ UNCHANGED script
      \/ p \notin doomed /\ script[p] # <<>> /\ script' = [script EXCEPT ![p] = Tail(@)]
      \/ \E q \in Procs : /\ life[q] = "unborn" /\ p \notin doomed /\ script[p] # <<>>
                          /\ script' = [script EXCEPT ![p] = Tail(@), ![q] = ScriptOfChild(p)]
  BY <1>1 DEF Confine, Write, WriteUnit, ForkChild, Notify, Await, Finish, Proceeds, Runs
<1>6. life[1] # "unborn"
  BY <1>3 DEF PrimaryKnown, Live
<1>7. life'[1] = "live" => life[1] = "live"
  BY <1>2, <1>4, <1>6
<1>8. \/ script'[1] = script[1]
      \/ /\ life[1] = "live" /\ 1 \notin doomed
         /\ script[1] # <<>> /\ script'[1] = Tail(script[1])
  <2>1. CASE UNCHANGED script
    BY <2>1
  <2>2. CASE p \notin doomed /\ script[p] # <<>> /\ script' = [script EXCEPT ![p] = Tail(@)]
    <3>1. script'[1] = IF p = 1 THEN Tail(script[1]) ELSE script[1]
      BY <2>2, <1>2
    <3> QED
      BY <3>1, <2>2, <1>3
  <2>3. ASSUME NEW q \in Procs, life[q] = "unborn", p \notin doomed, script[p] # <<>>,
               script' = [script EXCEPT ![p] = Tail(@), ![q] = ScriptOfChild(p)]
        PROVE  \/ script'[1] = script[1]
               \/ /\ life[1] = "live" /\ 1 \notin doomed
                  /\ script[1] # <<>> /\ script'[1] = Tail(script[1])
    <3>1. q # 1 /\ q # p
      BY <2>3, <1>3, <1>6
    <3> DEFINE mid == [script EXCEPT ![p] = Tail(@)]
    <3>2. mid[1] = IF p = 1 THEN Tail(script[1]) ELSE script[1]
      BY <1>2
    <3>3. script' = [mid EXCEPT ![q] = ScriptOfChild(p)]
      BY <2>3
    <3> HIDE DEF mid
    <3>4. script'[1] = mid[1]
      <4>1. \A f, e : q # 1 => [f EXCEPT ![q] = e][1] = f[1]
        OBVIOUS
      <4> QED
        BY <3>1, <3>3, <4>1
    <3> QED
      BY <3>2, <3>4, <2>3, <1>3
  <2> QED
    BY <1>5, <2>1, <2>2, <2>3
<1> QED
  BY <1>3, <1>7, <1>8

(* The processes of the scenario do not touch the timers. *)
LEMMA NamespaceTimers ==
  ASSUME Books, PrimaryKnown, Scripts, Timers, Namespace
  PROVE  Timers'
BY NamespaceMoves DEF Timers, clockVars, stopVars

(* Every step keeps the timers. *)
LEMMA StepTimers ==
  ASSUME Books, PrimaryKnown, Scripts, Timers, [LifecycleNext]_lifecycleVars
  PROVE  Timers'
<1> USE DEF processVars, streamVars, clockVars, stopVars, reapVars, captureVars
<1>1. CASE Namespace
  BY <1>1, NamespaceTimers
<1>2. CASE Signal
  BY <1>2 DEF Signal, Timers
<1>3. CASE Clock
  BY <1>3 DEF Clock, Timers, Moments
<1>4. CASE Fork
  <2>1. /\ pc = "fork" /\ pc' \in {"silent", "reap"}
        /\ UNCHANGED <<terminating, timed_out, grace, final_grace>>
    BY <1>4 DEF Fork
  <2>2. open' \in [Streams -> BOOLEAN]
    <3>1. open' = open \/ open' = [s \in Streams |-> TRUE]
      BY <1>4 DEF Fork
    <3> QED
      BY <3>1 DEF Timers
  <2> QED
    BY <2>1, <2>2 DEF Timers
<1>5. CASE \E p \in Procs : ReapChild(p)
  <2>1. PICK p \in Procs : ReapChild(p)
    BY <1>5
  <2>2. /\ life' = [life EXCEPT ![p] = "reaped"]
        /\ UNCHANGED <<terminating, timed_out, grace, final_grace, open, doomed, pc>>
    BY <2>1 DEF ReapChild
  <2>3. life'[1] = "live" => life[1] = "live"
    BY <2>2 DEF Books
  <2> QED
    BY <2>2, <2>3 DEF Timers
<1>6. CASE ReapOver
  <2>1. /\ (pc = "reap" /\ pc' = "decide") \/ pc' \in {"drain", "sweep_clock"}
        /\ UNCHANGED <<life, terminating, timed_out, grace, final_grace, open, doomed>>
    BY <1>6 DEF ReapOver, Reaping, AfterReaping
  <2> QED
    BY <2>1 DEF Timers
<1>7. CASE Decide
  <2> DEFINE late     == ~terminating /\ ~StopReason /\ deadline_passed
             starting == ~terminating /\ (StopReason \/ late)
  <2>1. /\ pc = "decide" /\ pc' \in {"sweep", "stdout"}
        /\ UNCHANGED <<life, open, final_grace>>
        /\ timed_out' = (timed_out \/ late)
        /\ terminating' = (terminating \/ starting)
        /\ grace' = IF starting THEN "armed" ELSE grace
    BY <1>7 DEF Decide
  <2>2. IF starting \/ (terminating /\ ~all_reaped) THEN KillAll ELSE UNCHANGED doomed
    BY <1>7 DEF Decide
  <2>3. 1 \in doomed => 1 \in doomed'
    BY <2>2 DEF KillAll
  <2>4. late => starting
    OBVIOUS
  <2>5. starting => Live \subseteq doomed'
    BY <2>2 DEF KillAll
  <2>6. timed_out' => life'[1] # "live" \/ 1 \in doomed'
    <3>1. late => life[1] # "live" \/ 1 \in doomed'
      BY <2>4, <2>5 DEF Live
    <3> HIDE DEF late
    <3> QED
      BY <2>1, <2>3, <3>1 DEF Timers
  <2>7. terminating' \in BOOLEAN /\ grace' \in Moments /\ (~terminating' => grace' = "off")
    <3> HIDE DEF late
    <3> QED
      BY <2>1 DEF Timers, Moments
  <2> HIDE DEF late, starting
  <2> QED
    BY <2>1, <2>6, <2>7 DEF Timers
<1>8. CASE DrainStdout \/ DrainStderr
  <2>1. PICK s \in Streams, next \in {"stderr", "ready"} : DrainStream(s, next)
    BY <1>8 DEF DrainStdout, DrainStderr
  <2>2. /\ pc = s /\ pc' = next /\ open' = [open EXCEPT ![s] = @ /\ ~Captured(s).closes]
        /\ UNCHANGED <<life, doomed, terminating, timed_out, grace, final_grace>>
    BY <2>1 DEF DrainStream
  <2>3. open' \in [Streams -> BOOLEAN]
    BY <2>2 DEF Timers
  <2> QED
    BY <2>2, <2>3 DEF Timers
<1>9. CASE DrainReady
  BY <1>9 DEF DrainReady, Timers
<1>10. CASE Sweep
  <2>1. /\ pc = "sweep" /\ pc' \in {"drain", "sweep_reap"}
        /\ UNCHANGED <<life, open, terminating, timed_out, grace>>
        /\ final_grace' = final_grace \/ final_grace' = "armed"
        /\ UNCHANGED doomed \/ KillAll
    BY <1>10 DEF Sweep
  <2> QED
    BY <2>1 DEF Timers, Moments, KillAll
<1>11. CASE SweepClock
  <2>1. /\ pc' \in {"drain", "sweep_reap"}
        /\ UNCHANGED <<life, open, terminating, timed_out, grace, final_grace>>
        /\ UNCHANGED doomed \/ KillAll
    BY <1>11 DEF SweepClock
  <2> QED
    BY <2>1 DEF Timers, Moments, KillAll
<1>12. CASE FinalDrain
  <2>1. /\ pc' = "report" /\ open' \in [Streams -> BOOLEAN]
        /\ UNCHANGED <<life, doomed, terminating, timed_out, grace, final_grace>>
    BY <1>12 DEF FinalDrain
  <2> QED
    BY <2>1 DEF Timers
<1>13. CASE Report
  BY <1>13 DEF Report, Timers
<1>14. CASE UNCHANGED lifecycleVars
  BY <1>14 DEF lifecycleVars, Timers
<1> QED
  BY <1>1, <1>2, <1>3, <1>4, <1>5, <1>6, <1>7, <1>8, <1>9, <1>10, <1>11, <1>12, <1>13, <1>14
  DEF LifecycleNext, Supervisor

(* What is disturbed stays disturbed. *)
LEMMA DisturbedBefore ==
  ASSUME Books, PrimaryKnown, Scripts, Timers, [LifecycleNext]_lifecycleVars, ~Disturbed'
  PROVE  ~Disturbed
<1> USE DEF processVars, streamVars, clockVars, stopVars, reapVars, captureVars
<1>1. CASE Namespace
  BY <1>1, NamespaceMoves DEF Disturbed, Timers
<1>2. CASE Signal
  BY <1>2 DEF Signal, Disturbed
<1>3. CASE Clock
  BY <1>3 DEF Clock, Disturbed
<1>4. CASE Fork
  <2>1. /\ pc = "fork" /\ (faulted => faulted')
        /\ UNCHANGED <<scenario, termination_signal_received, timed_out, grace, final_grace>>
    BY <1>4 DEF Fork, Failing
  <2> QED
    BY <2>1 DEF Disturbed, Timers
<1>5. CASE \E p \in Procs : ReapChild(p)
  BY <1>5 DEF ReapChild, Disturbed
<1>6. CASE ReapOver
  <2>1. /\ faulted => faulted'
        /\ UNCHANGED <<scenario, script, termination_signal_received, timed_out, grace, final_grace>>
    BY <1>6 DEF ReapOver, Failing
  <2> QED
    BY <2>1 DEF Disturbed
<1>7. CASE Decide
  <2> DEFINE late     == ~terminating /\ ~StopReason /\ deadline_passed
             starting == ~terminating /\ (StopReason \/ late)
  <2>1. /\ UNCHANGED <<scenario, script, termination_signal_received, final_grace>>
        /\ timed_out' = (timed_out \/ late)
        /\ grace' = IF starting THEN "armed" ELSE grace
        /\ faulted => faulted'
    BY <1>7 DEF Decide, Failing
  <2>2. timed_out => timed_out'
    <3> HIDE DEF late
    <3> QED
      BY <2>1
  <2>3. grace = "expired" => grace' = "expired"
    <3>1. grace = "expired" => ~starting
      BY DEF Timers
    <3> HIDE DEF starting
    <3> QED
      BY <2>1, <3>1
  <2> HIDE DEF late, starting
  <2> QED
    BY <2>1, <2>2, <2>3 DEF Disturbed
<1>8. CASE DrainStdout \/ DrainStderr
  BY <1>8 DEF DrainStdout, DrainStderr, DrainStream, Disturbed
<1>9. CASE DrainReady
  BY <1>9 DEF DrainReady, Disturbed
<1>10. CASE Sweep
  <2>1. /\ pc = "sweep" /\ (final_grace' = final_grace \/ final_grace = "off")
        /\ UNCHANGED <<scenario, script, termination_signal_received, timed_out, grace, faulted>>
    BY <1>10 DEF Sweep, Timers
  <2> QED
    BY <2>1 DEF Disturbed
<1>11. CASE SweepClock
  BY <1>11 DEF SweepClock, Disturbed
<1>12. CASE FinalDrain
  BY <1>12 DEF FinalDrain, Disturbed
<1>13. CASE Report
  <2>1. /\ faulted => faulted'
        /\ UNCHANGED <<scenario, script, termination_signal_received, timed_out, grace, final_grace>>
    BY <1>13 DEF Report, Failing
  <2> QED
    BY <2>1 DEF Disturbed
<1>14. CASE UNCHANGED lifecycleVars
  BY <1>14 DEF lifecycleVars, Disturbed
<1> QED
  BY <1>1, <1>2, <1>3, <1>4, <1>5, <1>6, <1>7, <1>8, <1>9, <1>10, <1>11, <1>12, <1>13, <1>14
  DEF LifecycleNext, Supervisor

(* What a drain leaves and what it has read. *)
LEMMA CapturedIs ==
  ASSUME Books, NEW s \in Streams
  PROVE  \E amount \in Nat :
           /\ amount <= pipe[s] /\ observed[s] + amount <= Cap + 1
           /\ Captured(s).total = observed[s] + amount /\ Captured(s).left = pipe[s] - amount
           /\ Captured(s).overflow <=> observed[s] + amount > Cap
           /\ Captured(s).closes <=> observed[s] + amount > Cap \/ Live = {}
           /\ amount = pipe[s] \/ observed[s] + amount = Cap + 1
<1> HIDE DEF Streams
<1>1. pipe[s] \in Nat /\ observed[s] \in 0 .. 2
  BY DEF Books
<1> DEFINE room == Cap + 1 - observed[s]
           amount == IF pipe[s] < room THEN pipe[s] ELSE room
<1>2. room \in Nat /\ observed[s] + room = 2
  BY <1>1
<1> HIDE DEF room
<1>3. amount \in Nat /\ amount <= room /\ amount <= pipe[s] /\ (amount = pipe[s] \/ amount = room)
  BY <1>1, <1>2
<1>4. Captured(s) = [total |-> observed[s] + amount, left |-> pipe[s] - amount,
                     overflow |-> observed[s] + amount > Cap,
                     closes |-> observed[s] + amount > Cap \/ Live = {}]
  BY DEF Captured, room
<1> HIDE DEF amount
<1>5. /\ Captured(s).total = observed[s] + amount /\ Captured(s).left = pipe[s] - amount
      /\ Captured(s).overflow = (observed[s] + amount > Cap)
      /\ Captured(s).closes = (observed[s] + amount > Cap \/ Live = {})
  BY <1>4
<1>6. observed[s] + amount <= 2 /\ (amount = pipe[s] \/ observed[s] + amount = 2)
  BY <1>1, <1>2, <1>3
<1> QED
  <2>1. amount \in Nat
    BY <1>3
  <2>2. WITNESS amount \in Nat
  <2>3. amount <= pipe[s] /\ observed[s] + amount <= Cap + 1
    BY <1>3, <1>6
  <2>4. Captured(s).total = observed[s] + amount /\ Captured(s).left = pipe[s] - amount
    BY <1>5
  <2>5. Captured(s).overflow <=> observed[s] + amount > Cap
    BY <1>5
  <2>6. Captured(s).closes <=> observed[s] + amount > Cap \/ Live = {}
    BY <1>5
  <2>7. amount = pipe[s] \/ observed[s] + amount = Cap + 1
    BY <1>6
  <2> QED
    BY <2>3, <2>4, <2>5, <2>6, <2>7

(* A drain moves units, and drops none that fit. *)
LEMMA DrainMoves ==
  ASSUME Books, NEW streams, Drain(streams), NEW s \in Streams
  PROVE  /\ observed'[s] + pipe'[s] = observed[s] + pipe[s]
         /\ observed[s] <= observed'[s] /\ pipe'[s] \in Nat /\ observed'[s] \in 0 .. 2
         /\ s \in streams /\ open[s] =>
              /\ observed'[s] <= 1 => pipe'[s] = 0
              /\ overflow'[s] <=> observed'[s] > 1
              /\ Captured(s).closes <=> overflow'[s] \/ Live = {}
         /\ ~(s \in streams /\ open[s]) => UNCHANGED <<observed[s], pipe[s], overflow[s]>>
<1> HIDE DEF Streams
<1>1. pipe[s] \in Nat /\ observed[s] \in 0 .. 2
  BY DEF Books
<1>2. CASE s \in streams /\ open[s]
  <2>1. PICK amount \in Nat :
           /\ amount <= pipe[s] /\ observed[s] + amount <= Cap + 1
           /\ Captured(s).total = observed[s] + amount /\ Captured(s).left = pipe[s] - amount
           /\ Captured(s).overflow <=> observed[s] + amount > Cap
           /\ Captured(s).closes <=> observed[s] + amount > Cap \/ Live = {}
           /\ amount = pipe[s] \/ observed[s] + amount = Cap + 1
    BY CapturedIs
  <2>2. /\ observed'[s] = Captured(s).total /\ overflow'[s] = Captured(s).overflow
        /\ pipe'[s] = Captured(s).left
    BY <1>2 DEF Drain
  <2> QED
    BY <1>1, <1>2, <2>1, <2>2
<1>3. CASE ~(s \in streams /\ open[s])
  <2>1. UNCHANGED <<observed[s], pipe[s], overflow[s]>>
    BY <1>3 DEF Drain
  <2> QED
    BY <1>1, <1>3, <2>1
<1> QED
  BY <1>2, <1>3

(* No step of the namespace takes the primary back in its script. *)
LEMMA PrimaryGoesOn ==
  ASSUME Books, PrimaryKnown, Scripts, Namespace
  PROVE  /\ Born(1)' <=> Born(1)
         /\ Left(1) \in Nat /\ Left(1)' \in Nat /\ Left(1)' <= Left(1)
         /\ Whole' = Whole /\ Len(Whole) \in Nat
<1>1. Born(1) /\ Born(1)'
  <2>1. PICK p \in Procs :
          Confine(p) \/ Write(p) \/ ForkChild(p) \/ Notify(p) \/ Await(p) \/ Finish(p)
    BY DEF Namespace
  <2>2. life[p] = "live"
    BY <2>1 DEF Confine, Write, WriteUnit, ForkChild, Notify, Await, Finish, Runs, Live
  <2>3. life[1] # "unborn"
    BY <2>2 DEF PrimaryKnown, Live
  <2>4. /\ life \in [Procs -> {"unborn", "live", "zombie", "reaped"}]
        /\ \/ UNCHANGED life \/ life' = [life EXCEPT ![p] = "zombie"]
           \/ \E q \in Procs : life[q] = "unborn" /\ life' = [life EXCEPT ![q] = "live"]
    BY <2>1 DEF Confine, Write, WriteUnit, ForkChild, Notify, Await, Finish, Ends, Books
  <2>5. life'[1] # "unborn"
    BY <2>3, <2>4
  <2> QED
    BY <2>3, <2>5 DEF Born
<1>2. script[1] \in Seq(Words) /\ Left(1) \in Nat
  BY Lengths DEF Scripts
<1>3. \/ Left(1)' = Left(1)
      \/ script[1] # <<>> /\ Left(1)' = Left(1) - 1 /\ Left(1) > 0
  <2>1. CASE script'[1] = script[1]
    BY <2>1 DEF Left
  <2>2. CASE script[1] # <<>> /\ script'[1] = Tail(script[1])
    BY <2>2, <1>1, Runs1, Lengths DEF Left
  <2> QED
    BY <2>1, <2>2, NamespaceMoves
<1>4. Whole' = Whole /\ Len(Whole) \in Nat
  BY NamespaceMoves, SameScenario, WholeIs DEF Scripts
<1> QED
  BY <1>1, <1>2, <1>3, <1>4

(* Every step keeps Mute. *)
LEMMA StepMute ==
  ASSUME Books, PrimaryKnown, Scripts, Mute, [LifecycleNext]_lifecycleVars
  PROVE  Mute'
<1> USE DEF processVars, streamVars, clockVars, stopVars, reapVars, captureVars
<1>1. \A s \in Streams : pipe[s] \in Nat /\ observed[s] \in Nat
  BY DEF Books
<1>2. CASE Namespace
  <2>1. /\ Born(1)' <=> Born(1)
        /\ Left(1) \in Nat /\ Left(1)' \in Nat /\ Left(1)' <= Left(1)
        /\ Whole' = Whole /\ Len(Whole) \in Nat /\ observed' = observed
    BY <1>2, PrimaryGoesOn, NamespaceMoves
  <2>2. CASE UNCHANGED pipe
    BY <2>1, <2>2, <1>1 DEF Mute
  <2>3. CASE pipe' # pipe
    <3>1. PICK p \in Procs : Write(p)
      BY <1>2, <2>3 DEF Namespace, Confine, ForkChild, Notify, Await, Finish
    <3>2. PICK instruction \in {"stdout", "flood_stdout", "stderr", "flood_stderr"} :
            Runs(p, instruction)
      BY <3>1 DEF Write, WriteUnit
    <3>3. p = 1 /\ Born(1) /\ Left(1) # Len(Whole) /\ script[1] # <<>>
      BY <3>2, HeadsSay
    <3>4. Left(1) < Len(Whole)
      BY <3>3, <2>1, Runs1
    <3> QED
      BY <3>3, <3>4, <2>1 DEF Mute
  <2> QED
    BY <2>2, <2>3
<1>3. CASE Fork
  <2>1. ~Born(1) /\ UNCHANGED <<pipe, observed>>
    BY <1>3 DEF Fork, PrimaryKnown, Born
  <2> QED
    BY <2>1, <1>1 DEF Mute
<1>4. ASSUME UNCHANGED <<scenario, script>>, Born(1)' <=> Born(1),
             \A s \in Streams : /\ pipe'[s] > 0 => pipe[s] > 0
                                /\ observed'[s] > 0 => observed[s] > 0 \/ pipe[s] > 0
      PROVE  Mute'
  <2>1. Left(1)' = Left(1) /\ Whole' = Whole
    BY <1>4, SameScenario DEF Left
  <2> QED
    BY <2>1, <1>4 DEF Mute
<1>5. CASE Signal \/ Clock \/ ReapOver \/ Decide \/ DrainReady \/ Sweep \/ SweepClock \/ Report
           \/ UNCHANGED lifecycleVars
  <2>1. UNCHANGED <<scenario, script, life, pipe, observed>>
    BY <1>5 DEF Signal, Clock, ReapOver, Decide, DrainReady, Sweep, SweepClock, Report,
                lifecycleVars
  <2> QED
    BY <2>1, <1>4 DEF Born
<1>6. CASE \E p \in Procs : ReapChild(p)
  <2>1. PICK p \in Procs : ReapChild(p)
    BY <1>6
  <2>2. /\ UNCHANGED <<scenario, script, pipe, observed>>
        /\ life[p] = "zombie" /\ life' = [life EXCEPT ![p] = "reaped"]
    BY <2>1 DEF ReapChild
  <2>3. Born(1)' <=> Born(1)
    BY <2>2 DEF Born, Books
  <2> QED
    BY <2>2, <2>3, <1>4
<1>7. CASE DrainStdout \/ DrainStderr \/ FinalDrain
  <2>1. UNCHANGED <<scenario, script, life>> /\ \E streams : Drain(streams)
    BY <1>7 DEF DrainStdout, DrainStderr, FinalDrain, DrainStream
  <2>2. ASSUME NEW s \in Streams
        PROVE  /\ pipe'[s] > 0 => pipe[s] > 0
               /\ observed'[s] > 0 => observed[s] > 0 \/ pipe[s] > 0
    <3>1. /\ observed'[s] + pipe'[s] = observed[s] + pipe[s]
          /\ observed[s] <= observed'[s] /\ pipe'[s] \in Nat /\ observed'[s] \in 0 .. 2
      BY <2>1, DrainMoves
    <3>2. pipe[s] \in Nat /\ observed[s] \in Nat
      BY <1>1
    <3>3. pipe'[s] <= pipe[s] /\ observed'[s] <= observed[s] + pipe[s]
      BY <3>1, <3>2
    <3> QED
      BY <3>1, <3>2, <3>3
  <2> QED
    BY <2>1, <2>2, <1>4 DEF Born
<1> QED
  BY <1>2, <1>3, <1>5, <1>6, <1>7 DEF LifecycleNext, Supervisor

(* Why a process of the scenario may be killed in a run that is undisturbed. *)
Cause ==
  \/ scenario \in Streams /\ overflow[scenario]
  \/ scenario \in Timeouts /\ timed_out

(* PID 1 has met no error and takes the short way to its report. *)
Calm ==
  /\ ~infrastructure_error
  /\ pc \notin {"sweep_reap", "sweep_clock", "silent"}
  /\ pc \in {"sweep", "drain", "report", "reported"} => all_reaped
  /\ pc = "reported" => "SOLE_PID1" \in frame.flags

(* Whoever is killed is killed for the cause of the scenario or after the *)
(* primary.                                                               *)
Sentenced ==
  /\ terminating => primary_reaped \/ Cause
  /\ doomed # {} => terminating
  /\ 1 \in doomed => Cause
  /\ Born(2) /\ life[2] # "live" /\ 2 \notin doomed => Left(2) = 0

(* The readiness byte is read, or in the pipe, or still to come. *)
Announced ==
  /\ \/ ready_seen
     \/ ready_open /\ (ready_pipe > 0 \/ (Left(1) = Len(Whole) /\ life[1] = "live"))
  /\ pc \in {"report", "reported"} => ~ready_open

(* The primary that ended did so as its scenario expects. *)
Judged ==
  life[1] \in {"zombie", "reaped"} =>
    /\ exit_status \in ExpectedStatus(scenario)
    /\ scenario \in Streams \cup Timeouts => Cause
    /\ scenario \notin Streams \cup Timeouts => Left(1) = 0

(* What the primary has still to write. *)
Due(s) ==
  IF \/ scenario = "normal" /\ s = "stdout" /\ Left(1) >= 3
     \/ scenario = "normal" /\ s = "stderr" /\ Left(1) >= 2
     \/ scenario \in {"double_fork", "zombie", "spoof"} /\ s = "stdout" /\ Left(1) >= 2
  THEN 1 ELSE 0

(* Read, in the pipe or still to come: a stream carries what is expected *)
(* of it.                                                                *)
Bytes ==
  \A s \in Streams : scenario # s =>
    observed[s] + pipe[s] + Due(s) = ExpectedStreams(scenario)[s]

(* A stream is closed by the overflow of its scenario or by the last *)
(* writer.                                                           *)
Closed ==
  \A s \in Streams :
    /\ ~open[s] => (scenario = s /\ overflow[s]) \/ Live = {}
    /\ pc \in {"report", "reported"} => ~open[s]
    /\ scenario # s /\ ~open[s] => pipe[s] = 0

(* What holds from the fork on. *)
Started == Announced /\ Judged /\ Bytes /\ Closed

(* The third inductive invariant, of a run that nothing disturbs. *)
Sound == Calm /\ Sentenced /\ (Born(1) => Started)

(* What is expected of the other streams is at most a unit. *)
LEMMA ExpectedAtMostOne ==
  ASSUME NEW s \in Streams, scenario # s
  PROVE  /\ ExpectedStreams(scenario)[s] \in 0 .. 1
         /\ Due(s) \in 0 .. 1
BY DEF ExpectedStreams, Due

(* Only the stream of the scenario overflows. *)
LEMMA NoOtherOverflow ==
  ASSUME Books, Captures, Bytes, NEW s \in Streams, overflow[s]
  PROVE  scenario = s
<1>1. ASSUME scenario # s PROVE FALSE
  <2>1. observed[s] + pipe[s] + Due(s) = ExpectedStreams(scenario)[s]
    BY <1>1 DEF Bytes
  <2>2. ExpectedStreams(scenario)[s] \in 0 .. 1 /\ Due(s) \in 0 .. 1
    BY <1>1, ExpectedAtMostOne
  <2>3. observed[s] \in 0 .. 2 /\ pipe[s] \in Nat
    BY DEF Books
  <2>4. observed[s] <= 1
    BY <2>1, <2>2, <2>3
  <2> QED
    BY <2>3, <2>4 DEF Captures
<1> QED
  BY <1>1

(* Where no script moves nothing is nearer to its end. *)
LEMMA SameLeft ==
  ASSUME UNCHANGED <<scenario, script>>
  PROVE  /\ \A q : Left(q)' = Left(q)
         /\ Whole' = Whole
         /\ \A s : Due(s)' = Due(s)
<1>1. \A q : Left(q)' = Left(q)
  BY DEF Left
<1>2. \A s : Due(s)' = Due(s)
  BY <1>1 DEF Due
<1> QED
  BY <1>1, <1>2, SameScenario

(* A step that moves no process, reads no stream and writes no frame. *)
LEMMA ControlSound ==
  ASSUME Books, Captures, Sound, Calm', Sentenced', Announced' \/ ~Born(1),
         UNCHANGED <<scenario, life, script, exit_status, pipe, open, observed, overflow>>,
         timed_out => timed_out',
         pc' \in {"report", "reported"} => pc \in {"report", "reported"}
  PROVE  Sound'
<1>1. Born(1)' <=> Born(1)
  BY DEF Born
<1>2. SUFFICES ASSUME Born(1), Announced' PROVE Started'
  BY <1>1 DEF Sound
<1>3. /\ \A q : Left(q)' = Left(q)
      /\ Whole' = Whole
      /\ \A s : Due(s)' = Due(s)
  BY SameLeft
<1>4. Judged /\ Bytes /\ Closed
  BY <1>2 DEF Sound, Started
<1>5. Cause => Cause'
  BY DEF Cause
<1>6. Judged'
  BY <1>3, <1>4, <1>5 DEF Judged
<1>7. Bytes'
  BY <1>3, <1>4 DEF Bytes
<1>8. Closed'
  BY <1>4 DEF Closed, Live
<1> QED
  BY <1>2, <1>6, <1>7, <1>8 DEF Started

(* A process that goes on. *)
LEMMA GoesOnSound ==
  ASSUME Books, Played, Sound, NEW p \in Procs,
         NEW i \in {"ready", "stdout", "stderr", "notify", "await"},
         Runs(p, i), Proceeds(p),
         ready_pipe' = IF i = "ready" THEN 1 ELSE ready_pipe,
         IF i \in Streams THEN open[i] /\ pipe' = [pipe EXCEPT ![i] = @ + 1]
         ELSE UNCHANGED pipe,
         UNCHANGED <<scenario, life, exit_status, doomed, open, pc, infrastructure_error,
                     terminating, timed_out, all_reaped, primary_reaped, observed, overflow,
                     ready_open, ready_seen, frame>>
  PROVE  Sound'
<1>1. /\ Born(p) /\ life[p] = "live" /\ script[p] # <<>> /\ Left(p) > 0
      /\ i = "ready" <=> p = 1 /\ Left(1) = Len(Whole)
      /\ i = "notify" => p = 2 /\ scenario = "double_fork" /\ Left(2) = 2
      /\ i = "await" => p = 1 /\ scenario = "double_fork" /\ Left(1) = 3
      /\ i = "stdout" =>
           p = 1 /\ \/ scenario = "normal" /\ Left(1) = 3
                    \/ scenario \in {"double_fork", "zombie", "spoof"} /\ Left(1) = 2
      /\ i = "stderr" => p = 1 /\ scenario = "normal" /\ Left(1) = 2
  BY HeadsSay DEF Played
<1>2. p \in {1, 2} /\ (p = 2 => i = "notify")
  BY <1>1
<1>3. /\ \A q \in Procs : Born(q)' <=> Born(q)
      /\ Born(1) /\ (Born(1)' <=> Born(1)) /\ (Born(2)' <=> Born(2))
  BY <1>1, <1>2 DEF Born, Played, Births
<1>4. /\ Left(p)' = Left(p) - 1
      /\ \A q \in Procs : q # p => Left(q)' = Left(q)
  BY <1>1, <1>2, <1>3, ProceedsScripts DEF Played
<1>5. /\ Left(1) \in Nat /\ Left(2) \in Nat /\ Len(Whole) \in Nat
      /\ scenario = "normal" => Len(Whole) = 4
      /\ scenario = "double_fork" => Len(Whole) = 5
      /\ scenario = "zombie" => Len(Whole) = 4
      /\ scenario = "spoof" => Len(Whole) = 3
  BY Lengths, WholeIs DEF Scripts, Played
<1>6. Whole' = Whole /\ (Cause' <=> Cause)
  BY SameScenario DEF Cause
<1>7. Announced /\ Judged /\ Bytes /\ Closed /\ Calm /\ Sentenced
  BY <1>3 DEF Sound, Started
<1>8. Calm'
  BY <1>7 DEF Calm
<1>9. Sentenced'
  <2>1. life[2] # "live" => Left(2)' = Left(2)
    BY <1>1, <1>4
  <2> QED
    BY <2>1, <1>3, <1>6, <1>7 DEF Sentenced
<1>10. Announced'
  <2>1. CASE i = "ready"
    BY <2>1, <1>7 DEF Announced
  <2>2. CASE i # "ready"
    <3>1. p = 1 => Left(1) # Len(Whole)
      BY <2>2, <1>1
    <3>2. ready_seen \/ (ready_open /\ (ready_pipe > 0 \/ (Left(1)' = Len(Whole) /\ life[1] = "live")))
      BY <3>1, <1>2, <1>4, <1>7 DEF Announced
    <3>3. ready_pipe' = ready_pipe
      BY <2>2
    <3> QED
      BY <3>2, <3>3, <1>6, <1>7 DEF Announced
  <2> QED
    BY <2>1, <2>2
<1>11. Judged'
  <2>1. life[1] \in {"zombie", "reaped"} => Left(1)' = Left(1)
    BY <1>1, <1>4
  <2> QED
    BY <2>1, <1>6, <1>7 DEF Judged
<1>12. ASSUME NEW s \in Streams
       PROVE  pipe'[s] = IF i = s THEN pipe[s] + 1 ELSE pipe[s]
  <2>1. pipe \in [Streams -> Nat]
    BY DEF Books
  <2> QED
    BY <2>1
<1>13. Bytes'
  <2>1. SUFFICES ASSUME NEW s \in Streams, scenario # s
                 PROVE  observed[s] + pipe'[s] + Due(s)' = ExpectedStreams(scenario)[s]
    BY DEF Bytes
  <2>2. observed[s] + pipe[s] + Due(s) = ExpectedStreams(scenario)[s]
    BY <1>7, <2>1 DEF Bytes
  <2>3. pipe[s] \in Nat /\ observed[s] \in 0 .. 2
    BY DEF Books
  <2>4. Due(s) \in 0 .. 1
    BY <2>1, ExpectedAtMostOne
  <2>5. Due(s)' = IF i = s THEN Due(s) - 1 ELSE Due(s)
    <3>1. CASE p = 2
      <4>1. Left(1)' = Left(1) /\ i # s
        BY <3>1, <1>2, <1>4
      <4> QED
        BY <4>1 DEF Due
    <3>2. CASE p = 1
      <4>1. Left(1)' = Left(1) - 1
        BY <3>2, <1>4
      <4>2. CASE scenario = "normal"
        <5>1. Len(Whole) = 4
          BY <4>2, <1>5
        <5>2. \/ i = "ready" /\ Left(1) = 4
              \/ i = "stdout" /\ Left(1) = 3
              \/ i = "stderr" /\ Left(1) = 2
          BY <5>1, <4>2, <3>2, <1>1
        <5> QED
          BY <5>2, <4>1, <4>2 DEF Due
      <4>3. CASE scenario = "double_fork"
        <5>1. Len(Whole) = 5
          BY <4>3, <1>5
        <5>2. \/ i = "ready" /\ Left(1) = 5
              \/ i = "await" /\ Left(1) = 3
              \/ i = "stdout" /\ Left(1) = 2
          BY <5>1, <4>3, <3>2, <1>1
        <5> QED
          BY <5>2, <4>1, <4>3 DEF Due
      <4>4. CASE scenario = "zombie"
        <5>1. Len(Whole) = 4
          BY <4>4, <1>5
        <5>2. \/ i = "ready" /\ Left(1) = 4
              \/ i = "stdout" /\ Left(1) = 2
          BY <5>1, <4>4, <3>2, <1>1
        <5> QED
          BY <5>2, <4>1, <4>4 DEF Due
      <4>5. CASE scenario = "spoof"
        <5>1. Len(Whole) = 3
          BY <4>5, <1>5
        <5>2. \/ i = "ready" /\ Left(1) = 3
              \/ i = "stdout" /\ Left(1) = 2
          BY <5>1, <4>5, <3>2, <1>1
        <5> QED
          BY <5>2, <4>1, <4>5 DEF Due
      <4>6. CASE scenario \notin {"normal", "double_fork", "zombie", "spoof"}
        <5>1. i # s
          BY <4>6, <1>1
        <5> QED
          BY <5>1, <4>6 DEF Due
      <4> QED
        BY <4>2, <4>3, <4>4, <4>5, <4>6
    <3> QED
      BY <3>1, <3>2, <1>2
  <2> QED
    BY <2>2, <2>3, <2>4, <2>5, <1>12
<1>14. Closed'
  <2>1. \A s \in Streams : ~open[s] => pipe'[s] = pipe[s]
    BY <1>12
  <2> QED
    BY <2>1, <1>7 DEF Closed, Live
<1> QED
  BY <1>8, <1>9, <1>10, <1>11, <1>13, <1>14 DEF Sound, Started

-----------------------------------------------------------------------------
(* The steps of an undisturbed run.                                        *)

(* The endless writer fills the pipe of its own scenario. *)
LEMMA FloodSound ==
  ASSUME Books, Sound, Born(1), NEW s \in Streams, scenario = s, open[s],
         pipe' = [pipe EXCEPT ![s] = @ + 1],
         UNCHANGED <<scenario, life, script, exit_status, doomed, open, pc, ready_pipe,
                     infrastructure_error, terminating, timed_out, all_reaped,
                     primary_reaped, observed, overflow, ready_open, ready_seen, frame>>
  PROVE  Sound'
<1>1. Announced /\ Judged /\ Bytes /\ Closed /\ Calm /\ Sentenced
  BY DEF Sound, Started
<1>2. /\ \A q : Left(q)' = Left(q)
      /\ Whole' = Whole
      /\ \A t : Due(t)' = Due(t)
  BY SameLeft
<1>3. (Born(1)' <=> Born(1)) /\ (Born(2)' <=> Born(2)) /\ (Cause' <=> Cause)
  BY DEF Born, Cause
<1>4. \A t \in Streams : t # s => pipe'[t] = pipe[t]
  BY DEF Books
<1>5. Calm' /\ Sentenced'
  BY <1>1, <1>2, <1>3 DEF Calm, Sentenced
<1>6. Announced' /\ Judged'
  BY <1>1, <1>2, <1>3 DEF Announced, Judged
<1>7. Bytes'
  BY <1>1, <1>2, <1>4 DEF Bytes
<1>8. Closed'
  BY <1>1, <1>4 DEF Closed, Live
<1> QED
  BY <1>5, <1>6, <1>7, <1>8 DEF Sound, Started

(* A process that ends as it should. *)
LEMMA EndsSound ==
  ASSUME Books, Played, Sound, NEW p \in Procs, life[p] = "live",
         NEW status \in Statuses, Ends(p, status),
         \/ script' = script
         \/ Proceeds(p) /\ script[p] # <<>> /\ Left(p) = 1 /\ p \in {1, 2},
         p = 1 => /\ Left(1) # Len(Whole)
                  /\ status \in ExpectedStatus(scenario)
                  /\ scenario \in Streams \cup Timeouts => Cause
                  /\ scenario \notin Streams \cup Timeouts => Left(1)' = 0,
         p = 2 => 2 \in doomed \/ Left(2)' = 0,
         UNCHANGED <<scenario, doomed, pipe, open, pc, ready_pipe,
                     infrastructure_error, terminating, timed_out, all_reaped,
                     primary_reaped, observed, overflow, ready_open, ready_seen, frame>>
  PROVE  Sound'
<1>1. /\ life' = [life EXCEPT ![p] = "zombie"]
      /\ exit_status' = IF p = Primary THEN status ELSE exit_status
  BY DEF Ends
<1>2. life \in [Procs -> {"unborn", "live", "zombie", "reaped"}]
  BY DEF Books
<1>3. /\ \A q \in Procs : life'[q] = IF q = p THEN "zombie" ELSE life[q]
      /\ \A q \in Procs : Born(q)' <=> Born(q)
      /\ Born(p) /\ Born(1) /\ (Born(1)' <=> Born(1)) /\ (Born(2)' <=> Born(2))
  BY <1>1, <1>2 DEF Born, Played, Births
<1>4. /\ \A q \in Procs : q # p => Left(q)' = Left(q)
      /\ Left(p)' = Left(p) \/ (p \in {1, 2} /\ Left(p) = 1 /\ Left(p)' = 0)
      /\ Left(1) \in Nat
  <2>1. Left(1) \in Nat
    BY Lengths DEF Played
  <2>2. CASE script' = script
    BY <2>1, <2>2, SameLeft
  <2>3. CASE Proceeds(p) /\ script[p] # <<>> /\ Left(p) = 1 /\ p \in {1, 2}
    <3>1. /\ Left(p)' = Left(p) - 1
          /\ \A q \in Procs : q # p => Left(q)' = Left(q)
      BY <2>3, <1>3, ProceedsScripts DEF Played
    <3>2. Left(p)' = 0
      BY <2>3, <3>1
    <3> QED
      BY <2>1, <2>3, <3>1, <3>2
  <2> QED
    BY <2>2, <2>3
<1>5. Announced /\ Judged /\ Bytes /\ Closed /\ Calm /\ Sentenced
  BY <1>3 DEF Sound, Started
<1>6. Whole' = Whole /\ (Cause' <=> Cause)
  BY SameScenario DEF Cause
<1>7. Calm'
  BY <1>5 DEF Calm
<1>8. Sentenced'
  <2>1. CASE p = 2
    BY <2>1, <1>3, <1>5, <1>6 DEF Sentenced
  <2>2. CASE p # 2
    <3>1. life'[2] = life[2] /\ Left(2)' = Left(2)
      BY <2>2, <1>3, <1>4
    <3> QED
      BY <3>1, <1>3, <1>5, <1>6 DEF Sentenced
  <2> QED
    BY <2>1, <2>2
<1>9. Announced'
  <2>1. ready_seen \/ (ready_open /\ (ready_pipe > 0 \/ (Left(1) = Len(Whole) /\ life[1] = "live")))
    BY <1>5 DEF Announced
  <2>2. p # 1 => Left(1)' = Left(1) /\ life'[1] = life[1]
    BY <1>3, <1>4
  <2> QED
    BY <2>1, <2>2, <1>5, <1>6 DEF Announced
<1>10. Judged'
  <2>1. CASE p = 1
    BY <2>1, <1>1, <1>6 DEF Judged
  <2>2. CASE p # 1
    <3>1. Left(1)' = Left(1) /\ life'[1] = life[1] /\ exit_status' = exit_status
      BY <2>2, <1>1, <1>3, <1>4
    <3> QED
      BY <3>1, <1>5, <1>6 DEF Judged
  <2> QED
    BY <2>1, <2>2
<1>11. Bytes'
  <2>1. Left(1)' = Left(1) \/ (Left(1) = 1 /\ Left(1)' = 0)
    BY <1>4
  <2>2. \A s \in Streams : Due(s)' = Due(s)
    BY <2>1 DEF Due
  <2> QED
    BY <2>2, <1>5 DEF Bytes
<1>12. Closed'
  <2>1. Live = {} => Live' = {}
    BY <1>3 DEF Live
  <2> QED
    BY <2>1, <1>5 DEF Closed
<1> QED
  BY <1>7, <1>8, <1>9, <1>10, <1>11, <1>12 DEF Sound, Started

(* A process that forks. *)
LEMMA ForkChildSound ==
  ASSUME Books, Played, Sound, NEW p \in Procs, Runs(p, "fork"), NEW q \in Procs,
         life[q] = "unborn",
         life' = [life EXCEPT ![q] = "live"],
         script' = [script EXCEPT ![p] = Tail(@), ![q] = ScriptOfChild(p)],
         UNCHANGED <<scenario, exit_status, doomed, pipe, open, pc, ready_pipe,
                     infrastructure_error, terminating, timed_out, all_reaped,
                     primary_reaped, observed, overflow, ready_open, ready_seen, frame>>
  PROVE  Sound'
<1>1. /\ Born(p) /\ life[p] = "live" /\ script[p] # <<>>
      /\ ~(p = 1 /\ Left(1) = Len(Whole))
      /\ \/ p = 1 /\ scenario = "zombie" /\ Left(1) = 3
         \/ p = 1 /\ scenario = "double_fork" /\ Left(1) = 4
         \/ p = 1 /\ scenario = "fan-out" /\ Left(1) \in {2, 3, 4}
         \/ p = 2 /\ scenario = "double_fork" /\ Left(2) = 3
  BY HeadsSay DEF Played
<1>2. /\ life \in [Procs -> {"unborn", "live", "zombie", "reaped"}]
      /\ script \in [Procs -> Seq(Words)]
  BY DEF Books, Played, Scripts
<1>3. Born(1) /\ q # 1 /\ q # p /\ p \in Live
  BY <1>1 DEF Born, Played, Births, Live
<1>4. /\ \A r \in Procs : life'[r] = IF r = q THEN "live" ELSE life[r]
      /\ \A r \in Procs : r # q => (Born(r)' <=> Born(r))
      /\ Born(1)'
  BY <1>2, <1>3 DEF Born
<1> DEFINE mid == [script EXCEPT ![p] = Tail(@)]
<1>5. /\ mid[p] = Tail(script[p])
      /\ \A r \in Procs : r # p => mid[r] = script[r]
  BY <1>2
<1>6. \A r \in Procs : r # q => script'[r] = mid[r]
  <2>1. script' = [mid EXCEPT ![q] = ScriptOfChild(p)]
    OBVIOUS
  <2> HIDE DEF mid
  <2>2. ASSUME NEW r \in Procs, r # q PROVE script'[r] = mid[r]
    <3>1. \A f, e : q # r => [f EXCEPT ![q] = e][r] = f[r]
      OBVIOUS
    <3> QED
      BY <2>1, <2>2, <3>1
  <2> QED
    BY <2>2
<1> HIDE DEF mid
<1>7. /\ \A r \in Procs : r # p /\ r # q => Left(r)' = Left(r)
      /\ Left(p)' = Left(p) - 1
  <2>1. Len(Tail(script[p])) = Left(p) - 1
    BY <1>1, Runs1, Runs2 DEF Played
  <2> QED
    BY <2>1, <1>3, <1>5, <1>6 DEF Left
<1>8. Announced /\ Judged /\ Bytes /\ Closed /\ Calm /\ Sentenced
  BY <1>3 DEF Sound, Started
<1>9. Whole' = Whole /\ (Cause' <=> Cause)
  BY SameScenario DEF Cause
<1>10. Calm'
  BY <1>8 DEF Calm
<1>11. Sentenced'
  <2>1. q = 2 => life'[2] = "live"
    BY <1>4
  <2>2. q # 2 /\ p # 2 => life'[2] = life[2] /\ Left(2)' = Left(2) /\ (Born(2)' <=> Born(2))
    BY <1>4, <1>7
  <2>3. p = 2 => life'[2] = "live"
    BY <1>1, <1>3, <1>4
  <2> QED
    BY <2>1, <2>2, <2>3, <1>8, <1>9 DEF Sentenced
<1>12. Announced'
  <2>1. ready_seen \/ (ready_open /\ (ready_pipe > 0 \/ (Left(1) = Len(Whole) /\ life[1] = "live")))
    BY <1>8 DEF Announced
  <2>2. p # 1 => Left(1)' = Left(1) /\ life'[1] = life[1]
    BY <1>3, <1>4, <1>7
  <2> QED
    BY <2>1, <2>2, <1>1, <1>8, <1>9 DEF Announced
<1>13. Judged'
  <2>1. life'[1] = life[1] /\ (life[1] # "live" => Left(1)' = Left(1))
    BY <1>1, <1>3, <1>4, <1>7
  <2> QED
    BY <2>1, <1>8, <1>9 DEF Judged
<1>14. Bytes'
  <2>1. \/ Left(1)' = Left(1)
        \/ scenario = "zombie" /\ Left(1) = 3 /\ Left(1)' = 2
        \/ scenario = "double_fork" /\ Left(1) = 4 /\ Left(1)' = 3
        \/ scenario = "fan-out"
    BY <1>1, <1>3, <1>7
  <2>2. \A s \in Streams : Due(s)' = Due(s)
    BY <2>1 DEF Due
  <2> QED
    BY <2>2, <1>8 DEF Bytes
<1>15. Closed'
  <2>1. Live # {}
    BY <1>3
  <2> QED
    BY <2>1, <1>8 DEF Closed
<1> QED
  BY <1>10, <1>11, <1>12, <1>13, <1>14, <1>15 DEF Sound, Started

(* Nothing kills the primary before it has said that it is ready. *)
LEMMA DoomedLate ==
  ASSUME Books, Captures, Played, Mute, Sound, ~Disturbed, 1 \in doomed
  PROVE  /\ Left(1) # Len(Whole)
         /\ "SIGKILL" \in ExpectedStatus(scenario)
         /\ scenario \in Streams \cup Timeouts
         /\ Cause
<1>1. Cause
  BY DEF Sound, Sentenced
<1>2. CASE scenario \in Streams /\ overflow[scenario]
  <2>1. observed[scenario] > 0
    BY <1>2 DEF Captures, Books
  <2>2. Left(1) < Len(Whole)
    BY <1>2, <2>1 DEF Mute
  <2>3. Left(1) \in Nat
    BY Lengths DEF Played
  <2>4. "SIGKILL" \in ExpectedStatus(scenario)
    BY <1>2 DEF ExpectedStatus, Timeouts
  <2> QED
    BY <1>1, <1>2, <2>2, <2>3, <2>4
<1>3. CASE scenario \in Timeouts /\ timed_out
  <2>1. script[1] = <<"idle">>
    BY <1>3 DEF Disturbed
  <2>2. Left(1) = 1
    BY <2>1, IdleIs DEF Left
  <2>3. Len(Whole) # 1
    BY <1>3, WholeIs DEF Timeouts, Played, Scripts
  <2>4. "SIGKILL" \in ExpectedStatus(scenario)
    BY <1>3 DEF ExpectedStatus, Timeouts
  <2> QED
    BY <1>1, <1>3, <2>2, <2>3, <2>4
<1> QED
  BY <1>1, <1>2, <1>3 DEF Cause

(* The primary of the double fork never waits in vain. *)
LEMMA AwaitIsTold ==
  ASSUME Books, PrimaryKnown, Played, Sound, NEW p \in Procs, Runs(p, "await"),
         \A q \in Live : q = p
  PROVE  notified
<1>1. p = 1 /\ scenario = "double_fork" /\ Left(1) = 3 /\ life[1] = "live" /\ Born(1)
  BY HeadsSay DEF Played
<1>2. Born(2)
  BY <1>1 DEF Played, Births
<1>3. life[2] # "live"
  BY <1>1 DEF Live
<1>4. ~primary_reaped /\ ~Cause
  BY <1>1 DEF PrimaryKnown, Cause, Timeouts
<1>5. 2 \notin doomed
  BY <1>4 DEF Sound, Sentenced
<1>6. Left(2) = 0
  BY <1>2, <1>3, <1>5 DEF Sound, Sentenced
<1> QED
  BY <1>1, <1>2, <1>6 DEF Played, Told

(* What the processes do in an undisturbed run. *)
LEMMA NamespaceSound ==
  ASSUME Books, Captures, PrimaryKnown, Played, Mute, Sound, ~Disturbed, ~Disturbed',
         Namespace
  PROVE  Sound'
<1> USE DEF SupervisorUnchanged, stopVars, captureVars, reapVars
<1>1. PICK p \in Procs :
        Confine(p) \/ Write(p) \/ ForkChild(p) \/ Notify(p) \/ Await(p) \/ Finish(p)
  BY DEF Namespace
<1>2. Scripts
  BY DEF Played
<1>3. ~faulted'
  BY DEF Disturbed
<1>4. /\ life[p] = "live" /\ Born(1)
      /\ UNCHANGED <<scenario, doomed, open, pc, infrastructure_error, terminating, timed_out,
                     all_reaped, primary_reaped, observed, overflow, ready_open, ready_seen,
                     frame>>
  <2>1. life[p] = "live"
    BY <1>1 DEF Confine, Write, WriteUnit, ForkChild, Notify, Await, Finish, Runs, Live
  <2>2. Born(1)
    BY <2>1 DEF PrimaryKnown, Live, Born
  <2> QED
    BY <2>1, <2>2, NamespaceMoves, <1>2
<1>5. Announced /\ Judged /\ Bytes /\ Closed /\ Calm /\ Sentenced
  BY <1>4 DEF Sound, Started
<1>6. CASE Confine(p)
  <2>1. /\ Runs(p, "ready") /\ UNCHANGED <<notified, pipe>>
        /\ ready_pipe' = 1 /\ Proceeds(p) /\ UNCHANGED <<life, parent, exit_status>>
    BY <1>3, <1>6 DEF Confine, Failing
  <2>2. "ready" \in {"ready", "stdout", "stderr", "notify", "await"} /\ "ready" \notin Streams
    OBVIOUS
  <2> QED
    BY <1>4, <2>1, <2>2, GoesOnSound
<1>7. CASE Write(p)
  <2>1. PICK s \in Streams, instruction \in {"stdout", "flood_stdout", "stderr",
                                             "flood_stderr"} :
          /\ WriteUnit(p, s, instruction)
          /\ instruction \in {"stdout", "stderr"} => instruction = s
          /\ instruction = "flood_stdout" => s = "stdout"
          /\ instruction = "flood_stderr" => s = "stderr"
    BY <1>7 DEF Write
  <2>2. Runs(p, instruction) /\ UNCHANGED <<notified, ready_pipe>>
    BY <2>1 DEF WriteUnit
  <2>3. /\ p = 1 /\ Left(1) # Len(Whole)
        /\ instruction \in {"flood_stdout", "flood_stderr"} => scenario = s
    BY <1>2, <2>1, <2>2, HeadsSay
  <2>4. CASE ~open[s]
    <3>1. Ends(p, "write_error") /\ UNCHANGED <<pipe, script>>
      BY <2>1, <2>4 DEF WriteUnit
    <3>2. scenario = s /\ overflow[s]
      BY <2>4, <1>4, <1>5 DEF Closed, Live
    <3>3. Cause /\ "write_error" \in ExpectedStatus(scenario)
      BY <3>2 DEF Cause, ExpectedStatus, Timeouts
    <3>4. scenario \in Streams \cup Timeouts
      BY <3>2
    <3>5. "write_error" \in Statuses
      BY DEF Statuses
    <3> QED
      BY <1>4, <2>2, <2>3, <3>1, <3>3, <3>4, <3>5, EndsSound
  <2>5. CASE open[s] /\ instruction = s
    <3>1. /\ pipe' = [pipe EXCEPT ![s] = @ + 1] /\ Proceeds(p)
          /\ UNCHANGED <<life, parent, exit_status>>
      BY <2>1, <2>5 DEF WriteUnit
    <3>2. /\ instruction \in {"ready", "stdout", "stderr", "notify", "await"}
          /\ instruction \in Streams /\ instruction # "ready"
      BY <2>5
    <3>3. ready_pipe' = IF instruction = "ready" THEN 1 ELSE ready_pipe
      BY <2>2, <3>2
    <3> QED
      BY <1>4, <2>2, <2>5, <3>1, <3>2, <3>3, GoesOnSound
  <2>6. CASE open[s] /\ instruction # s
    <3>1. /\ pipe' = [pipe EXCEPT ![s] = @ + 1]
          /\ UNCHANGED <<life, parent, exit_status, script>>
      BY <2>1, <2>6 DEF WriteUnit
    <3>2. scenario = s
      BY <2>1, <2>3, <2>6
    <3> QED
      BY <1>4, <2>2, <2>6, <3>1, <3>2, FloodSound
  <2> QED
    BY <2>4, <2>5, <2>6
<1>8. CASE ForkChild(p)
  <2>1. /\ Runs(p, "fork") /\ UNCHANGED <<notified, pipe, ready_pipe>>
        /\ \E q \in Procs :
              /\ life[q] = "unborn"
              /\ life' = [life EXCEPT ![q] = "live"]
              /\ parent' = [parent EXCEPT ![q] = p]
              /\ script' = [script EXCEPT ![p] = Tail(@), ![q] = ScriptOfChild(p)]
              /\ UNCHANGED exit_status
    BY <1>3, <1>8 DEF ForkChild, Failing
  <2> QED
    BY <1>4, <2>1, ForkChildSound
<1>9. CASE Notify(p)
  <2>1. /\ Runs(p, "notify") /\ Proceeds(p)
        /\ UNCHANGED <<life, parent, exit_status, pipe, ready_pipe>>
    BY <1>9 DEF Notify
  <2>2. "notify" \in {"ready", "stdout", "stderr", "notify", "await"} /\ "notify" \notin Streams
    OBVIOUS
  <2>3. ready_pipe' = IF "notify" = "ready" THEN 1 ELSE ready_pipe
    BY <2>1
  <2> QED
    BY <1>4, <2>1, <2>2, <2>3, GoesOnSound
<1>10. CASE Await(p)
  <2>1. Runs(p, "await") /\ UNCHANGED <<pipe, ready_pipe>>
    BY <1>10 DEF Await
  <2>2. notified
    BY <1>10, <2>1, AwaitIsTold DEF Await
  <2>3. Proceeds(p) /\ UNCHANGED <<life, parent, exit_status>>
    BY <1>10, <2>2 DEF Await
  <2>4. "await" \in {"ready", "stdout", "stderr", "notify", "await"} /\ "await" \notin Streams
    OBVIOUS
  <2>5. ready_pipe' = IF "await" = "ready" THEN 1 ELSE ready_pipe
    BY <2>1
  <2> QED
    BY <1>4, <2>1, <2>3, <2>4, <2>5, GoesOnSound
<1>11. CASE Finish(p)
  <2>1. UNCHANGED <<notified, pipe, ready_pipe>>
    BY <1>11 DEF Finish
  <2>2. ASSUME NEW i \in {"exit", "forbidden"}, Runs(p, i), Proceeds(p)
        PROVE  /\ script[p] # <<>> /\ Left(p) = 1 /\ p \in {1, 2} /\ Left(p)' = 0
               /\ p = 1 => Left(1) # Len(Whole)
               /\ i = "forbidden" => p = 1 /\ scenario = "forbidden"
               /\ i = "exit" /\ p = 1 => scenario \in {"normal", "double_fork", "zombie", "spoof"}
    <3>1. /\ script[p] # <<>> /\ Left(p) = 1 /\ p \in {1, 2}
          /\ p = 1 => Left(1) # Len(Whole)
          /\ i = "forbidden" => p = 1 /\ scenario = "forbidden"
          /\ i = "exit" /\ p = 1 => scenario \in {"normal", "double_fork", "zombie", "spoof"}
      BY <1>2, <2>2, HeadsSay
    <3>2. Len(Tail(script[p])) = Left(p) - 1
      BY <1>2, <1>4, <3>1, Runs1, Runs2 DEF Born
    <3>3. script'[p] = Tail(script[p])
      BY <1>2, <2>2 DEF Proceeds, Scripts
    <3> QED
      BY <3>1, <3>2, <3>3 DEF Left
  <2>3. CASE Runs(p, "exit") /\ Ends(p, "zero") /\ Proceeds(p)
    <3>1. "exit" \in {"exit", "forbidden"} /\ "exit" # "forbidden" /\ "zero" \in Statuses
      BY DEF Statuses
    <3>2. /\ script[p] # <<>> /\ Left(p) = 1 /\ p \in {1, 2} /\ Left(p)' = 0
          /\ p = 1 => Left(1) # Len(Whole)
          /\ p = 1 => scenario \in {"normal", "double_fork", "zombie", "spoof"}
      BY <2>2, <2>3, <3>1
    <3>3. p = 1 => "zero" \in ExpectedStatus(scenario) /\ scenario \notin Streams \cup Timeouts
      BY <3>2 DEF ExpectedStatus, Timeouts
    <3>4. /\ p = 1 => Left(1)' = 0
          /\ p = 2 => Left(2)' = 0
      BY <3>2
    <3> QED
      BY <1>4, <2>1, <2>3, <3>1, <3>2, <3>3, <3>4, EndsSound
  <2>4. CASE Runs(p, "forbidden") /\ Ends(p, "SIGSYS") /\ Proceeds(p)
    <3>1. "forbidden" \in {"exit", "forbidden"} /\ "SIGSYS" \in Statuses
      BY DEF Statuses
    <3>2. /\ script[p] # <<>> /\ Left(p) = 1 /\ Left(p)' = 0
          /\ p = 1 /\ Left(1) # Len(Whole) /\ scenario = "forbidden"
      BY <2>2, <2>4, <3>1
    <3>3. "SIGSYS" \in ExpectedStatus(scenario) /\ scenario \notin Streams \cup Timeouts
      BY <3>2 DEF ExpectedStatus, Timeouts
    <3>4. Left(1)' = 0
      BY <3>2
    <3> QED
      BY <1>4, <2>1, <2>4, <3>1, <3>2, <3>3, <3>4, EndsSound
  <2>5. CASE p \in doomed /\ Ends(p, "SIGKILL") /\ UNCHANGED script
    <3>1. "SIGKILL" \in Statuses
      BY DEF Statuses
    <3>2. p = 1 => /\ Left(1) # Len(Whole)
                   /\ "SIGKILL" \in ExpectedStatus(scenario)
                   /\ scenario \in Streams \cup Timeouts
                   /\ Cause
      BY <2>5, DoomedLate
    <3> QED
      BY <1>4, <2>1, <2>5, <3>1, <3>2, EndsSound
  <2> QED
    BY <1>11, <2>3, <2>4, <2>5 DEF Finish
<1> QED
  BY <1>1, <1>6, <1>7, <1>8, <1>9, <1>10, <1>11

(* The fork of the primary. *)
LEMMA ForkSound ==
  ASSUME Books, PrimaryKnown, Played, Mute, Sound, ~Disturbed', Fork
  PROVE  Sound'
<1> USE DEF stopVars, reapVars, clockVars
<1>1. ~faulted'
  BY DEF Disturbed
<1>2. /\ pc = "fork" /\ pc' = "reap"
      /\ life' = [life EXCEPT ![Primary] = "live"]
      /\ script' = [script EXCEPT ![Primary] = <<"ready">> \o PrimaryScript(scenario)]
      /\ open' = [s \in Streams |-> TRUE] /\ ready_open' = TRUE
      /\ UNCHANGED <<scenario, doomed, pipe, infrastructure_error, terminating, timed_out,
                     all_reaped, primary_reaped, observed, overflow, frame>>
  BY <1>1 DEF Fork, Failing
<1>3. life[1] = "unborn" /\ ~Born(1) /\ ~Born(2)
  BY <1>2 DEF PrimaryKnown, Born, Played, Births
<1>4. life \in [Procs -> {"unborn", "live", "zombie", "reaped"}]
      /\ script \in [Procs -> Seq(Words)]
  BY DEF Books, Played, Scripts
<1>5. life'[1] = "live" /\ ~Born(2)'
  BY <1>2, <1>3, <1>4 DEF Born
<1>6. Whole' = Whole
  BY <1>2, SameScenario
<1>7. script'[1] = Whole
  <2>1. script' = [script EXCEPT ![Primary] = Whole]
    BY <1>2 DEF Whole
  <2> QED
    BY <2>1, <1>4
<1>8. Left(1)' = Len(Whole)
  BY <1>7 DEF Left
<1>9. Calm' /\ Sentenced'
  <2>1. Calm /\ Sentenced
    BY DEF Sound
  <2>2. Cause' <=> Cause
    BY <1>2 DEF Cause
  <2> QED
    BY <2>1, <2>2, <1>2, <1>5 DEF Calm, Sentenced
<1>10. Announced' /\ Judged' /\ Closed'
  BY <1>2, <1>5, <1>6, <1>8 DEF Announced, Judged, Closed
<1>11. Bytes'
  <2>1. SUFFICES ASSUME NEW s \in Streams, scenario # s
                 PROVE  observed[s] + pipe[s] + Due(s)' = ExpectedStreams(scenario)[s]
    BY <1>2 DEF Bytes
  <2>2. pipe[s] = 0 /\ observed[s] = 0
    BY <1>3 DEF Books, Mute
  <2>3. scenario \in KnownScenarios
    BY DEF Played, Scripts
  <2>4. Due(s)' = ExpectedStreams(scenario)[s]
    <3>1. CASE scenario = "normal"
      <4>1. Left(1)' = 4
        BY <3>1, <2>3, <1>8, WholeIs
      <4>2. Due(s)' = 1
        BY <4>1, <3>1, <1>2 DEF Due
      <4>3. ExpectedStreams(scenario)[s] = 1
        BY <3>1 DEF ExpectedStreams
      <4> QED
        BY <4>2, <4>3
    <3>2. CASE scenario \in {"double_fork", "zombie", "spoof"}
      <4>1. Left(1)' \in {3, 4, 5}
        <5>1. Len(Whole) \in {3, 4, 5}
          BY <3>2, <2>3, WholeIs
        <5> QED
          BY <5>1, <1>8
      <4>2. Due(s)' = IF s = "stdout" THEN 1 ELSE 0
        BY <4>1, <3>2, <1>2 DEF Due
      <4>3. ExpectedStreams(scenario)[s] = IF s = "stdout" THEN 1 ELSE 0
        BY <3>2 DEF ExpectedStreams
      <4> QED
        BY <4>2, <4>3
    <3>3. CASE scenario \notin {"normal", "double_fork", "zombie", "spoof"}
      <4>1. Due(s)' = 0
        BY <3>3, <1>2 DEF Due
      <4>2. ExpectedStreams(scenario)[s] = 0
        BY <3>3, <2>1 DEF ExpectedStreams
      <4> QED
        BY <4>1, <4>2
    <3> QED
      BY <3>1, <3>2, <3>3
  <2>5. Due(s)' \in 0 .. 1
    BY DEF Due
  <2> QED
    BY <2>2, <2>4, <2>5
<1> QED
  BY <1>9, <1>10, <1>11 DEF Sound, Started

(* Waiting for a process changes nothing that it has done. *)
LEMMA ReapSound ==
  ASSUME Books, Sound, NEW p \in Procs, ReapChild(p)
  PROVE  Sound'
<1> USE DEF processVars, streamVars, stopVars, captureVars
<1>1. /\ life[p] = "zombie" /\ life' = [life EXCEPT ![p] = "reaped"]
      /\ primary_reaped' = (primary_reaped \/ p = Primary)
      /\ UNCHANGED <<scenario, script, exit_status, doomed, pipe, open, pc, ready_pipe,
                     infrastructure_error, terminating, timed_out, all_reaped,
                     observed, overflow, ready_open, ready_seen, frame>>
  BY DEF ReapChild
<1>2. life \in [Procs -> {"unborn", "live", "zombie", "reaped"}]
  BY DEF Books
<1>3. \A q \in Procs : life'[q] = IF q = p THEN "reaped" ELSE life[q]
  BY <1>1, <1>2
<1>4. /\ \A q \in Procs : Born(q)' <=> Born(q)
      /\ (Born(1)' <=> Born(1)) /\ (Born(2)' <=> Born(2))
      /\ Live' = Live
      /\ life'[2] # "live" <=> life[2] # "live"
      /\ life'[1] # "live" <=> life[1] # "live"
  BY <1>1, <1>3 DEF Born, Live
<1>5. /\ \A q : Left(q)' = Left(q)
      /\ Whole' = Whole
      /\ \A s : Due(s)' = Due(s)
  BY <1>1, SameLeft
<1>6. (Cause' <=> Cause) /\ (primary_reaped => primary_reaped')
  BY <1>1 DEF Cause
<1>7. Calm'
  BY <1>1 DEF Sound, Calm
<1>8. Sentenced'
  BY <1>1, <1>4, <1>5, <1>6 DEF Sound, Sentenced
<1>9. SUFFICES ASSUME Started PROVE Started'
  BY <1>4, <1>7, <1>8 DEF Sound
<1>10. Announced'
  BY <1>1, <1>4, <1>5, <1>9 DEF Started, Announced
<1>11. Judged'
  <2>1. life'[1] \in {"zombie", "reaped"} => life[1] \in {"zombie", "reaped"}
    BY <1>1, <1>3
  <2> QED
    BY <2>1, <1>1, <1>5, <1>6, <1>9 DEF Started, Judged
<1>12. Bytes' /\ Closed'
  BY <1>1, <1>4, <1>5, <1>9 DEF Started, Bytes, Closed
<1> QED
  BY <1>10, <1>11, <1>12 DEF Started

(* The end of reap_available in the main loop. *)
LEMMA ReapOverSound ==
  ASSUME Books, Captures, Sound, ~Disturbed', ReapOver
  PROVE  Sound'
<1> USE DEF processVars, streamVars, stopVars, captureVars
<1>1. ~faulted' /\ Calm /\ Sentenced
  BY DEF Disturbed, Sound
<1>2. /\ pc = "reap" /\ pc' = "decide" /\ ~infrastructure_error'
      /\ UNCHANGED <<scenario, life, script, exit_status, doomed, pipe, open, ready_pipe,
                     terminating, timed_out, primary_reaped, observed, overflow, ready_open,
                     ready_seen, frame>>
  <2>1. pc = "reap"
    BY <1>1 DEF ReapOver, Reaping, Calm
  <2>2. PICK failed \in MayFail("wait") :
          /\ Failing(failed)
          /\ infrastructure_error' = (infrastructure_error \/ failed)
          /\ pc' = IF failed /\ pc = "sweep_reap" THEN "drain" ELSE AfterReaping
    BY DEF ReapOver
  <2>3. ~failed /\ ~infrastructure_error'
    BY <1>1, <2>2 DEF Failing, Calm
  <2>4. pc' = "decide"
    BY <2>1, <2>2, <2>3 DEF AfterReaping
  <2> QED
    BY <2>1, <2>3, <2>4 DEF ReapOver
<1>3. Cause' <=> Cause
  BY <1>2 DEF Cause
<1>4. Calm'
  BY <1>1, <1>2 DEF Calm
<1>5. (Born(2)' <=> Born(2)) /\ Left(2)' = Left(2) /\ Left(1)' = Left(1) /\ Whole' = Whole
  BY <1>2, SameLeft DEF Born
<1>6. Sentenced'
  BY <1>1, <1>2, <1>3, <1>5 DEF Sentenced
<1>7. Announced' \/ ~Born(1)
  BY <1>2, <1>5 DEF Announced, Sound, Started
<1> QED
  BY <1>2, <1>4, <1>6, <1>7, ControlSound

(* The only step that sentences: the reason is the cause of the scenario, *)
(* or the primary is gone.                                                *)
LEMMA DecideSound ==
  ASSUME Books, Captures, PrimaryKnown, Sound, Timers, ~Disturbed, ~Disturbed', Decide
  PROVE  Sound'
<1> USE DEF processVars, streamVars, stopVars, reapVars, captureVars
<1> DEFINE late     == ~terminating /\ ~StopReason /\ deadline_passed
           starting == ~terminating /\ (StopReason \/ late)
           overdue  == terminating /\ ~all_reaped /\ grace = "expired"
<1>1. /\ ~faulted' /\ ~termination_signal_received /\ grace # "expired"
      /\ Calm /\ Sentenced
  BY DEF Disturbed, Sound
<1>2. Born(1)
  BY DEF Decide, PrimaryKnown, Born
<1>3. Announced /\ Judged /\ Bytes /\ Closed
  BY <1>2 DEF Sound, Started
<1>4. PICK failed \in MayFail("poll") :
        /\ failed => ~overdue
        /\ Failing(failed)
        /\ timed_out' = (timed_out \/ late)
        /\ terminating' = (terminating \/ starting)
        /\ IF starting \/ (terminating /\ ~all_reaped) THEN KillAll ELSE UNCHANGED doomed
        /\ infrastructure_error' = (infrastructure_error \/ overdue \/ failed)
        /\ pc' = IF overdue THEN "sweep" ELSE "stdout"
  BY DEF Decide
<1>5. ~failed /\ ~overdue
  BY <1>1, <1>4 DEF Failing
<1>6. /\ UNCHANGED <<scenario, life, script, exit_status, pipe, open, ready_pipe, primary_reaped,
                     all_reaped, observed, overflow, ready_open, ready_seen, frame>>
      /\ pc = "decide"
  BY DEF Decide
<1>7. pc' = "stdout" /\ ~infrastructure_error' /\ Calm'
  <2>1. pc' = "stdout" /\ ~infrastructure_error'
    <3> HIDE DEF overdue
    <3> QED
      BY <1>1, <1>4, <1>5 DEF Calm
  <2> QED
    BY <2>1 DEF Calm
<1>8. (Born(2)' <=> Born(2)) /\ Left(2)' = Left(2) /\ Left(1)' = Left(1) /\ Whole' = Whole
  BY <1>6, SameLeft DEF Born
<1>9. timed_out => timed_out'
  <2> HIDE DEF late
  <2> QED
    BY <1>4
<1>10. Cause => Cause'
  BY <1>6, <1>9 DEF Cause
<1>11. starting => primary_reaped \/ Cause'
  <2>1. CASE late
    <3>1. timed_out'
      <4> HIDE DEF late
      <4> QED
        BY <1>4, <2>1
    <3>2. scenario' \in Timeouts
      BY <3>1 DEF Disturbed
    <3> QED
      BY <3>1, <3>2 DEF Cause
  <2>2. CASE StopReason
    <3>1. \/ primary_reaped
          \/ \E s \in Streams : overflow[s]
      BY <1>1, <2>2 DEF StopReason, Calm
    <3>2. ASSUME NEW s \in Streams, overflow[s] PROVE Cause
      BY <3>2, <1>3, NoOtherOverflow DEF Cause
    <3> QED
      BY <3>1, <3>2, <1>10
  <2> QED
    BY <2>1, <2>2
<1>12. terminating' => primary_reaped' \/ Cause'
  <2> HIDE DEF starting
  <2> QED
    BY <1>1, <1>4, <1>6, <1>10, <1>11 DEF Sentenced
<1>13. doomed' # {} => terminating'
  <2> HIDE DEF starting
  <2>1. doomed' = doomed \/ starting \/ terminating
    BY <1>4
  <2> QED
    BY <2>1, <1>1, <1>4 DEF Sentenced
<1>14. 1 \in doomed' => Cause'
  <2>1. ASSUME 1 \in doomed', 1 \notin doomed PROVE Cause'
    <3>1. life[1] = "live" /\ terminating'
      <4> HIDE DEF starting
      <4> QED
        BY <1>4, <1>13, <2>1 DEF KillAll, Live
    <3>2. ~primary_reaped'
      BY <3>1, <1>6 DEF PrimaryKnown
    <3> QED
      BY <3>1, <3>2, <1>12
  <2> QED
    BY <2>1, <1>1, <1>10 DEF Sentenced
<1>15. 2 \in doomed => 2 \in doomed'
  <2> HIDE DEF starting
  <2> QED
    BY <1>4 DEF KillAll
<1>16. Sentenced'
  BY <1>1, <1>6, <1>8, <1>12, <1>13, <1>14, <1>15 DEF Sentenced
<1>17. Announced'
  BY <1>3, <1>6, <1>7, <1>8 DEF Announced
<1> HIDE DEF late, starting, overdue
<1> QED
  BY <1>6, <1>7, <1>9, <1>16, <1>17, ControlSound

(* Reading keeps the account of the streams. *)
LEMMA DrainBytes ==
  ASSUME Books, Captures, Bytes, NEW streams, Drain(streams), UNCHANGED <<scenario, script>>
  PROVE  /\ Bytes'
         /\ \A s \in Streams : overflow[s] => overflow'[s]
         /\ \A s \in Streams : scenario # s /\ s \in streams /\ open[s] =>
              pipe'[s] = 0 /\ ~overflow'[s]
         /\ \A s \in Streams : ~(s \in streams /\ open[s]) =>
              UNCHANGED <<observed[s], pipe[s], overflow[s]>>
<1>1. \A s \in Streams : observed[s] \in 0 .. 2 /\ pipe[s] \in Nat
  BY DEF Books
<1>2. \A s \in Streams :
         /\ observed'[s] + pipe'[s] = observed[s] + pipe[s]
         /\ observed[s] <= observed'[s] /\ pipe'[s] \in Nat /\ observed'[s] \in 0 .. 2
         /\ s \in streams /\ open[s] =>
              /\ observed'[s] <= 1 => pipe'[s] = 0
              /\ overflow'[s] <=> observed'[s] > 1
         /\ ~(s \in streams /\ open[s]) => UNCHANGED <<observed[s], pipe[s], overflow[s]>>
  BY DrainMoves
<1>3. \A s \in Streams : Due(s)' = Due(s)
  BY SameLeft
<1>4. ASSUME NEW s \in Streams, scenario # s
      PROVE  /\ observed'[s] + pipe'[s] + Due(s)' = ExpectedStreams(scenario)[s]
             /\ observed'[s] <= 1
  <2> HIDE DEF Streams
  <2>1. observed[s] + pipe[s] + Due(s) = ExpectedStreams(scenario)[s]
    BY <1>4 DEF Bytes
  <2>2. ExpectedStreams(scenario)[s] \in 0 .. 1 /\ Due(s) \in 0 .. 1
    BY <1>4, ExpectedAtMostOne
  <2>3. /\ observed'[s] + pipe'[s] = observed[s] + pipe[s]
        /\ pipe'[s] \in Nat /\ observed'[s] \in 0 .. 2
        /\ pipe[s] \in Nat /\ observed[s] \in 0 .. 2 /\ Due(s)' = Due(s)
    BY <1>1, <1>2, <1>3
  <2> QED
    BY <2>1, <2>2, <2>3
<1>5. Bytes'
  BY <1>4 DEF Bytes
<1>6. ASSUME NEW s \in Streams, overflow[s] PROVE overflow'[s]
  <2> HIDE DEF Streams
  <2>1. observed[s] > 1
    BY <1>6 DEF Captures
  <2>2. observed'[s] > 1
    BY <2>1, <1>1, <1>2
  <2> QED
    BY <2>2, <1>2, <1>6
<1>7. ASSUME NEW s \in Streams, scenario # s, s \in streams, open[s]
      PROVE  pipe'[s] = 0 /\ ~overflow'[s]
  <2> HIDE DEF Streams
  <2>1. observed'[s] <= 1 /\ observed'[s] \in 0 .. 2
    BY <1>2, <1>4, <1>7
  <2> QED
    BY <2>1, <1>2, <1>7
<1> QED
  BY <1>2, <1>5, <1>6, <1>7

(* Reading one stream in the main loop. *)
LEMMA DrainStreamSound ==
  ASSUME Books, Captures, PrimaryKnown, Sound, Timers, NEW s \in Streams,
         NEW next \in {"stderr", "ready"}, DrainStream(s, next)
  PROVE  Sound'
<1> USE DEF processVars, stopVars, reapVars
<1>1. /\ pc = s /\ pc' = next /\ Drain({s})
      /\ open' = [open EXCEPT ![s] = @ /\ ~Captured(s).closes]
      /\ UNCHANGED <<scenario, life, script, exit_status, doomed, ready_pipe,
                     infrastructure_error, terminating, timed_out, all_reaped,
                     primary_reaped, ready_open, ready_seen, frame>>
  BY DEF DrainStream
<1>2. Born(1) /\ (Born(1)' <=> Born(1)) /\ (Born(2)' <=> Born(2)) /\ Live' = Live
  BY <1>1 DEF PrimaryKnown, Born, Live
<1>3. Announced /\ Judged /\ Bytes /\ Closed /\ Calm /\ Sentenced
  BY <1>2 DEF Sound, Started
<1>4. /\ \A q : Left(q)' = Left(q)
      /\ Whole' = Whole
  BY <1>1, SameLeft
<1>5. /\ Bytes'
      /\ \A t \in Streams : overflow[t] => overflow'[t]
      /\ \A t \in Streams : scenario # t /\ t \in {s} /\ open[t] =>
           pipe'[t] = 0 /\ ~overflow'[t]
      /\ \A t \in Streams : ~(t \in {s} /\ open[t]) =>
           UNCHANGED <<observed[t], pipe[t], overflow[t]>>
  BY <1>1, <1>3, DrainBytes
<1>6. Cause => Cause'
  BY <1>1, <1>5 DEF Cause
<1>7. Calm' /\ Sentenced'
  BY <1>1, <1>2, <1>3, <1>4, <1>6 DEF Calm, Sentenced
<1>8. Announced' /\ Judged'
  BY <1>1, <1>2, <1>3, <1>4, <1>6 DEF Announced, Judged
<1>9. Closed'
  <2>1. /\ open'[s] <=> open[s] /\ ~Captured(s).closes
        /\ \A t \in Streams : t # s => (open'[t] <=> open[t])
    BY <1>1 DEF Timers
  <2>2. open[s] => (Captured(s).closes <=> overflow'[s] \/ Live = {})
    BY <1>1, DrainMoves
  <2>3. ASSUME NEW t \in Streams, ~open'[t]
        PROVE  /\ (scenario = t /\ overflow'[t]) \/ Live = {}
               /\ scenario # t => pipe'[t] = 0
    <3>1. CASE t = s /\ open[s]
      <4>1. overflow'[s] \/ Live = {}
        BY <2>1, <2>2, <2>3, <3>1
      <4>2. scenario # s => pipe'[s] = 0 /\ ~overflow'[s]
        BY <1>5, <3>1
      <4> QED
        BY <4>1, <4>2, <3>1
    <3>2. CASE ~open[t]
      <4>1. pipe'[t] = pipe[t] /\ overflow'[t] = overflow[t]
        BY <1>5, <3>2
      <4> QED
        BY <4>1, <3>2, <1>3 DEF Closed
    <3> QED
      BY <2>1, <2>3, <3>1, <3>2
  <2> QED
    BY <2>3, <1>1, <1>2 DEF Closed
<1> QED
  BY <1>5, <1>7, <1>8, <1>9 DEF Sound, Started

(* The ready pipe is closed when its byte was read. *)
LEMMA DrainReadySound ==
  ASSUME Books, Captures, PrimaryKnown, Played, Sound, DrainReady
  PROVE  Sound'
<1> USE DEF processVars, stopVars, reapVars
<1>1. /\ pc = "ready" /\ pc' \in {"sweep", "reap"} /\ (pc' = "sweep" => all_reaped)
      /\ ReadReady /\ ready_open' = (ready_open /\ ReadyWriterAlive)
      /\ UNCHANGED <<scenario, life, script, exit_status, doomed, pipe, open,
                     infrastructure_error, terminating, timed_out, all_reaped,
                     primary_reaped, observed, overflow, frame>>
  BY DEF DrainReady
<1>2. Born(1) /\ (Born(2)' <=> Born(2)) /\ (Cause' <=> Cause)
  BY <1>1 DEF PrimaryKnown, Born, Cause
<1>3. Announced /\ Judged /\ Bytes /\ Closed /\ Calm /\ Sentenced
  BY <1>2 DEF Sound, Started
<1>4. /\ \A q : Left(q)' = Left(q)
      /\ Whole' = Whole
  BY <1>1, SameLeft
<1>5. Calm' /\ Sentenced'
  BY <1>1, <1>2, <1>3, <1>4 DEF Calm, Sentenced
<1>6. Announced'
  <2>1. ready_seen => ready_seen'
    BY <1>1 DEF ReadReady
  <2>2. CASE ready_open /\ ready_pipe > 0
    <3>1. ready_seen'
      BY <1>1, <2>2 DEF ReadReady
    <3> QED
      BY <3>1, <1>1 DEF Announced
  <2>3. CASE ready_open /\ ~(ready_pipe > 0) /\ Left(1) = Len(Whole) /\ life[1] = "live"
    <3>1. ReadyWriterAlive
      <4>1. script[1] # <<>>
        <5>1. Len(Whole) # 0
          BY WholeIs DEF Played, Scripts, KnownScenarios
        <5> QED
          BY <5>1, <2>3, Lengths DEF Played
      <4>2. Whole[1] = "ready" /\ Len(Whole) \in Nat
        BY WholeIs DEF Played, Scripts
      <4>3. Head(script[1]) = Whole[Len(Whole) - Left(1) + 1]
        BY <4>1, <1>2, Runs1 DEF Played
      <4>4. Len(Whole) - Left(1) + 1 = 1
        BY <2>3, <4>2
      <4> QED
        BY <2>3, <4>2, <4>3, <4>4 DEF ReadyWriterAlive, Live
    <3>2. ready_open'
      BY <1>1, <2>3, <3>1
    <3> QED
      BY <3>2, <2>3, <1>1, <1>4 DEF Announced
  <2>4. CASE ready_seen
    BY <2>1, <2>4, <1>1 DEF Announced
  <2> QED
    BY <2>2, <2>3, <2>4, <1>3 DEF Announced
<1> QED
  BY <1>1, <1>5, <1>6, ControlSound

(* An undisturbed run has nothing to sweep. *)
LEMMA SweepSound ==
  ASSUME Books, Captures, PrimaryKnown, Sound, Sweep
  PROVE  Sound'
<1> USE DEF processVars, streamVars, stopVars, reapVars, captureVars
<1>1. /\ pc = "sweep" /\ all_reaped /\ Calm /\ Sentenced
  BY DEF Sweep, Sound, Calm
<1>2. /\ pc' = "drain"
      /\ UNCHANGED <<scenario, life, script, exit_status, doomed, pipe, open, ready_pipe,
                     infrastructure_error, terminating, timed_out, all_reaped,
                     primary_reaped, observed, overflow, ready_open, ready_seen, frame>>
  BY <1>1 DEF Sweep
<1>3. (Born(2)' <=> Born(2)) /\ (Cause' <=> Cause) /\ Whole' = Whole /\ \A q : Left(q)' = Left(q)
  BY <1>2, SameLeft DEF Born, Cause
<1>4. Calm' /\ Sentenced'
  BY <1>1, <1>2, <1>3 DEF Calm, Sentenced
<1>5. Announced' \/ ~Born(1)
  BY <1>2, <1>3 DEF Announced, Sound, Started
<1> QED
  BY <1>2, <1>4, <1>5, ControlSound

(* The last drain empties every stream. *)
LEMMA FinalDrainSound ==
  ASSUME Books, Captures, PrimaryKnown, Played, Sound, FinalDrain
  PROVE  Sound'
<1> USE DEF processVars, stopVars, reapVars
<1>1. /\ pc = "drain" /\ pc' = "report" /\ Drain(Streams)
      /\ open' = [s \in Streams |-> FALSE]
      /\ ReadReady /\ ready_open' = FALSE
      /\ UNCHANGED <<scenario, life, script, exit_status, doomed,
                     infrastructure_error, terminating, timed_out, all_reaped,
                     primary_reaped, frame>>
  BY DEF FinalDrain
<1>2. Born(1) /\ (Born(1)' <=> Born(1)) /\ (Born(2)' <=> Born(2)) /\ Live' = Live
  BY <1>1 DEF PrimaryKnown, Born, Live
<1>3. Announced /\ Judged /\ Bytes /\ Closed /\ Calm /\ Sentenced
  BY <1>2 DEF Sound, Started
<1>4. all_reaped /\ Live = {} /\ life[1] # "live"
  BY <1>1, <1>3 DEF Calm, Played, Family, Present, Live
<1>5. /\ \A q : Left(q)' = Left(q)
      /\ Whole' = Whole
  BY <1>1, SameLeft
<1>6. /\ Bytes'
      /\ \A t \in Streams : overflow[t] => overflow'[t]
      /\ \A t \in Streams : scenario # t /\ t \in Streams /\ open[t] =>
           pipe'[t] = 0 /\ ~overflow'[t]
      /\ \A t \in Streams : ~(t \in Streams /\ open[t]) =>
           UNCHANGED <<observed[t], pipe[t], overflow[t]>>
  BY <1>1, <1>3, DrainBytes
<1>7. Cause => Cause'
  BY <1>1, <1>6 DEF Cause
<1>8. Calm' /\ Sentenced'
  BY <1>1, <1>2, <1>3, <1>4, <1>5, <1>7 DEF Calm, Sentenced
<1>9. Announced'
  <2>1. ready_seen'
    BY <1>1, <1>3, <1>4 DEF Announced, ReadReady
  <2> QED
    BY <2>1, <1>1 DEF Announced
<1>10. Judged'
  BY <1>1, <1>3, <1>5, <1>7 DEF Judged
<1>11. Closed'
  <2>1. ASSUME NEW t \in Streams, scenario # t PROVE pipe'[t] = 0
    <3>1. CASE open[t]
      BY <1>6, <2>1, <3>1
    <3>2. CASE ~open[t]
      BY <1>3, <1>6, <2>1, <3>2 DEF Closed
    <3> QED
      BY <3>1, <3>2
  <2> QED
    BY <2>1, <1>2, <1>4, <1>1 DEF Closed
<1> QED
  BY <1>6, <1>8, <1>9, <1>10, <1>11 DEF Sound, Started

(* The report of an undisturbed run is free of error. *)
LEMMA ReportSound ==
  ASSUME Books, Captures, PrimaryKnown, Played, Sound, ~Disturbed', Report
  PROVE  Sound'
<1> USE DEF processVars, streamVars, stopVars, reapVars, captureVars
<1>1. /\ pc = "report"
      /\ UNCHANGED <<scenario, life, script, exit_status, doomed, pipe, open, ready_pipe,
                     terminating, timed_out, all_reaped, primary_reaped, observed, overflow,
                     ready_open, ready_seen>>
  BY DEF Report
<1>2. Born(1)
  BY <1>1 DEF PrimaryKnown, Born
<1>3. Announced /\ Calm /\ Sentenced
  BY <1>2 DEF Sound, Started
<1>4. all_reaped /\ Present = {} /\ ready_seen
  BY <1>1, <1>3 DEF Calm, Announced, Played, Family
<1>5. ~faulted'
  BY DEF Disturbed
<1>6. PICK unreadable \in MayFail("proc"), unsent \in MayFail("result") :
        LET sole  == Present = {} /\ ~unreadable
            error == infrastructure_error \/ ~ready_seen \/ ~sole
        IN /\ Failing(unreadable \/ unsent)
           /\ infrastructure_error' = error
           /\ IF unsent THEN pc' = "silent" /\ UNCHANGED frame
              ELSE /\ pc' = "reported"
                   /\ frame' = [outcome |-> Outcome(error), status |-> Status,
                                flags |-> ResultFlags(sole), observed |-> observed,
                                reaped |-> descendants_reaped]
  BY DEF Report
<1> DEFINE sole  == Present = {} /\ ~unreadable
           error == infrastructure_error \/ ~ready_seen \/ ~sole
<1>7. ~unreadable /\ ~unsent
  BY <1>5, <1>6 DEF Failing
<1>8. sole /\ ~error
  BY <1>3, <1>4, <1>7 DEF Calm
<1>9. pc' = "reported" /\ frame' = Written(error, sole) /\ infrastructure_error' = error
  BY <1>6, <1>7 DEF Written
<1>10. "SOLE_PID1" \in frame'.flags
  <2>1. sole \in BOOLEAN
    OBVIOUS
  <2> HIDE DEF sole, error
  <2> QED
    BY <2>1, <1>8, <1>9, RaisedSay
<1>11. Calm'
  <2> HIDE DEF sole, error
  <2> QED
    BY <1>1, <1>4, <1>8, <1>9, <1>10 DEF Calm
<1>12. (Born(2)' <=> Born(2)) /\ (Cause' <=> Cause) /\ Whole' = Whole /\ \A q : Left(q)' = Left(q)
  BY <1>1, SameLeft DEF Born, Cause
<1>13. Sentenced'
  BY <1>1, <1>3, <1>12 DEF Sentenced
<1>14. Announced'
  BY <1>1, <1>3, <1>12 DEF Announced
<1> HIDE DEF sole, error
<1> QED
  BY <1>1, <1>11, <1>13, <1>14, ControlSound

-----------------------------------------------------------------------------
(* The undisturbed run passes.                                             *)

LEMMA InitSound == LifecycleInit => Sound
<1> SUFFICES ASSUME LifecycleInit PROVE Sound
  OBVIOUS
<1>1. ~Born(1) /\ ~Born(2)
  BY DEF LifecycleInit, Born
<1>2. Calm /\ Sentenced
  BY <1>1 DEF LifecycleInit, Calm, Sentenced
<1> QED
  BY <1>1, <1>2 DEF Sound

(* The timers, and what holds as long as nothing disturbs the run. *)
Undisturbed == Timers /\ Mute /\ (~Disturbed => Sound)

(* Every step of an undisturbed run keeps Sound. *)
LEMMA StepSound ==
  ASSUME IInv, Played, Timers, Mute, Sound, ~Disturbed, ~Disturbed',
         [LifecycleNext]_lifecycleVars
  PROVE  Sound'
<1>1. Books /\ Captures /\ PrimaryKnown
  BY DEF IInv
<1>2. CASE Namespace
  BY <1>1, <1>2, NamespaceSound
<1>3. CASE Signal \/ Clock \/ UNCHANGED lifecycleVars
  <2>1. UNCHANGED <<scenario, life, script, exit_status, pipe, open, observed, overflow,
                    doomed, ready_pipe, terminating, timed_out, all_reaped, primary_reaped,
                    ready_open, ready_seen, infrastructure_error, pc, frame>>
    BY <1>3 DEF Signal, Clock, lifecycleVars, processVars, streamVars, stopVars, reapVars,
                captureVars
  <2>2. (Born(2)' <=> Born(2)) /\ (Cause' <=> Cause) /\ Whole' = Whole /\ \A q : Left(q)' = Left(q)
    BY <2>1, SameLeft DEF Born, Cause
  <2>3. Calm' /\ Sentenced'
    BY <2>1, <2>2 DEF Sound, Calm, Sentenced
  <2>4. Announced' \/ ~Born(1)
    BY <2>1, <2>2 DEF Sound, Started, Announced
  <2> QED
    BY <1>1, <2>1, <2>3, <2>4, ControlSound
<1>4. CASE Fork
  BY <1>1, <1>4, ForkSound
<1>5. CASE \E p \in Procs : ReapChild(p)
  BY <1>1, <1>5, ReapSound
<1>6. CASE ReapOver
  BY <1>1, <1>6, ReapOverSound
<1>7. CASE Decide
  BY <1>1, <1>7, DecideSound
<1>8. CASE DrainStdout \/ DrainStderr
  <2>1. PICK s \in Streams, next \in {"stderr", "ready"} : DrainStream(s, next)
    BY <1>8 DEF DrainStdout, DrainStderr
  <2> QED
    BY <1>1, <2>1, DrainStreamSound
<1>9. CASE DrainReady
  BY <1>1, <1>9, DrainReadySound
<1>10. CASE Sweep
  BY <1>1, <1>10, SweepSound
<1>11. CASE SweepClock
  BY <1>11 DEF SweepClock, Sound, Calm
<1>12. CASE FinalDrain
  BY <1>1, <1>12, FinalDrainSound
<1>13. CASE Report
  BY <1>1, <1>13, ReportSound
<1> QED
  BY <1>2, <1>3, <1>4, <1>5, <1>6, <1>7, <1>8, <1>9, <1>10, <1>11, <1>12, <1>13
  DEF LifecycleNext, Supervisor

(* Every step keeps it. *)
LEMMA StepUndisturbed ==
  IInv /\ Played /\ Undisturbed /\ [LifecycleNext]_lifecycleVars => Undisturbed'
<1> SUFFICES ASSUME IInv, Played, Undisturbed, [LifecycleNext]_lifecycleVars
             PROVE  Undisturbed'
  OBVIOUS
<1>1. Books /\ PrimaryKnown /\ Scripts /\ Timers /\ Mute
  BY DEF IInv, Played, Undisturbed
<1>2. Timers' /\ Mute'
  BY <1>1, StepTimers, StepMute
<1>3. ~Disturbed' => Sound'
  BY <1>1, DisturbedBefore, StepSound DEF Undisturbed
<1> QED
  BY <1>2, <1>3 DEF Undisturbed

(* Every flag of a frame, and what it says. *)
LEMMA EveryFlagSays ==
  ASSUME Books, NEW error
  PROVE  LET flags == Written(error, TRUE).flags IN
         /\ "PRIMARY_REAPED" \in flags <=> primary_reaped
         /\ "ALL_DESCENDANTS_REAPED" \in flags <=> all_reaped
         /\ "STDOUT_OVERFLOW" \in flags <=> overflow["stdout"]
         /\ "STDERR_OVERFLOW" \in flags <=> overflow["stderr"]
         /\ "TIMED_OUT" \in flags <=> timed_out
         /\ "TERMINATION_SIGNAL_RECEIVED" \in flags <=> termination_signal_received
         /\ {"REQUEST_VALIDATED", "PID1_VERIFIED", "SOLE_PID1"} \subseteq flags
         /\ ready_seen => Confinement \subseteq flags
<1> DEFINE given == [STDOUT_OVERFLOW |-> overflow["stdout"],
                 STDERR_OVERFLOW |-> overflow["stderr"],
                 TIMED_OUT |-> timed_out, PRIMARY_REAPED |-> primary_reaped,
                 ALL_DESCENDANTS_REAPED |-> all_reaped, SOLE_PID1 |-> TRUE,
                 TERMINATION_SIGNAL_RECEIVED |-> termination_signal_received]
<1>1. Written(error, TRUE).flags =
        ({"REQUEST_VALIDATED", "PID1_VERIFIED"}
           \cup (IF ready_seen THEN Confinement ELSE {})) \cup Raised(given)
  BY DEF Written, ResultFlags
<1>2. /\ "PRIMARY_REAPED" \in Raised(given) <=> primary_reaped
      /\ "ALL_DESCENDANTS_REAPED" \in Raised(given) <=> all_reaped
      /\ "STDOUT_OVERFLOW" \in Raised(given) <=> overflow["stdout"]
      /\ "STDERR_OVERFLOW" \in Raised(given) <=> overflow["stderr"]
      /\ "TIMED_OUT" \in Raised(given) <=> timed_out
      /\ "TERMINATION_SIGNAL_RECEIVED" \in Raised(given) <=> termination_signal_received
      /\ "SOLE_PID1" \in Raised(given)
  BY DEF Raised
<1> HIDE DEF given
<1> QED
  BY <1>1, <1>2 DEF Confinement

(* Each process of the scenario has been waited for, and counted. *)
LEMMA EnoughReaped ==
  ASSUME IInv, Played, Born(1), Judged, Present = {}, ~Disturbed, life[1] = "reaped"
  PROVE  descendants_reaped >= MinimumReaped(scenario)
<1>1. \A p \in Procs : Born(p) => One(p) = 1
  BY DEF IInv, Books, Present, Born, One
<1>2. /\ One(1) = 1 /\ One(2) \in 0 .. 1 /\ One(3) \in 0 .. 1 /\ One(4) \in 0 .. 1
      /\ Born(2) => One(2) = 1
      /\ Born(3) => One(3) = 1
      /\ Born(4) => One(4) = 1
      /\ descendants_reaped = One(1) + One(2) + One(3) + One(4)
  BY <1>1 DEF One, Played, Counted
<1>3. Left(1) \in Nat
  BY Lengths DEF Played
<1>4. CASE scenario = "double_fork"
  <2>1. Left(1) = 0
    BY <1>4 DEF Judged, Timeouts
  <2>2. notified
    BY <1>4, <2>1 DEF Played, Told
  <2>3. Born(2) /\ Left(2) < 2
    BY <2>2 DEF Played, Told
  <2>4. Left(2) \in Nat
    BY Lengths DEF Played
  <2>5. Born(3)
    BY <1>4, <2>1, <2>3, <2>4 DEF Played, Births
  <2> QED
    BY <1>2, <1>4, <2>3, <2>5 DEF MinimumReaped
<1>5. CASE scenario = "zombie"
  <2>1. Left(1) = 0
    BY <1>5 DEF Judged, Timeouts
  <2>2. Born(2)
    BY <1>5, <2>1 DEF Played, Births
  <2> QED
    BY <1>2, <1>5, <2>2 DEF MinimumReaped
<1>6. CASE scenario = "fan-out"
  <2>1. timed_out
    BY <1>6 DEF Judged, Timeouts, Cause
  <2>2. script[1] = <<"idle">>
    BY <2>1 DEF Disturbed
  <2>3. Left(1) = 1
    BY <2>2, IdleIs DEF Left
  <2>4. Born(2) /\ Born(3) /\ Born(4)
    BY <1>6, <2>3 DEF Played, Births
  <2> QED
    BY <1>2, <1>6, <2>4 DEF MinimumReaped
<1>7. CASE scenario \notin {"double_fork", "zombie", "fan-out"}
  <2>1. MinimumReaped(scenario) = 1
    BY <1>7 DEF MinimumReaped
  <2> QED
    BY <1>2, <2>1
<1> QED
  BY <1>4, <1>5, <1>6, <1>7

(* The frame of an undisturbed run is what the canary expects. *)
LEMMA SoundPasses ==
  ASSUME IInv, Played, Sound, ~Disturbed, pc = "reported"
  PROVE  FixedResultValid(frame)
<1>1. Books /\ Captures /\ PrimaryKnown /\ RefusedOnlyForTwo
  BY DEF IInv
<1>2. Calm /\ all_reaped /\ Born(1)
  BY <1>1 DEF Sound, Calm, PrimaryKnown, Born
<1>3. Announced /\ Judged /\ Bytes /\ Closed
  BY <1>2 DEF Sound, Started
<1>4. /\ Present = {} /\ frame = Written(infrastructure_error, TRUE)
      /\ ~infrastructure_error
  BY <1>2 DEF Calm, Played, FrameTrue
<1>5. /\ frame.outcome = Outcome(infrastructure_error) /\ frame.status = Status
      /\ frame.observed = observed /\ frame.reaped = descendants_reaped
  BY <1>4 DEF Written
<1>6. /\ "PRIMARY_REAPED" \in frame.flags <=> primary_reaped
      /\ "ALL_DESCENDANTS_REAPED" \in frame.flags <=> all_reaped
      /\ "STDOUT_OVERFLOW" \in frame.flags <=> overflow["stdout"]
      /\ "STDERR_OVERFLOW" \in frame.flags <=> overflow["stderr"]
      /\ "TIMED_OUT" \in frame.flags <=> timed_out
      /\ "TERMINATION_SIGNAL_RECEIVED" \in frame.flags <=> termination_signal_received
      /\ {"REQUEST_VALIDATED", "PID1_VERIFIED", "SOLE_PID1"} \subseteq frame.flags
      /\ ready_seen => Confinement \subseteq frame.flags
  BY <1>1, <1>4, EveryFlagSays
<1>7. primary_reaped /\ life[1] = "reaped" /\ ready_seen /\ ~termination_signal_received
  BY <1>1, <1>2, <1>3 DEF PrimaryKnown, Announced, Disturbed
<1>8. exit_status \in ExpectedStatus(scenario) /\ frame.status = exit_status
  BY <1>3, <1>5, <1>7 DEF Judged, Status
<1>9. scenario \in KnownScenarios
  BY DEF Played, Scripts
<1>10. /\ MandatoryFlags \subseteq frame.flags
       /\ "TERMINATION_SIGNAL_RECEIVED" \notin frame.flags
  BY <1>2, <1>6, <1>7 DEF MandatoryFlags
<1>11. frame.reaped >= MinimumReaped(scenario)
  BY <1>2, <1>3, <1>4, <1>5, <1>7, EnoughReaped
<1>12. \A s \in Streams : overflow[s] => scenario = s
  BY <1>1, <1>3, NoOtherOverflow
<1>13. /\ scenario \in Streams => overflow[scenario]
       /\ timed_out <=> scenario \in Timeouts
  <2>1. scenario \in Streams \cup Timeouts => Cause
    BY <1>3, <1>7 DEF Judged
  <2>2. timed_out => scenario \in Timeouts
    BY DEF Disturbed
  <2> QED
    BY <2>1, <2>2 DEF Cause, Timeouts
<1>14. frame.outcome = ExpectedOutcome(scenario)
  <2>1. CASE scenario \in Timeouts
    <3>1. ~overflow["stdout"] /\ ~overflow["stderr"] /\ timed_out
      BY <2>1, <1>12, <1>13 DEF Timeouts
    <3> QED
      BY <3>1, <2>1, <1>4, <1>5 DEF Outcome, ExpectedOutcome, Timeouts
  <2>2. CASE scenario = "stdout"
    BY <2>2, <1>4, <1>5, <1>13 DEF Outcome, ExpectedOutcome, Timeouts
  <2>3. CASE scenario = "stderr"
    <3>1. ~overflow["stdout"] /\ overflow["stderr"]
      BY <2>3, <1>12, <1>13
    <3> QED
      BY <3>1, <2>3, <1>4, <1>5 DEF Outcome, ExpectedOutcome, Timeouts
  <2>4. CASE scenario = "forbidden"
    <3>1. /\ ~overflow["stdout"] /\ ~overflow["stderr"] /\ ~timed_out
          /\ Status = "SIGSYS"
      BY <2>4, <1>5, <1>8, <1>12, <1>13 DEF Timeouts, ExpectedStatus
    <3> QED
      BY <3>1, <2>4, <1>4, <1>5 DEF Outcome, ExpectedOutcome, Timeouts
  <2>5. CASE scenario \in {"normal", "double_fork", "zombie", "spoof"}
    <3>1. ~overflow["stdout"] /\ ~overflow["stderr"] /\ ~timed_out
      BY <2>5, <1>12, <1>13 DEF Timeouts
    <3>2. Status = "zero"
      BY <2>5, <1>5, <1>8 DEF Timeouts, ExpectedStatus
    <3>3. Outcome(infrastructure_error) = "NORMAL"
      BY <3>1, <3>2, <1>4 DEF Outcome
    <3>4. ExpectedOutcome(scenario) = "NORMAL"
      BY <2>5 DEF ExpectedOutcome, Timeouts
    <3> QED
      BY <3>3, <3>4, <1>5
  <2> QED
    BY <1>9, <2>1, <2>2, <2>3, <2>4, <2>5 DEF KnownScenarios, Timeouts
<1>15. frame.observed = ExpectedStreams(scenario)
  <2>1. ASSUME NEW s \in Streams PROVE observed[s] = ExpectedStreams(scenario)[s]
    <3>1. observed[s] \in 0 .. 2
      BY <1>1 DEF Books
    <3>2. CASE scenario = s
      <4>1. observed[s] = 2
        BY <3>1, <3>2, <1>1, <1>13 DEF Captures
      <4> QED
        BY <4>1, <3>2 DEF ExpectedStreams
    <3>3. CASE scenario # s
      <4>1. observed[s] + pipe[s] + Due(s) = ExpectedStreams(scenario)[s]
        BY <3>3, <1>3 DEF Bytes
      <4>2. pipe[s] = 0
        BY <3>3, <1>3 DEF Closed
      <4>3. Due(s) = 0
        <5>1. CASE scenario \in Streams \cup Timeouts
          BY <5>1 DEF Due, Timeouts
        <5>2. CASE scenario \notin Streams \cup Timeouts
          <6>1. Left(1) = 0
            BY <5>2, <1>3, <1>7 DEF Judged
          <6> QED
            BY <6>1 DEF Due
        <5> QED
          BY <5>1, <5>2
      <4> QED
        BY <4>1, <4>2, <4>3, <3>1
    <3> QED
      BY <3>2, <3>3
  <2>2. observed \in [Streams -> 0 .. 2]
    BY <1>1 DEF Books
  <2>3. /\ ExpectedStreams(scenario) = [s \in Streams |-> ExpectedStreams(scenario)[s]]
        /\ observed = [s \in Streams |-> observed[s]]
    BY <2>2 DEF ExpectedStreams
  <2> QED
    BY <2>1, <2>3, <1>5
<1>16. Accepted(frame)
  <2>1. frame.outcome # "SUPERVISOR_ERROR"
    BY <1>14 DEF ExpectedOutcome, Timeouts
  <2>2. \E x : Incidents(frame) \subseteq {x}
    <3>1. /\ "STDOUT_OVERFLOW" \in Incidents(frame) => scenario = "stdout"
          /\ "STDERR_OVERFLOW" \in Incidents(frame) => scenario = "stderr"
          /\ "TIMED_OUT" \in Incidents(frame) => scenario \in Timeouts
          /\ Incidents(frame) \subseteq {"STDOUT_OVERFLOW", "STDERR_OVERFLOW", "TIMED_OUT"}
      BY <1>6, <1>12, <1>13 DEF Incidents
    <3>2. CASE scenario = "stdout"
      <4>1. Incidents(frame) \subseteq {"STDOUT_OVERFLOW"}
        BY <3>1, <3>2 DEF Timeouts
      <4> QED
        BY <4>1
    <3>3. CASE scenario = "stderr"
      <4>1. Incidents(frame) \subseteq {"STDERR_OVERFLOW"}
        BY <3>1, <3>3 DEF Timeouts
      <4> QED
        BY <4>1
    <3>4. CASE scenario \notin Streams
      <4>1. Incidents(frame) \subseteq {"TIMED_OUT"}
        BY <3>1, <3>4
      <4> QED
        BY <4>1
    <3> QED
      BY <3>2, <3>3, <3>4
  <2>3. ~(Cardinality(Incidents(frame)) > 1)
    <3>1. PICK x : Incidents(frame) \subseteq {x}
      BY <2>2
    <3>2. Incidents(frame) = {} \/ Incidents(frame) = {x}
      BY <3>1
    <3>3. Cardinality({}) = 0 /\ Cardinality({x}) = 1
      BY FS_EmptySet, FS_Singleton
    <3> QED
      BY <3>2, <3>3
  <2> QED
    BY <2>1, <2>3, <1>1 DEF RefusedOnlyForTwo
<1> QED
  BY <1>8, <1>10, <1>11, <1>14, <1>15, <1>16 DEF FixedResultValid

(* A run that nothing disturbed passes the canary: main(), child_main and   *)
(* run_fixed_scenario against _validate_fixed_result.                      *)
THEOREM UndisturbedPassesCorrect == LifecycleSpec => []UndisturbedPasses
<1>1. LifecycleInit => IInv /\ Played /\ Undisturbed
  BY InitInv, InitPlayed, InitTimers, InitSound DEF Undisturbed
<1>2. IInv /\ Played /\ Undisturbed /\ [LifecycleNext]_lifecycleVars
        => IInv' /\ Played' /\ Undisturbed'
  BY StepInv, StepPlayed, StepUndisturbed
<1>3. IInv /\ Played /\ Undisturbed => UndisturbedPasses
  BY SoundPasses DEF UndisturbedPasses, Undisturbed
<1> QED
  BY <1>1, <1>2, <1>3, PTL DEF LifecycleSpec
=============================================================================
