------------------------ MODULE LaunchControllerProofs ------------------------
(***************************************************************************)
(* For any contents and any number of unit processes: types, that an       *)
(* accepted result is final, that the client is reaped, and that only a     *)
(* unit started after the quiescence check outlives the call.              *)
(***************************************************************************)
EXTENDS LaunchController, TLAPS

USE LaunchAssumption DEF Streams, Words, Endings, Labels

-----------------------------------------------------------------------------
(* Types. *)

LEMMA InitType == Init => TypeOK
  <1>1. Init => ControlTypes /\ EnvironmentTypes
    BY DEF Init, ControlTypes, EnvironmentTypes
  <1>2. Init => live \in 0 .. MaxProcesses
    BY DEF Init
  <1> QED
    BY <1>1, <1>2 DEF TypeOK

LEMMA LiveType ==
  ASSUME live \in 0 .. MaxProcesses, [Next]_vars
  PROVE  live' \in 0 .. MaxProcesses
  <1> USE DEF unitVars, worldVars
  <1>1. CASE Environment
    <2>1. CASE UnitStarts
      <3>1. live' = live \/ (MaxProcesses > 0 /\ live' = 1)
        BY <2>1 DEF UnitStarts
      <3> QED
        BY <3>1
    <2>2. CASE UnitForksOrExits
      <3>1. live' \in 0 .. MaxProcesses
        BY <2>2 DEF UnitForksOrExits
      <3> QED
        BY <3>1
    <2>3. CASE UnitStops
      <3>1. live' = 0
        BY <2>3 DEF UnitStops
      <3> QED
        BY <3>1
    <2>4. CASE ~UnitStarts /\ ~UnitForksOrExits /\ ~UnitStops
      <3>1. UNCHANGED live
        BY <1>1, <2>4 DEF Environment, ClientAsks, ClientEnds, RuntimeLimit,
           UnitSpeaks, UnitCloses, UnitWrites
      <3> QED
        BY <3>1
    <2> QED
      BY <2>1, <2>2, <2>3, <2>4
  <1>2. CASE StopUnit
    BY <1>2 DEF StopUnit
  <1>3. CASE UNCHANGED vars
    BY <1>3 DEF vars
  <1>4. CASE (Controller /\ ~StopUnit) \/ LoopFails \/ Interrupt
    <2>1. UNCHANGED live
      BY <1>4 DEF Controller, Spawn, Serve, Deadline, Wait, ShowUnit, ReadFirst,
         ReadAgain, Seal, Reap, ReapWait, ReapAgain, Reaped, Finally, Judge,
         Compare, Verify, Close, LoopFails, Interrupt
    <2> QED
      BY <2>1
  <1> QED
    BY <1>1, <1>2, <1>3, <1>4 DEF Next

LEMMA EnvironmentType ==
  ASSUME ControlTypes, EnvironmentTypes, Environment
  PROVE  ControlTypes' /\ EnvironmentTypes'
  <1>1. ControlTypes'
    <2>1. UNCHANGED <<controlVars, interrupted, fds_open>>
      BY DEF Environment, ClientAsks, ClientEnds, UnitStarts, RuntimeLimit,
         UnitForksOrExits, UnitStops, UnitSpeaks, UnitCloses, UnitWrites
    <2> QED
      BY <2>1 DEF ControlTypes, controlVars
  <1> USE DEF EnvironmentTypes, unitVars, dataVars
  <1>2. CASE ClientAsks \/ ClientEnds \/ UnitStarts \/ RuntimeLimit
    BY <1>1, <1>2 DEF ClientAsks, ClientEnds, UnitStarts, RuntimeLimit
  <1>3. CASE UnitForksOrExits \/ UnitStops
    BY <1>1, <1>3 DEF UnitForksOrExits, UnitStops
  <1>4. CASE UnitSpeaks
    BY <1>1, <1>4 DEF UnitSpeaks
  <1>5. CASE UnitCloses \/ UnitWrites
    BY <1>1, <1>5 DEF UnitCloses, UnitWrites
  <1> QED
    BY <1>2, <1>3, <1>4, <1>5 DEF Environment

LEMMA ControllerType ==
  ASSUME ControlTypes, EnvironmentTypes, Controller \/ LoopFails \/ Interrupt
  PROVE  ControlTypes' /\ EnvironmentTypes'
  <1> USE DEF Controller, Spawn, Serve, Deadline, Wait, StopUnit, ShowUnit,
         ReadFirst, ReadAgain, Seal, Reap, ReapWait, ReapAgain, Reaped, Finally,
         Judge, Compare, Verify, Close, LoopFails, Interrupt, Terminate,
         ControlTypes, EnvironmentTypes, unitVars, dataVars, worldVars
  <1>1. pc' \in Labels /\ ending' \in Endings
    OBVIOUS
  <1>2. /\ unit_error' \in BOOLEAN /\ unreaped' \in BOOLEAN
        /\ interrupted' \in BOOLEAN /\ fds_open' \in BOOLEAN
    OBVIOUS
  <1>3. open' \in SUBSET Streams /\ snapshot' \in Contents
    OBVIOUS
  <1>4. verdict' \in {"none", "accepted", "refused"}
    OBVIOUS
  <1>5. got' \in [Streams -> Words]
    OBVIOUS
  <1>6. /\ client' \in {"none", "running", "dying", "zombie", "reaped"}
        /\ unit' \in {"absent", "queued", "active", "stopping", "gone"}
    OBVIOUS
  <1>7. /\ held' \in SUBSET Streams /\ said' \in [Streams -> Words]
        /\ workspace' \in Contents /\ sink' \in Contents
    OBVIOUS
  <1>8. /\ client_ok' \in BOOLEAN /\ sealed' \in BOOLEAN
        /\ verified' \in BOOLEAN /\ late' \in BOOLEAN
    OBVIOUS
  <1> QED
    BY <1>1, <1>2, <1>3, <1>4, <1>5, <1>6, <1>7, <1>8

LEMMA TypeStep == TypeOK /\ [Next]_vars => TypeOK'
  <1>1. ControlTypes /\ EnvironmentTypes /\ UNCHANGED vars
          => ControlTypes' /\ EnvironmentTypes'
    BY DEF ControlTypes, EnvironmentTypes, vars, controlVars, unitVars, dataVars
  <1> QED
    BY <1>1, EnvironmentType, ControllerType, LiveType DEF Next, TypeOK

(* Every variable keeps its type, whatever the environment does. *)
THEOREM LaunchTypes == Spec => []TypeOK
  BY InitType, TypeStep, PTL DEF Spec
-----------------------------------------------------------------------------
(* The client. *)

Left == {"judge", "compare", "verify", "close", "done"}

(* Where the client has been waited for, and how an interrupt shows.       *)
ClientInv ==
  /\ pc = "spawn" => client = "none"
  /\ ending = "captured" /\ pc \in {"stop", "show", "read", "reread", "seal"}
       => client = "reaped"
  /\ pc \in {"read", "reread", "seal"} => ending = "captured"
  /\ pc \in {"reap", "reap_wait", "reap_again", "reaped"} => ending # "captured"
  /\ pc = "reaped" => client = "reaped" \/ unreaped
  /\ ending = "interrupted" => interrupted
  /\ pc = "finally" => interrupted /\ InBody(ending)
  /\ LeftReaped

LEMMA ClientInit == Init => ClientInv
  BY DEF Init, ClientInv, LeftReaped

LEMMA ClientEnvironment ==
  ASSUME ClientInv, Environment \/ UNCHANGED vars
  PROVE  ClientInv'
  <1>1. UNCHANGED <<pc, ending, unreaped, interrupted>>
    BY DEF Environment, ClientAsks, ClientEnds, UnitStarts, RuntimeLimit,
       UnitForksOrExits, UnitStops, UnitSpeaks, UnitCloses, UnitWrites, vars,
       controlVars
  <1>2. client \in {"none", "reaped"} => UNCHANGED client
    BY DEF Environment, ClientAsks, ClientEnds, UnitStarts, RuntimeLimit,
       UnitForksOrExits, UnitStops, UnitSpeaks, UnitCloses, UnitWrites, vars
  <1> QED
    BY <1>1, <1>2 DEF ClientInv, LeftReaped, InBody

LEMMA ClientController ==
  ASSUME TypeOK, ClientInv, Controller \/ LoopFails \/ Interrupt
  PROVE  ClientInv'
  <1> USE DEF ClientInv, LeftReaped, InBody, Terminate, worldVars
  <1>1. CASE Spawn \/ Serve \/ Deadline \/ LoopFails
    BY <1>1 DEF Spawn, Serve, Deadline, LoopFails
  <1>2. CASE Wait
    BY <1>2 DEF Wait
  <1>3. CASE StopUnit \/ ShowUnit \/ ReadFirst \/ ReadAgain \/ Seal
    <2>1. UNCHANGED <<client, interrupted, unreaped>>
      BY <1>3 DEF StopUnit, ShowUnit, ReadFirst, ReadAgain, Seal
    <2>2. CASE StopUnit \/ ShowUnit
      BY <1>3, <2>1, <2>2 DEF StopUnit, ShowUnit
    <2>3. CASE ReadFirst \/ ReadAgain
      BY <1>3, <2>1, <2>3 DEF ReadFirst, ReadAgain
    <2>4. CASE Seal
      <3>1. \/ pc' = "judge" /\ ending' = ending
            \/ pc' = "stop" /\ ending' = "error"
        BY <2>4 DEF Seal
      <3>2. pc = "seal"
        BY <2>4 DEF Seal
      <3>3. client = "reaped"
        BY <3>2
      <3> QED
        BY <2>1, <3>1, <3>3
    <2> QED
      BY <1>3, <2>2, <2>3, <2>4
  <1>4. CASE Reap \/ ReapWait
    BY <1>4 DEF Reap, ReapWait
  <1>5. CASE ReapAgain
    <2>1. client' = "reaped" \/ unreaped'
      BY <1>5 DEF ReapAgain
    <2>2. pc' = "reaped" /\ UNCHANGED <<ending, interrupted>> /\ ending # "captured"
      BY <1>5 DEF ReapAgain
    <2> QED
      BY <2>1, <2>2
  <1>6. CASE Reaped
    BY <1>6 DEF Reaped
  <1>7. CASE Interrupt
    BY <1>7 DEF Interrupt, TypeOK, ControlTypes
  <1>8. CASE Finally
    BY <1>8 DEF Finally
  <1>9. CASE Judge \/ Compare \/ Verify \/ Close
    BY <1>9 DEF Judge, Compare, Verify, Close
  <1> QED
    BY <1>1, <1>2, <1>3, <1>4, <1>5, <1>6, <1>7, <1>8, <1>9 DEF Controller

(* The client is never left behind without notice. *)
THEOREM ClientReaped == Spec => []LeftReaped
  <1>1. TypeOK /\ ClientInv /\ [Next]_vars => ClientInv'
    BY ClientEnvironment, ClientController DEF Next
  <1>2. ClientInv => LeftReaped
    BY DEF ClientInv
  <1> QED
    BY <1>1, <1>2, ClientInit, LaunchTypes, PTL DEF Spec
-----------------------------------------------------------------------------
(* The unit. *)

Inactive == unit \in {"absent", "queued", "gone"} /\ live = 0

(* The last check passed, and only a later start can have undone it.       *)
Checked == verified /\ (Inactive \/ late)

UnitInv ==
  /\ unit \in {"absent", "queued", "gone"} => live = 0
  /\ client = "none" => unit = "absent"
  /\ pc \in {"read", "reread", "seal"} => Checked
  /\ pc \in {"reap", "reap_wait", "reap_again", "reaped"} /\ ~unit_error => Checked
  /\ pc \in Left /\ ~unit_error /\ (interrupted => ending = "interrupted")
       => Checked \/ client = "none"

LEMMA UnitInit == Init => UnitInv
  <1>1. Init => unit = "absent" /\ live = 0 /\ pc = "spawn"
    BY DEF Init
  <1> QED
    BY <1>1 DEF UnitInv, Left

(* What the environment does to the unit keeps Checked.                    *)
LEMMA EnvironmentChecked ==
  ASSUME UnitInv, Environment \/ UNCHANGED vars
  PROVE  /\ unit' \in {"absent", "queued", "gone"} => live' = 0
         /\ Checked => Checked'
         /\ client = "none" => client' = "none" /\ unit' = "absent"
         /\ client' = "none" => client = "none"
  <1> USE DEF UnitInv, Checked, Inactive, unitVars
  <1>1. CASE ClientAsks \/ ClientEnds \/ RuntimeLimit \/ UnitSpeaks \/ UnitCloses
             \/ UnitWrites \/ UNCHANGED vars
    BY <1>1 DEF ClientAsks, ClientEnds, RuntimeLimit, UnitSpeaks, UnitCloses,
       UnitWrites, vars
  <1>2. CASE UnitStarts
    BY <1>2 DEF UnitStarts
  <1>3. CASE UnitForksOrExits
    <2>1. unit \notin {"absent", "queued", "gone"} /\ unit' \in {unit, "stopping"}
      BY <1>3 DEF UnitForksOrExits
    <2>2. UNCHANGED <<client, verified, late>>
      BY <1>3 DEF UnitForksOrExits
    <2> QED
      BY <2>1, <2>2
  <1>4. CASE UnitStops
    BY <1>4 DEF UnitStops
  <1> QED
    BY <1>1, <1>2, <1>3, <1>4 DEF Environment

LEMMA UnitEnvironment ==
  ASSUME UnitInv, Environment \/ UNCHANGED vars
  PROVE  UnitInv'
  <1>1. UNCHANGED <<pc, ending, unit_error, interrupted>>
    BY DEF Environment, ClientAsks, ClientEnds, UnitStarts, RuntimeLimit,
       UnitForksOrExits, UnitStops, UnitSpeaks, UnitCloses, UnitWrites, vars,
       controlVars
  <1> QED
    BY <1>1, EnvironmentChecked DEF UnitInv

LEMMA UnitController ==
  ASSUME TypeOK, ClientInv, UnitInv, Controller \/ LoopFails \/ Interrupt
  PROVE  UnitInv'
  <1>1. CASE StopUnit
    <2>1. /\ unit \in {"absent", "queued", "gone"}
               => UNCHANGED <<live, unit>>
          /\ unit \notin {"absent", "queued", "gone"}
               => unit' \notin {"absent", "queued", "gone"}
      BY <1>1 DEF StopUnit
    <2>2. pc' = "show" /\ UNCHANGED client
      BY <1>1 DEF StopUnit
    <2> QED
      BY <2>1, <2>2 DEF UnitInv, Left
  <1>2. CASE ShowUnit
    <2>1. UNCHANGED <<unit, live, late, client>>
      BY <1>2 DEF ShowUnit, unitVars
    <2>2. \/ /\ unit \in {"absent", "queued", "gone"} /\ verified'
             /\ pc' \in {"read", "reap"}
          \/ pc' = "stop"
          \/ pc' = "reap" /\ unit_error'
      BY <1>2 DEF ShowUnit, Quiescent, Terminate
    <2> QED
      BY <2>1, <2>2 DEF UnitInv, Left, Checked, Inactive
  <1>3. CASE ~StopUnit /\ ~ShowUnit
    <2>1. UNCHANGED <<unit, live, late, verified>>
      BY <1>3 DEF Controller, Spawn, Serve, Deadline, Wait, ReadFirst, ReadAgain,
         Seal, Reap, ReapWait, ReapAgain, Reaped, Finally, Judge, Compare, Verify,
         Close, LoopFails, Interrupt, unitVars, worldVars
    <2>2. client' = "none" => client = "none"
      BY <1>3 DEF Controller, Spawn, Serve, Deadline, Wait, ReadFirst, ReadAgain,
         Seal, Reap, ReapWait, ReapAgain, Reaped, Finally, Judge, Compare, Verify,
         Close, LoopFails, Interrupt, worldVars
    <2> USE DEF UnitInv, ClientInv, Terminate, Left, worldVars
    <2>3. CASE Spawn \/ Serve \/ Deadline \/ LoopFails \/ Wait
      BY <2>1, <2>2, <2>3 DEF Spawn, Serve, Deadline, LoopFails, Wait, Checked,
         Inactive
    <2>4. CASE ReadFirst \/ ReadAgain
      BY <2>1, <2>2, <2>4 DEF ReadFirst, ReadAgain, Checked, Inactive
    <2>5. CASE Seal
      <3>1. /\ pc = "seal" /\ pc' \in {"judge", "stop"}
            /\ UNCHANGED client
        BY <2>5 DEF Seal
      <3> QED
        BY <2>1, <3>1 DEF Checked, Inactive
    <2>6. CASE Reap \/ ReapWait \/ ReapAgain
      <3>1. /\ pc \in {"reap", "reap_wait", "reap_again"}
            /\ pc' \in {"reap_wait", "reap_again", "reaped"}
            /\ ~unit_error' => ~unit_error
        BY <2>6 DEF Reap, ReapWait, ReapAgain
      <3> QED
        BY <2>1, <2>2, <3>1 DEF Checked, Inactive
    <2>7. CASE Reaped
      <3>1. pc = "reaped" /\ UNCHANGED client
        BY <2>7 DEF Reaped
      <3>2. pc' = "stop" \/ (pc' \in Left /\ UNCHANGED unit_error)
        BY <2>7 DEF Reaped
      <3> QED
        BY <2>1, <3>1, <3>2 DEF Checked, Inactive
    <2>8. CASE Interrupt
      <3>1. /\ ~interrupted /\ interrupted' /\ UNCHANGED <<ending, client>>
            /\ pc' \in {"finally", "close"}
        BY <2>8 DEF Interrupt
      <3>2. ending' # "interrupted"
        BY <3>1
      <3> QED
        BY <2>1, <3>1, <3>2
    <2>9. CASE Finally
      <3>1. pc = "finally" /\ UNCHANGED interrupted /\ client' \in {client, "reaped"}
        BY <2>9 DEF Finally
      <3>2. pc' = "stop" \/ (pc' = "close" /\ UNCHANGED ending)
        BY <2>9 DEF Finally
      <3> QED
        BY <2>1, <3>1, <3>2 DEF InBody
    <2>10. CASE Judge \/ Compare \/ Verify \/ Close
      <3>1. /\ pc \in Left /\ pc' \in Left
            /\ UNCHANGED <<ending, unit_error, interrupted, client>>
        BY <2>10 DEF Judge, Compare, Verify, Close
      <3> QED
        BY <2>1, <3>1 DEF Checked, Inactive
    <2> QED
      BY <1>3, <2>3, <2>4, <2>5, <2>6, <2>7, <2>8, <2>9, <2>10 DEF Controller
  <1> QED
    BY <1>1, <1>2, <1>3

LEMMA UnitStep ==
  TypeOK /\ ClientInv /\ UnitInv /\ [Next]_vars => ClientInv' /\ UnitInv'
  BY ClientEnvironment, ClientController, UnitEnvironment, UnitController DEF Next

(* A unit process that outlives an orderly end was started too late to be  *)
(* seen.                                                                   *)
THEOREM OutlivesOnlyLate == Spec => []OnlyLateUnitsOutlive
  <1>1. UnitInv => OnlyLateUnitsOutlive
    BY DEF UnitInv, OnlyLateUnitsOutlive, Checked, Inactive, Left
  <1> QED
    BY <1>1, UnitStep, ClientInit, UnitInit, LaunchTypes, PTL DEF Spec
-----------------------------------------------------------------------------
(* Acceptance. *)

Claimed == got["stdout"] \in Contents      \* a result frame was read

AcceptInv ==
  /\ unit \in {"absent", "queued"} => said["stdout"] = "nothing"
  /\ Claimed => said["stdout"] # "nothing"
  /\ pc \in {"read", "reread", "seal", "judge", "compare", "verify"}
       => (ending = "captured" /\ Claimed => unit = "gone")
  /\ pc \in {"judge", "compare", "verify"} /\ ending = "captured"
       => sealed /\ sink = snapshot
  /\ pc \in {"compare", "verify"} => ending = "captured" /\ Claimed
  /\ pc = "verify" => workspace = snapshot
  /\ verdict = "accepted" => pc \in {"close", "done"}
  /\ AcceptedIsFinal

LEMMA AcceptInit == Init => AcceptInv
  <1> SUFFICES ASSUME Init PROVE AcceptInv
    OBVIOUS
  <1>1. /\ said["stdout"] = "nothing" /\ got["stdout"] = "nothing"
        /\ pc = "spawn" /\ verdict = "none"
    BY DEF Init
  <1>2. ~Claimed
    BY <1>1 DEF Claimed
  <1>3. AcceptedIsFinal
    BY <1>1 DEF AcceptedIsFinal
  <1>4. pc \notin {"read", "reread", "seal", "judge", "compare", "verify"}
    BY <1>1
  <1> QED
    BY <1>1, <1>2, <1>3, <1>4 DEF AcceptInv

(* Once the unit is gone nothing writes, and a unit that wrote was started. *)
LEMMA AcceptEnvironment ==
  ASSUME TypeOK, UnitInv, AcceptInv, Environment \/ UNCHANGED vars
  PROVE  AcceptInv'
  <1>1. UNCHANGED <<pc, ending, got, snapshot, verdict, sealed>>
    BY DEF Environment, ClientAsks, ClientEnds, UnitStarts, RuntimeLimit,
       UnitForksOrExits, UnitStops, UnitSpeaks, UnitCloses, UnitWrites, vars,
       controlVars
  <1>2. unit = "gone" => UNCHANGED <<unit, live, workspace>>
    <2> SUFFICES ASSUME unit = "gone" PROVE UNCHANGED <<unit, live, workspace>>
      OBVIOUS
    <2>1. live = 0
      BY DEF UnitInv
    <2>2. ~(UnitForksOrExits \/ UnitSpeaks \/ UnitCloses \/ UnitWrites)
      BY <2>1 DEF UnitForksOrExits, UnitSpeaks, UnitCloses, UnitWrites
    <2>3. ~(ClientAsks \/ UnitStarts \/ RuntimeLimit \/ UnitStops)
      BY DEF ClientAsks, UnitStarts, RuntimeLimit, UnitStops
    <2>4. ClientEnds \/ UNCHANGED vars
      BY <2>2, <2>3 DEF Environment
    <2> QED
      BY <2>4 DEF ClientEnds, vars, unitVars, dataVars
  <1>3. sealed => UNCHANGED sink
    BY DEF Environment, ClientAsks, ClientEnds, UnitStarts, RuntimeLimit,
       UnitForksOrExits, UnitStops, UnitSpeaks, UnitCloses, UnitWrites, vars,
       dataVars
  <1>4. /\ unit' \in {"absent", "queued"} => said'["stdout"] = "nothing"
        /\ said["stdout"] # "nothing" => said'["stdout"] # "nothing"
    <2>1. CASE UnitSpeaks
      <3>1. unit \notin {"absent", "queued"} /\ UNCHANGED unit
        BY <2>1 DEF UnitSpeaks, UnitInv, unitVars
      <3>2. PICK s \in held, word \in Contents \cup {"flood"} :
              said' = [said EXCEPT ![s] = word]
        BY <2>1 DEF UnitSpeaks
      <3>3. said \in [Streams -> Words] /\ word # "nothing"
        BY <3>2 DEF TypeOK, EnvironmentTypes
      <3> QED
        BY <3>1, <3>2, <3>3
    <2>2. CASE ~UnitSpeaks
      <3>1. UNCHANGED said
        BY <2>2 DEF Environment, ClientAsks, ClientEnds, UnitStarts, RuntimeLimit,
           UnitForksOrExits, UnitStops, UnitCloses, UnitWrites, vars, dataVars
      <3>2. unit' \in {"absent", "queued"} => unit \in {"absent", "queued"}
        BY <2>2 DEF Environment, ClientAsks, ClientEnds, UnitStarts, RuntimeLimit,
           UnitForksOrExits, UnitStops, UnitCloses, UnitWrites, vars, unitVars
      <3> QED
        BY <3>1, <3>2 DEF AcceptInv
    <2> QED
      BY <2>1, <2>2
  <1> QED
    BY <1>1, <1>2, <1>3, <1>4 DEF AcceptInv, AcceptedIsFinal, Claimed, UnitInv

LEMMA AcceptController ==
  ASSUME TypeOK, ClientInv, UnitInv, AcceptInv,
         Controller \/ LoopFails \/ Interrupt
  PROVE  AcceptInv'
  <1>1. UNCHANGED <<said, workspace, sink>>
    BY DEF Controller, Spawn, Serve, Deadline, Wait, StopUnit, ShowUnit,
       ReadFirst, ReadAgain, Seal, Reap, ReapWait, ReapAgain, Reaped, Finally,
       Judge, Compare, Verify, Close, LoopFails, Interrupt, worldVars, dataVars
  <1>2. ~StopUnit => UNCHANGED <<unit, live>>
    BY DEF Controller, Spawn, Serve, Deadline, Wait, ShowUnit,
       ReadFirst, ReadAgain, Seal, Reap, ReapWait, ReapAgain, Reaped, Finally,
       Judge, Compare, Verify, Close, LoopFails, Interrupt, worldVars, unitVars
  <1>3. ~Serve => UNCHANGED got
    BY DEF Controller, Spawn, Deadline, Wait, StopUnit, ShowUnit,
       ReadFirst, ReadAgain, Seal, Reap, ReapWait, ReapAgain, Reaped, Finally,
       Judge, Compare, Verify, Close, LoopFails, Interrupt
  <1>4. ~Seal => UNCHANGED sealed
    BY DEF Controller, Spawn, Serve, Deadline, Wait, StopUnit, ShowUnit,
       ReadFirst, ReadAgain, Reap, ReapWait, ReapAgain, Reaped, Finally,
       Judge, Compare, Verify, Close, LoopFails, Interrupt, worldVars
  <1>5. CASE Serve
    <2>1. \/ UNCHANGED got
          \/ \E s \in open : got' = [got EXCEPT ![s] = said[s]] /\ said[s] # got[s]
          \/ \E s \in open : got' = [got EXCEPT ![s] = "flood"]
      BY <1>5 DEF Serve
    <2>2. Claimed' => Claimed \/ got'["stdout"] = said["stdout"]
      BY <2>1 DEF Claimed, TypeOK, ControlTypes
    <2>3. Claimed' => said'["stdout"] # "nothing"
      BY <2>2, <1>1 DEF AcceptInv, Claimed
    <2>4. pc' \in {"serve", "wait", "stop"} /\ UNCHANGED verdict /\ pc = "serve"
      BY <1>5 DEF Serve, Terminate
    <2> QED
      BY <1>1, <1>2, <1>5, <2>3, <2>4 DEF AcceptInv, AcceptedIsFinal, Serve, StopUnit
  <1>6. CASE StopUnit
    <2>1. /\ pc = "stop" /\ pc' = "show" /\ UNCHANGED verdict
          /\ unit' \in {"absent", "queued"} => unit \in {"absent", "queued"}
      BY <1>6 DEF StopUnit
    <2> QED
      BY <1>1, <1>3, <1>6, <2>1 DEF AcceptInv, AcceptedIsFinal, Claimed, Serve, StopUnit
  <1>7. CASE ShowUnit
    <2>1. pc = "show" /\ UNCHANGED <<unit, got, verdict>>
      BY <1>7 DEF ShowUnit, unitVars
    <2>2. \/ pc' = "read" /\ unit \in {"absent", "queued", "gone"}
          \/ pc' \in {"stop", "reap"}
      BY <1>7 DEF ShowUnit, Quiescent, Terminate
    <2> QED
      BY <1>1, <2>1, <2>2 DEF AcceptInv, AcceptedIsFinal, Claimed
  <1>8. CASE Seal
    <2>1. pc = "seal" /\ UNCHANGED <<unit, got, verdict, snapshot>>
      BY <1>8 DEF Seal, unitVars
    <2>2. \/ pc' = "judge" /\ sealed' /\ sink = snapshot /\ UNCHANGED ending
          \/ pc' = "stop"
      BY <1>8 DEF Seal, Terminate
    <2>3. verdict' # "accepted" /\ AcceptedIsFinal'
      BY <2>1 DEF AcceptInv, AcceptedIsFinal
    <2> QED
      BY <1>1, <2>1, <2>2, <2>3 DEF AcceptInv, Claimed
  <1>9. CASE Reaped
    <2>1. /\ pc = "reaped" /\ pc' \in {"stop", "judge", "close"}
          /\ pc' = "judge" => ending' # "captured"
          /\ verdict' \in {verdict, "refused"}
      BY <1>9 DEF Reaped, Terminate, ClientInv
    <2>2. verdict' # "accepted" /\ AcceptedIsFinal'
      BY <2>1 DEF AcceptInv, AcceptedIsFinal
    <2>3. UNCHANGED <<unit, got>>
      BY <1>9 DEF Reaped, worldVars, unitVars
    <2> QED
      BY <1>1, <2>1, <2>2, <2>3 DEF AcceptInv, Claimed
  <1>10. CASE Judge \/ Compare \/ Verify \/ Close
    <2>1. /\ UNCHANGED <<unit, live, got, sealed, snapshot, ending>>
          /\ pc \in Left
      BY <1>10 DEF Judge, Compare, Verify, Close, worldVars, unitVars, Left
    <2>2. CASE pc' = "compare"
      <3>1. pc = "judge" /\ ending = "captured" /\ Claimed /\ UNCHANGED verdict
        BY <1>10, <2>2 DEF Judge, Compare, Verify, Close, Claimed
      <3> QED
        BY <1>1, <2>1, <2>2, <3>1 DEF AcceptInv, AcceptedIsFinal, Claimed
    <2>3. CASE pc' = "verify"
      <3>1. pc = "compare" /\ workspace = snapshot /\ UNCHANGED verdict
        BY <1>10, <2>3 DEF Judge, Compare, Verify, Close
      <3> QED
        BY <1>1, <2>1, <2>3, <3>1 DEF AcceptInv, AcceptedIsFinal, Claimed
    <2>4. CASE pc' \notin {"compare", "verify"}
      <3>1. pc' \in {"close", "done"}
        BY <1>10, <2>4 DEF Judge, Compare, Verify, Close
      <3>2. verdict' = "accepted" => \/ verdict = "accepted"
                                     \/ pc = "verify" /\ workspace = Expected
        BY <1>10 DEF Judge, Compare, Verify, Close
      <3>3. verdict' = "accepted" => AcceptedIsFinal'
        <4>1. CASE verdict = "accepted"
          BY <1>1, <2>1, <4>1 DEF AcceptInv, AcceptedIsFinal
        <4>2. CASE pc = "verify" /\ workspace = Expected
          <5>1. /\ unit = "gone" /\ workspace = snapshot
                /\ sealed /\ sink = snapshot
            BY <4>2 DEF AcceptInv
          <5>2. live = 0
            BY <5>1 DEF UnitInv
          <5>3. live' = 0
            BY <5>2, <2>1
          <5> QED
            BY <1>1, <2>1, <4>2, <5>1, <5>3 DEF AcceptedIsFinal
        <4> QED
          BY <3>2, <4>1, <4>2
      <3>4. AcceptedIsFinal'
        BY <3>3 DEF AcceptedIsFinal
      <3> QED
        BY <1>1, <2>1, <3>1, <3>4 DEF AcceptInv, Claimed
    <2> QED
      BY <2>2, <2>3, <2>4
  <1>11. CASE \/ Spawn \/ Deadline \/ LoopFails \/ Wait \/ ReadFirst \/ ReadAgain
              \/ Reap \/ ReapWait \/ ReapAgain \/ Finally \/ Interrupt
    <2>1. UNCHANGED <<unit, live, got, sealed>> /\ verdict' \in {verdict, "refused"}
      BY <1>11 DEF Spawn, Deadline, LoopFails, Wait, ReadFirst, ReadAgain, Reap,
         ReapWait, ReapAgain, Finally, Interrupt, unitVars, worldVars
    <2>2. \/ pc' \notin {"read", "reread", "seal", "judge", "compare", "verify"}
          \/ /\ pc \in {"read", "reread"} /\ pc' \in {"reread", "seal"}
             /\ UNCHANGED ending
          \/ pc' = "judge" /\ ending' # "captured"
      BY <1>11 DEF Spawn, Deadline, LoopFails, Wait, ReadFirst, ReadAgain, Reap,
         ReapWait, ReapAgain, Finally, Interrupt, Terminate
    <2>3. pc \notin {"close", "done"}
      BY <1>11 DEF Spawn, Deadline, LoopFails, Wait, ReadFirst, ReadAgain, Reap,
         ReapWait, ReapAgain, Finally, Interrupt
    <2>4. verdict' # "accepted" /\ AcceptedIsFinal'
      BY <2>1, <2>3 DEF AcceptInv, AcceptedIsFinal
    <2> QED
      BY <1>1, <2>1, <2>2, <2>4 DEF AcceptInv, Claimed
  <1> QED
    BY <1>5, <1>6, <1>7, <1>8, <1>9, <1>10, <1>11 DEF Controller

(* What is accepted is final, whatever the client and the unit did.        *)
THEOREM AcceptanceFinal == Spec => []AcceptedIsFinal
  <1>1. TypeOK /\ UnitInv /\ ClientInv /\ AcceptInv /\ [Next]_vars => AcceptInv'
    BY AcceptEnvironment, AcceptController DEF Next
  <1>2. AcceptInv => AcceptedIsFinal
    BY DEF AcceptInv
  <1> QED
    BY <1>1, <1>2, UnitStep, ClientInit, UnitInit, AcceptInit, LaunchTypes, PTL
       DEF Spec
=============================================================================
