----------------------- MODULE DirectoryPublicationProofs -----------------------
(***************************************************************************)
(* The publication of directories for any set of publishers, strangers and  *)
(* model files and any number of faults, interrupts, crashes and writes: a  *)
(* published directory is whole, nothing published is taken back, a failed  *)
(* call has left nothing unaccounted for, and a destination is a register   *)
(* that is written once.                                                   *)
(*                                                                         *)
(* The tensor hash is right although nothing stops the files from changing: *)
(* versions only grow, so a version that is declared before the hash and    *)
(* found again after it was there during the hash.                         *)
(***************************************************************************)
EXTENDS DirectoryPublication, TLAPS

(* Declared versions are past ones; those hashed lie between them and now; *)
(* once read again after the hash they are equal.                          *)
Settled(p) ==
  /\ pass[p] # 0
  /\ pass[p] = 1 =>
       \A f \in Files \ unread[p] : declared[p][f] <= model[p][f]
  /\ pass[p] \in {2, 3, 4} => \A f \in Files : declared[p][f] <= model[p][f]
  /\ pass[p] = 3 =>
       \A f \in Files \ unread[p] : /\ declared[p][f] <= hashed[p][f]
                                    /\ hashed[p][f] <= model[p][f]
  /\ pass[p] = 4 =>
       /\ \A f \in Files : /\ declared[p][f] <= hashed[p][f]
                           /\ hashed[p][f] <= model[p][f]
       /\ \A f \in Files \ unread[p] : hashed[p][f] = declared[p][f]

Reads == \A p \in Publishers : pc[p] = "inventory" => Settled(p)

Whole(p) ==
  /\ records[p] = "safe"
  /\ p \in Checkpoints => hashed[p] = declared[p]

(* What is renamed was whole, and its call does not write to it any more.  *)
Placed ==
  \A p \in Publishers :
    /\ pc[p] \in {"export", "inventory"} => records[p] = "safe"
    /\ pc[p] \in {"publish", "sync", "returned"} => Whole(p)
    /\ p \in {destination, durable} => renamed[p] /\ Whole(p)
    /\ renamed[p] => pc[p] \in {"sync", "returned", "cleanup", "failed", "crashed"}

(* A staging directory exists between its creation and its removal.        *)
Staged ==
  \A p \in Publishers :
    /\ pc[p] \in {"start", "stage"} => p \notin staged
    /\ renamed[p] => p \notin staged
    /\ pc[p] = "failed" /\ p \in staged => left[p]

Undone == \A p \in Publishers : renamed[p] /\ crashes = 0 => destination = p

(* The type invariant in two halves: provers treat Booleans apart.         *)
Data ==
  /\ destination \in Directories \cup {NoDirectory}
  /\ durable \in Directories \cup {NoDirectory}
  /\ staged \in SUBSET Publishers
  /\ pc \in [Publishers -> Labels]
  /\ records \in [Publishers -> {"none", "cached", "safe", "torn"}]
  /\ model \in [Publishers -> [Files -> Versions]]
  /\ declared \in [Publishers -> [Files -> Versions]]
  /\ hashed \in [Publishers -> [Files -> Versions]]
  /\ pass \in [Publishers -> 0 .. 4]
  /\ unread \in [Publishers -> SUBSET Files]

Flags == renamed \in [Publishers -> BOOLEAN] /\ left \in [Publishers -> BOOLEAN]

Counts ==
  /\ faults \in 0 .. MaxFaults /\ interrupts \in 0 .. MaxInterrupts
  /\ crashes \in 0 .. MaxCrashes

------------------------------------------------------------------------------
(* The halves of the type invariant, step by step.                         *)
LEMMA DataStep ==
  ASSUME Data, [Next]_vars
  PROVE  Data'
<1> USE DirectoryAssumption
<1>1. ASSUME NEW p \in Publishers, CheckFree(p) PROVE Data'
  BY <1>1 DEF CheckFree, Goes, Fails, BeginPass, Written, Active, Over, diskVars,
       readVars, callVars, boundVars,
       Data, Labels, Directories, Versions
<1>2. ASSUME NEW p \in Publishers, Stage(p) PROVE Data'
  BY <1>2 DEF Stage, Goes, Fails, BeginPass, Written, Active, Over, diskVars,
       readVars, callVars, boundVars,
       Data, Labels, Directories, Versions
<1>3. ASSUME NEW p \in Publishers, Record(p) PROVE Data'
  BY <1>3 DEF Record, Goes, Fails, BeginPass, Written, Active, Over, diskVars,
       readVars, callVars, boundVars,
       Data, Labels, Directories, Versions
<1>4. ASSUME NEW p \in Publishers, Export(p) PROVE Data'
  <2>1. PICK label \in {"inventory", "cleanup"} : pc' = [pc EXCEPT ![p] = label]
    BY <1>4 DEF Export, Goes, Fails
  <2>2. pc' \in [Publishers -> Labels]
    BY <2>1 DEF Data, Labels
  <2>3. /\ model' \in [Publishers -> [Files -> Versions]]
        /\ declared' \in [Publishers -> [Files -> Versions]]
        /\ hashed' \in [Publishers -> [Files -> Versions]]
    <3>1. 1 \in Versions
      BY DEF Versions
    <3>2. [f \in Files |-> 1] \in [Files -> Versions]
      BY <3>1
    <3>3. model' \in [Publishers -> [Files -> Versions]]
      BY <1>4, <3>2 DEF Export, Data
    <3>4. QED
      BY <1>4, <3>3 DEF Export, Data
  <2>4. pass' \in [Publishers -> 0 .. 4] /\ unread' \in [Publishers -> SUBSET Files]
    <3>1. CASE BeginPass(p, 1)
      <4>1. pass' = [pass EXCEPT ![p] = 1] /\ unread' = [unread EXCEPT ![p] = Files]
        BY <3>1 DEF BeginPass
      <4>2. pass \in [Publishers -> 0 .. 4] /\ unread \in [Publishers -> SUBSET Files]
        BY DEF Data
      <4>3. 1 \in 0 .. 4 /\ Files \in SUBSET Files
        OBVIOUS
      <4>4. pass' \in [Publishers -> 0 .. 4]
        BY <4>1, <4>2, <4>3
      <4>5. unread' \in [Publishers -> SUBSET Files]
        BY <4>1, <4>2, <4>3
      <4>6. QED
        BY <4>4, <4>5
    <3>2. CASE UNCHANGED <<pass, unread>>
      BY <3>2 DEF Data
    <3>3. QED
      BY <1>4, <3>1, <3>2 DEF Export
  <2>5. /\ destination' \in Directories \cup {NoDirectory}
        /\ durable' \in Directories \cup {NoDirectory}
        /\ staged' \in SUBSET Publishers
        /\ records' \in [Publishers -> {"none", "cached", "safe", "torn"}]
    BY <1>4 DEF Export, Written, Data, diskVars
  <2>6. QED
    BY <2>2, <2>3, <2>4, <2>5 DEF Data
<1>5. ASSUME NEW p \in Publishers, ReadFile(p) PROVE Data'
  <2>1. PICK label \in {"inventory", "cleanup"} : pc' = [pc EXCEPT ![p] = label]
    BY <1>5 DEF ReadFile, Goes, Fails
  <2>2. pc' \in [Publishers -> Labels]
    BY <2>1 DEF Data, Labels
  <2>3. /\ model' \in [Publishers -> [Files -> Versions]]
        /\ declared' \in [Publishers -> [Files -> Versions]]
        /\ hashed' \in [Publishers -> [Files -> Versions]]
    <3>1. PICK f \in unread[p] :
            \/ declared' = [declared EXCEPT ![p][f] = model[p][f]]
            \/ UNCHANGED declared
      BY <1>5 DEF ReadFile
    <3>2. f \in Files
      BY DEF Data
    <3>3. declared[p] \in [Files -> Versions] /\ model[p][f] \in Versions
      BY <3>2 DEF Data
    <3>4. [declared[p] EXCEPT ![f] = model[p][f]] \in [Files -> Versions]
      BY <3>3
    <3>5. declared' \in [Publishers -> [Files -> Versions]]
      BY <3>1, <3>4 DEF Data
    <3>6. QED
      BY <1>5, <3>5 DEF ReadFile, Data, diskVars
  <2>4. pass' \in [Publishers -> 0 .. 4] /\ unread' \in [Publishers -> SUBSET Files]
    BY <1>5 DEF ReadFile, BeginPass, Data
  <2>5. /\ destination' \in Directories \cup {NoDirectory}
        /\ durable' \in Directories \cup {NoDirectory}
        /\ staged' \in SUBSET Publishers
        /\ records' \in [Publishers -> {"none", "cached", "safe", "torn"}]
    BY <1>5 DEF ReadFile, Written, Data, diskVars
  <2>6. QED
    BY <2>2, <2>3, <2>4, <2>5 DEF Data
<1>6. ASSUME NEW p \in Publishers, Complete(p) PROVE Data'
  <2>1. PICK label \in {"inventory", "cleanup"} : pc' = [pc EXCEPT ![p] = label]
    BY <1>6 DEF Complete, Goes, Fails
  <2>2. pc' \in [Publishers -> Labels]
    BY <2>1 DEF Data, Labels
  <2>3. /\ model' \in [Publishers -> [Files -> Versions]]
        /\ declared' \in [Publishers -> [Files -> Versions]]
        /\ hashed' \in [Publishers -> [Files -> Versions]]
    BY <1>6 DEF Complete, Data, Versions, diskVars
  <2>4. pass' \in [Publishers -> 0 .. 4] /\ unread' \in [Publishers -> SUBSET Files]
    <3>1. CASE BeginPass(p, 2)
      <4>1. pass' = [pass EXCEPT ![p] = 2] /\ unread' = [unread EXCEPT ![p] = Files]
        BY <3>1 DEF BeginPass
      <4>2. pass \in [Publishers -> 0 .. 4] /\ unread \in [Publishers -> SUBSET Files]
        BY DEF Data
      <4>3. 2 \in 0 .. 4 /\ Files \in SUBSET Files
        OBVIOUS
      <4>4. pass' \in [Publishers -> 0 .. 4]
        BY <4>1, <4>2, <4>3
      <4>5. unread' \in [Publishers -> SUBSET Files]
        BY <4>1, <4>2, <4>3
      <4>6. QED
        BY <4>4, <4>5
    <3>2. CASE UNCHANGED <<pass, unread>>
      BY <3>2 DEF Data
    <3>3. QED
      BY <1>6, <3>1, <3>2 DEF Complete
  <2>5. /\ destination' \in Directories \cup {NoDirectory}
        /\ durable' \in Directories \cup {NoDirectory}
        /\ staged' \in SUBSET Publishers
        /\ records' \in [Publishers -> {"none", "cached", "safe", "torn"}]
    BY <1>6 DEF Complete, Written, Data, diskVars
  <2>6. QED
    BY <2>2, <2>3, <2>4, <2>5 DEF Data
<1>7. ASSUME NEW p \in Publishers, HashTensors(p) PROVE Data'
  <2>1. PICK label \in {"inventory", "cleanup"} : pc' = [pc EXCEPT ![p] = label]
    BY <1>7 DEF HashTensors, Goes, Fails
  <2>2. pc' \in [Publishers -> Labels]
    BY <2>1 DEF Data, Labels
  <2>3. /\ model' \in [Publishers -> [Files -> Versions]]
        /\ declared' \in [Publishers -> [Files -> Versions]]
        /\ hashed' \in [Publishers -> [Files -> Versions]]
    BY <1>7 DEF HashTensors, Data, Versions, diskVars
  <2>4. pass' \in [Publishers -> 0 .. 4] /\ unread' \in [Publishers -> SUBSET Files]
    <3>1. CASE BeginPass(p, 4)
      <4>1. pass' = [pass EXCEPT ![p] = 4] /\ unread' = [unread EXCEPT ![p] = Files]
        BY <3>1 DEF BeginPass
      <4>2. pass \in [Publishers -> 0 .. 4] /\ unread \in [Publishers -> SUBSET Files]
        BY DEF Data
      <4>3. 4 \in 0 .. 4 /\ Files \in SUBSET Files
        OBVIOUS
      <4>4. pass' \in [Publishers -> 0 .. 4]
        BY <4>1, <4>2, <4>3
      <4>5. unread' \in [Publishers -> SUBSET Files]
        BY <4>1, <4>2, <4>3
      <4>6. QED
        BY <4>4, <4>5
    <3>2. CASE UNCHANGED <<pass, unread>>
      BY <3>2 DEF Data
    <3>3. QED
      BY <1>7, <3>1, <3>2 DEF HashTensors
  <2>5. /\ destination' \in Directories \cup {NoDirectory}
        /\ durable' \in Directories \cup {NoDirectory}
        /\ staged' \in SUBSET Publishers
        /\ records' \in [Publishers -> {"none", "cached", "safe", "torn"}]
    BY <1>7 DEF HashTensors, Written, Data, diskVars
  <2>6. QED
    BY <2>2, <2>3, <2>4, <2>5 DEF Data
<1>8. ASSUME NEW p \in Publishers, Validated(p) PROVE Data'
  BY <1>8 DEF Validated, Goes, Fails, BeginPass, Written, Active, Over, diskVars,
       readVars, callVars, boundVars,
       Data, Labels, Directories, Versions
<1>9. ASSUME NEW p \in Publishers, Publish(p) PROVE Data'
  BY <1>9 DEF Publish, Goes, Fails, BeginPass, Written, Active, Over, diskVars,
       readVars, callVars, boundVars,
       Data, Labels, Directories, Versions
<1>10. ASSUME NEW p \in Publishers, Sync(p) PROVE Data'
  BY <1>10 DEF Sync, Goes, Fails, BeginPass, Written, Active, Over, diskVars,
       readVars, callVars, boundVars,
       Data, Labels, Directories, Versions
<1>11. ASSUME NEW p \in Publishers, Cleanup(p) PROVE Data'
  BY <1>11 DEF Cleanup, Goes, Fails, BeginPass, Written, Active, Over, diskVars,
       readVars, callVars, boundVars,
       Data, Labels, Directories, Versions
<1>12. ASSUME NEW p \in Publishers, Interrupt(p) PROVE Data'
  BY <1>12 DEF Interrupt, Goes, Fails, BeginPass, Written, Active, Over, diskVars,
       readVars, callVars, boundVars,
       Data, Labels, Directories, Versions
<1>13. ASSUME NEW p \in Publishers, Kill(p) PROVE Data'
  BY <1>13 DEF Kill, Goes, Fails, BeginPass, Written, Active, Over, diskVars,
       readVars, callVars, boundVars,
       Data, Labels, Directories, Versions
<1>14. ASSUME NEW p \in Publishers, WriteAgain(p) PROVE Data'
  BY <1>14 DEF WriteAgain, Goes, Fails, BeginPass, Written, Active, Over, diskVars,
       readVars, callVars, boundVars,
       Data, Labels, Directories, Versions
<1>15. ASSUME NEW s \in Strangers, Take(s) PROVE Data'
  BY <1>15 DEF Take, Goes, Fails, BeginPass, Written, Active, Over, diskVars,
       readVars, callVars, boundVars,
       Data, Labels, Directories, Versions
<1>16. ASSUME PowerFailure PROVE Data'
  BY <1>16 DEF PowerFailure, Goes, Fails, BeginPass, Written, Active, Over, diskVars,
       readVars, callVars, boundVars,
       Data, Labels, Directories, Versions
<1>17. ASSUME UNCHANGED vars PROVE Data'
  BY <1>17 DEF vars, Goes, Fails, BeginPass, Written, Active, Over, diskVars,
       readVars, callVars, boundVars,
       Data, Labels, Directories, Versions
<1>18. ASSUME NEW p \in Publishers, CheckLedger(p) PROVE Data'
  BY <1>18 DEF CheckLedger, Goes, Fails, BeginPass, Written, Active, Over, diskVars,
       readVars, callVars, boundVars,
       Data, Labels, Directories, Versions
<1>19. QED
  BY <1>1, <1>2, <1>3, <1>4, <1>5, <1>6, <1>7, <1>8, <1>9, <1>10, <1>11, <1>12, <1>13, <1>14, <1>15, <1>16, <1>17, <1>18 DEF Next, Publication

LEMMA FlagsStep ==
  ASSUME Flags, [Next]_vars
  PROVE  Flags'
<1>1. ASSUME NEW p \in Publishers, CheckFree(p) PROVE Flags'
  BY <1>1 DEF CheckFree, Goes, Fails, BeginPass, Written, Active, Over, diskVars,
       readVars, callVars, boundVars,
       Flags
<1>2. ASSUME NEW p \in Publishers, Stage(p) PROVE Flags'
  BY <1>2 DEF Stage, Goes, Fails, BeginPass, Written, Active, Over, diskVars,
       readVars, callVars, boundVars,
       Flags
<1>3. ASSUME NEW p \in Publishers, Record(p) PROVE Flags'
  BY <1>3 DEF Record, Goes, Fails, BeginPass, Written, Active, Over, diskVars,
       readVars, callVars, boundVars,
       Flags
<1>4. ASSUME NEW p \in Publishers, Export(p) PROVE Flags'
  BY <1>4 DEF Export, Goes, Fails, BeginPass, Written, Active, Over, diskVars,
       readVars, callVars, boundVars,
       Flags
<1>5. ASSUME NEW p \in Publishers, ReadFile(p) PROVE Flags'
  BY <1>5 DEF ReadFile, Goes, Fails, BeginPass, Written, Active, Over, diskVars,
       readVars, callVars, boundVars,
       Flags
<1>6. ASSUME NEW p \in Publishers, Complete(p) PROVE Flags'
  BY <1>6 DEF Complete, Goes, Fails, BeginPass, Written, Active, Over, diskVars,
       readVars, callVars, boundVars,
       Flags
<1>7. ASSUME NEW p \in Publishers, HashTensors(p) PROVE Flags'
  BY <1>7 DEF HashTensors, Goes, Fails, BeginPass, Written, Active, Over, diskVars,
       readVars, callVars, boundVars,
       Flags
<1>8. ASSUME NEW p \in Publishers, Validated(p) PROVE Flags'
  BY <1>8 DEF Validated, Goes, Fails, BeginPass, Written, Active, Over, diskVars,
       readVars, callVars, boundVars,
       Flags
<1>9. ASSUME NEW p \in Publishers, Publish(p) PROVE Flags'
  BY <1>9 DEF Publish, Goes, Fails, BeginPass, Written, Active, Over, diskVars,
       readVars, callVars, boundVars,
       Flags
<1>10. ASSUME NEW p \in Publishers, Sync(p) PROVE Flags'
  BY <1>10 DEF Sync, Goes, Fails, BeginPass, Written, Active, Over, diskVars,
       readVars, callVars, boundVars,
       Flags
<1>11. ASSUME NEW p \in Publishers, Cleanup(p) PROVE Flags'
  BY <1>11 DEF Cleanup, Goes, Fails, BeginPass, Written, Active, Over, diskVars,
       readVars, callVars, boundVars,
       Flags
<1>12. ASSUME NEW p \in Publishers, Interrupt(p) PROVE Flags'
  BY <1>12 DEF Interrupt, Goes, Fails, BeginPass, Written, Active, Over, diskVars,
       readVars, callVars, boundVars,
       Flags
<1>13. ASSUME NEW p \in Publishers, Kill(p) PROVE Flags'
  BY <1>13 DEF Kill, Goes, Fails, BeginPass, Written, Active, Over, diskVars,
       readVars, callVars, boundVars,
       Flags
<1>14. ASSUME NEW p \in Publishers, WriteAgain(p) PROVE Flags'
  BY <1>14 DEF WriteAgain, Goes, Fails, BeginPass, Written, Active, Over, diskVars,
       readVars, callVars, boundVars,
       Flags
<1>15. ASSUME NEW s \in Strangers, Take(s) PROVE Flags'
  BY <1>15 DEF Take, Goes, Fails, BeginPass, Written, Active, Over, diskVars,
       readVars, callVars, boundVars,
       Flags
<1>16. ASSUME PowerFailure PROVE Flags'
  BY <1>16 DEF PowerFailure, Goes, Fails, BeginPass, Written, Active, Over, diskVars,
       readVars, callVars, boundVars,
       Flags
<1>17. ASSUME UNCHANGED vars PROVE Flags'
  BY <1>17 DEF vars, Goes, Fails, BeginPass, Written, Active, Over, diskVars,
       readVars, callVars, boundVars,
       Flags
<1>18. ASSUME NEW p \in Publishers, CheckLedger(p) PROVE Flags'
  BY <1>18 DEF CheckLedger, Goes, Fails, BeginPass, Written, Active, Over, diskVars,
       readVars, callVars, boundVars,
       Flags
<1>19. QED
  BY <1>1, <1>2, <1>3, <1>4, <1>5, <1>6, <1>7, <1>8, <1>9, <1>10, <1>11, <1>12, <1>13, <1>14, <1>15, <1>16, <1>17, <1>18 DEF Next, Publication

LEMMA CountsStep ==
  ASSUME Counts, [Next]_vars
  PROVE  Counts'
<1> USE DirectoryAssumption
<1>1. ASSUME NEW p \in Publishers, CheckFree(p) PROVE Counts'
  BY <1>1 DEF CheckFree, Goes, Fails, BeginPass, Written, Active, Over, diskVars,
       readVars, callVars, boundVars,
       Counts
<1>2. ASSUME NEW p \in Publishers, Stage(p) PROVE Counts'
  BY <1>2 DEF Stage, Goes, Fails, BeginPass, Written, Active, Over, diskVars,
       readVars, callVars, boundVars,
       Counts
<1>3. ASSUME NEW p \in Publishers, Record(p) PROVE Counts'
  BY <1>3 DEF Record, Goes, Fails, BeginPass, Written, Active, Over, diskVars,
       readVars, callVars, boundVars,
       Counts
<1>4. ASSUME NEW p \in Publishers, Export(p) PROVE Counts'
  BY <1>4 DEF Export, Goes, Fails, BeginPass, Written, Active, Over, diskVars,
       readVars, callVars, boundVars,
       Counts
<1>5. ASSUME NEW p \in Publishers, ReadFile(p) PROVE Counts'
  BY <1>5 DEF ReadFile, Goes, Fails, BeginPass, Written, Active, Over, diskVars,
       readVars, callVars, boundVars,
       Counts
<1>6. ASSUME NEW p \in Publishers, Complete(p) PROVE Counts'
  BY <1>6 DEF Complete, Goes, Fails, BeginPass, Written, Active, Over, diskVars,
       readVars, callVars, boundVars,
       Counts
<1>7. ASSUME NEW p \in Publishers, HashTensors(p) PROVE Counts'
  BY <1>7 DEF HashTensors, Goes, Fails, BeginPass, Written, Active, Over, diskVars,
       readVars, callVars, boundVars,
       Counts
<1>8. ASSUME NEW p \in Publishers, Validated(p) PROVE Counts'
  BY <1>8 DEF Validated, Goes, Fails, BeginPass, Written, Active, Over, diskVars,
       readVars, callVars, boundVars,
       Counts
<1>9. ASSUME NEW p \in Publishers, Publish(p) PROVE Counts'
  BY <1>9 DEF Publish, Goes, Fails, BeginPass, Written, Active, Over, diskVars,
       readVars, callVars, boundVars,
       Counts
<1>10. ASSUME NEW p \in Publishers, Sync(p) PROVE Counts'
  BY <1>10 DEF Sync, Goes, Fails, BeginPass, Written, Active, Over, diskVars,
       readVars, callVars, boundVars,
       Counts
<1>11. ASSUME NEW p \in Publishers, Cleanup(p) PROVE Counts'
  BY <1>11 DEF Cleanup, Goes, Fails, BeginPass, Written, Active, Over, diskVars,
       readVars, callVars, boundVars,
       Counts
<1>12. ASSUME NEW p \in Publishers, Interrupt(p) PROVE Counts'
  BY <1>12 DEF Interrupt, Goes, Fails, BeginPass, Written, Active, Over, diskVars,
       readVars, callVars, boundVars,
       Counts
<1>13. ASSUME NEW p \in Publishers, Kill(p) PROVE Counts'
  BY <1>13 DEF Kill, Goes, Fails, BeginPass, Written, Active, Over, diskVars,
       readVars, callVars, boundVars,
       Counts
<1>14. ASSUME NEW p \in Publishers, WriteAgain(p) PROVE Counts'
  BY <1>14 DEF WriteAgain, Goes, Fails, BeginPass, Written, Active, Over, diskVars,
       readVars, callVars, boundVars,
       Counts
<1>15. ASSUME NEW s \in Strangers, Take(s) PROVE Counts'
  BY <1>15 DEF Take, Goes, Fails, BeginPass, Written, Active, Over, diskVars,
       readVars, callVars, boundVars,
       Counts
<1>16. ASSUME PowerFailure PROVE Counts'
  BY <1>16 DEF PowerFailure, Goes, Fails, BeginPass, Written, Active, Over, diskVars,
       readVars, callVars, boundVars,
       Counts
<1>17. ASSUME UNCHANGED vars PROVE Counts'
  BY <1>17 DEF vars, Goes, Fails, BeginPass, Written, Active, Over, diskVars,
       readVars, callVars, boundVars,
       Counts
<1>18. ASSUME NEW p \in Publishers, CheckLedger(p) PROVE Counts'
  BY <1>18 DEF CheckLedger, Goes, Fails, BeginPass, Written, Active, Over, diskVars,
       readVars, callVars, boundVars,
       Counts
<1>19. QED
  BY <1>1, <1>2, <1>3, <1>4, <1>5, <1>6, <1>7, <1>8, <1>9, <1>10, <1>11, <1>12, <1>13, <1>14, <1>15, <1>16, <1>17, <1>18 DEF Next, Publication

(* The order of versions; what the inventories establish.                  *)
LEMMA ReadsStep ==
  ASSUME Data, Reads, [Next]_vars
  PROVE  Reads'
<1> USE DirectoryAssumption
<1>1. ASSUME NEW p \in Publishers, CheckFree(p) PROVE Reads'
  BY <1>1 DEF CheckFree, Goes, Fails, BeginPass, Written, Active, Over, diskVars,
       readVars, callVars, boundVars,
       Data, Reads, Settled, Labels, Versions
<1>2. ASSUME NEW p \in Publishers, Stage(p) PROVE Reads'
  <2>1. PICK label \in {"record", "failed"} : pc' = [pc EXCEPT ![p] = label]
    BY <1>2 DEF Stage, Goes, Fails
  <2>2. UNCHANGED <<model, readVars>>
    BY <1>2 DEF Stage
  <2>3. QED
    BY <2>1, <2>2 DEF Data, Reads, Settled, Labels, readVars
<1>3. ASSUME NEW p \in Publishers, Record(p) PROVE Reads'
  <2>1. PICK label \in {"export", "publish", "cleanup"} : pc' = [pc EXCEPT ![p] = label]
    BY <1>3 DEF Record, Goes, Fails
  <2>2. UNCHANGED <<model, readVars>>
    BY <1>3 DEF Record
  <2>3. QED
    BY <2>1, <2>2 DEF Data, Reads, Settled, Labels, readVars
<1>4. ASSUME NEW p \in Publishers, Export(p) PROVE Reads'
  BY <1>4 DEF Export, Goes, Fails, BeginPass, Written, Active, Over, diskVars,
       readVars, callVars, boundVars,
       Data, Reads, Settled, Labels, Versions
<1>5. ASSUME NEW p \in Publishers, ReadFile(p) PROVE Reads'
  <2>1. ASSUME NEW q \in Publishers, q # p, Settled(q) PROVE Settled(q)'
    BY <1>5, <2>1 DEF ReadFile, BeginPass, Data, Settled, diskVars
  <2>2. ASSUME Settled(p), pc[p] = "inventory", pc'[p] = "inventory"
        PROVE  Settled(p)'
    <3>1. PICK f \in unread[p] :
            /\ unread' = [unread EXCEPT ![p] = @ \ {f}]
            /\ declared' = IF pass[p] = 1 THEN [declared EXCEPT ![p][f] = model[p][f]]
                           ELSE declared
            /\ hashed' = IF pass[p] = 3 THEN [hashed EXCEPT ![p][f] = model[p][f]]
                         ELSE hashed
            /\ pass[p] \in {2, 4} /\ model[p][f] # declared[p][f]
                 => pc' = [pc EXCEPT ![p] = "cleanup"]
      BY <1>5 DEF ReadFile
    <3>2. /\ f \in Files /\ pass' = pass /\ model' = model
          /\ unread'[p] = unread[p] \ {f}
          /\ pass[p] \in {2, 4} => model[p][f] = declared[p][f]
      BY <1>5, <2>2, <3>1 DEF ReadFile, Data, diskVars
    <3>3. \A g \in Files : /\ model[p][g] \in Versions /\ declared[p][g] \in Versions
                           /\ hashed[p][g] \in Versions
      BY DEF Data
    <3>4. CASE pass[p] = 1
      <4>1. /\ declared'[p][f] = model[p][f]
            /\ \A g \in Files \ {f} : declared'[p][g] = declared[p][g]
        BY <3>1, <3>2, <3>4 DEF Data
      <4>2. QED
        BY <2>2, <3>2, <3>3, <3>4, <4>1 DEF Settled, Versions
    <3>5. CASE pass[p] = 3
      <4>1. /\ hashed'[p][f] = model[p][f] /\ declared' = declared
            /\ \A g \in Files \ {f} : hashed'[p][g] = hashed[p][g]
        BY <3>1, <3>2, <3>5 DEF Data
      <4>2. QED
        BY <2>2, <3>2, <3>3, <3>5, <4>1 DEF Settled, Versions
    <3>6. CASE pass[p] \in {2, 4}
      <4>1. declared' = declared /\ hashed' = hashed
        BY <3>1, <3>6
      <4>2. QED
        BY <2>2, <3>2, <3>3, <3>6, <4>1 DEF Settled, Versions
    <3>7. pass[p] \in 0 .. 4
      BY DEF Data
    <3>8. QED
      BY <2>2, <3>4, <3>5, <3>6, <3>7 DEF Settled
  <2>3. /\ pc[p] = "inventory"
        /\ \A q \in Publishers \ {p} : pc'[q] = pc[q]
    BY <1>5 DEF ReadFile, Goes, Data
  <2>4. QED
    BY <2>1, <2>2, <2>3 DEF Reads
<1>6. ASSUME NEW p \in Publishers, Complete(p) PROVE Reads'
  <2>1. ASSUME NEW q \in Publishers, q # p, Settled(q) PROVE Settled(q)'
    BY <1>6, <2>1 DEF Complete, BeginPass, Data, Settled, diskVars
  <2>2. ASSUME Settled(p), pc[p] = "inventory", pc'[p] = "inventory"
        PROVE  Settled(p)'
    <3>1. BeginPass(p, 2)
      BY <1>6, <2>2 DEF Complete, Fails, Data
    <3>2. pass'[p] = 2 /\ unread'[p] = Files
      BY <3>1 DEF BeginPass, Data
    <3>3. /\ pass[p] = 1 /\ unread[p] = {}
          /\ UNCHANGED <<model, declared, hashed>>
      BY <1>6 DEF Complete, diskVars
    <3>4. QED
      BY <2>2, <3>2, <3>3 DEF Settled
  <2>3. /\ pc[p] = "inventory"
        /\ \A q \in Publishers \ {p} : pc'[q] = pc[q]
    BY <1>6 DEF Complete, Goes, Fails, Data
  <2>4. QED
    BY <2>1, <2>2, <2>3 DEF Reads
<1>7. ASSUME NEW p \in Publishers, HashTensors(p) PROVE Reads'
  <2>1. ASSUME NEW q \in Publishers, q # p, Settled(q) PROVE Settled(q)'
    BY <1>7, <2>1 DEF HashTensors, BeginPass, Data, Settled, diskVars
  <2>2. ASSUME Settled(p), pc[p] = "inventory", pc'[p] = "inventory"
        PROVE  Settled(p)'
    <3>1. BeginPass(p, 4)
      BY <1>7, <2>2 DEF HashTensors, Fails, Data
    <3>2. pass'[p] = 4 /\ unread'[p] = Files
      BY <3>1 DEF BeginPass, Data
    <3>3. /\ pass[p] = 3 /\ unread[p] = {}
          /\ UNCHANGED <<model, declared, hashed>>
      BY <1>7 DEF HashTensors, diskVars
    <3>4. QED
      BY <2>2, <3>2, <3>3 DEF Settled
  <2>3. /\ pc[p] = "inventory"
        /\ \A q \in Publishers \ {p} : pc'[q] = pc[q]
    BY <1>7 DEF HashTensors, Goes, Fails, Data
  <2>4. QED
    BY <2>1, <2>2, <2>3 DEF Reads
<1>8. ASSUME NEW p \in Publishers, Validated(p) PROVE Reads'
  BY <1>8 DEF Validated, Goes, Fails, BeginPass, Written, Active, Over, diskVars,
       readVars, callVars, boundVars,
       Data, Reads, Settled, Labels, Versions
<1>9. ASSUME NEW p \in Publishers, Publish(p) PROVE Reads'
  <2>1. PICK label \in {"sync", "cleanup"} : pc' = [pc EXCEPT ![p] = label]
    BY <1>9 DEF Publish, Goes, Fails
  <2>2. UNCHANGED <<model, readVars>>
    BY <1>9 DEF Publish
  <2>3. QED
    BY <2>1, <2>2 DEF Data, Reads, Settled, Labels, readVars
<1>10. ASSUME NEW p \in Publishers, Sync(p) PROVE Reads'
  <2>1. PICK label \in {"returned", "cleanup"} : pc' = [pc EXCEPT ![p] = label]
    BY <1>10 DEF Sync, Goes, Fails
  <2>2. UNCHANGED <<model, readVars>>
    BY <1>10 DEF Sync
  <2>3. QED
    BY <2>1, <2>2 DEF Data, Reads, Settled, Labels, readVars
<1>11. ASSUME NEW p \in Publishers, Cleanup(p) PROVE Reads'
  <2>1. PICK label \in {"failed"} : pc' = [pc EXCEPT ![p] = label]
    BY <1>11 DEF Cleanup, Goes, Fails
  <2>2. UNCHANGED <<model, readVars>>
    BY <1>11 DEF Cleanup
  <2>3. QED
    BY <2>1, <2>2 DEF Data, Reads, Settled, Labels, readVars
<1>12. ASSUME NEW p \in Publishers, Interrupt(p) PROVE Reads'
  <2>1. PICK label \in {"cleanup", "failed"} : pc' = [pc EXCEPT ![p] = label]
    BY <1>12 DEF Interrupt, Goes, Fails
  <2>2. UNCHANGED <<model, readVars>>
    BY <1>12 DEF Interrupt, diskVars
  <2>3. QED
    BY <2>1, <2>2 DEF Data, Reads, Settled, Labels, readVars
<1>13. ASSUME NEW p \in Publishers, Kill(p) PROVE Reads'
  <2>1. PICK label \in {"crashed"} : pc' = [pc EXCEPT ![p] = label]
    BY <1>13 DEF Kill, Goes, Fails
  <2>2. UNCHANGED <<model, readVars>>
    BY <1>13 DEF Kill, diskVars
  <2>3. QED
    BY <2>1, <2>2 DEF Data, Reads, Settled, Labels, readVars
<1>14. ASSUME NEW p \in Publishers, WriteAgain(p) PROVE Reads'
  BY <1>14 DEF WriteAgain, Goes, Fails, BeginPass, Written, Active, Over, diskVars,
       readVars, callVars, boundVars,
       Data, Reads, Settled, Labels, Versions
<1>15. ASSUME NEW s \in Strangers, Take(s) PROVE Reads'
  BY <1>15 DEF Take, Goes, Fails, BeginPass, Written, Active, Over, diskVars,
       readVars, callVars, boundVars,
       Data, Reads, Settled, Labels, Versions
<1>16. ASSUME PowerFailure PROVE Reads'
  BY <1>16 DEF PowerFailure, Goes, Fails, BeginPass, Written, Active, Over, diskVars,
       readVars, callVars, boundVars,
       Data, Reads, Settled, Labels, Versions
<1>17. ASSUME UNCHANGED vars PROVE Reads'
  BY <1>17 DEF vars, Goes, Fails, BeginPass, Written, Active, Over, diskVars,
       readVars, callVars, boundVars,
       Data, Reads, Settled, Labels, Versions
<1>18. ASSUME NEW p \in Publishers, CheckLedger(p) PROVE Reads'
  <2>1. ASSUME NEW q \in Publishers, q # p, Settled(q) PROVE Settled(q)'
    BY <1>18, <2>1 DEF CheckLedger, BeginPass, Data, Settled, diskVars
  <2>2. ASSUME Settled(p), pc[p] = "inventory", pc'[p] = "inventory"
        PROVE  Settled(p)'
    <3>1. BeginPass(p, 3)
      BY <1>18, <2>2 DEF CheckLedger, Fails, Data
    <3>2. pass'[p] = 3 /\ unread'[p] = Files
      BY <3>1 DEF BeginPass, Data
    <3>3. /\ pass[p] = 2 /\ unread[p] = {}
          /\ UNCHANGED <<model, declared, hashed>>
      BY <1>18 DEF CheckLedger, diskVars
    <3>4. QED
      BY <2>2, <3>2, <3>3 DEF Settled
  <2>3. /\ pc[p] = "inventory"
        /\ \A q \in Publishers \ {p} : pc'[q] = pc[q]
    BY <1>18 DEF CheckLedger, Goes, Fails, Data
  <2>4. QED
    BY <2>1, <2>2, <2>3 DEF Reads
<1>19. QED
  BY <1>1, <1>2, <1>3, <1>4, <1>5, <1>6, <1>7, <1>8, <1>9, <1>10, <1>11, <1>12, <1>13, <1>14, <1>15, <1>16, <1>17, <1>18 DEF Next, Publication

(* Only what is whole is renamed, and it stays whole.                      *)
LEMMA PlacedStep ==
  ASSUME Data, Flags, Reads, Placed, [Next]_vars
  PROVE  Placed'
<1> USE DirectoryAssumption
<1>1. ASSUME NEW p \in Publishers, CheckFree(p) PROVE Placed'
  BY <1>1 DEF CheckFree, Goes, Fails, BeginPass, Written, Active, Over, diskVars,
       readVars, callVars, boundVars,
       Data, Flags, Reads, Settled, Placed, Whole, Labels, Directories
<1>2. ASSUME NEW p \in Publishers, Stage(p) PROVE Placed'
  <2>1. PICK label \in {"record", "failed"} : pc' = [pc EXCEPT ![p] = label]
    BY <1>2 DEF Stage, Goes, Fails
  <2>2. pc[p] = "stage" /\ UNCHANGED <<destination, durable, records, declared, hashed, renamed>>
    BY <1>2 DEF Stage, diskVars, readVars, callVars
  <2>3. QED
    BY <2>1, <2>2 DEF Data, Placed, Whole, Labels
<1>3. ASSUME NEW p \in Publishers, Record(p) PROVE Placed'
  <2>1. CASE pc' = [pc EXCEPT ![p] = "cleanup"] /\ UNCHANGED records
    <3>1. /\ pc[p] = "record"
          /\ UNCHANGED <<destination, durable, records, declared, hashed, renamed>>
      BY <1>3, <2>1 DEF Record, diskVars, readVars, callVars
    <3>2. QED
      BY <2>1, <3>1 DEF Data, Placed, Whole, Labels
  <2>2. CASE /\ records' = [records EXCEPT ![p] = "safe"]
             /\ pc' = [pc EXCEPT ![p] = IF p \in Checkpoints THEN "export"
                                        ELSE "publish"]
    <3>1. /\ pc[p] = "record"
          /\ UNCHANGED <<destination, durable, declared, hashed, renamed>>
      BY <1>3 DEF Record, diskVars, readVars, callVars
    <3>2. QED
      BY <2>2, <3>1 DEF Data, Placed, Whole, Labels
  <2>3. QED
    BY <1>3, <2>1, <2>2 DEF Record, Goes, Fails, Written
<1>4. ASSUME NEW p \in Publishers, Export(p) PROVE Placed'
  <2>1. PICK label \in {"inventory", "cleanup"} : pc' = [pc EXCEPT ![p] = label]
    BY <1>4 DEF Export, Goes, Fails
  <2>2. /\ pc[p] = "export"
        /\ UNCHANGED <<destination, durable, records, declared, hashed, renamed>>
    BY <1>4 DEF Export, callVars
  <2>3. QED
    BY <2>1, <2>2 DEF Data, Placed, Whole, Labels
<1>5. ASSUME NEW p \in Publishers, ReadFile(p) PROVE Placed'
  BY <1>5 DEF ReadFile, Goes, Fails, BeginPass, Written, Active, Over, diskVars,
       readVars, callVars, boundVars,
       Data, Flags, Reads, Settled, Placed, Whole, Labels, Directories
<1>6. ASSUME NEW p \in Publishers, Complete(p) PROVE Placed'
  <2>1. PICK label \in {"inventory", "cleanup"} : pc' = [pc EXCEPT ![p] = label]
    BY <1>6 DEF Complete, Goes, Fails
  <2>2. /\ pc[p] = "inventory" /\ records[p] = "safe"
        /\ UNCHANGED <<destination, durable, declared, hashed, renamed>>
    BY <1>6 DEF Complete, callVars, Placed
  <2>3. records' = records
    BY <1>6, <2>2 DEF Complete, Written, Data
  <2>4. QED
    BY <2>1, <2>2, <2>3 DEF Data, Placed, Whole, Labels
<1>7. ASSUME NEW p \in Publishers, HashTensors(p) PROVE Placed'
  <2>1. PICK label \in {"inventory", "cleanup"} : pc' = [pc EXCEPT ![p] = label]
    BY <1>7 DEF HashTensors, Goes, Fails
  <2>2. /\ pc[p] = "inventory"
        /\ UNCHANGED <<destination, durable, records, declared, hashed, renamed>>
    BY <1>7 DEF HashTensors, diskVars, callVars
  <2>3. QED
    BY <2>1, <2>2 DEF Data, Placed, Whole, Labels
<1>8. ASSUME NEW p \in Publishers, Validated(p) PROVE Placed'
  BY <1>8 DEF Validated, Goes, Fails, BeginPass, Written, Active, Over, diskVars,
       readVars, callVars, boundVars,
       Data, Flags, Reads, Settled, Placed, Whole, Labels, Directories
<1>9. ASSUME NEW p \in Publishers, Publish(p) PROVE Placed'
  <2>1. CASE /\ destination' = p /\ renamed' = [renamed EXCEPT ![p] = TRUE]
             /\ pc' = [pc EXCEPT ![p] = "sync"]
    <3>1. pc[p] = "publish" /\ UNCHANGED <<durable, records, declared, hashed>>
      BY <1>9 DEF Publish, readVars
    <3>2. Whole(p)
      BY <3>1 DEF Placed
    <3>3. \A q \in Publishers : Whole(q)' <=> Whole(q)
      BY <3>1 DEF Whole
    <3>4. renamed'[p] /\ \A q \in Publishers \ {p} : renamed'[q] = renamed[q]
      BY <2>1 DEF Flags
    <3>5. pc'[p] = "sync" /\ \A q \in Publishers \ {p} : pc'[q] = pc[q]
      BY <2>1 DEF Data
    <3>6. ASSUME NEW q \in Publishers
          PROVE  /\ pc'[q] \in {"export", "inventory"} => records'[q] = "safe"
                 /\ pc'[q] \in {"publish", "sync", "returned"} => Whole(q)'
                 /\ q \in {destination', durable'} => renamed'[q] /\ Whole(q)'
                 /\ renamed'[q] => pc'[q] \in {"sync", "returned", "cleanup",
                                               "failed", "crashed"}
      <4>1. CASE q = p
        BY <3>2, <3>3, <3>4, <3>5, <4>1
      <4>2. CASE q # p
        BY <2>1, <3>1, <3>3, <3>4, <3>5, <4>2 DEF Placed
      <4>3. QED
        BY <4>1, <4>2
    <3>7. QED
      BY <3>6 DEF Placed
  <2>2. CASE /\ pc' = [pc EXCEPT ![p] = "cleanup"]
             /\ UNCHANGED <<destination, renamed>>
    <3>1. pc[p] = "publish" /\ UNCHANGED <<durable, records, declared, hashed>>
      BY <1>9 DEF Publish, readVars
    <3>2. QED
      BY <2>2, <3>1 DEF Data, Placed, Whole, Labels
  <2>3. QED
    BY <1>9, <2>1, <2>2 DEF Publish, Goes, Fails
<1>10. ASSUME NEW p \in Publishers, Sync(p) PROVE Placed'
  BY <1>10 DEF Sync, Goes, Fails, BeginPass, Written, Active, Over, diskVars,
       readVars, callVars, boundVars,
       Data, Flags, Reads, Settled, Placed, Whole, Labels, Directories
<1>11. ASSUME NEW p \in Publishers, Cleanup(p) PROVE Placed'
  <2>1. PICK label \in {"failed"} : pc' = [pc EXCEPT ![p] = label]
    BY <1>11 DEF Cleanup, Goes, Fails
  <2>2. pc[p] = "cleanup" /\ UNCHANGED <<destination, durable, records, declared, hashed, renamed>>
    BY <1>11 DEF Cleanup, diskVars, readVars, callVars
  <2>3. QED
    BY <2>1, <2>2 DEF Data, Placed, Whole, Labels
<1>12. ASSUME NEW p \in Publishers, Interrupt(p) PROVE Placed'
  <2>1. PICK label \in {"cleanup", "failed"} : pc' = [pc EXCEPT ![p] = label]
    BY <1>12 DEF Interrupt, Goes, Fails
  <2>2. /\ UNCHANGED <<destination, durable, records, declared, hashed, renamed>>
        /\ pc[p] \in Labels /\ pc[p] # "start"
    BY <1>12 DEF Interrupt, Active, diskVars, readVars, Data
  <2>3. QED
    BY <2>1, <2>2 DEF Data, Placed, Whole, Labels
<1>13. ASSUME NEW p \in Publishers, Kill(p) PROVE Placed'
  BY <1>13 DEF Kill, Goes, Fails, BeginPass, Written, Active, Over, diskVars,
       readVars, callVars, boundVars,
       Data, Flags, Reads, Settled, Placed, Whole, Labels, Directories
<1>14. ASSUME NEW p \in Publishers, WriteAgain(p) PROVE Placed'
  BY <1>14 DEF WriteAgain, Goes, Fails, BeginPass, Written, Active, Over, diskVars,
       readVars, callVars, boundVars,
       Data, Flags, Reads, Settled, Placed, Whole, Labels, Directories
<1>15. ASSUME NEW s \in Strangers, Take(s) PROVE Placed'
  BY <1>15 DEF Take, Goes, Fails, BeginPass, Written, Active, Over, diskVars,
       readVars, callVars, boundVars,
       Data, Flags, Reads, Settled, Placed, Whole, Labels, Directories
<1>16. ASSUME PowerFailure PROVE Placed'
  BY <1>16 DEF PowerFailure, Goes, Fails, BeginPass, Written, Active, Over, diskVars,
       readVars, callVars, boundVars,
       Data, Flags, Reads, Settled, Placed, Whole, Labels, Directories
<1>17. ASSUME UNCHANGED vars PROVE Placed'
  BY <1>17 DEF vars, Goes, Fails, BeginPass, Written, Active, Over, diskVars,
       readVars, callVars, boundVars,
       Data, Flags, Reads, Settled, Placed, Whole, Labels, Directories
<1>18. ASSUME NEW p \in Publishers, CheckLedger(p) PROVE Placed'
  BY <1>18 DEF CheckLedger, Goes, Fails, BeginPass, Written, Active, Over, diskVars,
       readVars, callVars, boundVars,
       Data, Flags, Reads, Settled, Placed, Whole, Labels, Directories
<1>19. QED
  BY <1>1, <1>2, <1>3, <1>4, <1>5, <1>6, <1>7, <1>8, <1>9, <1>10, <1>11, <1>12, <1>13, <1>14, <1>15, <1>16, <1>17, <1>18 DEF Next, Publication

(* The life of a staging directory.                                        *)
LEMMA StagedStep ==
  ASSUME Data, Flags, Placed, Staged, [Next]_vars
  PROVE  Staged'
<1>1. ASSUME NEW p \in Publishers, CheckFree(p) PROVE Staged'
  BY <1>1 DEF CheckFree, Goes, Fails, BeginPass, Written, Active, Over, diskVars,
       readVars, callVars, boundVars,
       Data, Flags, Placed, Staged, Labels
<1>2. ASSUME NEW p \in Publishers, Stage(p) PROVE Staged'
  <2>1. CASE staged' = staged \cup {p} /\ pc' = [pc EXCEPT ![p] = "record"]
    <3>1. pc[p] = "stage" /\ UNCHANGED <<renamed, left>>
      BY <1>2 DEF Stage, callVars
    <3>2. ~renamed[p]
      BY <3>1 DEF Placed
    <3>3. QED
      BY <2>1, <3>1, <3>2 DEF Data, Staged, Labels
  <2>2. CASE staged' = staged /\ pc' = [pc EXCEPT ![p] = "failed"]
    <3>1. pc[p] = "stage" /\ UNCHANGED <<renamed, left>>
      BY <1>2 DEF Stage, callVars
    <3>2. QED
      BY <2>2, <3>1 DEF Data, Staged, Labels
  <2>3. QED
    BY <1>2, <2>1, <2>2 DEF Stage, Goes, Fails
<1>3. ASSUME NEW p \in Publishers, Record(p) PROVE Staged'
  BY <1>3 DEF Record, Goes, Fails, BeginPass, Written, Active, Over, diskVars,
       readVars, callVars, boundVars,
       Data, Flags, Placed, Staged, Labels
<1>4. ASSUME NEW p \in Publishers, Export(p) PROVE Staged'
  BY <1>4 DEF Export, Goes, Fails, BeginPass, Written, Active, Over, diskVars,
       readVars, callVars, boundVars,
       Data, Flags, Placed, Staged, Labels
<1>5. ASSUME NEW p \in Publishers, ReadFile(p) PROVE Staged'
  BY <1>5 DEF ReadFile, Goes, Fails, BeginPass, Written, Active, Over, diskVars,
       readVars, callVars, boundVars,
       Data, Flags, Placed, Staged, Labels
<1>6. ASSUME NEW p \in Publishers, Complete(p) PROVE Staged'
  BY <1>6 DEF Complete, Goes, Fails, BeginPass, Written, Active, Over, diskVars,
       readVars, callVars, boundVars,
       Data, Flags, Placed, Staged, Labels
<1>7. ASSUME NEW p \in Publishers, HashTensors(p) PROVE Staged'
  BY <1>7 DEF HashTensors, Goes, Fails, BeginPass, Written, Active, Over, diskVars,
       readVars, callVars, boundVars,
       Data, Flags, Placed, Staged, Labels
<1>8. ASSUME NEW p \in Publishers, Validated(p) PROVE Staged'
  BY <1>8 DEF Validated, Goes, Fails, BeginPass, Written, Active, Over, diskVars,
       readVars, callVars, boundVars,
       Data, Flags, Placed, Staged, Labels
<1>9. ASSUME NEW p \in Publishers, Publish(p) PROVE Staged'
  BY <1>9 DEF Publish, Goes, Fails, BeginPass, Written, Active, Over, diskVars,
       readVars, callVars, boundVars,
       Data, Flags, Placed, Staged, Labels
<1>10. ASSUME NEW p \in Publishers, Sync(p) PROVE Staged'
  BY <1>10 DEF Sync, Goes, Fails, BeginPass, Written, Active, Over, diskVars,
       readVars, callVars, boundVars,
       Data, Flags, Placed, Staged, Labels
<1>11. ASSUME NEW p \in Publishers, Cleanup(p) PROVE Staged'
  BY <1>11 DEF Cleanup, Goes, Fails, BeginPass, Written, Active, Over, diskVars,
       readVars, callVars, boundVars,
       Data, Flags, Placed, Staged, Labels
<1>12. ASSUME NEW p \in Publishers, Interrupt(p) PROVE Staged'
  BY <1>12 DEF Interrupt, Goes, Fails, BeginPass, Written, Active, Over, diskVars,
       readVars, callVars, boundVars,
       Data, Flags, Placed, Staged, Labels
<1>13. ASSUME NEW p \in Publishers, Kill(p) PROVE Staged'
  BY <1>13 DEF Kill, Goes, Fails, BeginPass, Written, Active, Over, diskVars,
       readVars, callVars, boundVars,
       Data, Flags, Placed, Staged, Labels
<1>14. ASSUME NEW p \in Publishers, WriteAgain(p) PROVE Staged'
  BY <1>14 DEF WriteAgain, Goes, Fails, BeginPass, Written, Active, Over, diskVars,
       readVars, callVars, boundVars,
       Data, Flags, Placed, Staged, Labels
<1>15. ASSUME NEW s \in Strangers, Take(s) PROVE Staged'
  BY <1>15 DEF Take, Goes, Fails, BeginPass, Written, Active, Over, diskVars,
       readVars, callVars, boundVars,
       Data, Flags, Placed, Staged, Labels
<1>16. ASSUME PowerFailure PROVE Staged'
  BY <1>16 DEF PowerFailure, Goes, Fails, BeginPass, Written, Active, Over, diskVars,
       readVars, callVars, boundVars,
       Data, Flags, Placed, Staged, Labels
<1>17. ASSUME UNCHANGED vars PROVE Staged'
  BY <1>17 DEF vars, Goes, Fails, BeginPass, Written, Active, Over, diskVars,
       readVars, callVars, boundVars,
       Data, Flags, Placed, Staged, Labels
<1>18. ASSUME NEW p \in Publishers, CheckLedger(p) PROVE Staged'
  BY <1>18 DEF CheckLedger, Goes, Fails, BeginPass, Written, Active, Over, diskVars,
       readVars, callVars, boundVars,
       Data, Flags, Placed, Staged, Labels
<1>19. QED
  BY <1>1, <1>2, <1>3, <1>4, <1>5, <1>6, <1>7, <1>8, <1>9, <1>10, <1>11, <1>12, <1>13, <1>14, <1>15, <1>16, <1>17, <1>18 DEF Next, Publication

(* Short of a crash nothing undoes a rename.                               *)
LEMMA UndoneStep ==
  ASSUME Data, Flags, Counts, Undone, [Next]_vars
  PROVE  Undone'
<1> USE DirectoryAssumption
<1>1. ASSUME NEW p \in Publishers, CheckFree(p) PROVE Undone'
  BY <1>1 DEF CheckFree, Goes, Fails, BeginPass, Written, Active, Over, diskVars,
       readVars, callVars, boundVars,
       Data, Flags, Counts, Undone, Directories
<1>2. ASSUME NEW p \in Publishers, Stage(p) PROVE Undone'
  BY <1>2 DEF Stage, Goes, Fails, BeginPass, Written, Active, Over, diskVars,
       readVars, callVars, boundVars,
       Data, Flags, Counts, Undone, Directories
<1>3. ASSUME NEW p \in Publishers, Record(p) PROVE Undone'
  BY <1>3 DEF Record, Goes, Fails, BeginPass, Written, Active, Over, diskVars,
       readVars, callVars, boundVars,
       Data, Flags, Counts, Undone, Directories
<1>4. ASSUME NEW p \in Publishers, Export(p) PROVE Undone'
  BY <1>4 DEF Export, Goes, Fails, BeginPass, Written, Active, Over, diskVars,
       readVars, callVars, boundVars,
       Data, Flags, Counts, Undone, Directories
<1>5. ASSUME NEW p \in Publishers, ReadFile(p) PROVE Undone'
  BY <1>5 DEF ReadFile, Goes, Fails, BeginPass, Written, Active, Over, diskVars,
       readVars, callVars, boundVars,
       Data, Flags, Counts, Undone, Directories
<1>6. ASSUME NEW p \in Publishers, Complete(p) PROVE Undone'
  BY <1>6 DEF Complete, Goes, Fails, BeginPass, Written, Active, Over, diskVars,
       readVars, callVars, boundVars,
       Data, Flags, Counts, Undone, Directories
<1>7. ASSUME NEW p \in Publishers, HashTensors(p) PROVE Undone'
  BY <1>7 DEF HashTensors, Goes, Fails, BeginPass, Written, Active, Over, diskVars,
       readVars, callVars, boundVars,
       Data, Flags, Counts, Undone, Directories
<1>8. ASSUME NEW p \in Publishers, Validated(p) PROVE Undone'
  BY <1>8 DEF Validated, Goes, Fails, BeginPass, Written, Active, Over, diskVars,
       readVars, callVars, boundVars,
       Data, Flags, Counts, Undone, Directories
<1>9. ASSUME NEW p \in Publishers, Publish(p) PROVE Undone'
  BY <1>9 DEF Publish, Goes, Fails, BeginPass, Written, Active, Over, diskVars,
       readVars, callVars, boundVars,
       Data, Flags, Counts, Undone, Directories
<1>10. ASSUME NEW p \in Publishers, Sync(p) PROVE Undone'
  BY <1>10 DEF Sync, Goes, Fails, BeginPass, Written, Active, Over, diskVars,
       readVars, callVars, boundVars,
       Data, Flags, Counts, Undone, Directories
<1>11. ASSUME NEW p \in Publishers, Cleanup(p) PROVE Undone'
  BY <1>11 DEF Cleanup, Goes, Fails, BeginPass, Written, Active, Over, diskVars,
       readVars, callVars, boundVars,
       Data, Flags, Counts, Undone, Directories
<1>12. ASSUME NEW p \in Publishers, Interrupt(p) PROVE Undone'
  BY <1>12 DEF Interrupt, Goes, Fails, BeginPass, Written, Active, Over, diskVars,
       readVars, callVars, boundVars,
       Data, Flags, Counts, Undone, Directories
<1>13. ASSUME NEW p \in Publishers, Kill(p) PROVE Undone'
  BY <1>13 DEF Kill, Goes, Fails, BeginPass, Written, Active, Over, diskVars,
       readVars, callVars, boundVars,
       Data, Flags, Counts, Undone, Directories
<1>14. ASSUME NEW p \in Publishers, WriteAgain(p) PROVE Undone'
  BY <1>14 DEF WriteAgain, Goes, Fails, BeginPass, Written, Active, Over, diskVars,
       readVars, callVars, boundVars,
       Data, Flags, Counts, Undone, Directories
<1>15. ASSUME NEW s \in Strangers, Take(s) PROVE Undone'
  BY <1>15 DEF Take, Goes, Fails, BeginPass, Written, Active, Over, diskVars,
       readVars, callVars, boundVars,
       Data, Flags, Counts, Undone, Directories
<1>16. ASSUME PowerFailure PROVE Undone'
  BY <1>16 DEF PowerFailure, Goes, Fails, BeginPass, Written, Active, Over, diskVars,
       readVars, callVars, boundVars,
       Data, Flags, Counts, Undone, Directories
<1>17. ASSUME UNCHANGED vars PROVE Undone'
  BY <1>17 DEF vars, Goes, Fails, BeginPass, Written, Active, Over, diskVars,
       readVars, callVars, boundVars,
       Data, Flags, Counts, Undone, Directories
<1>18. ASSUME NEW p \in Publishers, CheckLedger(p) PROVE Undone'
  BY <1>18 DEF CheckLedger, Goes, Fails, BeginPass, Written, Active, Over, diskVars,
       readVars, callVars, boundVars,
       Data, Flags, Counts, Undone, Directories
<1>19. QED
  BY <1>1, <1>2, <1>3, <1>4, <1>5, <1>6, <1>7, <1>8, <1>9, <1>10, <1>11, <1>12, <1>13, <1>14, <1>15, <1>16, <1>17, <1>18 DEF Next, Publication

------------------------------------------------------------------------------
(* The type invariant, for every value of the constants.                   *)
THEOREM DirectoryTypes == Spec => []TypeOK
<1> USE DirectoryAssumption
<1>1. Init => Data /\ Flags /\ Counts
  BY DEF Init, Data, Flags, Counts, Labels, Versions
<1>2. Data /\ Flags /\ Counts /\ [Next]_vars => (Data /\ Flags /\ Counts)'
  BY DataStep, FlagsStep, CountsStep
<1>3. Data /\ Flags /\ Counts => TypeOK
  BY DEF Data, Flags, Counts, TypeOK
<1>4. QED
  BY <1>1, <1>2, <1>3, PTL DEF Spec

(* All of the above, step by step.                                         *)
Inv == Data /\ Flags /\ Counts /\ Reads /\ Placed /\ Staged /\ Undone

LEMMA InvCorrect == Spec => []Inv
<1> USE DirectoryAssumption
<1>1. Init => Data /\ Flags /\ Counts
  BY DEF Init, Data, Flags, Counts, Labels, Versions
<1>2. Init => Reads /\ Placed /\ Staged /\ Undone
  BY DEF Init, Reads, Placed, Staged, Undone
<1>3. Inv /\ [Next]_vars => Inv'
  BY DataStep, FlagsStep, CountsStep, ReadsStep, PlacedStep, StagedStep, UndoneStep
     DEF Inv
<1>4. QED
  BY <1>1, <1>2, <1>3, PTL DEF Spec, Inv

(* What stands at the destination is whole and hashed as declared.         *)
THEOREM PublishedWhole == Spec => []PublishedIsWhole
<1>1. Inv => PublishedIsWhole
  BY DEF Inv, Placed, Whole, PublishedIsWhole
<1>2. QED
  BY <1>1, InvCorrect, PTL

(* A failed call has left its staging directory only if its clean-up was    *)
(* cut short, and does not take back what it renamed.                      *)
THEOREM FailuresAccounted == Spec => []FailureAccounted
<1>1. Inv => FailureAccounted
  BY DEF Inv, Staged, Undone, FailureAccounted
<1>2. QED
  BY <1>1, InvCorrect, PTL

(* Nothing but a crash changes what stands at the destination.             *)
THEOREM NothingTakenBack == Spec => NeverTakenBack
<1>1. Inv /\ [Next]_vars
        => [destination # NoDirectory =>
              destination' = destination \/ crashes' # crashes]_vars
  <2>1. ASSUME Counts, destination # NoDirectory, Next
        PROVE  destination' = destination \/ crashes' # crashes
    <3>1. ASSUME PowerFailure PROVE crashes' # crashes
      BY <2>1, <3>1, DirectoryAssumption DEF PowerFailure, Counts
    <3>2. ASSUME NEW t \in Strangers, Take(t) PROVE FALSE
      BY <2>1, <3>2 DEF Take
    <3>3. ASSUME NEW p \in Publishers,
                 Publication(p) \/ Interrupt(p) \/ Kill(p) \/ WriteAgain(p)
          PROVE  destination' = destination
      BY <2>1, <3>3 DEF Publication, CheckFree, Stage, Record, Export, ReadFile,
         Complete, CheckLedger, HashTensors, Validated, Publish, Sync, Cleanup,
         Interrupt, Kill, WriteAgain, diskVars
    <3>4. QED
      BY <2>1, <3>1, <3>2, <3>3 DEF Next
  <2>2. QED
    BY <2>1 DEF Inv, vars, diskVars
<1>2. QED
  BY <1>1, InvCorrect, PTL DEF Spec, NeverTakenBack

------------------------------------------------------------------------------
(* The register.                                                           *)

(* A call that renamed is at the destination until the power fails, and one *)
(* that has returned stays there for ever.                                 *)
Believed ==
  \A p \in Publishers :
    /\ pc[p] = "sync" => destination = p
    /\ pc[p] = "returned" => destination = p /\ durable = p

Standing(label) == IF label = "returned" THEN "accepted"
                   ELSE IF label = "failed" THEN "failed" ELSE "none"

(* What outsiders see of a step of one call.                               *)
LEMMA StepShape ==
  ASSUME Data, NEW p \in Publishers,
         Publication(p) \/ Interrupt(p) \/ Kill(p) \/ WriteAgain(p)
  PROVE  /\ \A q \in Publishers : q # p => pc'[q] = pc[q]
         /\ \/ pc' = pc
            \/ ~Over(p) /\ pc'[p] \notin {"returned", "start"}
            \/ pc[p] = "sync" /\ pc'[p] = "returned" /\ durable' = destination
         /\ \/ destination' = destination
            \/ destination = NoDirectory /\ destination' = p /\ pc'[p] = "sync"
         /\ durable' = durable \/ (pc[p] = "sync" /\ durable' = destination)
         /\ pc'[p] = "sync" => pc[p] = "sync" \/ destination' = p
         /\ crashes' = crashes \/ (Kill(p) /\ pc'[p] = "crashed" /\ destination' = destination)
<1> USE DEF Goes, Fails, Active, Over, Data, Labels, diskVars, boundVars, callVars, readVars
<1>1. CASE CheckFree(p) \/ Stage(p) \/ Record(p) \/ Export(p)
  BY <1>1 DEF CheckFree, Stage, Record, Export
<1>2. CASE ReadFile(p)
  BY <1>2 DEF ReadFile
<1>3. CASE Complete(p) \/ CheckLedger(p) \/ HashTensors(p) \/ Validated(p)
  BY <1>3 DEF Complete, CheckLedger, HashTensors, Validated
<1>4. CASE Publish(p)
  BY <1>4 DEF Publish
<1>5. CASE Sync(p) \/ Cleanup(p)
  BY <1>5 DEF Sync, Cleanup
<1>6. CASE Interrupt(p)
  BY <1>6 DEF Interrupt
<1>7. CASE Kill(p) \/ WriteAgain(p)
  BY <1>7 DEF Kill, WriteAgain
<1>8. QED
  BY <1>1, <1>2, <1>3, <1>4, <1>5, <1>6, <1>7 DEF Publication

LEMMA BelievedStep ==
  ASSUME Data, Believed, [Next]_vars
  PROVE  Believed'
<1> USE DirectoryAssumption
<1>1. ASSUME NEW p \in Publishers,
             Publication(p) \/ Interrupt(p) \/ Kill(p) \/ WriteAgain(p)
      PROVE  Believed'
  BY <1>1, StepShape DEF Believed, Over
<1>2. ASSUME NEW s \in Strangers, Take(s) PROVE Believed'
  BY <1>2 DEF Take, Believed, Data
<1>3. CASE PowerFailure
  BY <1>3 DEF PowerFailure, Believed, Active, Over
<1>4. CASE UNCHANGED vars
  BY <1>4 DEF vars, diskVars, Believed
<1>5. QED
  BY <1>1, <1>2, <1>3, <1>4 DEF Next

LEMMA AnswersShape ==
  /\ answers = [d \in Directories |-> IF d \in Strangers THEN "none" ELSE Standing(pc[d])]
  /\ answers' = [d \in Directories |-> IF d \in Strangers THEN "none" ELSE Standing(pc'[d])]
BY DEF answers, Standing

LEMMA InitRefines == Init => Register!Init
<1> SUFFICES ASSUME Init PROVE Register!Init
  OBVIOUS
<1>1. answers = [d \in Directories |-> "none"]
  BY AnswersShape DEF Init, Standing, Directories
<1>2. QED
  BY <1>1, DirectoryAssumption DEF Init, Register!Init, Directories

LEMMA CallRefines ==
  ASSUME Data, Believed, NEW p \in Publishers,
         Publication(p) \/ Interrupt(p) \/ Kill(p) \/ WriteAgain(p)
  PROVE  Register!Next \/ UNCHANGED Register!vars
<1> USE DirectoryAssumption
<1>1. /\ \A q \in Publishers : q # p => pc'[q] = pc[q]
      /\ \/ pc' = pc
         \/ ~Over(p) /\ pc'[p] \notin {"returned", "start"}
         \/ pc[p] = "sync" /\ pc'[p] = "returned" /\ durable' = destination
      /\ \/ destination' = destination
         \/ destination = NoDirectory /\ destination' = p /\ pc'[p] = "sync"
      /\ crashes' = crashes \/ (Kill(p) /\ pc'[p] = "crashed" /\ destination' = destination)
  BY StepShape
<1>2. p \in Directories /\ p \notin Strangers
  BY DEF Directories
<1>3. answers' = [answers EXCEPT ![p] = Standing(pc'[p])]
  BY <1>1, <1>2, AnswersShape DEF Directories
<1>4. answers[p] = Standing(pc[p])
  BY <1>2, AnswersShape
<1>5. CASE Standing(pc'[p]) = Standing(pc[p])
  <2>1. answers' = answers
    BY <1>3, <1>4, <1>5, <1>2, AnswersShape
  <2>2. CASE crashes' # crashes
    <3>1. crashes' = crashes + 1
      BY <1>1, <2>2 DEF Kill
    <3>2. Register!Outage
      BY <1>1, <2>1, <2>2, <3>1 DEF Register!Outage
    <3>3. QED
      BY <3>2 DEF Register!Next
  <2>3. CASE crashes' = crashes /\ destination' = destination
    BY <2>1, <2>3 DEF Register!vars
  <2>4. CASE crashes' = crashes /\ destination' # destination
    <3>1. Register!Publish(p)
      BY <1>1, <1>2, <2>1, <2>4 DEF Register!Publish
    <3>2. QED
      BY <3>1, <1>2 DEF Register!Next
  <2>5. QED
    BY <2>2, <2>3, <2>4
<1>6. CASE Standing(pc'[p]) # Standing(pc[p])
  <2>1. /\ destination' = destination /\ crashes' = crashes
        /\ answers[p] = "none"
    BY <1>1, <1>4, <1>6 DEF Standing, Over
  <2>2. CASE pc'[p] = "returned"
    <3>1. destination = p
      BY <1>1, <1>6, <2>2 DEF Believed
    <3>2. Register!Accept(p)
      BY <1>2, <1>3, <2>1, <2>2, <3>1 DEF Register!Accept, Standing
    <3>3. QED
      BY <1>2, <3>2 DEF Register!Next
  <2>3. CASE pc'[p] = "failed"
    <3>1. Register!Fail(p)
      BY <1>2, <1>3, <2>1, <2>3 DEF Register!Fail, Standing
    <3>2. QED
      BY <1>2, <3>1 DEF Register!Next
  <2>4. QED
    BY <1>1, <1>6, <2>2, <2>3 DEF Standing, Over
<1>7. QED
  BY <1>5, <1>6

LEMMA PowerRefines ==
  ASSUME Data, Believed, PowerFailure
  PROVE  Register!Next
<1> USE DirectoryAssumption
<1>1. answers' = answers
  <2>1. \A d \in Publishers : Standing(pc'[d]) = Standing(pc[d])
    BY DEF PowerFailure, Active, Over, Standing
  <2>2. QED
    BY <2>1, AnswersShape DEF Directories
<1>2. crashes' = crashes + 1 /\ destination' \in {destination, durable}
  BY DEF PowerFailure
<1>3. ASSUME destination' # destination
      PROVE  \A d \in Directories : answers[d] # "accepted"
  <2>1. \A d \in Publishers : pc[d] # "returned"
    BY <1>2, <1>3 DEF Believed
  <2>2. QED
    BY <2>1, AnswersShape DEF Directories, Standing
<1>4. /\ destination \in Directories \cup {NoDirectory}
      /\ destination' \in Directories \cup {NoDirectory}
  BY <1>2 DEF Data
<1>5. Register!Outage
  BY <1>1, <1>2, <1>3, <1>4 DEF Register!Outage, Register!Unclaimed
<1>6. QED
  BY <1>5 DEF Register!Next

(* A destination is a register that is written once: whatever fails, is     *)
(* interrupted, killed or loses power, and whoever races, a call is told    *)
(* that it succeeded only if its directory stands there for good.          *)
THEOREM DirectoryIsRegister == Spec => RegisterSpec
<1> USE DirectoryAssumption
<1>1. Init => Believed
  BY DEF Init, Believed
<1>2. Inv /\ Believed /\ [Next]_vars => Believed'
  BY BelievedStep DEF Inv
<1>3. Inv /\ Believed /\ [Next]_vars => [Register!Next]_(Register!vars)
  <2> SUFFICES ASSUME Data, Believed, [Next]_vars
               PROVE  Register!Next \/ UNCHANGED Register!vars
    BY DEF Inv
  <2>1. ASSUME NEW p \in Publishers,
               Publication(p) \/ Interrupt(p) \/ Kill(p) \/ WriteAgain(p)
        PROVE  Register!Next \/ UNCHANGED Register!vars
    BY <2>1, CallRefines
  <2>2. ASSUME NEW s \in Strangers, Take(s) PROVE Register!Next
    <3>1. /\ destination = NoDirectory /\ destination' = s
          /\ answers' = answers /\ crashes' = crashes
      BY <2>2 DEF Take, answers, boundVars
    <3>2. Register!Publish(s)
      BY <3>1 DEF Register!Publish, Directories
    <3>3. QED
      BY <3>2 DEF Register!Next, Directories
  <2>3. CASE PowerFailure
    BY <2>3, PowerRefines
  <2>4. CASE UNCHANGED vars
    BY <2>4 DEF vars, diskVars, boundVars, answers, Register!vars
  <2>5. QED
    BY <2>1, <2>2, <2>3, <2>4 DEF Next
<1>4. QED
  BY <1>1, <1>2, <1>3, InitRefines, InvCorrect, PTL DEF Spec, RegisterSpec, Register!Spec
=============================================================================
