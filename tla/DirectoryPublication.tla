-------------------------- MODULE DirectoryPublication --------------------------
(***************************************************************************)
(* token_schedule.py and dense_training.py: a token schedule or a          *)
(* checkpoint is a directory, staged beside its destination and renamed    *)
(* into place by renameat2(RENAME_NOREPLACE).  Several calls, and other     *)
(* programs, use one destination; calls fail, are interrupted or killed;    *)
(* the power fails.                                                        *)
(*                                                                         *)
(* A directory is named by the call that staged it.  A checkpoint's model   *)
(* files are written by the caller's exporter, which may have left a thread *)
(* behind that writes to them again; the publication reads them one by one, *)
(* four times: into the completion record, against the record, to hash the  *)
(* tensors, and against the record once more.  The hasher and the inspector *)
(* are callbacks of the caller; the exporter's look at its own output and   *)
(* what the inspector says are left out.                                   *)
(***************************************************************************)
EXTENDS Naturals, FiniteSets

CONSTANTS
  Publishers,      \* prepare_token_schedule and publish_checkpoint_noreplace
  Checkpoints,     \* the second kind among them
  Strangers,       \* directories other programs create at the destination
  Files,           \* the files of an exported model
  NoDirectory,     \* stands for a name that is free
  MaxFaults,       \* bound: failing system calls
  MaxInterrupts,   \* bound: KeyboardInterrupts
  MaxCrashes,      \* bound: killed calls and power failures
  MaxWrites        \* bound: writes to a model file after its export

ASSUME DirectoryAssumption ==
  /\ Checkpoints \subseteq Publishers /\ Publishers \cap Strangers = {}
  /\ NoDirectory \notin Publishers \cup Strangers
  /\ MaxFaults \in Nat /\ MaxInterrupts \in Nat /\ MaxCrashes \in Nat
  /\ MaxWrites \in Nat

VARIABLES
  destination,          \* the directory under the destination's name
  durable,              \* the same as of the last fsync of the parent
  staged,               \* the staging directories that exist under their names
  pc,
  records,              \* bytes of the files _write_new made, per directory
  model,                \* version of each model file, per directory
  declared,             \* versions the completion record lists
  pass, unread,         \* which of the four, files still to read
  hashed,               \* versions the tensor hasher read
  renamed,              \* renameat2 succeeded
  left,                 \* the clean-up was cut short
  faults, interrupts, crashes

diskVars   == <<destination, durable, staged, records, model>>
readVars   == <<declared, pass, unread, hashed>>
boundVars  == <<interrupts, crashes>>
callVars   == <<renamed, left>>
vars == <<diskVars, pc, readVars, callVars, faults, boundVars>>

Directories == Publishers \cup Strangers
Labels == {"start", "stage", "record", "export", "inventory", "complete",
           "publish", "sync", "cleanup", "returned", "failed", "crashed"}
Over(p)   == pc[p] \in {"returned", "failed", "crashed"}
Active(p) == pc[p] # "start" /\ ~Over(p)

Versions == 0 .. MaxWrites + 1        \* 0: not written, or not read

TypeOK ==
  /\ destination \in Directories \cup {NoDirectory}
  /\ durable \in Directories \cup {NoDirectory}
  /\ staged \in SUBSET Publishers
  /\ pc \in [Publishers -> Labels]
  /\ records \in [Publishers -> {"none", "cached", "safe", "torn"}]
  /\ model \in [Publishers -> [Files -> Versions]]
  /\ declared \in [Publishers -> [Files -> Versions]]
  /\ hashed \in [Publishers -> [Files -> Versions]]
  /\ pass \in [Publishers -> 0 .. 4]
  /\ unread \in [Publishers -> SUBSET Files]
  /\ renamed \in [Publishers -> BOOLEAN] /\ left \in [Publishers -> BOOLEAN]
  /\ faults \in 0 .. MaxFaults /\ interrupts \in 0 .. MaxInterrupts
  /\ crashes \in 0 .. MaxCrashes

Init ==
  /\ destination = NoDirectory /\ durable = NoDirectory
  /\ staged = {}
  /\ pc = [p \in Publishers |-> "start"]
  /\ records = [p \in Publishers |-> "none"]
  /\ model = [p \in Publishers |-> [f \in Files |-> 0]]
  /\ declared = model /\ hashed = model
  /\ pass = [p \in Publishers |-> 0]
  /\ unread = [p \in Publishers |-> {}]
  /\ renamed = [p \in Publishers |-> FALSE] /\ left = renamed
  /\ faults = 0 /\ interrupts = 0 /\ crashes = 0

------------------------------------------------------------------------------
Goes(p, label) == pc' = [pc EXCEPT ![p] = label] /\ UNCHANGED faults

(* A failing system call or callback.  Before the staging directory exists  *)
(* the error is simply raised, afterwards it is removed first.             *)
Fails(p) ==
  /\ faults < MaxFaults /\ faults' = faults + 1
  /\ pc' = [pc EXCEPT ![p] = IF pc[p] = "stage" THEN "failed" ELSE "cleanup"]

CheckFree(p) ==
  /\ pc[p] = "start"
  /\ Goes(p, IF destination = NoDirectory THEN "stage" ELSE "failed")
  /\ UNCHANGED <<diskVars, readVars, callVars, boundVars>>

Stage(p) ==        \* tempfile.mkdtemp
  /\ pc[p] = "stage"
  /\ \/ staged' = staged \cup {p} /\ Goes(p, "record")
     \/ Fails(p) /\ UNCHANGED staged
  /\ UNCHANGED <<destination, durable, records, model, readVars, callVars,
                 boundVars>>

(* Mutant: os.fsync(handle.fileno()) is missing. *)
WrittenOnly == "cached"

Written == "safe"

(* _write_new: the schedule's four files, or the step ledger.              *)
Record(p) ==
  /\ pc[p] = "record"
  /\ \/ /\ records' = [records EXCEPT ![p] = Written]
        /\ Goes(p, IF p \in Checkpoints THEN "export" ELSE "publish")
     \/ Fails(p) /\ UNCHANGED records
  /\ UNCHANGED <<destination, durable, staged, model, readVars, callVars,
                 boundVars>>

(* A new inventory is begun.                                               *)
BeginPass(p, n) ==
  /\ pass' = [pass EXCEPT ![p] = n]
  /\ unread' = [unread EXCEPT ![p] = Files]

(* The exporter, and the inspector and hasher that look at its output.     *)
Export(p) ==
  /\ pc[p] = "export"
  /\ \/ /\ model' = [model EXCEPT ![p] = [f \in Files |-> 1]]
        /\ BeginPass(p, 1) /\ Goes(p, "inventory")
     \/ Fails(p) /\ UNCHANGED <<model, pass, unread>>
  /\ UNCHANGED <<destination, durable, staged, records, declared, hashed,
                 callVars, boundVars>>

(* One file is read.  _content_inventory streams it: the first time its     *)
(* digest goes into the completion record, later it must be the declared    *)
(* one.  The third reader is the tensor hasher.                            *)
ReadFile(p) ==
  /\ pc[p] = "inventory"
  /\ \E f \in unread[p] :
       /\ unread' = [unread EXCEPT ![p] = @ \ {f}]
       /\ declared' = IF pass[p] = 1 THEN [declared EXCEPT ![p][f] = model[p][f]]
                      ELSE declared
       /\ hashed' = IF pass[p] = 3 THEN [hashed EXCEPT ![p][f] = model[p][f]]
                    ELSE hashed
       /\ IF pass[p] \in {2, 4} /\ model[p][f] # declared[p][f]
          THEN pc' = [pc EXCEPT ![p] = "cleanup"] /\ UNCHANGED faults
          ELSE Goes(p, "inventory")
  /\ UNCHANGED <<diskVars, pass, callVars, boundVars>>

(* The first inventory ends: completion.json is written and validated.     *)
Complete(p) ==
  /\ pc[p] = "inventory" /\ pass[p] = 1 /\ unread[p] = {}
  /\ \/ /\ records' = [records EXCEPT ![p] = Written]
        /\ BeginPass(p, 2) /\ Goes(p, "inventory")
     \/ Fails(p) /\ UNCHANGED <<records, pass, unread>>
  /\ UNCHANGED <<destination, durable, staged, model, declared, hashed, callVars,
                 boundVars>>

(* The second ends: the ledger is verified, then the tensors are hashed.    *)
CheckLedger(p) ==
  /\ pc[p] = "inventory" /\ pass[p] = 2 /\ unread[p] = {}
  /\ BeginPass(p, 3) /\ Goes(p, "inventory")
  /\ UNCHANGED <<diskVars, declared, hashed, callVars, boundVars>>

(* Mutant: the inventory is not repeated after the tensor hash. *)
HashOnly(p) ==
  /\ pc[p] = "inventory" /\ pass[p] = 3 /\ unread[p] = {}
  /\ Goes(p, "publish")
  /\ UNCHANGED <<diskVars, readVars, callVars, boundVars>>

(* "Close a possible hasher/read race by rechecking every serialized file." *)
HashTensors(p) ==
  /\ pc[p] = "inventory" /\ pass[p] = 3 /\ unread[p] = {}
  /\ \/ BeginPass(p, 4) /\ Goes(p, "inventory")
     \/ Fails(p) /\ UNCHANGED <<pass, unread>>
  /\ UNCHANGED <<diskVars, declared, hashed, callVars, boundVars>>

Validated(p) ==
  /\ pc[p] = "inventory" /\ pass[p] = 4 /\ unread[p] = {}
  /\ Goes(p, "publish")
  /\ UNCHANGED <<diskVars, readVars, callVars, boundVars>>

(* Mutant: plain rename, which replaces an empty directory. *)
PublishReplacing(p) ==
  /\ pc[p] = "publish"
  /\ \/ destination' = p /\ staged' = staged \ {p}
        /\ renamed' = [renamed EXCEPT ![p] = TRUE] /\ Goes(p, "sync")
     \/ Fails(p) /\ UNCHANGED <<destination, staged, renamed>>
  /\ UNCHANGED <<durable, records, model, readVars, left, boundVars>>

(* _atomic_publish_noreplace: renameat2(..., RENAME_NOREPLACE).            *)
Publish(p) ==
  /\ pc[p] = "publish"
  /\ \/ /\ destination = NoDirectory
        /\ destination' = p /\ staged' = staged \ {p}
        /\ renamed' = [renamed EXCEPT ![p] = TRUE] /\ Goes(p, "sync")
     \/ /\ destination # NoDirectory        \* EEXIST
        /\ Goes(p, "cleanup") /\ UNCHANGED <<destination, staged, renamed>>
     \/ Fails(p) /\ UNCHANGED <<destination, staged, renamed>>
  /\ UNCHANGED <<durable, records, model, readVars, left, boundVars>>

(* Mutant: the parent is not synchronised. *)
NotSynced(p) ==
  /\ pc[p] = "sync" /\ Goes(p, "returned")
  /\ UNCHANGED <<diskVars, readVars, callVars, boundVars>>

Sync(p) ==        \* os.fsync(parent_descriptor)
  /\ pc[p] = "sync"
  /\ \/ durable' = destination /\ Goes(p, "returned")
     \/ Fails(p) /\ UNCHANGED durable
  /\ UNCHANGED <<destination, staged, records, model, readVars, callVars,
                 boundVars>>

(* shutil.rmtree(staging, ignore_errors=True): after the rename its name is *)
(* free, so there is nothing to remove.                                    *)
Cleanup(p) ==
  /\ pc[p] = "cleanup"
  /\ \/ staged' = staged \ {p} /\ Goes(p, "failed") /\ UNCHANGED left
     \/ /\ faults < MaxFaults /\ faults' = faults + 1
        /\ pc' = [pc EXCEPT ![p] = "failed"]
        /\ left' = [left EXCEPT ![p] = TRUE] /\ UNCHANGED staged
  /\ UNCHANGED <<destination, durable, records, model, readVars, renamed,
                 boundVars>>

(* Mutant: the handler catches Exception only, an interrupt passes it by. *)
InterruptUncaught(p) ==
  /\ Active(p) /\ interrupts < MaxInterrupts
  /\ interrupts' = interrupts + 1
  /\ Goes(p, "failed")
  /\ UNCHANGED <<diskVars, readVars, callVars, crashes>>

(* A KeyboardInterrupt: "except BaseException", "finally".  One that comes  *)
(* between mkdtemp and "try", or in the clean-up, leaves the directory.     *)
Interrupt(p) ==
  /\ Active(p) /\ interrupts < MaxInterrupts
  /\ interrupts' = interrupts + 1
  /\ \/ pc[p] \notin {"stage", "cleanup"} /\ Goes(p, "cleanup") /\ UNCHANGED left
     \/ /\ pc[p] \in {"stage", "record", "cleanup"} /\ Goes(p, "failed")
        /\ left' = [left EXCEPT ![p] = TRUE]
  /\ UNCHANGED <<diskVars, readVars, renamed, crashes>>

Publication(p) ==
  \/ CheckFree(p) \/ Stage(p) \/ Record(p) \/ Export(p) \/ ReadFile(p)
  \/ Complete(p) \/ CheckLedger(p) \/ HashTensors(p) \/ Validated(p)
  \/ Publish(p) \/ Sync(p) \/ Cleanup(p)

------------------------------------------------------------------------------
(* The environment.                                                        *)

Kill(p) ==
  /\ Active(p) /\ crashes < MaxCrashes
  /\ crashes' = crashes + 1
  /\ Goes(p, "crashed")
  /\ UNCHANGED <<diskVars, readVars, callVars, interrupts>>

(* Every call ends; an entry that was not synchronised is there or not, and *)
(* unsynchronised bytes may be lost.  (The entries of the staged directory  *)
(* and the model files are never synchronised by this code: what becomes of *)
(* them is not modelled.)                                                  *)
PowerFailure ==
  /\ crashes < MaxCrashes /\ crashes' = crashes + 1
  /\ destination' \in {destination, durable} /\ durable' = destination'
  /\ staged' \in SUBSET staged
  /\ records' = [p \in Publishers |->
                   IF records[p] = "cached" THEN "torn" ELSE records[p]]
  /\ pc' = [p \in Publishers |-> IF Active(p) THEN "crashed" ELSE pc[p]]
  /\ UNCHANGED <<model, readVars, callVars, faults, interrupts>>

(* Another program takes the name.                                         *)
Take(s) ==
  /\ destination = NoDirectory /\ destination' = s
  /\ durable' \in {durable, s}
  /\ UNCHANGED <<staged, records, model, pc, readVars, callVars, faults,
                 boundVars>>

(* Something still writes to an exported file; contents do not come back.  *)
WriteAgain(p) ==
  /\ \E f \in Files :
       /\ model[p][f] \in 1 .. MaxWrites
       /\ model' = [model EXCEPT ![p][f] = @ + 1]
  /\ UNCHANGED <<destination, durable, staged, records, pc, readVars, callVars,
                 faults, boundVars>>

Next ==
  \/ \E p \in Publishers : Publication(p) \/ Interrupt(p) \/ Kill(p) \/ WriteAgain(p)
  \/ \E s \in Strangers : Take(s)
  \/ PowerFailure

Spec == Init /\ [][Next]_vars

------------------------------------------------------------------------------
(* What stands under the destination's name is never replaced nor taken    *)
(* back: not by a second publication, not by the clean-up of a call that    *)
(* fails after its rename.  Only a power failure can undo an entry.        *)
NeverTakenBack ==
  [][destination # NoDirectory =>
       destination' = destination \/ crashes' # crashes]_vars

(* A published directory is whole, also after a power failure: the records *)
(* were synchronised before the rename.  And the tensor hash was computed   *)
(* from the very files the completion record declares, although hasher and *)
(* inventories read them one by one while something may still write to     *)
(* them.                                                                   *)
PublishedIsWhole ==
  destination \in Publishers =>
    /\ records[destination] = "safe"
    /\ destination \in Checkpoints => hashed[destination] = declared[destination]

(* A call that raised has left its staging directory only if the clean-up  *)
(* itself was cut short; and if it failed after the rename, then what it    *)
(* published is in place all the same.                                     *)
FailureAccounted ==
  \A p \in Publishers :
    pc[p] = "failed" =>
      /\ p \in staged => left[p] /\ ~renamed[p]
      /\ renamed[p] /\ crashes = 0 => destination = p

(* Seen from outside the destination is a register written once, and the   *)
(* only call that is told so is the one whose directory stands there.      *)
answers ==
  [d \in Directories |->
     IF d \in Strangers THEN "none"
     ELSE CASE pc[d] = "returned" -> "accepted"
            [] pc[d] = "failed" -> "failed"
            [] OTHER -> "none"]

Register == INSTANCE ReportRegister WITH
  Callers  <- Directories,
  NoReport <- [by |-> NoDirectory, text |-> NoDirectory],
  report   <- [by |-> destination, text |-> destination],
  wanted   <- [d \in Directories |-> d],
  answer   <- answers,
  outages  <- crashes

(* The refinement of ReportRegister: write-once, for directories.          *)
RegisterSpec == Register!Spec
=============================================================================
