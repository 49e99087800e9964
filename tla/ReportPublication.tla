-------------------------- MODULE ReportPublication --------------------------
(***************************************************************************)
(* hash_only_report_publication.py: several calls of                       *)
(* atomic_publish_noreplace on one report path.  Each call stages its bytes*)
(* in a temporary file of its own, hard-links it to the report's name,     *)
(* removes the temporary name and reads the report back; any error takes   *)
(* the link back.                                                          *)
(*                                                                         *)
(* One action per system call that reads or changes the directory.  A file *)
(* (inode) is named by the call that created it; Strangers are files of    *)
(* other programs.  A stat fingerprint is the inode and its link count: the*)
(* timestamps and sizes only repeat that the same file was not written to. *)
(* What is durable is modelled too: a power failure keeps, name by name,   *)
(* the present or the last synchronised entry, and bytes only if synced.   *)
(***************************************************************************)
EXTENDS Naturals, FiniteSets

CONSTANTS
  Publishers,      \* calls of atomic_publish_noreplace, each with one payload
  Strangers,       \* files of other programs
  Intruders,       \* those that take over one of the names during the calls
  Payloads,        \* the texts a call may publish
  Serialized,      \* the callers follow the module's rule: one call at a time
  NoFile,          \* stands for a directory entry that does not exist
  MaxFaults,       \* bound: failing system calls
  MaxCrashes       \* bound: killed calls and power failures

ASSUME PublicationAssumption ==
  /\ Publishers \cap Strangers = {} /\ Intruders \subseteq Strangers
  /\ NoFile \notin Publishers \cup Strangers
  /\ "torn" \notin Payloads      \* stands for incomplete bytes
  /\ "none" \notin Payloads
  /\ Serialized \in BOOLEAN
  /\ MaxFaults \in Nat /\ MaxCrashes \in Nat

VARIABLES
  wanted,          \* payload of each call
  stranger_text,   \* what the strangers contain
  final,           \* the file under the report's name
  staged,          \* the file under each call's temporary name
  durable_final, durable_staged,     \* the same as of the last fsync(parent)
  data,            \* the staged bytes: "none", "cached", "safe" or "torn"
  pc,
  published,       \* os.link succeeded
  temporary_exists,
  seen,            \* file whose descriptor a stable read holds
  existing,        \* existing_metadata: the file accepted in place of ours
  used,            \* intruders that have appeared
  faults, crashes

directoryVars == <<final, staged>>
durableVars   == <<durable_final, durable_staged>>
localVars     == <<published, temporary_exists, seen, existing>>
worldVars     == <<wanted, stranger_text, used, crashes>>
vars == <<directoryVars, durableVars, data, pc, localVars, worldVars, faults>>

Files   == Publishers \cup Strangers
Entries == Files \cup {NoFile}

Labels ==
  {"start", "write", "sync", "authenticate", "link", "check", "publish",
   "existing", "existing_read", "reachable", "stat_temp", "unlink_temp",
   "sync_unlink", "final", "final_read", "last_look", "return", "rollback",
   "rollback_unlink", "rollback_sync", "cleanup", "cleanup_unlink", "raise",
   "accepted", "failed", "crashed"}

Over(p)   == pc[p] \in {"accepted", "failed", "crashed"}
Active(p) == pc[p] # "start" /\ ~Over(p)

TypeOK ==
  /\ wanted \in [Publishers -> Payloads]
  /\ stranger_text \in [Strangers -> Payloads \cup {"other"}]
  /\ final \in Entries /\ durable_final \in Entries
  /\ staged \in [Publishers -> Entries]
  /\ durable_staged \in [Publishers -> Entries]
  /\ data \in [Publishers -> {"none", "cached", "safe", "torn"}]
  /\ pc \in [Publishers -> Labels]
  /\ published \in [Publishers -> BOOLEAN]
  /\ temporary_exists \in [Publishers -> BOOLEAN]
  /\ seen \in [Publishers -> Entries]
  /\ existing \in [Publishers -> Entries]
  /\ used \in SUBSET Intruders
  /\ faults \in 0 .. MaxFaults /\ crashes \in 0 .. MaxCrashes

(* The report's name is free, or taken by a file nobody here wrote. *)
Init ==
  /\ wanted \in [Publishers -> Payloads]
  /\ stranger_text \in [Strangers -> Payloads \cup {"other"}]
  /\ final \in Strangers \cup {NoFile}
  /\ durable_final = final
  /\ used = {}
  /\ staged = [p \in Publishers |-> NoFile]
  /\ durable_staged = staged
  /\ data = [p \in Publishers |-> "none"]
  /\ pc = [p \in Publishers |-> "start"]
  /\ published = [p \in Publishers |-> FALSE]
  /\ temporary_exists = [p \in Publishers |-> FALSE]
  /\ seen = [p \in Publishers |-> NoFile]
  /\ existing = [p \in Publishers |-> NoFile]
  /\ faults = 0 /\ crashes = 0

(* st_nlink *)
Links(f) ==
  Cardinality({p \in Publishers : staged[p] = f}) + (IF final = f THEN 1 ELSE 0)

Text(f) ==
  IF f \in Strangers THEN stranger_text[f]
  ELSE IF data[f] \in {"cached", "safe"} THEN wanted[f]
  ELSE "torn"

Goes(p, label)  == pc' = [pc EXCEPT ![p] = label] /\ UNCHANGED faults

(* A system call of p fails. *)
Fails(p, label) ==
  /\ faults < MaxFaults
  /\ faults' = faults + 1
  /\ pc' = [pc EXCEPT ![p] = label]

(* Where an exception raised after the link is handled. *)
Handler(p) == IF published[p] THEN "rollback" ELSE "cleanup"

(* fsync(parent) *)
SyncDirectory == durable_final' = final /\ durable_staged' = staged

-----------------------------------------------------------------------------
(* Staging. *)

(* os.open(O_CREAT | O_EXCL) and the first fstat.  When that fstat fails   *)
(* the temporary name is deliberately left behind.                         *)
Create(p) ==
  /\ pc[p] = "start"
  /\ Serialized => \A q \in Publishers : ~Active(q)
  /\ \/ /\ staged' = [staged EXCEPT ![p] = p]
        /\ \/ /\ temporary_exists' = [temporary_exists EXCEPT ![p] = TRUE]
              /\ Goes(p, "write")
           \/ Fails(p, "raise") /\ UNCHANGED temporary_exists
     \/ Fails(p, "raise") /\ UNCHANGED <<staged, temporary_exists>>
  /\ UNCHANGED <<final, durableVars, data, published, seen, existing, worldVars>>

(* fchmod, write, and the fsync that makes the bytes durable. *)
Write(p) ==
  /\ pc[p] = "write"
  /\ \/ data' = [data EXCEPT ![p] = "cached"] /\ Goes(p, "sync")
     \/ data' = [data EXCEPT ![p] = "torn"] /\ Fails(p, "cleanup")
  /\ UNCHANGED <<directoryVars, durableVars, localVars, worldVars>>

(* Mutant: os.fsync(descriptor) is missing. *)
WriteOnly(p) ==
  /\ pc[p] = "sync"
  /\ Goes(p, "authenticate")
  /\ UNCHANGED <<directoryVars, durableVars, data, localVars, worldVars>>

SyncData(p) ==
  /\ pc[p] = "sync"
  /\ \/ data' = [data EXCEPT ![p] = "safe"] /\ Goes(p, "authenticate")
     \/ UNCHANGED data /\ Fails(p, "cleanup")
  /\ UNCHANGED <<directoryVars, durableVars, localVars, worldVars>>

(* _authenticate_staged_before_link *)
Authenticate(p) ==
  /\ pc[p] = "authenticate"
  /\ \/ Goes(p, IF staged[p] = p /\ Links(p) = 1 THEN "link" ELSE "cleanup")
     \/ Fails(p, "cleanup")
  /\ UNCHANGED <<directoryVars, durableVars, data, localVars, worldVars>>

-----------------------------------------------------------------------------
(* Publication. *)

(* Mutant: rename in place of link. *)
LinkReplacing(p) ==
  /\ pc[p] = "link"
  /\ final' = staged[p]
  /\ published' = [published EXCEPT ![p] = TRUE]
  /\ Goes(p, "check")
  /\ UNCHANGED <<staged, durableVars, data, temporary_exists, seen, existing,
                 worldVars>>

(* os.link never replaces; it links whatever the temporary name resolves to*)
(* now.  FileExistsError leads to the reading of the file in place.        *)
Link(p) ==
  /\ pc[p] = "link"
  /\ \/ /\ staged[p] # NoFile /\ final = NoFile
        /\ final' = staged[p]
        /\ published' = [published EXCEPT ![p] = TRUE]
        /\ Goes(p, "check")
     \/ /\ staged[p] # NoFile /\ final # NoFile
        /\ Goes(p, "existing")
        /\ UNCHANGED <<final, published>>
     \/ /\ staged[p] = NoFile
        /\ Goes(p, "cleanup")
        /\ UNCHANGED <<final, published>>
     \/ Fails(p, "cleanup") /\ UNCHANGED <<final, published>>
  /\ UNCHANGED <<staged, durableVars, data, temporary_exists, seen, existing,
                 worldVars>>

(* _authenticate_staged_after_link *)
CheckLink(p) ==
  /\ pc[p] = "check"
  /\ \/ Goes(p, IF staged[p] = p /\ final = p /\ Links(p) = 2
                  THEN "publish" ELSE "rollback")
     \/ Fails(p, "rollback")
  /\ UNCHANGED <<directoryVars, durableVars, data, localVars, worldVars>>

SyncLink(p) ==
  /\ pc[p] = "publish"
  /\ \/ SyncDirectory /\ Goes(p, "reachable")
     \/ UNCHANGED durableVars /\ Fails(p, "rollback")
  /\ UNCHANGED <<directoryVars, data, localVars, worldVars>>

(* _assert_parent_reachable, in the middle of the call. *)
ParentReachable(p) ==
  /\ pc[p] = "reachable"
  /\ Goes(p, "stat_temp") \/ Fails(p, Handler(p))
  /\ UNCHANGED <<directoryVars, durableVars, data, localVars, worldVars>>

(* _unlink_temporary_if_same(fail_closed=True): a stat, then an unlink. *)
StatTemporary(p) ==
  /\ pc[p] = "stat_temp"
  /\ \/ Goes(p, IF staged[p] = p THEN "unlink_temp" ELSE Handler(p))
     \/ Fails(p, Handler(p))
  /\ UNCHANGED <<directoryVars, durableVars, data, localVars, worldVars>>

UnlinkTemporary(p) ==
  /\ pc[p] = "unlink_temp"
  /\ \/ /\ staged' = [staged EXCEPT ![p] = NoFile]
        /\ temporary_exists' = [temporary_exists EXCEPT ![p] = FALSE]
        /\ Goes(p, "sync_unlink")
     \/ Fails(p, Handler(p)) /\ UNCHANGED <<staged, temporary_exists>>
  /\ UNCHANGED <<final, durableVars, data, published, seen, existing, worldVars>>

(* Mutant: the second fsync of the parent looks redundant. *)
UnlinkNotSynced(p) ==
  /\ pc[p] = "sync_unlink"
  /\ Goes(p, "final")
  /\ UNCHANGED <<directoryVars, durableVars, data, localVars, worldVars>>

SyncUnlink(p) ==
  /\ pc[p] = "sync_unlink"
  /\ \/ SyncDirectory /\ Goes(p, "final")
     \/ UNCHANGED durableVars /\ Fails(p, Handler(p))
  /\ UNCHANGED <<directoryVars, data, localVars, worldVars>>
-----------------------------------------------------------------------------
(* _read_existing_regular_snapshot_at: a stable read in two steps, the stat *)
(* and open before it and the fstat and stat after it.                     *)

BeginRead(p, reading, handler) ==
  /\ \/ IF final # NoFile /\ Links(final) = 1
          THEN seen' = [seen EXCEPT ![p] = final] /\ Goes(p, reading)
          ELSE UNCHANGED seen /\ Goes(p, handler)
     \/ UNCHANGED seen /\ Fails(p, handler)
  /\ UNCHANGED <<directoryVars, durableVars, data, published,
                 temporary_exists, existing, worldVars>>

(* Mutant: any stable report is taken for ours. *)
ReadStable(p) == final = seen[p] /\ Links(final) = 1

ReadExactly(p) ==
  /\ final = seen[p] /\ Links(final) = 1
  /\ Text(seen[p]) = wanted[p]

BeginExisting(p) == pc[p] = "existing" /\ BeginRead(p, "existing_read", "cleanup")

EndExisting(p) ==
  /\ pc[p] = "existing_read"
  /\ \/ IF ReadExactly(p)
          THEN existing' = [existing EXCEPT ![p] = final] /\ Goes(p, "reachable")
          ELSE UNCHANGED existing /\ Goes(p, "cleanup")
     \/ UNCHANGED existing /\ Fails(p, "cleanup")
  /\ UNCHANGED <<directoryVars, durableVars, data, published,
                 temporary_exists, seen, worldVars>>

(* _authenticate_final_exact *)
BeginFinal(p) == pc[p] = "final" /\ BeginRead(p, "final_read", Handler(p))

(* Mutant: the file read back is always expected to be the staged one. *)
ExpectedOwn(p) == p

Expected(p) == IF published[p] THEN p ELSE existing[p]

EndFinal(p) ==
  /\ pc[p] = "final_read"
  /\ \/ Goes(p, IF ReadExactly(p) /\ final = Expected(p)
                  THEN "last_look" ELSE Handler(p))
     \/ Fails(p, Handler(p))
  /\ UNCHANGED <<directoryVars, durableVars, data, localVars, worldVars>>

LastLook(p) ==
  /\ pc[p] = "last_look"
  /\ Goes(p, "return") \/ Fails(p, Handler(p))
  /\ UNCHANGED <<directoryVars, durableVars, data, localVars, worldVars>>

(* The fsync of the finally block can still turn success into an error.    *)
Return(p) ==
  /\ pc[p] = "return"
  /\ \/ SyncDirectory /\ Goes(p, "accepted")
     \/ UNCHANGED durableVars /\ Fails(p, "failed")
  /\ UNCHANGED <<directoryVars, data, localVars, worldVars>>

-----------------------------------------------------------------------------
(* Taking a publication back: _unlink_published_if_same. *)

(* Mutant: whatever has the report's name is taken back. *)
StatPublishedBlindly(p) ==
  /\ pc[p] = "rollback"
  /\ Goes(p, IF final # NoFile THEN "rollback_unlink" ELSE "rollback_sync")
  /\ UNCHANGED <<directoryVars, durableVars, data, localVars, worldVars>>

StatPublished(p) ==
  /\ pc[p] = "rollback"
  /\ \/ Goes(p, IF final = p           THEN "rollback_unlink"
                ELSE IF final = NoFile THEN "rollback_sync"
                ELSE "cleanup")
     \/ Fails(p, "cleanup")
  /\ UNCHANGED <<directoryVars, durableVars, data, localVars, worldVars>>

UnlinkPublished(p) ==
  /\ pc[p] = "rollback_unlink"
  /\ \/ final' = NoFile /\ Goes(p, "rollback_sync")
     \/ UNCHANGED final /\ Fails(p, "cleanup")
  /\ UNCHANGED <<staged, durableVars, data, localVars, worldVars>>

SyncRollback(p) ==
  /\ pc[p] = "rollback_sync"
  /\ \/ SyncDirectory /\ Goes(p, "cleanup")
     \/ UNCHANGED durableVars /\ Fails(p, "cleanup")
  /\ UNCHANGED <<directoryVars, data, localVars, worldVars>>

(* The finally block: _unlink_temporary_if_same(fail_closed=False). *)
StatCleanup(p) ==
  /\ pc[p] = "cleanup"
  /\ \/ Goes(p, IF temporary_exists[p] /\ staged[p] = p
                  THEN "cleanup_unlink" ELSE "raise")
     \/ temporary_exists[p] /\ Fails(p, "raise")
  /\ UNCHANGED <<directoryVars, durableVars, data, localVars, worldVars>>

UnlinkCleanup(p) ==
  /\ pc[p] = "cleanup_unlink"
  /\ \/ staged' = [staged EXCEPT ![p] = NoFile] /\ Goes(p, "raise")
     \/ UNCHANGED staged /\ Fails(p, "raise")
  /\ UNCHANGED <<final, durableVars, data, localVars, worldVars>>

Raise(p) ==
  /\ pc[p] = "raise"
  /\ \/ SyncDirectory /\ Goes(p, "failed")
     \/ UNCHANGED durableVars /\ Fails(p, "failed")
  /\ UNCHANGED <<directoryVars, data, localVars, worldVars>>

Publication(p) ==
  \/ Create(p) \/ Write(p) \/ SyncData(p) \/ Authenticate(p)
  \/ Link(p) \/ CheckLink(p) \/ SyncLink(p)
  \/ BeginExisting(p) \/ EndExisting(p)
  \/ ParentReachable(p) \/ StatTemporary(p) \/ UnlinkTemporary(p)
  \/ SyncUnlink(p) \/ BeginFinal(p) \/ EndFinal(p) \/ LastLook(p) \/ Return(p)
  \/ StatPublished(p) \/ UnlinkPublished(p) \/ SyncRollback(p)
  \/ StatCleanup(p) \/ UnlinkCleanup(p) \/ Raise(p)

-----------------------------------------------------------------------------
(* The world around the calls. *)

(* The process of one call is killed. *)
Crash(p) ==
  /\ Active(p)
  /\ crashes < MaxCrashes
  /\ crashes' = crashes + 1
  /\ pc' = [pc EXCEPT ![p] = "crashed"]
  /\ UNCHANGED <<directoryVars, durableVars, data, localVars, wanted,
                 stranger_text, used, faults>>

(* Every entry not yet synchronised may be kept or lost on its own, and a  *)
(* file whose bytes were not synchronised may come back torn.              *)
PowerFailure ==
  /\ crashes < MaxCrashes
  /\ crashes' = crashes + 1
  /\ pc' = [p \in Publishers |-> IF Active(p) THEN "crashed" ELSE pc[p]]
  /\ final' \in {final, durable_final}
  /\ \E lost, torn \in SUBSET Publishers :
       /\ staged' = [p \in Publishers |->
                       IF p \in lost THEN durable_staged[p] ELSE staged[p]]
       /\ data' = [p \in Publishers |->
                     IF p \in torn /\ data[p] = "cached" THEN "torn" ELSE data[p]]
  /\ durable_final' = final' /\ durable_staged' = staged'
  /\ UNCHANGED <<localVars, wanted, stranger_text, used, faults>>

(* Another program renames its file over one of the names.  The intervals  *)
(* between a stat and its unlink are excluded, as the module says.         *)
Displace(s) ==
  /\ s \notin used /\ s # final
  /\ used' = used \cup {s}
  /\ \/ /\ \A p \in Publishers : pc[p] # "rollback_unlink"
        /\ final' = s
        /\ UNCHANGED staged
     \/ \E p \in Publishers :
          /\ Active(p) /\ pc[p] \notin {"unlink_temp", "cleanup_unlink"}
          /\ staged[p] # NoFile
          /\ staged' = [staged EXCEPT ![p] = s]
          /\ UNCHANGED final
  /\ UNCHANGED <<durableVars, data, pc, localVars, wanted, stranger_text,
                 faults, crashes>>

Next ==
  \/ \E p \in Publishers : Publication(p) \/ Crash(p)
  \/ PowerFailure
  \/ \E s \in Intruders : Displace(s)
  \/ (\A p \in Publishers : Over(p)) /\ UNCHANGED vars

Spec == Init /\ [][Next]_vars
-----------------------------------------------------------------------------
(* Correctness. *)

(* A file of ours under the report's name is complete, even when power was *)
(* lost at the worst moment: bytes reach the disk before the link does.    *)
NoTornReport == final \in Publishers => Text(final) # "torn"

(* Files of other programs are only removed by other programs (or with the *)
(* power): neither publication nor rollback nor cleanup touches them.      *)
StrangersUntouched ==
  [][\A s \in Strangers :
       /\ final = s /\ final' # s => used' # used \/ crashes' # crashes
       /\ \A p \in Publishers : staged[p] = s /\ staged'[p] # s =>
                                  used' # used \/ crashes' # crashes]_vars

(* A call that raises after at most one failing system call leaves either  *)
(* no report of its own or a complete, durable one with a single link.     *)
FailedCleanly ==
  \A p \in Publishers :
    pc[p] = "failed" /\ faults <= 1 /\ final = p
      => durable_final = p /\ Links(p) = 1 /\ Text(p) = wanted[p]

(* Without a failing call, a crash or another program, a call is rejected  *)
(* only because of another call's report: a different one, or one that is  *)
(* still being published.  So somebody always succeeds, and callers that   *)
(* take turns with the same text all succeed.                              *)
RejectionJustified ==
  \A p \in Publishers :
    pc[p] = "failed" /\ faults = 0 /\ crashes = 0 /\ used = {}
      => /\ final \notin {NoFile, p}
         /\ Serialized \/ final \in Strangers => Text(final) # wanted[p]
         /\ final \in Publishers => pc[final] # "failed"

(* The register seen by the callers. *)
Answer(p) == IF pc[p] \in {"accepted", "failed"} THEN pc[p] ELSE "none"

Nothing == [by |-> NoFile, text |-> "none"]

Report  == IF final = NoFile THEN Nothing ELSE [by |-> final, text |-> Text(final)]

Register == INSTANCE ReportRegister
  WITH Callers <- Publishers, NoReport <- Nothing, report <- Report,
       answer <- [p \in Publishers |-> Answer(p)],
       outages <- crashes

(* Calls made one at a time implement the register whatever fails, and     *)
(* racing calls do when no system call fails.                              *)
RegisterSpec == Register!Spec
=============================================================================
