------------------------------ MODULE FdSnapshot ------------------------------
(***************************************************************************)
(* The runtime's regular files captured into sealed memfds and handed out  *)
(* by threads: development_runtime_fd_snapshot.py.                         *)
(*                                                                         *)
(* A file is a member of Slots with the content its evidence names         *)
(* ("right") or another one.  The descriptor table is shared with the rest *)
(* of the process (tenants); a new descriptor takes any free number.  The  *)
(* descriptors that a function opens and closes again are left out, and so *)
(* are the modes, which a seal does not protect.                           *)
(***************************************************************************)
EXTENDS Naturals, Sequences, SequencesExt

CONSTANTS
  SlotCount,     \* regular entries of the evidence, in order
  Numbers,       \* descriptor numbers
  Users,         \* threads that use the snapshot
  Tenants,       \* threads that open and close files of their own
  MaxTampering      \* bound: writes by another process of the same user

Slots == 1 .. SlotCount
Nothing == 0     \* a free number, and no number
ASSUME SnapshotAssumption ==
  /\ SlotCount \in Nat \ {0} /\ MaxTampering \in Nat
  /\ Nothing \notin Numbers \cup Users \cup Tenants
  /\ Tenants \cap Slots = {}

VARIABLES
  source, payload,  \* content of the materialised files and of the memfds
  sealed,
  dirty,            \* the file being captured has changed since it was opened
  touched,          \* a file has changed since the first scan
  table,            \* what each number refers to: a memfd, a tenant's file, Nothing
  capture,          \* where snapshot_development_runtime_for_launch is
  slot, memfd, captured,
  owned, closed,    \* _owned_descriptors and _closed of the object
  lock,             \* _lifecycle_lock
  act, mine,        \* per user: what it does, and the numbers it has to close
  held,             \* per tenant: the number of its file
  tampering

fdVars == <<source, payload, sealed, dirty, touched, table, capture, slot, memfd, captured,
            owned, closed, lock, act, mine, held, tampering>>
contentVars == <<source, payload, sealed, dirty, touched, tampering>>
captureVars == <<capture, slot, memfd, captured>>
objectVars  == <<owned, closed, lock>>
threadVars  == <<act, mine, held>>

FdInit ==
  /\ source = [s \in Slots |-> "right"] /\ payload = [s \in Slots |-> "empty"]
  /\ sealed = [s \in Slots |-> FALSE] /\ dirty = FALSE /\ touched = FALSE
  /\ table = [n \in Numbers |-> Nothing]
  /\ capture = "scan" /\ slot = 1 /\ memfd = Nothing /\ captured = <<>>
  /\ owned = <<>> /\ closed = FALSE /\ lock = Nothing
  /\ act = [u \in Users |-> "idle"] /\ mine = [u \in Users |-> <<>>]
  /\ held = [t \in Tenants |-> Nothing] /\ tampering = 0

(* os.close: of whatever the number refers to by now; EBADF is ignored.    *)
Close(n) == table' = [table EXCEPT ![n] = Nothing]
Opened(n, file) == table[n] = Nothing /\ table' = [table EXCEPT ![n] = file]

(***************************************************************************)
(* snapshot_development_runtime_for_launch                                 *)
(***************************************************************************)
(* An error, or an interrupt: the finally blocks follow.                   *)
Raise ==
  /\ capture \in {"scan", "create", "copy", "check", "seal", "rescan", "verify"}
  /\ capture' = "cleanup"
  /\ UNCHANGED <<slot, memfd, captured, table, contentVars, objectVars, threadVars>>

FirstScan ==
  /\ capture = "scan" /\ \A s \in Slots : source[s] = "right"
  /\ capture' = "create" /\ touched' = FALSE
  /\ UNCHANGED <<slot, memfd, captured, source, payload, sealed, dirty, tampering, table,
                 objectVars, threadVars>>

(* _capture_regular_memfd, up to memfd_create.                             *)
MemfdCreate ==
  /\ capture = "create"
  /\ \E n \in Numbers : Opened(n, slot) /\ memfd' = n
  /\ capture' = "copy" /\ dirty' = FALSE
  /\ UNCHANGED <<slot, captured, source, payload, sealed, touched, tampering, objectVars,
                 threadVars>>

(* The blocks are hashed as they are written; then the file is looked at    *)
(* once more.                                                              *)
Copy ==
  /\ capture = "copy" /\ source[slot] = "right" /\ ~dirty
  /\ payload' = [payload EXCEPT ![slot] = source[slot]]
  /\ capture' = "check"
  /\ UNCHANGED <<slot, memfd, captured, source, sealed, dirty, touched, tampering, table,
                 objectVars, threadVars>>

Check ==
  /\ capture = "check" /\ payload[slot] = "right"
  /\ capture' = "seal"
  /\ UNCHANGED <<slot, memfd, captured, table, contentVars, objectVars, threadVars>>

Seal ==
  /\ capture = "seal"
  /\ sealed' = [sealed EXCEPT ![slot] = TRUE]
  /\ captured' = Append(captured, memfd) /\ memfd' = Nothing
  /\ IF slot = SlotCount
     THEN capture' = "rescan" /\ UNCHANGED slot
     ELSE capture' = "create" /\ slot' = slot + 1
  /\ UNCHANGED <<source, payload, dirty, touched, tampering, table, objectVars, threadVars>>

(* The second scan, then the object: the dataclass sets its fields.        *)
SecondScan ==
  /\ capture = "rescan" /\ ~touched
  /\ capture' = "verify" /\ slot' = 1 /\ owned' = captured
  /\ UNCHANGED <<memfd, captured, table, contentVars, closed, lock, threadVars>>

(* Mutant: only the seals and the file are looked at. *)
SealsVerified(n, s) == table[n] = s /\ sealed[s]

(* _verify_owned_descriptor.                                               *)
Verified(n, s) == table[n] = s /\ sealed[s] /\ payload[s] = "right"

(* __post_init__; at its end captured is cleared and the object returned.  *)
PostInit ==
  /\ capture = "verify" /\ Verified(owned[slot], slot)
  /\ IF slot = SlotCount
     THEN capture' = "ready" /\ captured' = <<>> /\ UNCHANGED slot
     ELSE slot' = slot + 1 /\ UNCHANGED <<capture, captured>>
  /\ UNCHANGED <<memfd, table, contentVars, objectVars, threadVars>>

Cleanup ==
  /\ capture = "cleanup"
  /\ IF memfd # Nothing
     THEN Close(memfd) /\ memfd' = Nothing /\ UNCHANGED <<capture, captured>>
     ELSE IF captured # <<>>
     THEN Close(Last(captured)) /\ captured' = Front(captured) /\ UNCHANGED <<capture, memfd>>
     ELSE capture' = "failed" /\ UNCHANGED <<captured, memfd, table>>
  /\ UNCHANGED <<slot, contentVars, objectVars, threadVars>>

(* The caller drops the exception, and with its traceback the object whose  *)
(* __post_init__ failed: __del__ closes what the object still owns.        *)
Finalizer ==
  /\ capture = "failed" /\ owned # <<>>
  /\ Close(Head(owned)) /\ owned' = Tail(owned) /\ closed' = TRUE
  /\ UNCHANGED <<captureVars, contentVars, lock, threadVars>>

(***************************************************************************)
(* The object's methods                                                    *)
(***************************************************************************)
Become(u, what) == act' = [act EXCEPT ![u] = what]

(* duplicate_regular_fd takes the lock; a closed snapshot refuses.         *)
Duplicate(u) ==
  /\ capture = "ready" /\ act[u] = "idle" /\ lock = Nothing
  /\ IF closed THEN Become(u, "done") /\ UNCHANGED lock
               ELSE Become(u, "reopen") /\ lock' = u
  /\ UNCHANGED <<captureVars, contentVars, table, owned, closed, mine, held>>

Reopen(u) ==
  /\ act[u] = "reopen"
  /\ \E s \in Slots, n \in Numbers :
        /\ Verified(owned[s], s)
        /\ Opened(n, s) /\ mine' = [mine EXCEPT ![u] = <<n>>]
  /\ Become(u, "compare")
  /\ UNCHANGED <<captureVars, contentVars, objectVars, held>>

(* The new descriptor is verified, and returned to the caller.             *)
Return(u) ==
  /\ act[u] = "compare" /\ Verified(mine[u][1], table[mine[u][1]])
  /\ Become(u, "using") /\ lock' = Nothing
  /\ UNCHANGED <<captureVars, contentVars, table, owned, closed, mine, held>>

(* An error under the lock: finally closes what was reopened.              *)
Refuse(u) ==
  /\ act[u] \in {"reopen", "compare"} /\ lock' = Nothing
  /\ IF mine[u] = <<>> THEN UNCHANGED table ELSE Close(mine[u][1])
  /\ mine' = [mine EXCEPT ![u] = <<>>] /\ Become(u, "done")
  /\ UNCHANGED <<captureVars, contentVars, owned, closed, held>>

(* close: the descriptors are taken from the object under the lock, and     *)
(* closed one by one without it.                                           *)
TakeOwned(u) ==
  /\ capture = "ready" /\ act[u] = "idle" /\ lock = Nothing
  /\ IF closed
     THEN Become(u, "done") /\ UNCHANGED <<mine, owned, closed>>
     ELSE /\ mine' = [mine EXCEPT ![u] = owned] /\ owned' = <<>> /\ closed' = TRUE
          /\ Become(u, "using")
  /\ UNCHANGED <<captureVars, contentVars, table, lock, held>>

(* A number a user has to close: its duplicate, or the object's.           *)
CloseMine(u) ==
  /\ act[u] = "using" /\ mine[u] # <<>>
  /\ Close(Head(mine[u])) /\ mine' = [mine EXCEPT ![u] = Tail(@)]
  /\ IF Len(mine[u]) = 1 THEN Become(u, "done") ELSE UNCHANGED act
  /\ UNCHANGED <<captureVars, contentVars, objectVars, held>>

(***************************************************************************)
(* Everybody else                                                          *)
(***************************************************************************)
TenantOpens(t) ==
  /\ held[t] = Nothing
  /\ \E n \in Numbers : Opened(n, t) /\ held' = [held EXCEPT ![t] = n]
  /\ UNCHANGED <<captureVars, contentVars, objectVars, act, mine>>

TenantCloses(t) ==
  /\ held[t] # Nothing
  /\ Close(held[t]) /\ held' = [held EXCEPT ![t] = Nothing]
  /\ UNCHANGED <<captureVars, contentVars, objectVars, act, mine>>

(* Another process of the same user writes to a file of the tree, or to a   *)
(* memfd through /proc as long as it is not sealed.                        *)
WriteSource(s) ==
  /\ tampering < MaxTampering /\ tampering' = tampering + 1
  /\ \E content \in {"right", "wrong"} : source' = [source EXCEPT ![s] = content]
  /\ dirty' = (dirty \/ s = slot) /\ touched' = TRUE
  /\ UNCHANGED <<payload, sealed, captureVars, table, objectVars, threadVars>>

WriteMemfd(s) ==
  /\ tampering < MaxTampering /\ tampering' = tampering + 1
  /\ payload[s] # "empty" /\ ~sealed[s] /\ \E n \in Numbers : table[n] = s
  /\ payload' = [payload EXCEPT ![s] = "wrong"]
  /\ UNCHANGED <<source, sealed, dirty, touched, captureVars, table, objectVars, threadVars>>

Method(u) ==
  Duplicate(u) \/ Reopen(u) \/ Return(u) \/ Refuse(u) \/ TakeOwned(u) \/ CloseMine(u)

Elsewhere ==
  \/ \E t \in Tenants : TenantOpens(t) \/ TenantCloses(t)
  \/ \E s \in Slots : WriteSource(s) \/ WriteMemfd(s)

FdNext ==
  \/ Raise \/ FirstScan \/ MemfdCreate \/ Copy \/ Check \/ Seal \/ SecondScan \/ PostInit
  \/ Cleanup \/ Finalizer \/ Elsewhere
  \/ \E u \in Users : Method(u)

FdSpec == FdInit /\ [][FdNext]_fdVars

(***************************************************************************)
(* What its callers rely on                                                *)
(***************************************************************************)
(* A descriptor stays what it was opened for until its holder closes it:   *)
(* close() says that it releases every owned descriptor exactly once.      *)
DescriptorsKept ==
  \A t \in Tenants : held[t] # Nothing => table[held[t]] = t

Authentic(n) == table[n] \in Slots /\ sealed[table[n]] /\ payload[table[n]] = "right"

Handles ==
  (IF capture = "ready" THEN ToSet(owned) ELSE {}) \cup UNION {ToSet(mine[u]) : u \in Users}

(* Who may still close a number that refers to a memfd.                    *)
Accountable ==
  ToSet(owned) \cup ToSet(captured) \cup {memfd} \cup UNION {ToSet(mine[u]) : u \in Users}

(* Every descriptor the snapshot holds or has given out is sealed and holds *)
(* what the evidence says, however threads, writers and errors interleave;  *)
(* none is left open that nobody will close; and unless the verification of *)
(* a new object failed, nobody loses a descriptor to somebody else's close. *)
SnapshotRight ==
  /\ \A n \in Handles : Authentic(n)
  /\ \A n \in Numbers : table[n] \in Slots => n \in Accountable
  /\ capture = "failed" => \A n \in Numbers : table[n] \notin Slots
  /\ ~(capture = "failed" /\ closed) => DescriptorsKept
=============================================================================
