---------------------------- MODULE SnapshotArchive ----------------------------
(***************************************************************************)
(* The archive of the workspace: written by PID 1 in C                     *)
(* (cbds-development-candidate-supervisor.c, build_workspace_snapshot) and   *)
(* parsed in Python (development_candidate_workspace_snapshot.py).         *)
(*                                                                         *)
(* A path is a sequence of names, a name a sequence of bytes.  Modes and    *)
(* payloads are carried along unchanged by both sides and left out but for  *)
(* their sizes.  The tree does not change while it is read: the archive is  *)
(* written when PID 1 is alone.                                            *)
(***************************************************************************)
EXTENDS Naturals, Sequences, FiniteSets, FiniteSetsExt, SequencesExt, Ranking

CONSTANTS
  Trees,          \* functions from non-empty paths, closed under parents
  Caps,           \* what requests allow: workspace_snapshot_cap_bytes
  InputName,      \* the top-level "input"
  SeparatorByte,  \* '/'
  UnsafeNames,    \* names that are not UTF-8, hold control characters, ...
  HeaderBytes, EntryBytes,
  MaxDepth, MaxEntries, MaxPathBytes, MaxRegular, MaxTarget, MaxTotal

VARIABLES
  workspace, cap,
  frames,         \* the calls of snapshot_directory: path and names to visit
  entries, used, total, count,   \* struct snapshot_buffer; count in the header
  outcome         \* "writing", or what build_workspace_snapshot returned

archiveVars == <<workspace, cap, frames, entries, used, total, count, outcome>>

Root == [kind |-> "directory", size |-> 0, safe |-> TRUE]
Node(path) == IF path = <<>> THEN Root ELSE workspace[path]

(* compare_names: strcmp, and Python's order of byte strings.              *)
ByteBefore(m, n) ==
  \E i \in 1 .. Len(n) :
     /\ i <= Len(m) + 1 /\ SubSeq(m, 1, i - 1) = SubSeq(n, 1, i - 1)
     /\ i <= Len(m) => m[i] < n[i]

(* join_snapshot_path.                                                     *)
Joined(path) ==
  FoldLeft(LAMBDA text, name : IF text = <<>> THEN name
                               ELSE Append(text, SeparatorByte) \o name, <<>>, path)

(* read_sorted_names: what readdir gives, without "." and "..".            *)
SortedNames(path) ==
  Ranked({Last(child) : child \in {q \in DOMAIN workspace : Front(q) = path}}, ByteBefore)

(***************************************************************************)
(* The writer                                                              *)
(***************************************************************************)
Ceiling == cap + 1

ArchiveInit ==
  /\ workspace \in Trees /\ cap \in Caps
  /\ frames = <<[path |-> <<>>, names |-> <<>>, opened |-> FALSE]>>
  /\ entries = <<>> /\ total = 0 /\ count = 0
  /\ used = IF HeaderBytes <= Ceiling THEN HeaderBytes ELSE Ceiling
  /\ outcome = IF HeaderBytes <= Ceiling THEN "writing" ELSE "overflow"

(* The checks of snapshot_record_header, and the room in the buffer.       *)
HasRoom(path, size) ==
  /\ Len(Joined(path)) <= MaxPathBytes
  /\ Len(entries) < MaxEntries
  /\ used + EntryBytes + Len(Joined(path)) + size <= Ceiling

(* snapshot_record_header, then the payload.                               *)
Record(path, size) ==
  /\ entries' = Append(entries, [path |-> path, kind |-> Node(path).kind,
                                 size |-> size, safe |-> Node(path).safe])
  /\ used' = used + EntryBytes + Len(Joined(path)) + size
  /\ UNCHANGED <<workspace, cap, count, outcome>>

(* snapshot_append when the room ends, and snapshot_force_overflow.        *)
Overflow ==
  /\ outcome' = "overflow" /\ used' = Ceiling
  /\ UNCHANGED <<workspace, cap, frames, entries, total, count>>

Writing == outcome = "writing"
Frame == Last(frames)

(* snapshot_directory: its own record, then its names.                     *)
OpenDirectory ==
  /\ Writing /\ frames # <<>> /\ ~Frame.opened
  /\ LET path == Frame.path
         names == SortedNames(path)
     IN \/ /\ Len(path) <= MaxDepth /\ HasRoom(path, 0)
           /\ Len(path) < MaxDepth \/ names = <<>>
           /\ Record(path, 0)
           /\ frames' = Append(Front(frames),
                               [path |-> path, names |-> names, opened |-> TRUE])
           /\ UNCHANGED total
        \/ /\ \/ Len(path) > MaxDepth \/ ~HasRoom(path, 0)
              \/ Len(path) >= MaxDepth /\ names # <<>>
           /\ Overflow

Visiting == Writing /\ frames # <<>> /\ Frame.opened /\ Frame.names # <<>>
Child == Append(Frame.path, Head(Frame.names))
Excluded(path) == path = <<InputName>>
Advance == Append(Front(frames), [Frame EXCEPT !.names = Tail(@)])

(* The loop in snapshot_directory passes over the top-level input.         *)
SkipInput ==
  /\ Visiting /\ Excluded(Child)
  /\ frames' = Advance
  /\ UNCHANGED <<workspace, cap, entries, used, total, count, outcome>>

EnterDirectory ==
  /\ Visiting /\ ~Excluded(Child) /\ Node(Child).kind = "directory"
  /\ frames' = Append(Advance, [path |-> Child, names |-> <<>>, opened |-> FALSE])
  /\ UNCHANGED <<workspace, cap, entries, used, total, count, outcome>>

(* snapshot_regular and snapshot_symlink.                                  *)
PayloadLimit(kind) == CASE kind = "regular" -> MaxRegular
                        [] kind = "symlink" -> MaxTarget
                        [] OTHER -> 0
Payload(kind) ==
  /\ Visiting /\ ~Excluded(Child) /\ Node(Child).kind = kind
  /\ LET size == Node(Child).size
     IN \/ /\ size <= PayloadLimit(kind) /\ total + size <= MaxTotal
           /\ HasRoom(Child, size)
           /\ Record(Child, size)
           /\ total' = total + size /\ frames' = Advance
        \/ /\ size > PayloadLimit(kind) \/ total + size > MaxTotal \/ ~HasRoom(Child, size)
           /\ Overflow

Regular == Payload("regular")
Symlink == Payload("symlink")

Fail ==
  /\ outcome' = "failed"
  /\ UNCHANGED <<workspace, cap, frames, entries, used, total, count>>

(* A FIFO, a socket or a device.                                           *)
Special == Visiting /\ ~Excluded(Child) /\ Node(Child).kind = "special" /\ Fail

LeaveDirectory ==
  /\ Writing /\ frames # <<>> /\ Frame.opened /\ Frame.names = <<>>
  /\ frames' = Front(frames)
  /\ UNCHANGED <<workspace, cap, entries, used, total, count, outcome>>

(* The end of build_workspace_snapshot: only a whole archive has a count.  *)
PatchCount ==
  /\ Writing /\ frames = <<>>
  /\ count' = Len(entries) /\ outcome' = "written"
  /\ UNCHANGED <<workspace, cap, frames, entries, used, total>>

ArchiveNext ==
  \/ OpenDirectory \/ SkipInput \/ EnterDirectory \/ Regular \/ Symlink \/ Special
  \/ LeaveDirectory \/ PatchCount

ArchiveSpec == ArchiveInit /\ [][ArchiveNext]_archiveVars

(* main: FLAG_WORKSPACE_SNAPSHOT_OVERFLOW.                                 *)
OverflowFlag == outcome = "overflow" \/ used = Ceiling

(***************************************************************************)
(* The parser                                                              *)
(***************************************************************************)
(* _validate_relative_components, for paths.                               *)
SafePath(path) ==
  /\ Len(path) <= MaxDepth
  /\ \A i \in DOMAIN path : path[i] \notin UnsafeNames

(* Mutant: whole paths are compared, separators included. *)
FlatBefore(p, q) == ByteBefore(Joined(p), Joined(q))

(* _canonical_preorder: a directory, then below it; siblings by basename.  *)
PreorderBefore(p, q) ==
  \/ IsStrictPrefix(p, q)
  \/ \E i \in DOMAIN p \cap DOMAIN q :
       SubSeq(p, 1, i - 1) = SubSeq(q, 1, i - 1) /\ ByteBefore(p[i], q[i])

(* _validate_entry_sequence.                                               *)
ValidSequence ==
  LET path(i) == entries[i].path
  IN /\ Len(entries) \in 1 .. MaxEntries
     /\ path(1) = <<>> /\ entries[1].kind = "directory"
     /\ MapThenSumSet(LAMBDA i : entries[i].size, DOMAIN entries) <= MaxTotal
     /\ \A i \in 2 .. Len(entries) :
          /\ path(i) # <<>> /\ path(i)[1] # InputName
          /\ \E j \in DOMAIN entries :
               path(j) = Front(path(i)) /\ entries[j].kind = "directory"
          /\ PreorderBefore(path(i - 1), path(i))

(* parse_development_candidate_workspace_snapshot on what was written.     *)
ParserAccepts ==
  /\ used >= HeaderBytes /\ count \in 1 .. MaxEntries /\ count = Len(entries)
  /\ \A i \in DOMAIN entries :
       LET e == entries[i]
       IN /\ Len(Joined(e.path)) <= MaxPathBytes /\ SafePath(e.path)
          /\ e.size <= PayloadLimit(e.kind)
          /\ e.kind = "symlink" => e.safe
  /\ used = HeaderBytes + MapThenSumSet(
              LAMBDA i : EntryBytes + Len(Joined(entries[i].path)) + entries[i].size,
              DOMAIN entries)
  /\ ValidSequence

(***************************************************************************)
(* What both sides owe each other                                          *)
(***************************************************************************)
Projection == {<<>>} \cup {p \in DOMAIN workspace : p[1] # InputName}

TooLarge ==
  LET archived == {p \in Projection : Node(p).kind # "special"}
      payload(p) == Node(p).size
  IN \/ Cardinality(archived) > MaxEntries
     \/ \E p \in Projection : Len(p) > MaxDepth
     \/ \E p \in archived : \/ Len(Joined(p)) > MaxPathBytes
                            \/ payload(p) > PayloadLimit(Node(p).kind)
     \/ MapThenSumSet(payload, archived) > MaxTotal
     \/ HeaderBytes + MapThenSumSet(LAMBDA p : EntryBytes + Len(Joined(p)) + payload(p),
                                    archived) > cap

Presentable ==
  \A p \in Projection : SafePath(p) /\ (Node(p).kind = "symlink" => Node(p).safe)

Whole ==
  /\ {[path |-> p, kind |-> Node(p).kind, size |-> Node(p).size, safe |-> Node(p).safe]
        : p \in Projection} = Range(entries)
  /\ Len(entries) = Cardinality(Projection)

(* The two programs agree on every tree: an archive that is not marked as   *)
(* overflowing is the whole workspace without its input, and the parser     *)
(* takes it unless a name or a link is one it refuses; a tree is marked      *)
(* exactly when a limit is passed; a part of an archive is never taken for  *)
(* a whole one; and the writer gives up only before a special file.         *)
ArchiveRight ==
  /\ outcome = "written" => Whole /\ (ParserAccepts <=> Presentable)
  /\ outcome \in {"written", "overflow"} => (OverflowFlag <=> TooLarge)
  /\ outcome # "written" => ~ParserAccepts
  /\ outcome = "failed" => \E p \in Projection : Node(p).kind = "special"
=============================================================================
