----------------------- MODULE ReportPublicationProofs -----------------------
(***************************************************************************)
(* For any number of calls, strangers, payloads, faults and crashes, taking *)
(* turns or racing: types, that a report of ours is never torn, and that    *)
(* files of other programs are left alone.                                 *)
(***************************************************************************)
EXTENDS ReportPublication, FiniteSetTheorems, TLAPS

USE PublicationAssumption DEF Files, Entries

-----------------------------------------------------------------------------
(* Types. *)

LEMMA InitType == Init => TypeOK
  BY DEF Init, TypeOK, Labels

(* A step of p moves its program counter to a label and may spend one fault.*)
LEMMA GoesType ==
  ASSUME TypeOK, NEW p \in Publishers, NEW label \in Labels,
         Goes(p, label) \/ Fails(p, label)
  PROVE  pc' \in [Publishers -> Labels] /\ faults' \in 0 .. MaxFaults
  BY DEF TypeOK, Goes, Fails

(* Where a publication can go next. *)
Moves(p) == \E label \in Labels : Goes(p, label) \/ Fails(p, label)

LEMMA PublicationMoves ==
  ASSUME NEW p \in Publishers, Publication(p)
  PROVE  Moves(p)
  <1>h. Handler(p) \in Labels
    BY DEF Handler, Labels
  <1>1. CASE Create(p) \/ Write(p) \/ SyncData(p) \/ Authenticate(p) \/ Link(p)
    BY <1>1 DEF Create, Write, SyncData, Authenticate, Link, Moves, Labels
  <1>2. CASE CheckLink(p) \/ SyncLink(p) \/ EndExisting(p) \/ Return(p)
    BY <1>2 DEF CheckLink, SyncLink, EndExisting, Return, Moves, Labels
  <1>3. CASE BeginExisting(p) \/ BeginFinal(p)
    BY <1>3, <1>h DEF BeginExisting, BeginFinal, BeginRead, Moves, Labels
  <1>4. CASE ParentReachable(p) \/ StatTemporary(p) \/ UnlinkTemporary(p)
    BY <1>4, <1>h DEF ParentReachable, StatTemporary, UnlinkTemporary, Moves, Labels
  <1>5. CASE SyncUnlink(p) \/ EndFinal(p) \/ LastLook(p)
    BY <1>5, <1>h DEF SyncUnlink, EndFinal, LastLook, Moves, Labels
  <1>6. CASE StatPublished(p) \/ UnlinkPublished(p) \/ SyncRollback(p)
    BY <1>6 DEF StatPublished, UnlinkPublished, SyncRollback, Moves, Labels
  <1>7. CASE StatCleanup(p) \/ UnlinkCleanup(p) \/ Raise(p)
    BY <1>7 DEF StatCleanup, UnlinkCleanup, Raise, Moves, Labels
  <1> QED
    BY <1>1, <1>2, <1>3, <1>4, <1>5, <1>6, <1>7 DEF Publication

LEMMA PublicationType ==
  ASSUME TypeOK, NEW p \in Publishers, Publication(p)
  PROVE  TypeOK'
  <1>m. pc' \in [Publishers -> Labels] /\ faults' \in 0 .. MaxFaults
    BY PublicationMoves, GoesType DEF Moves
  <1>d. UNCHANGED worldVars
    BY DEF Publication, Create, Write, SyncData, Authenticate, Link, CheckLink,
           SyncLink, EndExisting, Return, BeginExisting, BeginFinal, BeginRead,
           ParentReachable, StatTemporary, UnlinkTemporary, SyncUnlink, EndFinal,
           LastLook, StatPublished, UnlinkPublished, SyncRollback, StatCleanup,
           UnlinkCleanup, Raise
  <1>1. CASE Create(p)
    <2>1. staged' \in [Publishers -> Entries]
      BY <1>1 DEF Create, TypeOK
    <2>2. temporary_exists' \in [Publishers -> BOOLEAN]
      BY <1>1 DEF Create, TypeOK
    <2>3. UNCHANGED <<final, durableVars, data, published, seen, existing>>
      BY <1>1 DEF Create
    <2>4. UNCHANGED <<durable_final, durable_staged, wanted, stranger_text,
                      used, crashes>>
      BY <2>3, <1>d DEF durableVars, worldVars
    <2> QED
      BY <2>1, <2>2, <2>3, <2>4, <1>m DEF TypeOK
  <1>2. CASE Write(p) \/ SyncData(p) \/ Authenticate(p)
    BY <1>2, <1>m, <1>d DEF Write, SyncData, Authenticate, TypeOK,
       directoryVars, durableVars, localVars, worldVars
  <1>3. CASE Link(p)
    <2>1. final' \in Entries
      BY <1>3 DEF Link, TypeOK
    <2>2. published' \in [Publishers -> BOOLEAN]
      BY <1>3 DEF Link, TypeOK
    <2>3. UNCHANGED <<staged, durable_final, durable_staged, data,
                      temporary_exists, seen, existing>>
      BY <1>3 DEF Link, durableVars
    <2> QED
      BY <2>1, <2>2, <2>3, <1>m, <1>d DEF TypeOK, worldVars
  <1>4. CASE CheckLink(p) \/ SyncLink(p) \/ SyncUnlink(p) \/ Return(p)
    BY <1>4, <1>m, <1>d DEF CheckLink, SyncLink, SyncUnlink, Return,
       SyncDirectory, TypeOK, directoryVars, durableVars, localVars, worldVars
  <1>5. CASE BeginExisting(p) \/ BeginFinal(p)
    BY <1>5, <1>m, <1>d DEF BeginExisting, BeginFinal, BeginRead, TypeOK,
       directoryVars, durableVars, worldVars
  <1>6. CASE EndExisting(p)
    BY <1>6, <1>m, <1>d DEF EndExisting, TypeOK, directoryVars, durableVars,
       worldVars
  <1>7. CASE ParentReachable(p) \/ StatTemporary(p) \/ EndFinal(p) \/ LastLook(p)
    BY <1>7, <1>m, <1>d DEF ParentReachable, StatTemporary, EndFinal, LastLook,
       TypeOK, directoryVars, durableVars, localVars, worldVars
  <1>8. CASE UnlinkTemporary(p)
    BY <1>8, <1>m, <1>d DEF UnlinkTemporary, TypeOK, durableVars, worldVars
  <1>9. CASE StatPublished(p) \/ UnlinkPublished(p) \/ SyncRollback(p)
    BY <1>9, <1>m, <1>d DEF StatPublished, UnlinkPublished, SyncRollback,
       SyncDirectory, TypeOK, directoryVars, durableVars, localVars, worldVars
  <1>10. CASE StatCleanup(p) \/ UnlinkCleanup(p) \/ Raise(p)
    BY <1>10, <1>m, <1>d DEF StatCleanup, UnlinkCleanup, Raise, SyncDirectory,
       TypeOK, directoryVars, durableVars, localVars, worldVars
  <1> QED
    BY <1>1, <1>2, <1>3, <1>4, <1>5, <1>6, <1>7, <1>8, <1>9, <1>10
       DEF Publication

LEMMA TypeStep == TypeOK /\ [Next]_vars => TypeOK'
  <1> SUFFICES ASSUME TypeOK, [Next]_vars PROVE TypeOK'
    OBVIOUS
  <1>1. ASSUME NEW p \in Publishers, Publication(p) PROVE TypeOK'
    BY <1>1, PublicationType
  <1>2. ASSUME NEW p \in Publishers, Crash(p) PROVE TypeOK'
    BY <1>2 DEF Crash, TypeOK, Labels, directoryVars, durableVars, localVars
  <1>3. CASE PowerFailure
    BY <1>3 DEF PowerFailure, TypeOK, Labels, localVars
  <1>4. ASSUME NEW s \in Intruders, Displace(s) PROVE TypeOK'
    BY <1>4 DEF Displace, TypeOK, durableVars, localVars
  <1>5. CASE UNCHANGED vars
    BY <1>5 DEF vars, TypeOK, directoryVars, durableVars, localVars, worldVars
  <1> QED
    BY <1>1, <1>2, <1>3, <1>4, <1>5 DEF Next

(* Every variable keeps its type, whatever fails or crashes. *)
THEOREM TypeCorrect == Spec => []TypeOK
  BY InitType, TypeStep, PTL DEF Spec
-----------------------------------------------------------------------------
(* Who may stand under which name. *)

(* A temporary name holds the file its call created, nothing, or a file     *)
(* another program put there; and nothing at all before the call begins.   *)
OwnNames ==
  \A q \in Publishers :
    /\ staged[q] \in {q, NoFile} \cup Strangers
    /\ durable_staged[q] \in {q, NoFile} \cup Strangers
    /\ pc[q] = "start" => staged[q] = NoFile /\ durable_staged[q] = NoFile

(* A file of ours is linked, and its link made durable, only after its      *)
(* bytes are durable and written for the last time.                        *)
SafeLinks ==
  \A q \in Publishers :
    /\ pc[q] \in {"authenticate", "link"} => data[q] = "safe"
    /\ final = q \/ durable_final = q =>
         data[q] = "safe" /\ pc[q] \notin {"start", "write", "sync"}

(* Between the stat and the unlink a name does not change hands.            *)
Aimed ==
  \A q \in Publishers :
    /\ pc[q] \in {"unlink_temp", "cleanup_unlink"} => staged[q] = q
    /\ pc[q] = "rollback_unlink" => final = q

DirectoryInv == TypeOK /\ OwnNames /\ SafeLinks /\ Aimed

LEMMA DirectoryInit == Init => DirectoryInv
  <1> SUFFICES ASSUME Init PROVE OwnNames /\ SafeLinks /\ Aimed
    BY InitType DEF DirectoryInv
  <1> QED
    BY DEF Init, OwnNames, SafeLinks, Aimed

(* A step of one call leaves the program counters of the others alone.      *)
LEMMA OthersWait ==
  ASSUME TypeOK, NEW p \in Publishers, Publication(p),
         NEW q \in Publishers, q # p
  PROVE  pc'[q] = pc[q]
  BY PublicationMoves DEF Moves, Goes, Fails, TypeOK

LEMMA NamesStep ==
  ASSUME DirectoryInv, NEW p \in Publishers, Publication(p)
  PROVE  OwnNames'
  <1>o. \A q \in Publishers : q # p => pc'[q] = pc[q]
    BY OthersWait DEF DirectoryInv
  <1>s. pc'[p] # "start"
    BY DEF Publication, Create, Write, SyncData, Authenticate, Link, CheckLink,
           SyncLink, EndExisting, Return, BeginExisting, BeginFinal, BeginRead,
           ParentReachable, StatTemporary, UnlinkTemporary, SyncUnlink, EndFinal,
           LastLook, StatPublished, UnlinkPublished, SyncRollback, StatCleanup,
           UnlinkCleanup, Raise, Goes, Fails, Handler, DirectoryInv, TypeOK
  <1>n. \/ UNCHANGED staged
        \/ staged' = [staged EXCEPT ![p] = p]
        \/ staged' = [staged EXCEPT ![p] = NoFile]
    BY DEF Publication, Create, Write, SyncData, Authenticate, Link, CheckLink,
           SyncLink, EndExisting, Return, BeginExisting, BeginFinal, BeginRead,
           ParentReachable, StatTemporary, UnlinkTemporary, SyncUnlink, EndFinal,
           LastLook, StatPublished, UnlinkPublished, SyncRollback, StatCleanup,
           UnlinkCleanup, Raise, directoryVars
  <1>d. durable_staged' = durable_staged \/ durable_staged' = staged
    BY DEF Publication, Create, Write, SyncData, Authenticate, Link, CheckLink,
           SyncLink, EndExisting, Return, BeginExisting, BeginFinal, BeginRead,
           ParentReachable, StatTemporary, UnlinkTemporary, SyncUnlink, EndFinal,
           LastLook, StatPublished, UnlinkPublished, SyncRollback, StatCleanup,
           UnlinkCleanup, Raise, durableVars, SyncDirectory
  <1> QED
    BY <1>o, <1>s, <1>n, <1>d DEF DirectoryInv, TypeOK, OwnNames

(* Only the link gives a report its name, and only the rollback takes it.   *)
LEMMA FinalMoves ==
  ASSUME NEW p \in Publishers, Publication(p)
  PROVE  \/ UNCHANGED final
         \/ pc[p] = "link" /\ final = NoFile /\ final' = staged[p]
         \/ pc[p] = "rollback_unlink" /\ final' = NoFile
  BY DEF Publication, Create, Write, SyncData, Authenticate, Link, CheckLink,
         SyncLink, EndExisting, Return, BeginExisting, BeginFinal, BeginRead,
         ParentReachable, StatTemporary, UnlinkTemporary, SyncUnlink, EndFinal,
         LastLook, StatPublished, UnlinkPublished, SyncRollback, StatCleanup,
         UnlinkCleanup, Raise, directoryVars

LEMMA SafeStep ==
  ASSUME DirectoryInv, NEW p \in Publishers, Publication(p)
  PROVE  SafeLinks'
  <1> USE DEF DirectoryInv
  <1>o. \A q \in Publishers : q # p => pc'[q] = pc[q]
    BY OthersWait
  <1>d. durable_final' = durable_final \/ durable_final' = final
    BY DEF Publication, Create, Write, SyncData, Authenticate, Link, CheckLink,
           SyncLink, EndExisting, Return, BeginExisting, BeginFinal, BeginRead,
           ParentReachable, StatTemporary, UnlinkTemporary, SyncUnlink, EndFinal,
           LastLook, StatPublished, UnlinkPublished, SyncRollback, StatCleanup,
           UnlinkCleanup, Raise, durableVars, SyncDirectory
  <1>1. CASE pc[p] \in {"write", "sync"}
    <2>1. UNCHANGED <<final, durable_final>>
      BY <1>1 DEF Publication, Create, Write, SyncData, Authenticate, Link,
         CheckLink, SyncLink, EndExisting, Return, BeginExisting, BeginFinal,
         BeginRead, ParentReachable, StatTemporary, UnlinkTemporary, SyncUnlink,
         EndFinal, LastLook, StatPublished, UnlinkPublished, SyncRollback,
         StatCleanup, UnlinkCleanup, Raise, directoryVars, durableVars
    <2>2. /\ \A q \in Publishers : q # p => data'[q] = data[q]
          /\ pc'[p] \in {"authenticate", "link"} => data'[p] = "safe"
      BY <1>1 DEF Publication, Create, Write, SyncData, Authenticate, Link,
         CheckLink, SyncLink, EndExisting, Return, BeginExisting, BeginFinal,
         BeginRead, ParentReachable, StatTemporary, UnlinkTemporary, SyncUnlink,
         EndFinal, LastLook, StatPublished, UnlinkPublished, SyncRollback,
         StatCleanup, UnlinkCleanup, Raise, Goes, Fails, TypeOK
    <2> QED
      BY <1>1, <1>o, <2>1, <2>2 DEF SafeLinks
  <1>2. CASE pc[p] \notin {"write", "sync"}
    <2>1. UNCHANGED data
      BY <1>2 DEF Publication, Create, Write, SyncData, Authenticate, Link,
         CheckLink, SyncLink, EndExisting, Return, BeginExisting, BeginFinal,
         BeginRead, ParentReachable, StatTemporary, UnlinkTemporary, SyncUnlink,
         EndFinal, LastLook, StatPublished, UnlinkPublished, SyncRollback,
         StatCleanup, UnlinkCleanup, Raise, directoryVars, durableVars
    <2>2. /\ pc'[p] \in {"authenticate", "link"} => pc[p] = "authenticate"
          /\ pc'[p] \in {"start", "write", "sync"} => pc[p] = "start"
      BY <1>2 DEF Publication, Create, Write, SyncData, Authenticate, Link,
         CheckLink, SyncLink, EndExisting, Return, BeginExisting, BeginFinal,
         BeginRead, ParentReachable, StatTemporary, UnlinkTemporary, SyncUnlink,
         EndFinal, LastLook, StatPublished, UnlinkPublished, SyncRollback,
         StatCleanup, UnlinkCleanup, Raise, Goes, Fails, Handler, TypeOK
    <2>3. \A q \in Publishers : final' = q => final = q \/ (q = p /\ pc[p] = "link")
      BY FinalMoves DEF OwnNames
    <2>4. pc[p] = "link" => UNCHANGED durable_final /\ pc'[p] \notin {"start", "write", "sync"}
      BY DEF Publication, Create, Write, SyncData, Authenticate, Link, CheckLink,
         SyncLink, EndExisting, Return, BeginExisting, BeginFinal, BeginRead,
         ParentReachable, StatTemporary, UnlinkTemporary, SyncUnlink, EndFinal,
         LastLook, StatPublished, UnlinkPublished, SyncRollback, StatCleanup,
         UnlinkCleanup, Raise, durableVars, Goes, Fails, TypeOK
    <2> QED
      BY <1>2, <1>o, <1>d, <2>1, <2>2, <2>3, <2>4 DEF SafeLinks
  <1> QED
    BY <1>1, <1>2

LEMMA AimedStep ==
  ASSUME DirectoryInv, NEW p \in Publishers, Publication(p)
  PROVE  Aimed'
  <1> USE DEF DirectoryInv
  <1>o. \A q \in Publishers : q # p => pc'[q] = pc[q] /\ staged'[q] = staged[q]
    BY OthersWait
       DEF Publication, Create, Write, SyncData, Authenticate, Link, CheckLink,
           SyncLink, EndExisting, Return, BeginExisting, BeginFinal, BeginRead,
           ParentReachable, StatTemporary, UnlinkTemporary, SyncUnlink, EndFinal,
           LastLook, StatPublished, UnlinkPublished, SyncRollback, StatCleanup,
           UnlinkCleanup, Raise, directoryVars, TypeOK
  <1>1. /\ pc'[p] \in {"unlink_temp", "cleanup_unlink"} => staged'[p] = p
        /\ pc'[p] = "rollback_unlink" => final' = p
    BY DEF Publication, Create, Write, SyncData, Authenticate, Link, CheckLink,
           SyncLink, EndExisting, Return, BeginExisting, BeginFinal, BeginRead,
           ParentReachable, StatTemporary, UnlinkTemporary, SyncUnlink, EndFinal,
           LastLook, StatPublished, UnlinkPublished, SyncRollback, StatCleanup,
           UnlinkCleanup, Raise, directoryVars, Goes, Fails, Handler, TypeOK
  <1>2. ASSUME NEW q \in Publishers, q # p, pc[q] = "rollback_unlink"
        PROVE  final' = q
    BY <1>2, FinalMoves, PublicationAssumption DEF Aimed
  <1> QED
    BY <1>o, <1>1, <1>2 DEF Aimed

LEMMA DirectoryStep == DirectoryInv /\ [Next]_vars => DirectoryInv'
  <1> SUFFICES ASSUME DirectoryInv, [Next]_vars PROVE DirectoryInv'
    OBVIOUS
  <1>t. TypeOK /\ TypeOK'
    BY TypeStep DEF DirectoryInv
  <1>1. ASSUME NEW p \in Publishers, Publication(p) PROVE DirectoryInv'
    BY <1>1, <1>t, NamesStep, SafeStep, AimedStep DEF DirectoryInv
  <1>2. ASSUME NEW p \in Publishers, Crash(p) PROVE DirectoryInv'
    BY <1>2, <1>t DEF Crash, DirectoryInv, TypeOK, OwnNames, SafeLinks, Aimed,
       directoryVars, durableVars
  <1>3. CASE PowerFailure
    <2>1. OwnNames'
      BY <1>3, <1>t DEF PowerFailure, Active, Over, DirectoryInv, TypeOK, OwnNames
    <2>2. SafeLinks'
      BY <1>3, <1>t DEF PowerFailure, Active, Over, DirectoryInv, TypeOK, SafeLinks
    <2>3. Aimed'
      BY <1>3, <1>t DEF PowerFailure, Active, Over, DirectoryInv, TypeOK, Aimed
    <2> QED
      BY <1>t, <2>1, <2>2, <2>3 DEF DirectoryInv
  <1>4. ASSUME NEW s \in Intruders, Displace(s) PROVE DirectoryInv'
    <2>1. OwnNames'
      BY <1>4, <1>t DEF Displace, Active, DirectoryInv, TypeOK, OwnNames, durableVars
    <2>2. SafeLinks'
      BY <1>4, <1>t, PublicationAssumption
         DEF Displace, DirectoryInv, TypeOK, SafeLinks, durableVars
    <2>3. Aimed'
      BY <1>4, <1>t DEF Displace, DirectoryInv, TypeOK, Aimed
    <2> QED
      BY <1>t, <2>1, <2>2, <2>3 DEF DirectoryInv
  <1>5. CASE UNCHANGED vars
    BY <1>5, <1>t DEF vars, DirectoryInv, OwnNames, SafeLinks, Aimed,
       directoryVars, durableVars
  <1> QED
    BY <1>1, <1>2, <1>3, <1>4, <1>5 DEF Next

THEOREM DirectoryCorrect == Spec => []DirectoryInv
  BY DirectoryInit, DirectoryStep, PTL DEF Spec

(* A report of ours is complete at every moment, after any crash or loss of *)
(* power.                                                                   *)
THEOREM NoTornReportCorrect == Spec => []NoTornReport
  <1>1. DirectoryInv => NoTornReport
    <2> SUFFICES ASSUME DirectoryInv, final \in Publishers
                 PROVE  Text(final) # "torn"
      BY DEF NoTornReport
    <2>1. data[final] = "safe" /\ final \notin Strangers
      BY PublicationAssumption DEF DirectoryInv, SafeLinks
    <2>2. Text(final) = wanted[final]
      BY <2>1 DEF Text
    <2>3. wanted[final] \in Payloads
      BY DEF DirectoryInv, TypeOK
    <2> QED
      BY <2>2, <2>3, PublicationAssumption
  <1> QED
    BY <1>1, DirectoryCorrect, PTL

(* Neither publication nor rollback nor cleanup removes a file of another   *)
(* program from the report's name or from a temporary one.                  *)
THEOREM StrangersUntouchedCorrect == Spec => StrangersUntouched
  <1> DEFINE Untouched ==
        \A s \in Strangers :
          /\ final = s /\ final' # s => used' # used \/ crashes' # crashes
          /\ \A p \in Publishers : staged[p] = s /\ staged'[p] # s =>
                                     used' # used \/ crashes' # crashes
  <1>1. DirectoryInv /\ [Next]_vars => [Untouched]_vars
    <2> SUFFICES ASSUME DirectoryInv, Next PROVE Untouched
      OBVIOUS
    <2>1. ASSUME NEW p \in Publishers, Publication(p) PROVE Untouched
      <3>1. \A s \in Strangers : final = s => final' = s
        BY <2>1, FinalMoves, PublicationAssumption DEF DirectoryInv, Aimed
      <3>2. \A s \in Strangers, q \in Publishers : staged[q] = s => staged'[q] = s
        <4>1. \/ UNCHANGED staged
              \/ staged' = [staged EXCEPT ![p] = p] /\ pc[p] = "start"
              \/ /\ staged' = [staged EXCEPT ![p] = NoFile]
                 /\ pc[p] \in {"unlink_temp", "cleanup_unlink"}
          BY <2>1 DEF Publication, Create, Write, SyncData, Authenticate, Link,
             CheckLink, SyncLink, EndExisting, Return, BeginExisting, BeginFinal,
             BeginRead, ParentReachable, StatTemporary, UnlinkTemporary,
             SyncUnlink, EndFinal, LastLook, StatPublished, UnlinkPublished,
             SyncRollback, StatCleanup, UnlinkCleanup, Raise, directoryVars
        <4> QED
          BY <4>1, PublicationAssumption DEF DirectoryInv, OwnNames, Aimed, TypeOK
      <3> QED
        BY <3>1, <3>2
    <2>2. ASSUME NEW p \in Publishers, Crash(p) PROVE Untouched
      BY <2>2 DEF Crash, directoryVars
    <2>3. CASE PowerFailure
      BY <2>3 DEF PowerFailure, DirectoryInv, TypeOK
    <2>4. ASSUME NEW s \in Intruders, Displace(s) PROVE Untouched
      BY <2>4 DEF Displace
    <2>5. CASE UNCHANGED vars
      BY <2>5 DEF vars, directoryVars
    <2> QED
      BY <2>1, <2>2, <2>3, <2>4, <2>5 DEF Next
  <1> QED
    BY <1>1, DirectoryCorrect, PTL DEF Spec, StrangersUntouched

-----------------------------------------------------------------------------
(***************************************************************************)
(* Calls made one at a time implement the write-once register, for any     *)
(* number of calls, payloads, failing system calls, killed processes and   *)
(* power failures: an accepted report stands for ever, and a failed call   *)
(* cleans up.  Racing calls implement it while nothing fails, and reject   *)
(* each other only for a reason.                                           *)
(***************************************************************************)

(* The module's rule, and no other program at work on the two names.        *)
Turns == Serialized /\ Intruders = {}

OneAtATime == \A p, q \in Publishers : Active(p) /\ Active(q) => p = q

(* Without intruders only calls change the directory.                       *)
OursOnly ==
  /\ \A q \in Publishers : staged[q] \in {q, NoFile}
  /\ \A q \in Publishers : durable_staged[q] \in {q, NoFile}
  /\ final \in Strangers \/ durable_final \in Strangers => final = durable_final

Linked ==
  {"check", "publish", "rollback", "rollback_unlink", "rollback_sync"}

(* Whoever may still take its report back has been believed by nobody.      *)
NobodyBelieves ==
  \A p \in Publishers :
    /\ pc[p] \in Linked => published[p]
    /\ pc[p] = "start" => ~published[p]
    /\ published[p] /\ Active(p) => \A q \in Publishers : pc[q] # "accepted"

(* An accepted report is in place, is what the caller wanted and is durable.*)
Claims ==
  \A p \in Publishers :
    pc[p] = "accepted" =>
      final # NoFile /\ final = durable_final /\ Text(final) = wanted[p]

(* A call about to return has just read its own text under the name.       *)
Looked ==
  \A p \in Publishers :
    /\ pc[p] = "final_read" => seen[p] # NoFile
    /\ pc[p] \in {"last_look", "return"} =>
         final # NoFile /\ Text(final) = wanted[p]

TurnInv ==
  DirectoryInv /\ OneAtATime /\ OursOnly /\ NobodyBelieves /\ Claims /\ Looked

-----------------------------------------------------------------------------
(* What a linked file says. *)

Meant(f) == IF f \in Strangers THEN stranger_text[f] ELSE wanted[f]

LEMMA TextMeant ==
  /\ DirectoryInv /\ final # NoFile => Text(final) = Meant(final)
  /\ DirectoryInv' /\ final' # NoFile => Text(final)' = Meant(final)'
  <1>1. ASSUME DirectoryInv, final # NoFile PROVE Text(final) = Meant(final)
    <2>1. CASE final \in Strangers
      BY <2>1 DEF Text, Meant
    <2>2. CASE final \notin Strangers
      BY <1>1, <2>2 DEF DirectoryInv, TypeOK, SafeLinks, Text, Meant
    <2> QED
      BY <2>1, <2>2
  <1>2. ASSUME DirectoryInv', final' # NoFile
        PROVE  Text(final)' = Meant(final)'
    <2>1. CASE final' \in Strangers
      BY <2>1 DEF Text, Meant
    <2>2. CASE final' \notin Strangers
      BY <1>2, <2>2 DEF DirectoryInv, TypeOK, SafeLinks, Text, Meant
    <2> QED
      BY <2>1, <2>2
  <1> QED
    BY <1>1, <1>2

(* The four shared things a step of one call can change. *)
LEMMA StepShape ==
  ASSUME NEW p \in Publishers, Publication(p)
  PROVE  /\ UNCHANGED worldVars
         /\ \/ UNCHANGED durableVars
            \/ SyncDirectory /\ UNCHANGED directoryVars
         /\ \/ UNCHANGED published
            \/ /\ published' = [published EXCEPT ![p] = TRUE]
               /\ pc[p] = "link" /\ final = NoFile
  BY DEF Publication, Create, Write, SyncData, Authenticate, Link, CheckLink,
         SyncLink, EndExisting, Return, BeginExisting, BeginFinal, BeginRead,
         ParentReachable, StatTemporary, UnlinkTemporary, SyncUnlink, EndFinal,
         LastLook, StatPublished, UnlinkPublished, SyncRollback, StatCleanup,
         UnlinkCleanup, Raise, localVars

LEMMA TurnInit == Init /\ Intruders = {} => TurnInv
  <1> SUFFICES ASSUME Init, Intruders = {} PROVE TurnInv
    OBVIOUS
  <1>1. \A p \in Publishers : pc[p] = "start" /\ ~published[p]
    BY DEF Init
  <1> QED
    BY <1>1, DirectoryInit
       DEF TurnInv, OneAtATime, OursOnly, NobodyBelieves, Claims, Looked, Active,
           Linked, Init

LEMMA TurnTaking ==
  ASSUME TurnInv, Turns, NEW p \in Publishers, Publication(p)
  PROVE  /\ OneAtATime'
         /\ \A q \in Publishers : q # p => ~Active(q) /\ ~Active(q)'
         /\ pc[p] = "start" \/ Active(p)
  <1>o. \A q \in Publishers : q # p => pc'[q] = pc[q]
    BY OthersWait DEF TurnInv, DirectoryInv
  <1>1. pc[p] = "start" \/ Active(p)
    BY DEF Publication, Create, Write, SyncData, Authenticate, Link, CheckLink,
           SyncLink, EndExisting, Return, BeginExisting, BeginFinal, BeginRead,
           ParentReachable, StatTemporary, UnlinkTemporary, SyncUnlink, EndFinal,
           LastLook, StatPublished, UnlinkPublished, SyncRollback, StatCleanup,
           UnlinkCleanup, Raise, Active, Over
  <1>2. pc[p] = "start" => \A q \in Publishers : ~Active(q)
    BY DEF Publication, Create, Write, SyncData, Authenticate, Link, CheckLink,
           SyncLink, EndExisting, Return, BeginExisting, BeginFinal, BeginRead,
           ParentReachable, StatTemporary, UnlinkTemporary, SyncUnlink, EndFinal,
           LastLook, StatPublished, UnlinkPublished, SyncRollback, StatCleanup,
           UnlinkCleanup, Raise, Turns
  <1>3. \A q \in Publishers : q # p => ~Active(q)
    BY <1>1, <1>2 DEF TurnInv, OneAtATime
  <1>4. \A q \in Publishers : q # p => ~Active(q)'
    BY <1>3, <1>o DEF Active, Over
  <1> QED
    BY <1>1, <1>3, <1>4 DEF OneAtATime

LEMMA OursOnlyStep ==
  ASSUME TurnInv, NEW p \in Publishers, Publication(p)
  PROVE  OursOnly'
  <1>1. \/ UNCHANGED staged
        \/ staged' = [staged EXCEPT ![p] = p]
        \/ staged' = [staged EXCEPT ![p] = NoFile]
    BY DEF Publication, Create, Write, SyncData, Authenticate, Link, CheckLink,
           SyncLink, EndExisting, Return, BeginExisting, BeginFinal, BeginRead,
           ParentReachable, StatTemporary, UnlinkTemporary, SyncUnlink, EndFinal,
           LastLook, StatPublished, UnlinkPublished, SyncRollback, StatCleanup,
           UnlinkCleanup, Raise, directoryVars
  <1>2. \A q \in Publishers : staged'[q] \in {q, NoFile}
    BY <1>1 DEF TurnInv, OursOnly, DirectoryInv, TypeOK
  <1>3. \A q \in Publishers : durable_staged'[q] \in {q, NoFile}
    BY StepShape DEF SyncDirectory, durableVars, TurnInv, OursOnly
  <1>4. final' \in Strangers \/ durable_final' \in Strangers => final' = durable_final'
    <2>1. final' = final \/ (final \in Publishers \cup {NoFile}
                             /\ final' \in Publishers \cup {NoFile})
      BY FinalMoves DEF TurnInv, OursOnly, DirectoryInv, Aimed
    <2> QED
      BY <2>1, StepShape, PublicationAssumption
         DEF SyncDirectory, durableVars, directoryVars, TurnInv, OursOnly
  <1> QED
    BY <1>2, <1>3, <1>4 DEF OursOnly

LEMMA BelieversStep ==
  ASSUME TurnInv, Turns, NEW p \in Publishers, Publication(p)
  PROVE  NobodyBelieves'
  <1>o. \A q \in Publishers : q # p => pc'[q] = pc[q]
    BY OthersWait DEF TurnInv, DirectoryInv
  <1>t. /\ \A q \in Publishers : q # p => ~Active(q) /\ ~Active(q)'
        /\ pc[p] = "start" \/ Active(p)
    BY TurnTaking
  <1>1. /\ pc'[p] \in Linked => published'[p]
        /\ pc'[p] # "start"
    BY DEF Publication, Create, Write, SyncData, Authenticate, Link, CheckLink,
           SyncLink, EndExisting, Return, BeginExisting, BeginFinal, BeginRead,
           ParentReachable, StatTemporary, UnlinkTemporary, SyncUnlink, EndFinal,
           LastLook, StatPublished, UnlinkPublished, SyncRollback, StatCleanup,
           UnlinkCleanup, Raise, localVars, Goes, Fails, Handler, Linked,
           TurnInv, DirectoryInv, TypeOK, NobodyBelieves
  <1>2. \A q \in Publishers : q # p => published'[q] = published[q]
    BY StepShape DEF TurnInv, DirectoryInv, TypeOK
  <1>3. ASSUME published'[p], Active(p)'
        PROVE  \A q \in Publishers : pc'[q] # "accepted"
    <2>1. pc'[p] # "accepted"
      BY <1>3 DEF Active, Over
    <2>2. ASSUME NEW q \in Publishers, q # p PROVE pc[q] # "accepted"
      <3>1. CASE published[p]
        BY <3>1, <1>t DEF TurnInv, NobodyBelieves
      <3>2. CASE ~published[p]
        BY <3>2, <1>3, StepShape DEF TurnInv, Claims
      <3> QED
        BY <3>1, <3>2
    <2> QED
      BY <2>1, <2>2, <1>o
  <1> QED
    BY <1>o, <1>t, <1>1, <1>2, <1>3 DEF TurnInv, NobodyBelieves

LEMMA ClaimsStep ==
  ASSUME TurnInv, DirectoryInv', Turns, NEW p \in Publishers, Publication(p)
  PROVE  Claims'
  <1>o. \A q \in Publishers : q # p => pc'[q] = pc[q]
    BY OthersWait DEF TurnInv, DirectoryInv
  <1>m. \A f : Meant(f)' = Meant(f)
    BY StepShape DEF worldVars, Meant
  <1>d. durable_final' = durable_final \/ durable_final' = final
    BY StepShape DEF durableVars, SyncDirectory
  <1>1. ASSUME pc'[p] = "accepted"
        PROVE  pc[p] = "return" /\ final' = final /\ durable_final' = final
    BY <1>1 DEF Publication, Create, Write, SyncData, Authenticate, Link,
       CheckLink, SyncLink, EndExisting, Return, BeginExisting, BeginFinal,
       BeginRead, ParentReachable, StatTemporary, UnlinkTemporary, SyncUnlink,
       EndFinal, LastLook, StatPublished, UnlinkPublished, SyncRollback,
       StatCleanup, UnlinkCleanup, Raise, directoryVars, SyncDirectory, Goes,
       Fails, Handler, TurnInv, DirectoryInv, TypeOK
  <1>2. ASSUME NEW q \in Publishers, q # p, pc[q] = "accepted"
        PROVE  final' = final
    <2>1. final # NoFile
      BY <1>2 DEF TurnInv, Claims
    <2>2. pc[p] # "rollback_unlink"
      BY <1>2 DEF TurnInv, NobodyBelieves, Linked, Active, Over
    <2> QED
      BY <2>1, <2>2, FinalMoves
  <1> SUFFICES ASSUME NEW q \in Publishers, pc'[q] = "accepted"
               PROVE  /\ final' # NoFile /\ final' = durable_final'
                      /\ Text(final)' = wanted'[q]
    BY DEF Claims
  <1>3. /\ final' = final /\ final # NoFile
        /\ durable_final' = final
        /\ Text(final) = wanted[q]
    BY <1>o, <1>d, <1>1, <1>2 DEF TurnInv, Claims, Looked
  <1>4. wanted' = wanted
    BY StepShape DEF worldVars
  <1> QED
    BY <1>3, <1>4, <1>m, TextMeant DEF TurnInv

LEMMA LookedStep ==
  ASSUME TurnInv, DirectoryInv', Turns, NEW p \in Publishers, Publication(p)
  PROVE  Looked'
  <1>t. \A q \in Publishers : q # p => ~Active(q)'
    BY TurnTaking
  <1>w. wanted' = wanted /\ \A f : Meant(f)' = Meant(f)
    BY StepShape DEF worldVars, Meant
  <1>1. pc'[p] = "final_read" => seen'[p] # NoFile
    BY DEF Publication, Create, Write, SyncData, Authenticate, Link,
       CheckLink, SyncLink, EndExisting, Return, BeginExisting, BeginFinal,
       BeginRead, ParentReachable, StatTemporary, UnlinkTemporary, SyncUnlink,
       EndFinal, LastLook, StatPublished, UnlinkPublished, SyncRollback,
       StatCleanup, UnlinkCleanup, Raise, Goes, Fails, Handler, TurnInv,
       DirectoryInv, TypeOK
  <1>2. ASSUME pc'[p] \in {"last_look", "return"}
        PROVE  /\ final' = final
               /\ \/ pc[p] = "last_look"
                  \/ pc[p] = "final_read" /\ ReadExactly(p)
    BY <1>2 DEF Publication, Create, Write, SyncData, Authenticate, Link,
       CheckLink, SyncLink, EndExisting, Return, BeginExisting, BeginFinal,
       BeginRead, ParentReachable, StatTemporary, UnlinkTemporary, SyncUnlink,
       EndFinal, LastLook, StatPublished, UnlinkPublished, SyncRollback,
       StatCleanup, UnlinkCleanup, Raise, directoryVars, Goes, Fails, Handler,
       TurnInv, DirectoryInv, TypeOK
  <1>3. ASSUME pc'[p] \in {"last_look", "return"}
        PROVE  final' # NoFile /\ Text(final)' = wanted'[p]
    <2>1. final # NoFile /\ Text(final) = wanted[p]
      BY <1>2, <1>3 DEF TurnInv, Looked, ReadExactly
    <2> QED
      BY <1>2, <1>3, <1>w, <2>1, TextMeant DEF TurnInv
  <1> QED
    BY <1>t, <1>1, <1>3 DEF Looked, Active, Over

-----------------------------------------------------------------------------
(* The same for the crashes. *)

LEMMA CrashStep ==
  ASSUME TurnInv, DirectoryInv', NEW p \in Publishers, Crash(p)
  PROVE  TurnInv'
  <1>1. /\ pc' = [pc EXCEPT ![p] = "crashed"]
        /\ UNCHANGED <<final, staged, durable_final, durable_staged, data,
                       published, seen, wanted, stranger_text>>
    BY DEF Crash, directoryVars, durableVars, localVars
  <1>2. \A q \in Publishers : pc'[q] = pc[q] \/ pc'[q] = "crashed"
    BY <1>1 DEF TurnInv, DirectoryInv, TypeOK
  <1>3. Text(final)' = Text(final)
    BY <1>1 DEF Text
  <1>4. OneAtATime' /\ OursOnly'
    BY <1>1, <1>2 DEF TurnInv, OneAtATime, OursOnly, Active, Over
  <1>5. NobodyBelieves'
    BY <1>1, <1>2 DEF TurnInv, NobodyBelieves, Linked, Active, Over
  <1>6. Claims' /\ Looked'
    BY <1>1, <1>2, <1>3 DEF TurnInv, Claims, Looked
  <1> QED
    BY <1>4, <1>5, <1>6 DEF TurnInv

LEMMA PowerStep ==
  ASSUME TurnInv, DirectoryInv', PowerFailure
  PROVE  TurnInv'
  <1>1. /\ \A q \in Publishers : ~Active(q)'
        /\ \A q \in Publishers : pc'[q] = pc[q] \/ pc'[q] = "crashed"
    BY DEF PowerFailure, Active, Over
  <1>2. /\ final' \in {final, durable_final} /\ durable_final' = final'
        /\ UNCHANGED <<published, seen, wanted, stranger_text>>
    BY DEF PowerFailure, localVars
  <1>3. OursOnly'
    BY DEF PowerFailure, TurnInv, OursOnly
  <1>4. NobodyBelieves'
    BY <1>1, <1>2 DEF TurnInv, NobodyBelieves, Linked, Active, Over
  <1>5. Claims'
    <2> SUFFICES ASSUME NEW q \in Publishers, pc'[q] = "accepted"
                 PROVE  final' # NoFile /\ Text(final)' = wanted'[q]
      BY <1>2 DEF Claims
    <2>1. final # NoFile /\ final' = final /\ Text(final) = wanted[q]
      BY <1>1, <1>2 DEF TurnInv, Claims
    <2>2. Meant(final)' = Meant(final)
      BY <1>2, <2>1 DEF Meant
    <2> QED
      BY <1>2, <2>1, <2>2, TextMeant DEF TurnInv
  <1>6. OneAtATime' /\ Looked'
    BY <1>1 DEF OneAtATime, Looked, Active, Over
  <1> QED
    BY <1>3, <1>4, <1>5, <1>6 DEF TurnInv

LEMMA TurnStep == Turns /\ TurnInv /\ [Next]_vars => TurnInv'
  <1> SUFFICES ASSUME Turns, TurnInv, [Next]_vars PROVE TurnInv'
    OBVIOUS
  <1>d. DirectoryInv'
    BY DirectoryStep DEF TurnInv
  <1>1. ASSUME NEW p \in Publishers, Publication(p) PROVE TurnInv'
    BY <1>1, <1>d, TurnTaking, OursOnlyStep, BelieversStep, ClaimsStep,
       LookedStep DEF TurnInv
  <1>2. ASSUME NEW p \in Publishers, Crash(p) PROVE TurnInv'
    BY <1>2, <1>d, CrashStep
  <1>3. CASE PowerFailure
    BY <1>3, <1>d, PowerStep
  <1>4. ASSUME NEW s \in Intruders, Displace(s) PROVE TurnInv'
    BY <1>4 DEF Turns
  <1>5. CASE UNCHANGED vars
    BY <1>5, <1>d DEF vars, TurnInv, OneAtATime, OursOnly, NobodyBelieves,
       Claims, Looked, Text, Active, Over, directoryVars, durableVars, localVars,
       worldVars
  <1> QED
    BY <1>1, <1>2, <1>3, <1>4, <1>5 DEF Next

-----------------------------------------------------------------------------
(* The refinement. *)

LEMMA ReportMeant ==
  /\ DirectoryInv => Report = IF final = NoFile THEN Nothing
                              ELSE [by |-> final, text |-> Meant(final)]
  /\ DirectoryInv' => Report' = IF final' = NoFile THEN Nothing
                                ELSE [by |-> final', text |-> Meant(final)']
  BY TextMeant DEF Report, Nothing

Answers == [p \in Publishers |-> Answer(p)]

LEMMA InitRefines == Init => Register!Init
  <1> SUFFICES ASSUME Init PROVE Register!Init
    OBVIOUS
  <1>1. Answers = [p \in Publishers |-> "none"]
    BY DEF Init, Answers, Answer
  <1>2. Report.by \notin Publishers
    BY PublicationAssumption DEF Init, Report, Nothing
  <1>3. crashes = 0
    BY DEF Init
  <1> QED
    BY <1>1, <1>2, <1>3 DEF Register!Init, Answers

LEMMA PublicationRefines ==
  ASSUME TurnInv, DirectoryInv', Turns, NEW p \in Publishers, Publication(p)
  PROVE  Register!Next \/ UNCHANGED Register!vars
  <1>o. \A q \in Publishers : q # p => pc'[q] = pc[q]
    BY OthersWait DEF TurnInv, DirectoryInv
  <1>w. /\ wanted' = wanted /\ crashes' = crashes
        /\ \A f : Meant(f)' = Meant(f)
    BY StepShape DEF worldVars, Meant
  <1>b. ~Over(p)
    BY TurnTaking DEF Active, Over
  <1>a. \A q \in Publishers : Answer(q) = IF pc[q] \in {"accepted", "failed"}
                                          THEN pc[q] ELSE "none"
    BY DEF Answer
  <1>s. final' = final => Report' = Report
    BY <1>w, ReportMeant DEF TurnInv, Nothing
  <1>1. CASE ~Over(p)'
    <2>1. Answers' = Answers
      BY <1>1, <1>o, <1>b DEF Answers, Answer, Over
    <2>2. CASE final' = final
      BY <1>s, <1>w, <2>1, <2>2 DEF Register!vars, Answers
    <2>3. CASE pc[p] = "link" /\ final = NoFile /\ final' = staged[p] /\ final' # final
      <3>1. final' = p /\ p \notin Strangers /\ p # NoFile
        BY <2>3, PublicationAssumption DEF TurnInv, OursOnly
      <3>2. Report = Nothing /\ Report' = [by |-> p, text |-> wanted[p]]
        BY <2>3, <3>1, <1>w, ReportMeant DEF TurnInv, Meant
      <3>3. Register!Publish(p)
        BY <3>2, <2>1, <1>w DEF Register!Publish, Answers
      <3> QED
        BY <3>3 DEF Register!Next
    <2>4. CASE pc[p] = "rollback_unlink" /\ final' = NoFile
      <3>1. final = p
        BY <2>4 DEF TurnInv, DirectoryInv, Aimed
      <3>2. Report.by = p /\ Report' = Nothing
        BY <2>4, <3>1, PublicationAssumption, ReportMeant DEF TurnInv
      <3>3. \A q \in Publishers : Answers[q] # "accepted"
        BY <2>4 DEF TurnInv, NobodyBelieves, Linked, Active, Over, Answers, Answer
      <3>4. Register!Withdraw
        BY <3>2, <3>3, <2>1, <1>w
           DEF Register!Withdraw, Register!Unclaimed, Answers
      <3> QED
        BY <3>4 DEF Register!Next
    <2> QED
      BY <2>2, <2>3, <2>4, FinalMoves
  <1>2. CASE Over(p)'
    <2>1. \/ pc[p] = "return" /\ pc' = [pc EXCEPT ![p] = "accepted"]
          \/ pc[p] \in {"return", "raise"} /\ pc' = [pc EXCEPT ![p] = "failed"]
      BY <1>2 DEF Publication, Create, Write, SyncData, Authenticate, Link,
         CheckLink, SyncLink, EndExisting, Return, BeginExisting, BeginFinal,
         BeginRead, ParentReachable, StatTemporary, UnlinkTemporary, SyncUnlink,
         EndFinal, LastLook, StatPublished, UnlinkPublished, SyncRollback,
         StatCleanup, UnlinkCleanup, Raise, Goes, Fails, Handler, Over, TurnInv,
         DirectoryInv, TypeOK
    <2>2. Report' = Report
      BY <2>1, <1>s, FinalMoves
    <2>3. Answers[p] = "none"
      BY <1>b DEF Answers, Answer, Over
    <2>4. CASE pc[p] = "return" /\ pc' = [pc EXCEPT ![p] = "accepted"]
      <3>1. Answers' = [Answers EXCEPT ![p] = "accepted"]
        BY <2>4 DEF Answers, Answer, TurnInv, DirectoryInv, TypeOK
      <3>2. Report.text = wanted[p]
        BY <2>4 DEF TurnInv, Looked, Report
      <3>3. Register!Accept(p)
        BY <2>2, <2>3, <3>1, <3>2, <1>w DEF Register!Accept, Answers
      <3> QED
        BY <3>3 DEF Register!Next
    <2>5. CASE pc' = [pc EXCEPT ![p] = "failed"]
      <3>1. Answers' = [Answers EXCEPT ![p] = "failed"]
        BY <2>5 DEF Answers, Answer, TurnInv, DirectoryInv, TypeOK
      <3>2. Register!Fail(p)
        BY <2>2, <2>3, <3>1, <1>w DEF Register!Fail, Answers
      <3> QED
        BY <3>2 DEF Register!Next
    <2> QED
      BY <2>1, <2>4, <2>5
  <1> QED
    BY <1>1, <1>2

LEMMA CrashRefines ==
  ASSUME TurnInv, NEW p \in Publishers, Crash(p)
  PROVE  Register!Next
  <1>1. Report' = Report
    BY DEF Crash, Report, Text, directoryVars
  <1>2. Answers' = Answers
    BY DEF Crash, Answers, Answer, Active, Over, TurnInv, DirectoryInv, TypeOK
  <1>3. wanted' = wanted /\ crashes' = crashes + 1
    BY DEF Crash
  <1>4. Register!Outage
    BY <1>1, <1>2, <1>3 DEF Register!Outage, Answers
  <1> QED
    BY <1>4 DEF Register!Next

LEMMA PowerRefines ==
  ASSUME TurnInv, DirectoryInv', PowerFailure
  PROVE  Register!Next
  <1>1. Answers' = Answers
    BY DEF PowerFailure, Answers, Answer, Active, Over
  <1>2. /\ wanted' = wanted /\ crashes' = crashes + 1
        /\ \A f : Meant(f)' = Meant(f)
    BY DEF PowerFailure, Meant
  <1>3. final' \in {final, durable_final}
    BY DEF PowerFailure
  <1>4. ASSUME Report' # Report
        PROVE  /\ \A q \in Publishers : Answers[q] # "accepted"
               /\ Report = Nothing \/ Report.by \in Publishers
               /\ \/ Report' = Nothing
                  \/ \E q \in Publishers : Report' = [by |-> q, text |-> wanted[q]]
    <2>1. final' # final /\ final' = durable_final
      BY <1>2, <1>3, <1>4, ReportMeant DEF TurnInv, Nothing
    <2>2. \A q \in Publishers : Answers[q] # "accepted"
      BY <2>1 DEF TurnInv, Claims, Answers, Answer
    <2>3. final \notin Strangers /\ final' \notin Strangers
      BY <2>1 DEF TurnInv, OursOnly
    <2>4. Report = Nothing \/ Report.by \in Publishers
      BY <2>3, ReportMeant DEF TurnInv, DirectoryInv, TypeOK
    <2>5. \/ Report' = Nothing
          \/ \E q \in Publishers : Report' = [by |-> q, text |-> wanted[q]]
      BY <1>2, <2>3, ReportMeant DEF DirectoryInv, TypeOK, Meant
    <2> QED
      BY <2>2, <2>4, <2>5
  <1>5. Register!Outage
    BY <1>1, <1>2, <1>4 DEF Register!Outage, Register!Unclaimed, Answers
  <1> QED
    BY <1>5 DEF Register!Next

LEMMA StepRefines ==
  Turns /\ TurnInv /\ [Next]_vars => [Register!Next]_(Register!vars)
  <1> SUFFICES ASSUME Turns, TurnInv, [Next]_vars
               PROVE  Register!Next \/ UNCHANGED Register!vars
    OBVIOUS
  <1>d. DirectoryInv'
    BY DirectoryStep DEF TurnInv
  <1>1. ASSUME NEW p \in Publishers, Publication(p)
        PROVE  Register!Next \/ UNCHANGED Register!vars
    BY <1>1, <1>d, PublicationRefines
  <1>2. ASSUME NEW p \in Publishers, Crash(p) PROVE Register!Next
    BY <1>2, CrashRefines
  <1>3. CASE PowerFailure
    BY <1>3, <1>d, PowerRefines
  <1>4. ASSUME NEW s \in Intruders, Displace(s) PROVE Register!Next
    BY <1>4 DEF Turns
  <1>5. CASE UNCHANGED vars
    <2>1. Report' = Report
      BY <1>5 DEF vars, Report, Text, directoryVars, worldVars
    <2>2. Answers' = Answers /\ wanted' = wanted /\ crashes' = crashes
      BY <1>5 DEF vars, Answers, Answer, worldVars
    <2> QED
      BY <2>1, <2>2 DEF Register!vars, Answers
  <1> QED
    BY <1>1, <1>2, <1>3, <1>4, <1>5 DEF Next

(* Calls made one at a time, with no other program renaming files over the  *)
(* two names, publish a write-once register: an accepted report is the      *)
(* caller's own text, and it stands whatever fails, is killed or loses power*)
(* afterwards.                                                             *)
THEOREM RegisterCorrect == ASSUME Turns PROVE Spec => RegisterSpec
  <1>1. Init => TurnInv
    BY TurnInit DEF Turns
  <1>2. TurnInv /\ [Next]_vars => TurnInv'
    BY TurnStep
  <1>3. TurnInv /\ [Next]_vars => [Register!Next]_(Register!vars)
    BY StepRefines
  <1> QED
    BY <1>1, <1>2, <1>3, InitRefines, PTL DEF Spec, RegisterSpec, Register!Spec

-----------------------------------------------------------------------------
(* How a call ends that raises. *)

(* A file has the names this module gave it, and no other.                  *)
LEMMA LinkCount ==
  ASSUME DirectoryInv, NEW q \in Publishers
  PROVE  Links(q) = (IF staged[q] = q THEN 1 ELSE 0) + (IF final = q THEN 1 ELSE 0)
  <1> DEFINE Holders == {p \in Publishers : staged[p] = q}
  <1>1. Holders = IF staged[q] = q THEN {q} ELSE {}
    BY PublicationAssumption DEF DirectoryInv, OwnNames
  <1>2. Cardinality(Holders) = IF staged[q] = q THEN 1 ELSE 0
    BY <1>1, FS_EmptySet, FS_Singleton
  <1> QED
    BY <1>2 DEF Links

(* The report is durable and has one name, or it is gone for good.          *)
Settled(p) ==
  /\ final = p /\ durable_final = p
  /\ staged[p] = NoFile /\ durable_staged[p] = NoFile

Gone(p) == final # p /\ durable_final # p

Unlinked == {"start", "write", "sync", "authenticate", "link", "existing",
             "existing_read"}

Staging  == {"write", "sync", "authenticate", "link", "existing",
             "existing_read", "check", "publish", "reachable", "stat_temp",
             "unlink_temp"}

Looking  == {"final", "final_read", "last_look", "return"}

(* A call that published has its file in place until it takes it back; it   *)
(* does so only after a failing call, and completely unless another fails.  *)
Ending(p) ==
  /\ final = p \/ durable_final = p => published[p]
  /\ pc[p] \in Unlinked => ~published[p]
  /\ pc[p] \in Staging => staged[p] = p
  /\ published[p] =>
       /\ pc[p] \in {"check", "publish", "reachable", "stat_temp", "unlink_temp",
                     "sync_unlink", "rollback"} => final = p
       /\ pc[p] = "sync_unlink" => staged[p] = NoFile
       /\ pc[p] \in Looking => Settled(p)
       /\ pc[p] = "final_read" => seen[p] = p
       /\ pc[p] = "rollback_sync" => final # p
       /\ pc[p] \in {"rollback", "rollback_unlink", "rollback_sync"} => faults >= 1
       /\ pc[p] \in {"cleanup", "cleanup_unlink", "raise"} /\ faults <= 1 => Gone(p)
       /\ pc[p] = "failed" /\ faults <= 1 => Gone(p) \/ Settled(p)

EndingsInv == \A p \in Publishers : Ending(p)

(* A call that has failed, or has not begun, is not disturbed by another.   *)
LEMMA OtherEndings ==
  ASSUME TurnInv, EndingsInv, Turns, NEW p \in Publishers, Publication(p),
         NEW q \in Publishers, q # p
  PROVE  Ending(q)'
  <1>1. pc'[q] = pc[q] /\ ~Active(q)
    BY OthersWait, TurnTaking DEF TurnInv, DirectoryInv
  <1>2. published'[q] = published[q] /\ staged'[q] = staged[q]
    <2>1. \/ UNCHANGED staged
          \/ staged' = [staged EXCEPT ![p] = p]
          \/ staged' = [staged EXCEPT ![p] = NoFile]
      BY DEF Publication, Create, Write, SyncData, Authenticate, Link, CheckLink,
         SyncLink, EndExisting, Return, BeginExisting, BeginFinal, BeginRead,
         ParentReachable, StatTemporary, UnlinkTemporary, SyncUnlink, EndFinal,
         LastLook, StatPublished, UnlinkPublished, SyncRollback, StatCleanup,
         UnlinkCleanup, Raise, directoryVars
    <2> QED
      BY <2>1, StepShape DEF TurnInv, DirectoryInv, TypeOK
  <1>3. /\ final' = q <=> final = q
        /\ durable_final' = durable_final \/ durable_final' = final
        /\ durable_staged'[q] \in {durable_staged[q], staged[q]}
    BY FinalMoves, StepShape, PublicationAssumption
       DEF TurnInv, OursOnly, DirectoryInv, Aimed, SyncDirectory, durableVars
  <1>4. faults' \in Nat /\ faults \in Nat /\ faults' >= faults
    BY PublicationMoves DEF Moves, Goes, Fails, TurnInv, DirectoryInv, TypeOK
  <1>5. pc[q] \in {"start", "accepted", "failed", "crashed"}
    BY <1>1 DEF Active, Over
  <1> QED
    BY <1>1, <1>2, <1>3, <1>4, <1>5
       DEF EndingsInv, Ending, Settled, Gone, Staging, Looking, Unlinked

LEMMA OwnEndings ==
  ASSUME TurnInv, EndingsInv, Turns, NEW p \in Publishers, Publication(p)
  PROVE  Ending(p)'
  <1> USE DEF EndingsInv, Ending, Settled, Gone, Staging, Looking, Unlinked, Goes,
          Fails, Handler, TurnInv, DirectoryInv, TypeOK, directoryVars,
          durableVars, localVars, worldVars, SyncDirectory
  <1>l. Links(p) = (IF staged[p] = p THEN 1 ELSE 0) + (IF final = p THEN 1 ELSE 0)
    BY LinkCount
  <1>f. faults \in Nat
    OBVIOUS
  <1>n. p # NoFile
    BY PublicationAssumption
  <1>1. CASE Create(p)
    BY <1>1, <1>f DEF Create
  <1>2. CASE Write(p) \/ SyncData(p) \/ Authenticate(p)
    BY <1>2, <1>f DEF Write, SyncData, Authenticate
  <1>3. CASE Link(p)
    BY <1>3, <1>f DEF Link
  <1>4. CASE CheckLink(p) \/ SyncLink(p)
    BY <1>4, <1>l, <1>f DEF CheckLink, SyncLink
  <1>5. CASE BeginExisting(p) \/ EndExisting(p)
    BY <1>5, <1>f DEF BeginExisting, BeginRead, EndExisting
  <1>6. CASE ParentReachable(p) \/ StatTemporary(p)
    BY <1>6, <1>f DEF ParentReachable, StatTemporary
  <1>7. CASE UnlinkTemporary(p) \/ SyncUnlink(p)
    BY <1>7, <1>f, <1>n DEF UnlinkTemporary, SyncUnlink
  <1>8. CASE BeginFinal(p)
    BY <1>8, <1>l, <1>f, <1>n DEF BeginFinal, BeginRead
  <1>9. CASE EndFinal(p)
    <2>1. published[p] /\ pc[p] = "final_read" => ReadExactly(p) /\ final = Expected(p)
      BY <1>l, <1>n, TextMeant, PublicationAssumption
         DEF ReadExactly, Expected, Meant
    <2> QED
      BY <1>9, <1>f, <2>1 DEF EndFinal
  <1>10. CASE LastLook(p) \/ Return(p)
    BY <1>10, <1>f DEF LastLook, Return
  <1>11. CASE StatPublished(p) \/ UnlinkPublished(p) \/ SyncRollback(p)
    BY <1>11, <1>f, <1>n DEF StatPublished, UnlinkPublished, SyncRollback, Aimed,
       NobodyBelieves, Linked
  <1>12. CASE StatCleanup(p) \/ UnlinkCleanup(p) \/ Raise(p)
    BY <1>12, <1>f DEF StatCleanup, UnlinkCleanup, Raise
  <1> QED
    BY <1>1, <1>2, <1>3, <1>4, <1>5, <1>6, <1>7, <1>8, <1>9, <1>10, <1>11, <1>12
       DEF Publication

LEMMA EndingsStep ==
  Turns /\ TurnInv /\ EndingsInv /\ [Next]_vars => EndingsInv'
  <1> SUFFICES ASSUME Turns, TurnInv, EndingsInv, [Next]_vars PROVE EndingsInv'
    OBVIOUS
  <1>1. ASSUME NEW p \in Publishers, Publication(p) PROVE EndingsInv'
    BY <1>1, OtherEndings, OwnEndings DEF EndingsInv
  <1>2. ASSUME NEW p \in Publishers, Crash(p) PROVE EndingsInv'
    <2>1. \A q \in Publishers : pc'[q] = pc[q] \/ pc'[q] = "crashed"
      BY <1>2 DEF Crash, TurnInv, DirectoryInv, TypeOK
    <2> QED
      BY <1>2, <2>1 DEF Crash, EndingsInv, Ending, Settled, Gone, Staging, Looking,
         Unlinked, directoryVars, durableVars, localVars
  <1>3. CASE PowerFailure
    <2>1. \A q \in Publishers :
            pc'[q] \in {"start", "accepted", "failed", "crashed"}
            /\ pc'[q] \in {pc[q], "crashed"}
      BY <1>3 DEF PowerFailure, Active, Over
    <2>2. /\ final' \in {final, durable_final} /\ durable_final' = final'
          /\ UNCHANGED <<published, seen, faults>>
      BY <1>3 DEF PowerFailure, localVars
    <2>3. \A q \in Publishers :
            /\ staged'[q] \in {staged[q], durable_staged[q]}
            /\ durable_staged'[q] = staged'[q]
      BY <1>3 DEF PowerFailure
    <2> QED
      BY <2>1, <2>2, <2>3 DEF EndingsInv, Ending, Settled, Gone, Staging, Looking,
         Unlinked
  <1>4. ASSUME NEW s \in Intruders, Displace(s) PROVE EndingsInv'
    BY <1>4 DEF Turns
  <1>5. CASE UNCHANGED vars
    BY <1>5 DEF vars, EndingsInv, Ending, Settled, Gone, directoryVars,
       durableVars, localVars
  <1> QED
    BY <1>1, <1>2, <1>3, <1>4, <1>5 DEF Next

(* A call that raises after at most one failing system call has taken its   *)
(* report back durably, or left it complete, durable and with one name,     *)
(* whatever crashes before or afterwards.                                  *)
THEOREM FailedCleanlyCorrect == ASSUME Turns PROVE Spec => []FailedCleanly
  <1>1. Init => TurnInv /\ EndingsInv
    <2> SUFFICES ASSUME Init PROVE EndingsInv
      BY TurnInit DEF Turns
    <2> QED
      BY PublicationAssumption
         DEF Init, EndingsInv, Ending, Settled, Gone, Staging, Looking, Unlinked
  <1>2. TurnInv /\ EndingsInv /\ [Next]_vars => (TurnInv /\ EndingsInv)'
    BY TurnStep, EndingsStep
  <1>3. TurnInv /\ EndingsInv => FailedCleanly
    <2> SUFFICES ASSUME TurnInv, EndingsInv, NEW p \in Publishers,
                        pc[p] = "failed", faults <= 1, final = p
                 PROVE  durable_final = p /\ Links(p) = 1 /\ Text(p) = wanted[p]
      BY DEF FailedCleanly
    <2>1. Settled(p)
      BY DEF EndingsInv, Ending, Gone
    <2>2. Links(p) = 1
      BY <2>1, LinkCount, PublicationAssumption DEF TurnInv, Settled
    <2>3. Text(p) = wanted[p]
      BY TextMeant, PublicationAssumption DEF TurnInv, Meant
    <2> QED
      BY <2>1, <2>2, <2>3 DEF Settled
  <1> QED
    BY <1>1, <1>2, <1>3, PTL DEF Spec

-----------------------------------------------------------------------------
(* Calls that race, while nothing fails and nobody interferes.              *)

Quiet == faults = 0 /\ crashes = 0 /\ used = {}

Rule == Serialized => OneAtATime

(* The report's own call is done with its temporary name.                   *)
Alone == final \in Publishers => staged[final] # final

Trusting == {"reachable", "stat_temp", "unlink_temp", "sync_unlink"} \cup Looking

(* A call that linked its file succeeds.  Any other finds a report in its   *)
(* place, which never changes again, and trusts it or is turned away.       *)
Peace(p) ==
  /\ pc[p] \notin {"rollback", "rollback_unlink", "rollback_sync", "crashed"}
  /\ staged[p] \in {p, NoFile} /\ (pc[p] \in Staging => staged[p] = p)
  /\ pc[p] \in {"sync_unlink", "accepted"} \cup Looking => staged[p] = NoFile
  /\ final = p <=> published[p]
  /\ published[p] => pc[p] \in {"check", "publish", "accepted"} \cup Trusting
  /\ pc[p] \in {"check", "publish"} => published[p]
  /\ pc[p] \in {"existing", "existing_read"} => final # NoFile
  /\ pc[p] = "existing_read" => seen[p] = final /\ Alone
  /\ pc[p] = "final_read" => seen[p] = final
  /\ pc[p] \in Trusting /\ ~published[p] =>
       /\ final # NoFile /\ existing[p] = final
       /\ Alone /\ Meant(final) = wanted[p]
  /\ pc[p] \in {"cleanup", "cleanup_unlink", "raise", "failed"} =>
       /\ final # NoFile
       /\ Serialized \/ final \in Strangers => Meant(final) # wanted[p]

PeaceInv == Quiet => \A p \in Publishers : Peace(p)

(* Strangers have the one name of the report, as long as nobody interferes. *)
LEMMA FinalLinks ==
  ASSUME DirectoryInv, final # NoFile,
         \A p \in Publishers : staged[p] \in {p, NoFile}
  PROVE  Links(final) = 1 <=> Alone
  <1>1. CASE final \in Publishers
    BY <1>1, LinkCount DEF Alone
  <1>2. CASE final \notin Publishers
    <2>1. {p \in Publishers : staged[p] = final} = {}
      BY <1>2
    <2> QED
      BY <1>2, <2>1, FS_EmptySet DEF Links, Alone
  <1> QED
    BY <1>1, <1>2

(* Callers that keep the rule take turns.                                   *)
LEMMA RuleStep ==
  TypeOK /\ Rule /\ [Next]_vars => Rule'
  <1> SUFFICES ASSUME TypeOK, Rule, [Next]_vars, Serialized PROVE OneAtATime'
    BY DEF Rule
  <1>1. ASSUME NEW p \in Publishers, Publication(p) PROVE OneAtATime'
    <2>o. \A q \in Publishers : q # p => pc'[q] = pc[q]
      BY <1>1, OthersWait
    <2>1. Active(p) \/ \A q \in Publishers : ~Active(q)
      BY <1>1 DEF Publication, Create, Write, SyncData, Authenticate, Link,
         CheckLink, SyncLink, EndExisting, Return, BeginExisting, BeginFinal,
         BeginRead, ParentReachable, StatTemporary, UnlinkTemporary, SyncUnlink,
         EndFinal, LastLook, StatPublished, UnlinkPublished, SyncRollback,
         StatCleanup, UnlinkCleanup, Raise, Active, Over
    <2> QED
      BY <2>o, <2>1 DEF Rule, OneAtATime, Active, Over
  <1>2. ASSUME \A q \in Publishers : pc'[q] \in {pc[q], "crashed"}
        PROVE  OneAtATime'
    BY <1>2 DEF Rule, OneAtATime, Active, Over
  <1>3. \A p \in Publishers : Crash(p) => \A q \in Publishers : pc'[q] \in {pc[q], "crashed"}
    BY DEF Crash, TypeOK
  <1>4. PowerFailure => \A q \in Publishers : pc'[q] \in {pc[q], "crashed"}
    BY DEF PowerFailure
  <1>5. (\E s \in Intruders : Displace(s)) \/ UNCHANGED vars => pc' = pc
    BY DEF Displace, vars
  <1> QED
    BY <1>1, <1>2, <1>3, <1>4, <1>5 DEF Next

(* Once there is a report it stays, under its name and with its text.       *)
LEMMA QuietStep ==
  ASSUME DirectoryInv, DirectoryInv', Quiet', Quiet, PeaceInv,
         NEW p \in Publishers, Publication(p)
  PROVE  /\ final # NoFile => final' = final /\ (Alone => Alone')
         /\ \A f : Meant(f)' = Meant(f)
         /\ wanted' = wanted
         /\ final' = final \/ (final' = p /\ published'[p] /\ ~published[p])
         /\ \A q \in Publishers : q # p =>
              /\ pc'[q] = pc[q] /\ staged'[q] = staged[q] /\ seen'[q] = seen[q]
              /\ published'[q] = published[q] /\ existing'[q] = existing[q]
  <1>1. \A q \in Publishers : q # p =>
          /\ pc'[q] = pc[q] /\ staged'[q] = staged[q] /\ seen'[q] = seen[q]
          /\ published'[q] = published[q] /\ existing'[q] = existing[q]
    <2>1. \A q \in Publishers : q # p => pc'[q] = pc[q]
      BY OthersWait DEF DirectoryInv
    <2>2. /\ \A q \in Publishers : q # p => staged'[q] = staged[q]
          /\ \A q \in Publishers : q # p => seen'[q] = seen[q]
          /\ \A q \in Publishers : q # p => published'[q] = published[q]
          /\ \A q \in Publishers : q # p => existing'[q] = existing[q]
      BY DEF Publication, Create, Write, SyncData, Authenticate, Link, CheckLink,
         SyncLink, EndExisting, Return, BeginExisting, BeginFinal, BeginRead,
         ParentReachable, StatTemporary, UnlinkTemporary, SyncUnlink, EndFinal,
         LastLook, StatPublished, UnlinkPublished, SyncRollback, StatCleanup,
         UnlinkCleanup, Raise, directoryVars, localVars, DirectoryInv, TypeOK
    <2> QED
      BY <2>1, <2>2
  <1>2. /\ wanted' = wanted /\ \A f : Meant(f)' = Meant(f)
    BY StepShape DEF worldVars, Meant
  <1>p. /\ pc[p] # "rollback_unlink"
        /\ final = p <=> published[p]
    <2>1. Peace(p)
      BY DEF PeaceInv
    <2> QED
      BY <2>1 DEF Peace
  <1>3. final' = final \/ (pc[p] = "link" /\ final = NoFile /\ final' = staged[p])
    BY <1>p, FinalMoves
  <1>4. final' = final \/ (final' = p /\ published'[p] /\ ~published[p])
    <2>1. pc[p] = "link" => staged[p] = p /\ final # p
      BY DEF PeaceInv, Peace, Staging, Trusting, Looking
    <2>2. final' # final => published'[p]
      BY <1>3 DEF Publication, Create, Write, SyncData, Authenticate, Link,
         CheckLink, SyncLink, EndExisting, Return, BeginExisting, BeginFinal,
         BeginRead, ParentReachable, StatTemporary, UnlinkTemporary, SyncUnlink,
         EndFinal, LastLook, StatPublished, UnlinkPublished, SyncRollback,
         StatCleanup, UnlinkCleanup, Raise, directoryVars, DirectoryInv, TypeOK
    <2> QED
      BY <1>p, <1>3, <2>1, <2>2, PublicationAssumption
  <1>5. staged'[p] = p /\ staged[p] # p => pc[p] = "start"
    BY DEF Publication, Create, Write, SyncData, Authenticate, Link, CheckLink,
       SyncLink, EndExisting, Return, BeginExisting, BeginFinal, BeginRead,
       ParentReachable, StatTemporary, UnlinkTemporary, SyncUnlink, EndFinal,
       LastLook, StatPublished, UnlinkPublished, SyncRollback, StatCleanup,
       UnlinkCleanup, Raise, directoryVars, DirectoryInv, TypeOK
  <1>6. final # NoFile => final' = final /\ (Alone => Alone')
    <2>1. final = p => pc[p] # "start"
      BY DEF PeaceInv, Peace, Trusting, Looking
    <2> QED
      BY <1>1, <1>3, <1>5, <2>1 DEF Alone
  <1> QED
    BY <1>1, <1>2, <1>4, <1>6

(* What a caller knows survives the steps of the others.                    *)
LEMMA OtherPeace ==
  ASSUME DirectoryInv, DirectoryInv', Quiet', Quiet, PeaceInv,
         NEW p \in Publishers, Publication(p), NEW q \in Publishers, q # p
  PROVE  Peace(q)'
  <1>1. /\ final # NoFile => final' = final /\ (Alone => Alone')
        /\ \A f : Meant(f)' = Meant(f)
        /\ wanted' = wanted
        /\ final' = final \/ (final' = p /\ published'[p] /\ ~published[p])
    BY QuietStep
  <1>2. /\ pc'[q] = pc[q] /\ staged'[q] = staged[q] /\ seen'[q] = seen[q]
        /\ published'[q] = published[q] /\ existing'[q] = existing[q]
    BY QuietStep
  <1>3. Peace(q)
    BY DEF PeaceInv
  <1>4. final' = q <=> final = q
    <2>1. final = q => final # NoFile
      BY PublicationAssumption
    <2> QED
      BY <1>1, <2>1
  <1>5. final # NoFile => Meant(final)' = Meant(final)
    BY <1>1 DEF Meant
  <1>6. CASE final # NoFile
    <2>1. /\ final' = final /\ (Alone => Alone')
          /\ Meant(final)' = Meant(final) /\ wanted'[q] = wanted[q]
      BY <1>1, <1>5, <1>6
    <2> QED
      BY <1>2, <1>3, <1>6, <2>1 DEF Peace
  <1>7. CASE final = NoFile
    <2>1. /\ pc[q] \notin {"existing", "existing_read", "cleanup", "cleanup_unlink",
                          "raise", "failed"} \cup Trusting
          /\ final' # q /\ ~published[q]
      BY <1>3, <1>4, <1>7, PublicationAssumption DEF Peace
    <2> QED
      BY <1>2, <1>3, <2>1 DEF Peace, Trusting, Looking
  <1> QED
    BY <1>6, <1>7

LEMMA OwnPeace ==
  ASSUME DirectoryInv, DirectoryInv', Rule, Quiet', Quiet, PeaceInv,
         NEW p \in Publishers, Publication(p)
  PROVE  Peace(p)'
  <1>q. /\ final # NoFile => final' = final /\ (Alone => Alone')
        /\ wanted' = wanted
        /\ final' = final \/ (final' = p /\ published'[p] /\ ~published[p])
    BY QuietStep
  <1>m. final # NoFile => Meant(final)' = Meant(final)
    BY QuietStep DEF Meant
  <1>p. Peace(p)
    BY DEF PeaceInv
  <1>f. faults = 0 /\ faults' = 0
    BY DEF Quiet
  <1>n. p # NoFile /\ p \notin Strangers
    BY PublicationAssumption
  <1>s. \A r \in Publishers : staged[r] \in {r, NoFile}
    BY DEF PeaceInv, Peace
  <1>l. /\ Links(p) = (IF staged[p] = p THEN 1 ELSE 0) + (IF final = p THEN 1 ELSE 0)
        /\ final # NoFile => (Links(final) = 1 <=> Alone)
        /\ final # NoFile => Text(final) = Meant(final)
    BY <1>s, LinkCount, FinalLinks, TextMeant
  (* Another call that is not done with its report is active.               *)
  <1>a. ~Alone => final \in Publishers /\ Active(final)
    <2>1. ~Alone => final \in Publishers /\ staged[final] = final
      BY DEF Alone
    <2>2. ~Alone => Peace(final) /\ final # NoFile
      BY <2>1, PublicationAssumption DEF PeaceInv
    <2> QED
      BY <2>1, <2>2 DEF Peace, Trusting, Active, Over
  <1>b. Serialized /\ ~Alone /\ Active(p) => final = p
    BY <1>a DEF Rule, OneAtATime
  (* Whatever is read at the end is there, and has one name.                *)
  <1>g. pc[p] \in Looking => final # NoFile /\ Alone
    BY <1>p, <1>n DEF Peace, Trusting, Alone
  <1> USE <1>f, <1>p, <1>q DEF Peace, Staging, Looking, Trusting, Goes, Fails,
          Handler, DirectoryInv, TypeOK, directoryVars, durableVars, localVars
  <1>1. CASE Create(p)
    BY <1>1, <1>n DEF Create, OwnNames
  <1>2. CASE Write(p) \/ SyncData(p)
    BY <1>2 DEF Write, SyncData
  <1>3. CASE Authenticate(p)
    BY <1>3, <1>l DEF Authenticate
  <1>4. CASE Link(p)
    BY <1>4, <1>n DEF Link
  <1>5. CASE CheckLink(p) \/ SyncLink(p)
    BY <1>5, <1>l DEF CheckLink, SyncLink
  <1>6. CASE BeginExisting(p)
    <2>1. CASE Alone
      BY <1>6, <1>l, <1>n, <2>1 DEF BeginExisting, BeginRead
    <2>2. CASE ~Alone
      BY <1>6, <1>a, <1>b, <1>l, <1>n, <1>m, <2>2, PublicationAssumption DEF BeginExisting, BeginRead, Active, Over
    <2> QED
      BY <2>1, <2>2
  <1>7. CASE EndExisting(p)
    BY <1>7, <1>l, <1>m, <1>n DEF EndExisting, ReadExactly
  <1>8. CASE ParentReachable(p) \/ StatTemporary(p)
    BY <1>8, <1>m DEF ParentReachable, StatTemporary
  <1>9. CASE UnlinkTemporary(p) \/ SyncUnlink(p)
    BY <1>9, <1>n, <1>m DEF UnlinkTemporary, SyncUnlink
  <1>10. CASE BeginFinal(p)
    BY <1>10, <1>g, <1>l, <1>m DEF BeginFinal, BeginRead
  <1>11. CASE EndFinal(p)
    <2>1. pc[p] = "final_read" => ReadExactly(p) /\ final = Expected(p)
      BY <1>g, <1>l, <1>n DEF ReadExactly, Expected, Meant
    <2> QED
      BY <1>11, <1>m, <2>1 DEF EndFinal
  <1>12. CASE LastLook(p) \/ Return(p)
    BY <1>12, <1>m DEF LastLook, Return
  <1>13. CASE StatPublished(p) \/ UnlinkPublished(p) \/ SyncRollback(p)
    BY <1>13 DEF StatPublished, UnlinkPublished, SyncRollback
  <1>14. CASE StatCleanup(p) \/ UnlinkCleanup(p) \/ Raise(p)
    BY <1>14, <1>n, <1>m DEF StatCleanup, UnlinkCleanup, Raise
  <1> QED
    BY <1>1, <1>2, <1>3, <1>4, <1>5, <1>6, <1>7, <1>8, <1>9, <1>10, <1>11,
       <1>12, <1>13, <1>14 DEF Publication

LEMMA PeaceStep ==
  DirectoryInv /\ Rule /\ PeaceInv /\ [Next]_vars => PeaceInv'
  <1> SUFFICES ASSUME DirectoryInv, Rule, PeaceInv, [Next]_vars, Quiet'
               PROVE  \A q \in Publishers : Peace(q)'
    BY DEF PeaceInv
  <1>d. DirectoryInv'
    BY DirectoryStep
  <1>1. ASSUME NEW p \in Publishers, Publication(p)
        PROVE  \A q \in Publishers : Peace(q)'
    <2>1. crashes' = crashes /\ used' = used
      BY <1>1, StepShape DEF worldVars
    <2>2. faults \in Nat /\ (faults' = faults \/ faults' = faults + 1)
      BY <1>1, PublicationMoves DEF Moves, Goes, Fails, DirectoryInv, TypeOK
    <2>3. Quiet
      BY <2>1, <2>2 DEF Quiet
    <2> QED
      BY <1>1, <1>d, <2>3, OtherPeace, OwnPeace
  <1>2. ASSUME NEW p \in Publishers, Crash(p) PROVE FALSE
    BY <1>2 DEF Crash, Quiet, DirectoryInv, TypeOK
  <1>3. CASE PowerFailure
    BY <1>3 DEF PowerFailure, Quiet, DirectoryInv, TypeOK
  <1>4. ASSUME NEW s \in Intruders, Displace(s) PROVE FALSE
    BY <1>4 DEF Displace, Quiet
  <1>5. CASE UNCHANGED vars
    BY <1>5 DEF vars, Quiet, PeaceInv, Peace, Alone, Meant, directoryVars,
       localVars, worldVars
  <1> QED
    BY <1>1, <1>2, <1>3, <1>4, <1>5 DEF Next

LEMMA RaceInit == Init => Rule /\ PeaceInv
  <1> SUFFICES ASSUME Init PROVE Rule /\ PeaceInv
    OBVIOUS
  <1>1. Rule
    BY DEF Init, Rule, OneAtATime, Active
  <1>2. PeaceInv
    BY PublicationAssumption DEF Init, PeaceInv, Peace, Staging, Trusting, Looking
  <1> QED
    BY <1>1, <1>2

(* While nothing fails, crashes or interferes, a call is turned away only   *)
(* by a report that is not its own: one with another text, or one that is   *)
(* still being published.  The call that linked it never fails.             *)
THEOREM RejectionJustifiedCorrect == Spec => []RejectionJustified
  <1>1. Init => DirectoryInv /\ Rule /\ PeaceInv
    BY DirectoryInit, RaceInit
  <1>2. DirectoryInv /\ Rule /\ PeaceInv /\ [Next]_vars
        => (DirectoryInv /\ Rule /\ PeaceInv)'
    BY DirectoryStep, RuleStep, PeaceStep DEF DirectoryInv
  <1>3. DirectoryInv /\ PeaceInv => RejectionJustified
    <2> SUFFICES ASSUME DirectoryInv, PeaceInv, Quiet, NEW p \in Publishers,
                        pc[p] = "failed"
                 PROVE  /\ final \notin {NoFile, p}
                        /\ Serialized \/ final \in Strangers => Text(final) # wanted[p]
                        /\ final \in Publishers => pc[final] # "failed"
      BY DEF RejectionJustified, Quiet
    <2>1. Peace(p)
      BY DEF PeaceInv
    <2>2. final \notin {NoFile, p}
      BY <2>1 DEF Peace, Trusting, Looking
    <2>3. Serialized \/ final \in Strangers => Text(final) # wanted[p]
      BY <2>1, <2>2, TextMeant DEF Peace
    <2>4. final \in Publishers => pc[final] # "failed"
      BY DEF PeaceInv, Peace, Trusting, Looking
    <2> QED
      BY <2>2, <2>3, <2>4
  <1> QED
    BY <1>1, <1>2, <1>3, PTL DEF Spec

-----------------------------------------------------------------------------
(* Racing calls and the register.                                           *)

Undisturbed == MaxFaults = 0 /\ MaxCrashes = 0 /\ Intruders = {}

(* A report that is accepted is the caller's own text.                      *)
LEMMA AcceptedText ==
  ASSUME DirectoryInv, Quiet, PeaceInv, NEW p \in Publishers, pc[p] = "return"
  PROVE  Report.text = wanted[p]
  <1>1. Peace(p)
    BY DEF PeaceInv
  <1>2. final # NoFile /\ Meant(final) = wanted[p]
    BY <1>1, PublicationAssumption DEF Peace, Trusting, Looking, Meant
  <1> QED
    BY <1>2, ReportMeant

LEMMA RaceRefines ==
  ASSUME DirectoryInv, DirectoryInv', Quiet, Quiet', PeaceInv,
         NEW p \in Publishers, Publication(p)
  PROVE  Register!Next \/ UNCHANGED Register!vars
  <1>q. /\ final # NoFile => final' = final
        /\ \A f : Meant(f)' = Meant(f)
        /\ wanted' = wanted
        /\ final' = final \/ (final' = p /\ published'[p] /\ ~published[p])
        /\ \A q \in Publishers : q # p => pc'[q] = pc[q]
    BY QuietStep
  <1>c. crashes' = crashes
    BY DEF Quiet
  <1>s. final' = final => Report' = Report
    BY <1>q, ReportMeant DEF Nothing
  <1>t. ~Over(p)
    BY DEF Publication, Create, Write, SyncData, Authenticate, Link, CheckLink,
       SyncLink, EndExisting, Return, BeginExisting, BeginFinal, BeginRead,
       ParentReachable, StatTemporary, UnlinkTemporary, SyncUnlink, EndFinal,
       LastLook, StatPublished, UnlinkPublished, SyncRollback, StatCleanup,
       UnlinkCleanup, Raise, Over
  <1>1. CASE ~Over(p)'
    <2>1. Answers' = Answers
      BY <1>1, <1>q, <1>t DEF Answers, Answer, Over
    <2>2. CASE final' = final
      BY <1>c, <1>q, <1>s, <2>1, <2>2 DEF Register!vars, Answers
    <2>3. CASE final' # final
      <3>1. final = NoFile /\ final' = p /\ p \notin Strangers /\ p # NoFile
        BY <1>q, <2>3, PublicationAssumption
      <3>2. Report = Nothing /\ Report' = [by |-> p, text |-> wanted[p]]
        BY <1>q, <3>1, ReportMeant DEF Meant
      <3>3. Register!Publish(p)
        BY <1>c, <1>q, <2>1, <3>2 DEF Register!Publish, Answers
      <3> QED
        BY <3>3 DEF Register!Next
    <2> QED
      BY <2>2, <2>3
  <1>2. CASE Over(p)'
    <2>1. \/ pc[p] = "return" /\ pc' = [pc EXCEPT ![p] = "accepted"]
          \/ pc[p] \in {"return", "raise"} /\ pc' = [pc EXCEPT ![p] = "failed"]
      BY <1>2 DEF Publication, Create, Write, SyncData, Authenticate, Link,
         CheckLink, SyncLink, EndExisting, Return, BeginExisting, BeginFinal,
         BeginRead, ParentReachable, StatTemporary, UnlinkTemporary, SyncUnlink,
         EndFinal, LastLook, StatPublished, UnlinkPublished, SyncRollback,
         StatCleanup, UnlinkCleanup, Raise, Goes, Fails, Handler, Over,
         DirectoryInv, TypeOK
    <2>2. Report' = Report /\ Answers[p] = "none"
      BY <1>s, <1>t, <2>1, FinalMoves DEF Answers, Answer, Over
    <2>3. CASE pc[p] = "return" /\ pc' = [pc EXCEPT ![p] = "accepted"]
      <3>1. Answers' = [Answers EXCEPT ![p] = "accepted"]
        BY <2>3 DEF Answers, Answer, DirectoryInv, TypeOK
      <3>2. Register!Accept(p)
        BY <1>c, <1>q, <2>2, <2>3, <3>1, AcceptedText DEF Register!Accept, Answers
      <3> QED
        BY <3>2 DEF Register!Next
    <2>4. CASE pc' = [pc EXCEPT ![p] = "failed"]
      <3>1. Answers' = [Answers EXCEPT ![p] = "failed"]
        BY <2>4 DEF Answers, Answer, DirectoryInv, TypeOK
      <3>2. Register!Fail(p)
        BY <1>c, <1>q, <2>2, <3>1 DEF Register!Fail, Answers
      <3> QED
        BY <3>2 DEF Register!Next
    <2> QED
      BY <2>1, <2>3, <2>4
  <1> QED
    BY <1>1, <1>2

(* Calls that race implement the register too, as long as nothing fails.    *)
THEOREM RacingRegisterCorrect == ASSUME Undisturbed PROVE Spec => RegisterSpec
  <1>1. Init => DirectoryInv /\ Rule /\ PeaceInv
    BY DirectoryInit, RaceInit
  <1>2. DirectoryInv /\ Rule /\ PeaceInv /\ [Next]_vars
        => (DirectoryInv /\ Rule /\ PeaceInv)'
    BY DirectoryStep, RuleStep, PeaceStep DEF DirectoryInv
  <1>3. TypeOK => Quiet
    BY DEF Undisturbed, Quiet, TypeOK
  <1>4. TypeOK' => Quiet'
    BY DEF Undisturbed, Quiet, TypeOK
  <1>5. DirectoryInv /\ Rule /\ PeaceInv /\ [Next]_vars
        => [Register!Next]_(Register!vars)
    <2> SUFFICES ASSUME DirectoryInv, PeaceInv, [Next]_vars
                 PROVE  Register!Next \/ UNCHANGED Register!vars
      OBVIOUS
    <2>1. DirectoryInv' /\ Quiet /\ Quiet'
      BY <1>3, <1>4, DirectoryStep DEF DirectoryInv
    <2>2. ASSUME NEW p \in Publishers, Publication(p)
          PROVE  Register!Next \/ UNCHANGED Register!vars
      BY <2>1, <2>2, RaceRefines
    <2>3. (\E p \in Publishers : Crash(p)) \/ PowerFailure => FALSE
      BY <2>1 DEF Crash, PowerFailure, Undisturbed, DirectoryInv, TypeOK
    <2>4. ~\E s \in Intruders : Displace(s)
      BY DEF Undisturbed
    <2>5. CASE UNCHANGED vars
      <3>1. Report' = Report
        BY <2>5 DEF vars, Report, Text, directoryVars, worldVars
      <3>2. Answers' = Answers /\ wanted' = wanted /\ crashes' = crashes
        BY <2>5 DEF vars, Answers, Answer, worldVars
      <3> QED
        BY <3>1, <3>2 DEF Register!vars, Answers
    <2> QED
      BY <2>2, <2>3, <2>4, <2>5 DEF Next
  <1> QED
    BY <1>1, <1>2, <1>5, InitRefines, PTL DEF Spec, RegisterSpec, Register!Spec
=============================================================================
