---------------------- MODULE ArtifactPublicationProofs ----------------------
(***************************************************************************)
(* Proofs about ArtifactPublication, for any set of writers and any number *)
(* of losses of power: its type invariant, that the destination is always  *)
(* whole, and that no-overwrite publication is exclusive; then that what   *)
(* callers of the builders learn is true (the exceptions tell whether the  *)
(* destination changed, a returned store is durable, temporary files are   *)
(* accounted for), and that ArtifactPublication implements                 *)
(* ArtifactRegister.                                                       *)
(***************************************************************************)
EXTENDS ArtifactPublication, TLAPS

\* A writer in one of these steps has not published yet.
Early == {"new", "create", "build", "commit", "validate", "sync"}

\* A writer in one of these steps has a valid file that is safe on disk.
Late == {"publish", "unlink", "directory_sync", "open"}

\* DestinationAlwaysWhole is not inductive: it also takes that a writer has
\* validated and synced its file by the time it names it, and that a file which
\* is still written has no name yet.
WholeInv ==
    /\ \A f \in on_disk : Whole(f)
    /\ \A w \in Writers :
         /\ pc[w] \in Early => w \notin on_disk
         /\ pc[w] = "sync" => file[w] = "valid"
         /\ pc[w] \in Late => file[w] = "valid" /\ w \in synced

\* The strengthening of NoOverwriteExclusive: as long as the power was not lost,
\* an empty destination means that nothing was published and none was there.
ExclusiveInv ==
    losses = 0 =>
        /\ destination = NoFile => published = << >> /\ on_disk = {NoFile}
        /\ \A i \in DOMAIN published :
             published[i] \notin Overwriters => i = 1 /\ Old \notin on_disk

-----------------------------------------------------------------------------

\* The steps of one writer and their faults keep every variable in its type.
LEMMA WriterTypes ==
    ASSUME TypeOK, NEW w \in Writers, Write(w) \/ Fault(w)
    PROVE  TypeOK'
<1>1. w \in Files
  BY DEF Files
<1>2. CASE CheckDestination(w)
  BY <1>2 DEF TypeOK, CheckDestination, Raise, Goto, names, Step, Outcome, Error
<1>3. CASE CreateTemporary(w)
  BY <1>1, <1>3 DEF TypeOK, CreateTemporary, Raise, Goto, Step, Outcome, Error, Content
<1>4. CASE CreateFails(w)
  BY <1>4 DEF TypeOK, CreateFails, Raise, Goto, names, Step, Outcome, Error
<1>5. CASE Build(w)
  BY <1>5 DEF TypeOK, Build, Goto, names, Step
<1>6. CASE BuildFails(w)
  BY <1>6 DEF TypeOK, BuildFails, Fail, Goto, names, Step, Error
<1>7. CASE Commit(w)
  BY <1>1, <1>7 DEF TypeOK, Commit, Goto, names, Step, Content
<1>8. CASE CommitFails(w)
  BY <1>8 DEF TypeOK, CommitFails, Fail, Goto, names, Step, Error
<1>9. CASE Validate(w)
  BY <1>9 DEF TypeOK, Validate, Goto, names, Step
<1>10. CASE ValidateFails(w)
  BY <1>10 DEF TypeOK, ValidateFails, Fail, Goto, names, Step, Error
<1>11. CASE SyncFile(w)
  BY <1>1, <1>11 DEF TypeOK, SyncFile, Goto, names, Step
<1>12. CASE SyncFileFails(w)
  BY <1>12 DEF TypeOK, SyncFileFails, Fail, Goto, names, Step, Error
<1>13. CASE Replace(w)
  BY <1>1, <1>13 DEF TypeOK, Replace, Point, Goto, AfterNaming, Step
<1>14. CASE Link(w)
  BY <1>1, <1>14 DEF TypeOK, Link, Point, Goto, Step
<1>15. CASE LinkExists(w)
  BY <1>15 DEF TypeOK, LinkExists, Fail, Goto, names, Step, Error
<1>16. CASE PublishFails(w)
  BY <1>16 DEF TypeOK, PublishFails, Fail, Goto, names, Step, Error
<1>17. CASE Unlink(w)
  BY <1>17 DEF TypeOK, Unlink, Goto, AfterNaming, Step
<1>18. CASE UnlinkFails(w)
  BY <1>18 DEF TypeOK, UnlinkFails, Fail, Goto, names, Step, Error
<1>19. CASE SyncDirectory(w)
  BY <1>19 DEF TypeOK, SyncDirectory, Goto, Step
<1>20. CASE SyncDirectoryFails(w)
  BY <1>20 DEF TypeOK, SyncDirectoryFails, Fail, Goto, names, Step, Error
<1>21. CASE Open(w)
  BY <1>21 DEF TypeOK, Open, Goto, names, Step, Outcome
<1>22. CASE OpenFails(w)
  BY <1>22 DEF TypeOK, OpenFails, Fail, Goto, names, Step, Error
<1>23. CASE Interrupt(w)
  BY <1>23 DEF TypeOK, Interrupt, Fail, Goto, names, Step, Error
<1>24. CASE Abort(w)
  BY <1>24 DEF TypeOK, Abort, Goto, Step, Outcome
<1>25. CASE Kill(w)
  BY <1>25 DEF TypeOK, Kill, Step
<1> QED
  BY <1>2, <1>3, <1>4, <1>5, <1>6, <1>7, <1>8, <1>9, <1>10, <1>11, <1>12, <1>13, <1>14,
     <1>15, <1>16, <1>17, <1>18, <1>19, <1>20, <1>21, <1>22, <1>23, <1>24, <1>25
     DEF Write, Fault

LEMMA PowerLossTypes == TypeOK /\ PowerLoss => TypeOK'
<1> SUFFICES ASSUME TypeOK, PowerLoss PROVE TypeOK'
  OBVIOUS
<1>1. pc' \in [Writers -> Step]
  BY DEF TypeOK, PowerLoss, Step
<1>2. file' \in [Files -> Content]
  BY DEF TypeOK, PowerLoss, Content
<1>3. losses' \in 0 .. MaxPowerLosses
  BY PublicationAssumptions DEF TypeOK, PowerLoss
<1> QED
  BY <1>1, <1>2, <1>3 DEF TypeOK, PowerLoss

\* The type invariant of the publication: the constants are as assumed, nothing
\* else is needed.
THEOREM TypeCorrect == SafetySpec => []TypeOK
<1>1. Init => TypeOK
  BY PublicationAssumptions DEF Init, TypeOK, Step, Outcome, Content, Files
<1>2. TypeOK /\ [Next]_vars => TypeOK'
  <2> SUFFICES ASSUME TypeOK, [Next]_vars PROVE TypeOK'
    OBVIOUS
  <2>1. CASE UNCHANGED vars
    BY <2>1 DEF TypeOK, vars, names
  <2>2. CASE \E w \in Writers : Write(w) \/ Fault(w)
    BY <2>2, WriterTypes
  <2>3. CASE PowerLoss
    BY <2>3, PowerLossTypes
  <2> QED
    BY <2>1, <2>2, <2>3 DEF Next
<1> QED
  BY <1>1, <1>2, PTL DEF SafetySpec

-----------------------------------------------------------------------------

\* No step of a writer exposes a file that is not whole.
LEMMA WriterWhole ==
    ASSUME TypeOK, WholeInv, NEW w \in Writers, Write(w) \/ Fault(w)
    PROVE  WholeInv'
<1> USE DEF Whole, Early, Late
<1>1. w \in Files /\ w # NoFile /\ w # Old
  BY PublicationAssumptions DEF Files
<1>2. CASE CheckDestination(w)
  BY <1>2 DEF TypeOK, WholeInv, CheckDestination, Raise, Goto, names
<1>3. CASE CreateTemporary(w)
  BY <1>1, <1>3 DEF TypeOK, WholeInv, CreateTemporary, Raise, Goto
<1>4. CASE Build(w)
  BY <1>4 DEF TypeOK, WholeInv, Build, Goto, names
<1>5. CASE Commit(w)
  BY <1>1, <1>5 DEF TypeOK, WholeInv, Commit, Goto, names
<1>6. CASE Validate(w)
  BY <1>6 DEF TypeOK, WholeInv, Validate, Goto, names
<1>7. CASE SyncFile(w)
  BY <1>7 DEF TypeOK, WholeInv, SyncFile, Goto, names
<1>8. CASE Replace(w)
  BY <1>1, <1>8 DEF TypeOK, WholeInv, Replace, Point, Goto, AfterNaming
<1>9. CASE Link(w)
  BY <1>1, <1>9 DEF TypeOK, WholeInv, Link, Point, Goto
<1>10. CASE Unlink(w)
  BY <1>10 DEF TypeOK, WholeInv, Unlink, Goto, AfterNaming
<1>11. CASE SyncDirectory(w)
  BY <1>11 DEF TypeOK, WholeInv, SyncDirectory, Goto
<1>12. CASE Open(w)
  BY <1>12 DEF TypeOK, WholeInv, Open, Goto, names
<1>13. CASE Abort(w)
  BY <1>13 DEF TypeOK, WholeInv, Abort, Goto
<1>14. CASE LinkExists(w) \/ Fault(w)
  BY <1>14 DEF TypeOK, WholeInv, LinkExists, Fault, Fail, Raise, Goto, names, CreateFails,
       BuildFails, CommitFails, ValidateFails, SyncFileFails, PublishFails, UnlinkFails,
       SyncDirectoryFails, OpenFails, Interrupt, Kill
<1> QED
  BY <1>2, <1>3, <1>4, <1>5, <1>6, <1>7, <1>8, <1>9, <1>10, <1>11, <1>12, <1>13, <1>14
     DEF Write

\* A loss of power only tears files that were not synced, and brings back a
\* directory entry that was safe before.
LEMMA PowerLossWhole == TypeOK /\ WholeInv /\ PowerLoss => WholeInv'
<1> SUFFICES ASSUME TypeOK, WholeInv, PowerLoss PROVE WholeInv'
  OBVIOUS
<1>1. \A f \in synced : file[f] = "valid" => file'[f] = "valid"
  BY DEF TypeOK, PowerLoss
<1>2. \A f \in on_disk' : Whole(f)'
  BY <1>1 DEF PowerLoss, WholeInv, Whole
<1>3. \A w \in Writers : pc'[w] \notin Late /\ pc'[w] # "sync"
  BY DEF TypeOK, PowerLoss, Running, Late
<1>4. \A w \in Writers : pc'[w] \in Early => w \notin on_disk'
  BY DEF TypeOK, PowerLoss, WholeInv, Running, Early
<1> QED
  BY <1>2, <1>3, <1>4 DEF WholeInv

\* Whoever opens the destination finds a committed and validated artifact or
\* nothing, whatever the writers do, and also after a loss of power.
THEOREM DestinationWhole == SafetySpec => []DestinationAlwaysWhole
<1>1. Init => WholeInv
  BY PublicationAssumptions DEF Init, WholeInv, Whole, Early, Late, Files
<1>2. TypeOK /\ WholeInv /\ [Next]_vars => WholeInv'
  <2> SUFFICES ASSUME TypeOK, WholeInv, [Next]_vars PROVE WholeInv'
    OBVIOUS
  <2>1. CASE UNCHANGED vars
    BY <2>1 DEF WholeInv, Whole, vars, names
  <2>2. CASE \E w \in Writers : Write(w) \/ Fault(w)
    BY <2>2, WriterWhole
  <2>3. CASE PowerLoss
    BY <2>3, PowerLossWhole
  <2> QED
    BY <2>1, <2>2, <2>3 DEF Next
<1>3. TypeOK /\ WholeInv => DestinationAlwaysWhole
  BY DEF TypeOK, WholeInv, DestinationAlwaysWhole
<1> QED
  BY <1>1, <1>2, <1>3, TypeCorrect, PTL DEF SafetySpec

-----------------------------------------------------------------------------

\* Without a loss of power, no writer that does not overwrite publishes over
\* anything.
LEMMA WriterExclusive ==
    ASSUME TypeOK, ExclusiveInv, NEW w \in Writers, Write(w) \/ Fault(w)
    PROVE  ExclusiveInv'
<1>1. w # NoFile /\ w # Old /\ Old # NoFile
  BY PublicationAssumptions
<1>2. CASE Replace(w)
  BY <1>1, <1>2 DEF TypeOK, ExclusiveInv, Replace, Point
<1>3. CASE Link(w)
  BY <1>1, <1>3 DEF TypeOK, ExclusiveInv, Link, Point
<1>4. CASE SyncDirectory(w)
  BY <1>4 DEF TypeOK, ExclusiveInv, SyncDirectory
<1>5. CASE UNCHANGED <<destination, on_disk, published, losses>>
  BY <1>5 DEF ExclusiveInv
<1>6. Replace(w) \/ Link(w) \/ SyncDirectory(w)
        \/ UNCHANGED <<destination, on_disk, published, losses>>
  BY DEF Write, Fault, names, CheckDestination, CreateTemporary, CreateFails, Build, BuildFails,
       Commit, CommitFails, Validate, ValidateFails, SyncFile, SyncFileFails, LinkExists,
       PublishFails, Unlink, UnlinkFails, SyncDirectoryFails, Open, OpenFails, Interrupt,
       Abort, Kill
<1> QED
  BY <1>2, <1>3, <1>4, <1>5, <1>6

\* No-overwrite publication preserves an existing destination, however many
\* writers race: at most one of them publishes, and only at an empty destination.
THEOREM ExclusivePublication == SafetySpec => []NoOverwriteExclusive
<1>1. Init => ExclusiveInv
  BY DEF Init, ExclusiveInv
<1>2. TypeOK /\ ExclusiveInv /\ [Next]_vars => ExclusiveInv'
  <2> SUFFICES ASSUME TypeOK, ExclusiveInv, [Next]_vars PROVE ExclusiveInv'
    OBVIOUS
  <2>1. CASE UNCHANGED vars
    BY <2>1 DEF ExclusiveInv, vars, names
  <2>2. CASE \E w \in Writers : Write(w) \/ Fault(w)
    BY <2>2, WriterExclusive
  <2>3. CASE PowerLoss
    BY <2>3 DEF TypeOK, ExclusiveInv, PowerLoss
  <2> QED
    BY <2>1, <2>2, <2>3 DEF Next
<1>3. ExclusiveInv => NoOverwriteExclusive
  BY DEF ExclusiveInv, NoOverwriteExclusive
<1> QED
  BY <1>1, <1>2, <1>3, TypeCorrect, PTL DEF SafetySpec

-----------------------------------------------------------------------------
(* What callers learn.                                                     *)

\* The exceptions that a caller may take as "published" and as "not published".
Changed   == {"publication", "durability"}
Unchanged == {"import_failure", "exists"}

\* Each writer's step tells whether it has published and has an outcome.
CallInv ==
    \A w \in Writers :
        /\ outcome[w] # "none" => pc[w] = "done"
        /\ pc[w] \in Early \cup {"publish"} => ~Published(w)
        /\ pc[w] \in {"unlink", "directory_sync", "open"} => Published(w)
        /\ pc[w] = "abort" => /\ error[w] \in Changed => Published(w)
                              /\ error[w] \in Unchanged => ~Published(w)
        /\ outcome[w] \in Changed \cup {"ok"} => Published(w)
        /\ outcome[w] \in Unchanged => ~Published(w)

\* The temporary name of a writer exists from its creation to its publication or
\* its cleanup.
TemporaryInv ==
    \A w \in Writers :
        /\ pc[w] \in {"new", "create", "directory_sync", "open"} => w \notin temporary
        /\ pc[w] = "done" /\ w \in temporary => w \in leaked /\ outcome[w] # "ok"

\* Since w published, others may have, but nothing went back to an older file;
\* and once w has synced the directory nothing older can come back.
DurableInv ==
    \A w \in Writers :
        /\ pc[w] \in {"unlink", "directory_sync", "open"} => NotOlder(destination, w)
        /\ outcome[w] = "ok" => NotOlder(opened[w], w)
        /\ DirectorySync /\ (pc[w] = "open" \/ outcome[w] = "ok") =>
             \A f \in on_disk : NotOlder(f, w)

CallerInv == CallInv /\ TemporaryInv /\ DurableInv

-----------------------------------------------------------------------------

\* Publication appends the writer to the log and keeps what was there.
LEMMA PointLog ==
    ASSUME TypeOK, NEW w \in Writers, Point(w)
    PROVE  /\ \A v \in Writers : Published(v)' <=> Published(v) \/ v = w
           /\ NotOlder(w, w)'
           /\ \A v \in Writers : Published(v) => NotOlder(w, v)'
           /\ \A f, v : NotOlder(f, v) => NotOlder(f, v)'
<1>1. /\ DOMAIN published' = DOMAIN published \cup {Len(published) + 1}
      /\ published'[Len(published) + 1] = w
      /\ \A i \in DOMAIN published : published'[i] = published[i] /\ i <= Len(published) + 1
  BY DEF TypeOK, Point
<1> QED
  BY <1>1 DEF Published, NotOlder, TypeOK

LEMMA LogUnchanged ==
    ASSUME UNCHANGED published
    PROVE  /\ \A v : Published(v)' <=> Published(v)
           /\ \A f, v : NotOlder(f, v)' <=> NotOlder(f, v)
BY DEF Published, NotOlder

LEMMA WriterCalls ==
    ASSUME TypeOK, CallInv, NEW w \in Writers, Write(w) \/ Fault(w)
    PROVE  CallInv'
<1> USE DEF Early, Changed, Unchanged
<1>1. CASE Replace(w)
  BY <1>1, PointLog DEF TypeOK, CallInv, Replace, Goto, AfterNaming
<1>2. CASE Link(w)
  BY <1>2, PointLog DEF TypeOK, CallInv, Link, Goto
<1>3. CASE CheckDestination(w) \/ CreateTemporary(w) \/ CreateFails(w)
  BY <1>3, LogUnchanged DEF TypeOK, CallInv, CheckDestination, CreateTemporary, CreateFails,
       Raise, Goto, names
<1>4. CASE Build(w) \/ Commit(w) \/ Validate(w) \/ SyncFile(w)
  BY <1>4, LogUnchanged DEF TypeOK, CallInv, Build, Commit, Validate, SyncFile, Goto, names
<1>5. CASE LinkExists(w) \/ Unlink(w) \/ SyncDirectory(w) \/ Open(w)
  BY <1>5, LogUnchanged DEF TypeOK, CallInv, LinkExists, Unlink, SyncDirectory, Open, Fail,
       Goto, AfterNaming, names
<1>6. CASE Abort(w)
  BY <1>6, LogUnchanged DEF TypeOK, CallInv, Abort, Goto, Error
<1>7. CASE Fault(w) /\ ~CreateFails(w)
  BY <1>7, LogUnchanged DEF TypeOK, CallInv, Fault, Fail, Goto, names, BuildFails, CommitFails,
       ValidateFails, SyncFileFails, PublishFails, UnlinkFails, SyncDirectoryFails, OpenFails,
       Interrupt, Kill, Running
<1> QED
  BY <1>1, <1>2, <1>3, <1>4, <1>5, <1>6, <1>7 DEF Write

LEMMA WriterTemporary ==
    ASSUME TypeOK, TemporaryInv, NEW w \in Writers, Write(w) \/ Fault(w)
    PROVE  TemporaryInv'
<1>1. CASE CheckDestination(w) \/ CreateTemporary(w) \/ CreateFails(w)
  BY <1>1 DEF TypeOK, TemporaryInv, CheckDestination, CreateTemporary, CreateFails, Raise,
       Goto, names
<1>2. CASE Build(w) \/ Commit(w) \/ Validate(w) \/ SyncFile(w)
  BY <1>2 DEF TypeOK, TemporaryInv, Build, Commit, Validate, SyncFile, Goto, names
<1>3. CASE Replace(w) \/ Link(w) \/ LinkExists(w) \/ Unlink(w)
  BY <1>3 DEF TypeOK, TemporaryInv, Replace, Link, LinkExists, Unlink, Fail, Goto,
       AfterNaming, names
<1>4. CASE SyncDirectory(w) \/ Open(w)
  BY <1>4 DEF TypeOK, TemporaryInv, SyncDirectory, Open, Goto, names
<1>5. CASE Abort(w)
  BY <1>5 DEF TypeOK, TemporaryInv, Abort, Goto, Error
<1>6. CASE Fault(w) /\ ~CreateFails(w)
  BY <1>6 DEF TypeOK, TemporaryInv, Fault, Fail, Goto, names, BuildFails, CommitFails,
       ValidateFails, SyncFileFails, PublishFails, UnlinkFails, SyncDirectoryFails, OpenFails,
       Interrupt, Kill
<1> QED
  BY <1>1, <1>2, <1>3, <1>4, <1>5, <1>6 DEF Write

LEMMA WriterDurable ==
    ASSUME TypeOK, CallInv, DurableInv, NEW w \in Writers, Write(w) \/ Fault(w)
    PROVE  DurableInv'
<1>1. CASE Replace(w) \/ Link(w)
  <2>1. Point(w) /\ UNCHANGED outcome
    BY <1>1 DEF Replace, Link
  <2>2. \A v \in Writers : v # w => pc'[v] = pc[v]
    BY <1>1 DEF TypeOK, Replace, Link, Goto
  <2>3. pc'[w] = "open" => ~DirectorySync
    BY <1>1 DEF TypeOK, Replace, Link, Goto, AfterNaming
  <2>4. outcome[w] # "ok"
    BY <1>1 DEF CallInv, Replace, Link, Goto
  <2>5. NotOlder(destination, w)'
    BY <2>1, PointLog DEF Point
  <2>6. ASSUME NEW v \in Writers, v # w, pc'[v] \in {"unlink", "directory_sync", "open"}
        PROVE  NotOlder(destination, v)'
    BY <2>1, <2>2, <2>6, PointLog DEF CallInv, Point
  <2>7. ASSUME NEW v \in Writers, v # w, DirectorySync, pc'[v] = "open" \/ outcome'[v] = "ok"
        PROVE  \A f \in on_disk' : NotOlder(f, v)'
    <3>1. Published(v) /\ \A f \in on_disk : NotOlder(f, v)
      BY <2>1, <2>2, <2>7 DEF CallInv, DurableInv
    <3>2. on_disk' = on_disk \cup {w}
      BY <2>1 DEF Point
    <3> QED
      BY <2>1, <3>1, <3>2, PointLog
  <2>8. ASSUME NEW v \in Writers, outcome'[v] = "ok"
        PROVE  NotOlder(opened[v], v)' /\ v # w
    <3>1. NotOlder(opened[v], v) /\ v # w
      BY <2>1, <2>4, <2>8 DEF DurableInv
    <3>2. opened' = opened
      BY <1>1 DEF Replace, Link
    <3> QED
      BY <2>1, <3>1, <3>2, PointLog
  <2> QED
    BY <2>1, <2>3, <2>4, <2>5, <2>6, <2>7, <2>8 DEF DurableInv
<1>2. CASE SyncDirectory(w)
  BY <1>2, LogUnchanged DEF TypeOK, DurableInv, SyncDirectory, Goto
<1>3. CASE Unlink(w)
  BY <1>3, LogUnchanged DEF TypeOK, DurableInv, Unlink, Goto, AfterNaming
<1>4. CASE Open(w)
  BY <1>4, LogUnchanged DEF TypeOK, DurableInv, Open, Goto, names
<1>5. CASE Abort(w)
  BY <1>5, LogUnchanged DEF TypeOK, DurableInv, Abort, Goto, Error
<1>6. CASE CheckDestination(w) \/ CreateTemporary(w) \/ CreateFails(w)
  BY <1>6, LogUnchanged DEF TypeOK, DurableInv, CheckDestination, CreateTemporary, CreateFails,
       Raise, Goto, names
<1>7. CASE Build(w) \/ Commit(w) \/ Validate(w) \/ SyncFile(w) \/ LinkExists(w)
  BY <1>7, LogUnchanged DEF TypeOK, DurableInv, Build, Commit, Validate, SyncFile, LinkExists,
       Fail, Goto, names
<1>8. CASE Fault(w) /\ ~CreateFails(w)
  BY <1>8, LogUnchanged DEF TypeOK, DurableInv, Fault, Fail, Goto, names, BuildFails,
       CommitFails, ValidateFails, SyncFileFails, PublishFails, UnlinkFails,
       SyncDirectoryFails, OpenFails, Interrupt, Kill
<1> QED
  BY <1>1, <1>2, <1>3, <1>4, <1>5, <1>6, <1>7, <1>8 DEF Write

LEMMA PowerLossCaller == TypeOK /\ CallerInv /\ PowerLoss => CallerInv'
<1> SUFFICES ASSUME TypeOK, CallerInv, PowerLoss PROVE CallerInv'
  OBVIOUS
<1> USE DEF PowerLoss, Running
<1>1. CallInv'
  BY LogUnchanged DEF TypeOK, CallerInv, CallInv, Early
<1>2. TemporaryInv'
  BY DEF TypeOK, CallerInv, TemporaryInv
<1>3. DurableInv'
  BY LogUnchanged DEF TypeOK, CallerInv, DurableInv
<1> QED
  BY <1>1, <1>2, <1>3 DEF CallerInv

LEMMA CallerCorrect == SafetySpec => []CallerInv
<1>1. Init => CallerInv
  BY DEF Init, CallerInv, CallInv, TemporaryInv, DurableInv, Published, Changed, Unchanged
<1>2. TypeOK /\ CallerInv /\ [Next]_vars => CallerInv'
  <2> SUFFICES ASSUME TypeOK, CallerInv, [Next]_vars PROVE CallerInv'
    OBVIOUS
  <2>1. CASE UNCHANGED vars
    BY <2>1, LogUnchanged DEF CallerInv, CallInv, TemporaryInv, DurableInv, vars, names
  <2>2. CASE \E w \in Writers : Write(w) \/ Fault(w)
    BY <2>2, WriterCalls, WriterTemporary, WriterDurable DEF CallerInv
  <2>3. CASE PowerLoss
    BY <2>3, PowerLossCaller
  <2> QED
    BY <2>1, <2>2, <2>3 DEF Next
<1> QED
  BY <1>1, <1>2, TypeCorrect, PTL DEF SafetySpec

-----------------------------------------------------------------------------

\* SQLiteDurabilityError and SQLitePublicationError are only raised once the
\* destination has changed, and a failed import or an existing destination mean
\* that the writer did not change it.
THEOREM ErrorsAreTrue == SafetySpec => []ErrorsTellPublication
<1>1. CallerInv => ErrorsTellPublication
  BY DEF CallerInv, CallInv, ErrorsTellPublication, Changed, Unchanged
<1> QED
  BY <1>1, CallerCorrect, PTL

\* A writer that returns without an exception leaves no temporary file, and one
\* that raises leaves it only when it could not remove it.
THEOREM TemporariesAccounted == SafetySpec => []NoTemporaryLeft
<1>1. CallerInv => NoTemporaryLeft
  BY DEF CallerInv, TemporaryInv, NoTemporaryLeft, Returned
<1> QED
  BY <1>1, CallerCorrect, PTL

\* A returned store is the writer's artifact or one published after it, and when
\* the host can sync directories a loss of power leaves no older one.
THEOREM StoresAreDurable == SafetySpec => []ReturnedIsDurable
<1>1. CallerInv => ReturnedIsDurable
  BY DEF CallerInv, DurableInv, NotOlder, ReturnedIsDurable
<1> QED
  BY <1>1, CallerCorrect, PTL

-----------------------------------------------------------------------------

\* A writer's step is one step of the register, or none.
LEMMA WriterSimulates ==
    ASSUME TypeOK, CallerInv, NEW w \in Writers, Write(w) \/ Fault(w)
    PROVE  Register!Next \/ UNCHANGED Register!vars
<1> DEFINE told == [v \in Writers |-> Told(v)]
<1>1. CASE UNCHANGED <<outcome, destination, on_disk, published>>
  BY <1>1 DEF Register!vars, Told
<1>2. CASE Replace(w) \/ Link(w)
  <2>1. Told(w) = "nothing" /\ ~Published(w)
    BY <1>2 DEF CallerInv, CallInv, Replace, Link, Goto, Told, Early
  <2>2. UNCHANGED told
    BY <1>2 DEF Replace, Link, Told
  <2>3. Register!Publish(w)
    BY <1>2, <2>1, <2>2 DEF Register!Publish, Register!InLog, Published, Replace, Link, Point
  <2> QED
    BY <2>3 DEF Register!Next
<1>3. CASE SyncDirectory(w)
  <2>1. Register!MakeDurable
    BY <1>3 DEF Register!MakeDurable, SyncDirectory, Told
  <2> QED
    BY <2>1 DEF Register!Next
<1>4. CASE \E e \in Outcome \ {"none"} :
             /\ outcome[w] = "none"
             /\ outcome' = [outcome EXCEPT ![w] = e]
             /\ e \in Changed => Published(w)
             /\ e \in Unchanged => ~Published(w)
             /\ e = "ok" => Published(w) /\ (DirectorySync => \A f \in on_disk : NotOlder(f, w))
             /\ UNCHANGED <<destination, on_disk, published>>
  <2>1. PICK e \in Outcome \ {"none"} :
             /\ outcome[w] = "none"
             /\ outcome' = [outcome EXCEPT ![w] = e]
             /\ e \in Changed => Published(w)
             /\ e \in Unchanged => ~Published(w)
             /\ e = "ok" => Published(w) /\ (DirectorySync => \A f \in on_disk : NotOlder(f, w))
             /\ UNCHANGED <<destination, on_disk, published>>
    BY <1>4
  <2>2. told[w] = "nothing" /\ outcome'[w] = e /\ \A v \in Writers \ {w} : outcome'[v] = outcome[v]
    BY <2>1 DEF TypeOK, Told
  <2>3. ASSUME NEW answer, answer = Told(w)' PROVE told' = [told EXCEPT ![w] = answer]
    BY <2>2, <2>3 DEF Told
  <2>4. CASE e = "ok"
    <3>1. Register!Store(w)
      BY <2>1, <2>2, <2>3, <2>4 DEF Register!Store, Register!Tell, Register!InLog,
           Register!Survives, Published, NotOlder, Told
    <3> QED
      BY <3>1 DEF Register!Next
  <2>5. CASE e \in Changed
    <3>1. Register!Change(w)
      BY <2>1, <2>2, <2>3, <2>5 DEF Register!Change, Register!Tell, Register!InLog,
           Published, Told, Changed
    <3> QED
      BY <3>1 DEF Register!Next
  <2>6. CASE e \in Unchanged
    <3>1. Register!Refuse(w)
      BY <2>1, <2>2, <2>3, <2>6 DEF Register!Refuse, Register!Tell, Register!InLog,
           Published, Told, Unchanged
    <3> QED
      BY <3>1 DEF Register!Next
  <2>7. CASE e \notin Changed \cup Unchanged \cup {"ok"}
    BY <2>1, <2>2, <2>7 DEF Register!vars, Told, Changed, Unchanged
  <2> QED
    BY <2>4, <2>5, <2>6, <2>7
<1>5. CASE Open(w)
  BY <1>4, <1>5 DEF CallerInv, CallInv, DurableInv, Open, Goto, names, Outcome, Changed, Unchanged
<1>6. CASE Abort(w)
  <2>1. CASE error[w] = "none"
    BY <1>6, <2>1 DEF TypeOK, CallerInv, CallInv, Abort, Goto, Told, Register!vars
  <2>2. CASE error[w] # "none"
    <3>1. error[w] \in Outcome \ {"none"} /\ outcome[w] = "none"
      BY <1>6, <2>2 DEF TypeOK, CallerInv, CallInv, Abort, Goto, Outcome
    <3>2. /\ outcome' = [outcome EXCEPT ![w] = error[w]]
          /\ UNCHANGED <<destination, on_disk, published>>
          /\ error[w] \in Changed => Published(w)
          /\ error[w] \in Unchanged => ~Published(w)
      BY <1>6 DEF CallerInv, CallInv, Abort, Goto
    <3>3. error[w] # "ok"
      BY DEF TypeOK, Error
    <3> QED
      BY <1>4, <3>1, <3>2, <3>3
  <2> QED
    BY <2>1, <2>2
<1>7. CASE CheckDestination(w) \/ CreateTemporary(w) \/ CreateFails(w)
  BY <1>1, <1>4, <1>7 DEF CallerInv, CallInv, CheckDestination, CreateTemporary, CreateFails,
       Raise, Goto, names, Outcome, Error, Early, Changed, Unchanged
<1>8. CASE Build(w) \/ Commit(w) \/ Validate(w) \/ SyncFile(w) \/ LinkExists(w) \/ Unlink(w)
  BY <1>1, <1>8 DEF Build, Commit, Validate, SyncFile, LinkExists, Unlink, Fail, Goto, names
<1>9. CASE Fault(w) /\ ~CreateFails(w)
  BY <1>1, <1>9 DEF Fault, Fail, Goto, names, BuildFails, CommitFails, ValidateFails,
       SyncFileFails, PublishFails, UnlinkFails, SyncDirectoryFails, OpenFails, Interrupt, Kill
<1> QED
  BY <1>2, <1>3, <1>5, <1>6, <1>7, <1>8, <1>9 DEF Write

\* The publication protocol implements an atomic register of whole artifacts
\* whose answers to callers are true.
THEOREM PublicationImplementsRegister == SafetySpec => ImplementsRegister
<1>1. Init => Register!Init
  BY DEF Init, Register!Init, Told
<1>2. TypeOK /\ CallerInv /\ [Next]_vars => [Register!Next]_(Register!vars)
  <2> SUFFICES ASSUME TypeOK, CallerInv, [Next]_vars
               PROVE  Register!Next \/ UNCHANGED Register!vars
    OBVIOUS
  <2>1. CASE UNCHANGED vars
    BY <2>1 DEF vars, names, Register!vars, Told
  <2>2. CASE \E w \in Writers : Write(w) \/ Fault(w)
    BY <2>2, WriterSimulates
  <2>3. CASE PowerLoss
    <3>1. Register!LosePower
      BY <2>3 DEF PowerLoss, Register!LosePower, Told
    <3> QED
      BY <3>1 DEF Register!Next
  <2> QED
    BY <2>1, <2>2, <2>3 DEF Next
<1> QED
  BY <1>1, <1>2, TypeCorrect, CallerCorrect, PTL
     DEF SafetySpec, ImplementsRegister, Register!Spec
=============================================================================
