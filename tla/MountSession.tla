---------------------------- MODULE MountSession ----------------------------
(***************************************************************************)
(* One `run` or `--background` mount (mount_session.py): a parent starts a *)
(* worker (fuse/adapter/mount.py) in a session of its own, waits for the   *)
(* byte that the worker writes once it has mounted, runs a command (run    *)
(* only), and cleans up: it unmounts, stops the worker with SIGINT, SIGTERM*)
(* and SIGKILL, and removes the temporary mountpoint.                      *)
(*                                                                         *)
(* Any call may time out, fail or be interrupted; the worker may be slow,  *)
(* deaf to signals, silent or die; another terminal may unmount; the       *)
(* command may leave processes behind that hold the mount.                 *)
(***************************************************************************)
EXTENDS Naturals, Sequences

CONSTANT MaxInterrupts      \* bound: Ctrl-C in the parent

VARIABLES
    mode,           \* "run" or "background"
    pc,             \* the parent's next step
    result,         \* what it will return or raise
    level,          \* stop_process: signals sent so far
    worker,         \* the worker process
    consumer,       \* the command of a run
    signals,        \* sent to each of them and not acted upon
    announced,      \* the worker has written its byte
    mount,          \* what the mountpoint is
    held,           \* a process uses the mount
    directory,      \* the mountpoint itself
    interrupts,     \* how often the parent was interrupted
    cut,            \* history: the steps at which an interrupt cut something short
    crashed         \* history: the worker died without closing its mount

parent == <<mode, pc, result, level, directory, interrupts, cut>>
kernel == <<mount, held>>
child  == <<worker, consumer, signals, announced, crashed>>
vars   == <<parent, kernel, child>>

Start   == {"precheck", "popen", "select", "read", "ismount", "poll"}
Stopping == {"stop_failed", "stop_again", "stop_consumer", "stop_worker"}
Cleanup == {"check_mount", "unmount", "rmdir"} \cup Stopping

\* Where no handler makes up for an interrupt.
Unguarded == {"popen", "poll", "consume", "stop_again", "stop_consumer", "stop_worker", "rmdir"}

Init ==
    /\ mode \in {"run", "background"}
    /\ pc = "precheck" /\ result = "none" /\ level = 0
    /\ worker = "none" /\ consumer = "none" /\ announced = FALSE
    /\ signals = [p \in {"worker", "consumer"} |-> {}]
    /\ mount = "none" /\ held = FALSE /\ directory = "empty"
    /\ interrupts = 0 /\ cut = {} /\ crashed = FALSE

\* os.path.ismount: a mount without its worker looks like one as long as the
\* kernel remembers the root's attributes ("stale") and not after that ("dead").
IsMount == mount \in {"live", "stale"}

\* It has no timeout and asks the worker of a live mount, and so do the calls of
\* Path.resolve() in unmount().  A worker answers once it serves; until the mount is
\* closed the kernel may do so for it.
Asking   == pc \in {"ismount", "check_mount", "unmount", "rmdir"} /\ mount = "live"
Answered == mount = "live" => worker \in {"serving", "closing"}

Goto(step) == pc' = step /\ level' = 0

\* An exception out of start_background: run_mounted never learned of a worker.
NoWorker == IF mode = "run" THEN "rmdir" ELSE "done"

Raise(step) == Goto(step) /\ result' = "raised"

-----------------------------------------------------------------------------
(* start_background                                                        *)

\* A mountpoint that is mounted or not empty is refused; run's is new.
Precheck ==
    /\ pc = "precheck"
    /\ \/ Goto("popen") /\ UNCHANGED result
       \/ mode = "background" /\ Raise("done")
    /\ UNCHANGED <<mode, directory, interrupts, cut, kernel, child>>

Popen ==
    /\ pc = "popen"
    /\ \/ Goto("select") /\ worker' = "starting" /\ UNCHANGED result
       \/ Raise(NoWorker) /\ UNCHANGED worker
    /\ UNCHANGED <<mode, directory, interrupts, cut, kernel, consumer, signals, announced, crashed>>

\* The pipe is readable with the byte in it or with no writer left.
Select ==
    /\ pc = "select" /\ (announced \/ worker = "dead")
    /\ Goto("read")
    /\ UNCHANGED <<mode, result, directory, interrupts, cut, kernel, child>>

\* Fault: the mount is taken for readiness.
TimeoutProbes ==
    /\ pc = "select" /\ Goto("ismount")
    /\ UNCHANGED <<mode, result, directory, interrupts, cut, kernel, child>>

SelectTimeout ==
    /\ pc = "select" /\ Goto("stop_failed")
    /\ UNCHANGED <<mode, result, directory, interrupts, cut, kernel, child>>

\* The three conditions after select() in their order.
Probe ==
    /\ \/ pc = "read" /\ Goto(IF announced THEN "ismount" ELSE "stop_failed")
       \/ pc = "ismount" /\ Answered /\ Goto(IF IsMount THEN "poll" ELSE "stop_failed")
       \/ pc = "poll" /\ worker = "dead" /\ Goto("stop_failed")
       \/ pc = "poll" /\ worker # "dead" /\ mode = "run" /\ Goto("consume")
    /\ UNCHANGED <<mode, result, directory, interrupts, cut, kernel, child>>

ReturnMounted ==
    /\ pc = "poll" /\ worker # "dead" /\ mode = "background"
    /\ Goto("done") /\ result' = "returned"
    /\ UNCHANGED <<mode, directory, interrupts, cut, kernel, child>>

-----------------------------------------------------------------------------
(* stop_process, called for the worker from the failing start, from its    *)
(* exception handler and from the cleanup, and for the consumer.           *)

Target == IF pc = "stop_consumer" THEN "consumer" ELSE "worker"
TargetEnded == IF pc = "stop_consumer" THEN consumer \in {"none", "dead"} ELSE worker = "dead"
Signal == <<"INT", "TERM", "KILL">>

Stopped ==
    /\ \/ pc = "stop_failed"   /\ Raise("stop_again")
       \/ pc = "stop_again"    /\ Raise(NoWorker)
       \/ pc = "stop_consumer" /\ Goto("check_mount") /\ UNCHANGED result
       \/ pc = "stop_worker"   /\ Goto("rmdir") /\ UNCHANGED result
    /\ UNCHANGED <<mode, directory, interrupts, cut, kernel, child>>

\* poll() or wait() finds the process ended.
StopReaps == pc \in Stopping /\ TargetEnded /\ Stopped

\* Fault: wait() without a timeout.
WaitForever ==
    /\ pc \in Stopping /\ ~TargetEnded /\ level = 0
    /\ level' = 1 /\ signals' = [signals EXCEPT ![Target] = @ \cup {Signal[1]}]
    /\ UNCHANGED <<mode, pc, result, directory, interrupts, cut, kernel, worker, consumer,
                   announced, crashed>>

\* The first signal, or the next one after five seconds.
Escalate ==
    /\ pc \in Stopping /\ ~TargetEnded /\ level < 3
    /\ level' = level + 1
    /\ signals' = [signals EXCEPT ![Target] = @ \cup {Signal[level + 1]}]
    /\ UNCHANGED <<mode, pc, result, directory, interrupts, cut, kernel, worker, consumer,
                   announced, crashed>>

\* After SIGKILL and five more seconds stop_process returns all the same.
GiveUp == pc \in Stopping /\ ~TargetEnded /\ level = 3 /\ Stopped

-----------------------------------------------------------------------------
(* run_mounted                                                             *)

StartConsumer ==
    /\ pc = "consume"
    /\ \/ Goto("wait") /\ consumer' = "running" /\ UNCHANGED result
       \/ Raise("stop_consumer") /\ UNCHANGED consumer
    /\ UNCHANGED <<mode, directory, interrupts, cut, kernel, worker, signals, announced, crashed>>

WaitConsumer ==
    /\ pc = "wait" /\ consumer = "dead"
    /\ Goto("stop_consumer") /\ result' = "returned"
    /\ UNCHANGED <<mode, directory, interrupts, cut, kernel, child>>

CheckMount ==
    /\ pc = "check_mount" /\ Answered
    /\ Goto(IF IsMount THEN "unmount" ELSE "stop_worker")
    /\ UNCHANGED <<mode, result, directory, interrupts, cut, kernel, child>>

\* unmount(): fusermount3 takes a mount away that no one uses.  The loop that waits
\* for it to disappear ends at once.
Unmount ==
    /\ pc = "unmount" /\ mount # "none" /\ ~held
    /\ mount' = "none"
    /\ Goto("stop_worker")
    /\ UNCHANGED <<mode, result, directory, interrupts, cut, held, child>>

\* There is no mount any more, it is busy, or the helper is missing, slow or fails.
UnmountFails ==
    /\ pc = "unmount" /\ Raise("stop_worker")
    /\ UNCHANGED <<mode, directory, interrupts, cut, kernel, child>>

\* Fault: errors of rmdir() are ignored.
RmdirSuppressed ==
    /\ pc = "rmdir" /\ Goto("done") /\ UNCHANGED result
    /\ \/ mount = "dead" /\ UNCHANGED directory
       \/ mount = "none" /\ directory' \in {"filled", "removed"}
    /\ UNCHANGED <<mode, interrupts, cut, kernel, child>>

\* A mountpoint that still looks mounted is left.
Rmdir ==
    /\ pc = "rmdir" /\ Answered /\ mount # "dead"
    /\ Goto("done")
    /\ directory' = IF mount = "none" THEN "removed" ELSE directory
    /\ UNCHANGED <<mode, result, interrupts, cut, kernel, child>>

\* Removing a dead mount raises EBUSY; a directory without one may be gone, or no
\* longer empty.
RmdirFails ==
    /\ pc = "rmdir" /\ Raise("done")
    /\ \/ mount = "dead" /\ UNCHANGED directory
       \/ mount = "none" /\ directory' \in {"filled", "removed"}
    /\ UNCHANGED <<mode, interrupts, cut, kernel, child>>

\* Cutting a step short that nothing makes up for.
Cut(step) == Raise(step) /\ cut' = cut \cup {pc}

\* Fault: the handler of start_background catches Exception only.
InterruptedUnhandled ==
    \/ pc \in Start \cup {"stop_failed"} /\ Raise(NoWorker) /\ UNCHANGED cut
    \/ pc = "stop_again" /\ Cut(NoWorker)
    \/ pc \in {"consume", "wait"} /\ Raise("stop_consumer") /\ UNCHANGED cut
    \/ pc \in {"check_mount", "unmount"} /\ Raise("stop_worker") /\ UNCHANGED cut
    \/ pc \in {"stop_consumer", "stop_worker", "rmdir"} /\ Cut("done")

\* Where a KeyboardInterrupt takes the parent: the innermost handler or finally
\* that is left.  In stop_process for the consumer no other is; nor is there one
\* after the last of the conditions, where start_background closes its pipe.
Interrupted ==
    \/ pc \in {"precheck", "popen"} /\ Raise(NoWorker) /\ UNCHANGED cut
    \/ pc \in {"select", "read", "ismount", "poll", "stop_failed"}
         /\ Raise("stop_again") /\ UNCHANGED cut
    \/ pc = "poll" /\ worker # "dead" /\ Cut(NoWorker)
    \/ pc = "stop_again" /\ Cut(NoWorker)
    \/ pc \in {"consume", "wait"} /\ Raise("stop_consumer") /\ UNCHANGED cut
    \/ pc \in {"check_mount", "unmount"} /\ Raise("stop_worker") /\ UNCHANGED cut
    \/ pc \in {"stop_consumer", "stop_worker", "rmdir"} /\ Cut("done")

\* In subprocess.Popen(), after the fork: there is a process, and nobody knows it.
Forked ==
    \/ pc = "popen" /\ Cut(NoWorker) /\ worker' = "starting" /\ UNCHANGED consumer
    \/ pc = "consume" /\ Cut("check_mount") /\ consumer' = "running" /\ UNCHANGED worker

\* Ctrl-C between two calls of the parent or in one that waits.  The worker and
\* the command are in sessions of their own and do not get it.
Interrupt ==
    /\ pc # "done" /\ interrupts < MaxInterrupts
    /\ interrupts' = interrupts + 1
    /\ \/ Interrupted /\ UNCHANGED <<worker, consumer>>
       \/ Forked
    /\ UNCHANGED <<mode, directory, kernel, signals, announced, crashed>>

-----------------------------------------------------------------------------
(* The worker: mount_snapshot in a process of its own.                     *)

Alive == worker \in {"starting", "init", "mounted", "serving", "closing", "exiting"}

\* The import, the checks of mount_snapshot and pyfuse3.init take their time.
WorkerMounts ==
    /\ worker = "starting" /\ mount = "none"
    /\ worker' = "init" /\ mount' = "live"
    /\ UNCHANGED <<parent, held, consumer, signals, announced, crashed>>

\* From the return of init to the try statement nothing would close the mount.
WorkerEnters ==
    /\ worker = "init" /\ worker' = "mounted"
    /\ UNCHANGED <<parent, kernel, consumer, signals, announced, crashed>>

WorkerAnnounces ==
    /\ worker = "mounted" /\ worker' = "serving" /\ announced' = TRUE
    /\ UNCHANGED <<parent, kernel, consumer, signals, crashed>>

\* pyfuse3.main returns when the mount is gone, is interrupted by SIGINT and raises
\* what a handler does; the byte cannot be written to a parent that has given up.
MainEnds ==
    /\ worker \in {"mounted", "serving"} /\ worker' = "closing"
    /\ UNCHANGED <<parent, kernel, consumer, signals, announced, crashed>>

\* pyfuse3.close(unmount=True): libfuse detaches a mount, also one in use.
WorkerCloses ==
    /\ worker = "closing" /\ worker' = "exiting"
    /\ mount' = "none"
    /\ UNCHANGED <<parent, held, consumer, signals, announced, crashed>>

WorkerExits ==
    /\ worker = "exiting" /\ worker' = "dead"
    /\ UNCHANGED <<parent, kernel, consumer, signals, announced, crashed>>

\* An import or mount that fails, or SIGINT before there is a mount.
WorkerFails ==
    /\ worker = "starting" /\ worker' = "dead"
    /\ UNCHANGED <<parent, kernel, consumer, signals, announced, crashed>>

\* SIGTERM, which Python leaves at its default, SIGKILL, SIGINT right after init,
\* or a crash: whatever it is, nobody unmounts.
WorkerDies ==
    /\ Alive /\ worker' = "dead" /\ crashed' = TRUE
    /\ mount' = IF mount = "live" THEN "stale" ELSE mount
    /\ UNCHANGED <<parent, held, consumer, signals, announced>>

-----------------------------------------------------------------------------
(* The command, other processes and the kernel.                            *)

ConsumerEnds ==
    /\ consumer = "running" /\ consumer' = "dead"
    /\ UNCHANGED <<parent, kernel, worker, signals, announced, crashed>>

\* A process enters the mount, or leaves it; it may outlive the command.
Hold ==
    /\ consumer = "running" /\ mount = "live" /\ ~held /\ held' = TRUE
    /\ UNCHANGED <<parent, mount, child>>

LetGo ==
    /\ held /\ held' = FALSE
    /\ UNCHANGED <<parent, mount, child>>

\* `snapshotfs unmount` from another terminal.
ExternalUnmount ==
    /\ mount # "none" /\ ~held /\ mount' = "none"
    /\ UNCHANGED <<parent, held, child>>

AttributesExpire ==
    /\ mount = "stale" /\ mount' = "dead"
    /\ UNCHANGED <<parent, held, child>>

Stop == StopReaps \/ Escalate \/ GiveUp

Parent ==
    \/ Precheck \/ Popen \/ Select \/ SelectTimeout \/ Probe \/ ReturnMounted
    \/ Stop
    \/ StartConsumer \/ WaitConsumer \/ CheckMount \/ Unmount \/ UnmountFails
    \/ Rmdir \/ RmdirFails

Worker ==
    \/ WorkerMounts \/ WorkerEnters \/ WorkerAnnounces \/ MainEnds
    \/ WorkerCloses \/ WorkerExits \/ WorkerFails \/ WorkerDies

Environment == ConsumerEnds \/ Hold \/ LetGo \/ ExternalUnmount \/ AttributesExpire

Next == Parent \/ Interrupt \/ Worker \/ Environment

\* Only the parent is scheduled for sure: every wait of its own has a timeout,
\* except those for the command and for the answer of a live mount.  Nothing is
\* assumed of a worker, not even that it answers.
Spec == Init /\ [][Next]_vars /\ WF_vars(Parent /\ ~Asking)

-----------------------------------------------------------------------------
(* Properties.                                                             *)

TypeOK ==
    /\ mode \in {"run", "background"}
    /\ pc \in Start \cup Cleanup \cup {"consume", "wait", "done"}
    /\ result \in {"none", "returned", "raised"}
    /\ level \in 0 .. 3
    /\ worker \in {"none", "starting", "init", "mounted", "serving", "closing", "exiting",
                   "dead"}
    /\ consumer \in {"none", "running", "dead"}
    /\ signals \in [{"worker", "consumer"} -> SUBSET {"INT", "TERM", "KILL"}]
    /\ mount \in {"none", "live", "stale", "dead"}
    /\ directory \in {"empty", "filled", "removed"}
    /\ held \in BOOLEAN /\ announced \in BOOLEAN /\ crashed \in BOOLEAN
    /\ interrupts \in Nat /\ cut \subseteq Unguarded

\* An interrupt made the parent forget its worker, or cut stop_process short: a
\* second one in the handler of start_background, or also the first one in the
\* Popen() and the last lines of start_background or in the cleanup of run_mounted.
WorkerLeft ==
    \/ cut \cap {"popen", "poll", "stop_consumer", "stop_worker"} # {}
    \/ "stop_again" \in cut /\ interrupts > 1

\* The same for the command of a run.
CommandLeft == cut \cap {"consume", "stop_consumer"} # {}

Returned == pc = "done" /\ result = "returned"

\* docs/cli/sqlite.md: a background mount is reported, and a command started, only
\* after the worker was ready, whatever the timeout races with (start_background).
ReadyFirst == consumer # "none" \/ (Returned /\ mode = "background") => announced

\* No worker outlives a parent that did not report it as mounted, and no command
\* its run, unless SIGKILL has not taken it yet or an interrupt hit one of the steps
\* that WorkerLeft and CommandLeft name (stop_process and the handlers around it).
NoOrphan ==
    pc = "done" =>
        /\ \/ Returned /\ mode = "background"
           \/ WorkerLeft
           \/ worker \in {"none", "dead"} \/ "KILL" \in signals["worker"]
        /\ \/ CommandLeft
           \/ consumer \in {"none", "dead"} \/ "KILL" \in signals["consumer"]

\* A run that returns its command's status has left no mount, no directory and no
\* process, even when the worker died on the way.  When the start, the command or
\* the unmounting fails, or Ctrl-C ends it, it leaves no mount either, and at most a
\* directory in which others put something, as long as its worker ends in order,
\* need not be killed, and no interrupt hit the cleanup or the start where no
\* handler makes up for it (CtrlCCleansUp is about those).
RunCleansUp ==
    pc = "done" /\ mode = "run" =>
        /\ Returned => /\ mount = "none" /\ directory = "removed" /\ consumer = "dead"
                       /\ (worker = "dead" \/ "KILL" \in signals["worker"])
        /\ cut \subseteq {"consume"} /\ ~crashed /\ "KILL" \notin signals["worker"] =>
             mount = "none" /\ directory # "empty"

\* Once the cleanup has begun the parent comes back, whatever the worker, the
\* command and the helper do, except that it may ask a live mount whose worker
\* never answers.
CleanupEnds == [](pc \in Cleanup => <>(pc = "done" \/ []Asking))

\* docs/cli/sqlite.md, of run: it "unmounts and removes the temporary directory" and
\* "Ctrl-C stops the program and cleans up the mount"; docs/cli/troubleshooting.md:
\* it "cleans up on command completion, execution failure, and Ctrl-C".
\* So a run whose worker did not crash and was not even asked to end has unmounted
\* and left no directory of its own.  A first interrupt can leave both.
CtrlCCleansUp ==
    pc = "done" /\ mode = "run" /\ consumer # "none" /\ ~crashed /\ signals["worker"] = {}
        => mount = "none" /\ directory # "empty"

\* docs/cli/troubleshooting.md, of run: "mounts are never lazily detached behind the
\* user's back".  The signals of a cleanup do not take a mount away that is in use.
NeverDetachedInUse ==
    [][held /\ mount = "live" /\ signals["worker"] # {} => mount' # "none"]_vars
=============================================================================
