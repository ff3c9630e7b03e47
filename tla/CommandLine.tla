----------------------------- MODULE CommandLine -----------------------------
(***************************************************************************)
(* The commands that import a listing or open an artifact (cli.py): their  *)
(* options, the import, the store they close again, the mount, and the     *)
(* status they exit with.                                                  *)
(*                                                                         *)
(* The import is module ImportService, statement by statement.  With       *)
(* --background, and in `run`, a caller starts a worker that runs the same *)
(* callback: the two are a session of module MountSession, whose worker    *)
(* takes its steps here together with those of the callback.  In the       *)
(* foreground there is no caller, and the "worker" is the command itself.  *)
(***************************************************************************)
EXTENDS ImportService

CONSTANTS
    Commands,       \* the commands that may be given
    MaxInterrupts   \* bound: Ctrl-C

Option == [mount : BOOLEAN, simulate : BOOLEAN, background : BOOLEAN, custom : BOOLEAN]

\* A custom registry is one that was passed to main().
Command ==
    { [action |-> a, store |-> s, options |-> o] :
        a \in {"create", "mount", "show", "run"}, s \in {"sqlite", "memory"}, o \in Option }

ASSUME CommandAssumptions == Commands \subseteq Command /\ MaxInterrupts \in Nat

VARIABLES
    command,
    step,           \* of the callback
    store,          \* the store it holds: "none", "open" or "closed"
    raised,         \* the exception on its way to main()
    status,         \* exit status of the process that runs the callback
    \* of MountSession; its pc is caller, which is "none" in the foreground
    mode, caller, result, level, worker, consumer, signals, announced, mount, held,
    directory, interrupts, cut, crashed

Session == INSTANCE MountSession WITH pc <- caller

session    == <<mode, caller, result, level, worker, consumer, signals, announced, mount, held,
                directory, interrupts, cut, crashed>>
callback   == <<command, step, store, raised, status>>
everything == <<vars, callback, session>>

Running == -1
Killed  == -9

Misused ==
    \/ /\ command.action = "create" /\ ~command.options.mount
       /\ command.options.simulate \/ command.options.background
    \/ command.options.background /\ command.options.custom

Imports == command.action = "create" \/ command.store = "memory"
Mounts  == command.options.mount

Mode(c) == IF c.action = "run" THEN "run"
           ELSE IF c.options.background THEN "background" ELSE "foreground"

CommandInit ==
    /\ Init
    /\ command \in Commands /\ mode = Mode(command)
    /\ step = "start" /\ store = "none" /\ raised = "none" /\ status = Running
    /\ caller = "none" /\ result = "none" /\ level = 0
    /\ worker = "none" /\ consumer = "none" /\ announced = FALSE
    /\ signals = [p \in {"worker", "consumer"} |-> {}]
    /\ mount = "none" /\ held = FALSE /\ directory = "empty"
    /\ interrupts = 0 /\ cut = {} /\ crashed = FALSE

At(s) == step = s /\ status = Running

\* Only the process that was started by the shell.
Front == At("start") /\ caller = "none" /\ worker = "none"

Continue(s) == step' = s /\ UNCHANGED raised

\* Leaving the callback with an exception; a with statement is left on the way.
Throw(e, s) == step' = s /\ raised' = e

-----------------------------------------------------------------------------
(* The callbacks create(), mount(), show() and run().                      *)

\* click.UsageError of create() and of _background_requested().
RefuseOptions ==
    /\ Front /\ Misused
    /\ Throw("usage", "exit")
    /\ UNCHANGED <<vars, session, command, store, status>>

\* start_background() or run_mounted() is called.
Detach ==
    /\ Front /\ ~Misused /\ mode # "foreground"
    /\ caller' = "precheck"
    /\ UNCHANGED <<vars, callback, mode, result, level, worker, consumer, signals, announced,
                   mount, held, directory, interrupts, cut, crashed>>

StayInForeground ==
    /\ Front /\ ~Misused /\ mode = "foreground"
    /\ worker' = "starting"
    /\ UNCHANGED <<vars, callback, mode, caller, result, level, consumer, signals, announced,
                   mount, held, directory, interrupts, cut, crashed>>

\* _create_components() has the source and parser, or a factory fails.
Begin ==
    /\ At("start") /\ worker = "starting"
    /\ \/ Continue(IF Imports THEN "import" ELSE "open")
       \/ Imports /\ Throw("error", "exit")
    /\ UNCHANGED <<vars, session, command, store, status>>

\* A statement of _create_store.
Import ==
    /\ At("import") /\ Next
    /\ UNCHANGED <<callback, session>>

\* Ctrl-C in the foreground, SIGINT in a worker.
Interruptible == "INT" \in signals["worker"]

\* Fault: the store of an import that failed is taken for one.
ImportedAnyway ==
    /\ At("import") /\ pc = "done"
    /\ store' = IF builder = "published" THEN "open" ELSE "none"
    /\ \/ outcome # "exception" /\ Continue("store")
       \/ outcome = "exception" /\ Throw("error", "exit")
       \/ outcome = "exception" /\ Interruptible /\ Throw("interrupt", "exit")
    /\ UNCHANGED <<vars, session, command, status>>

\* _create_store is left.  What it published is an open store also when an
\* exception, after the publication, keeps it from create().
Imported ==
    /\ At("import") /\ pc = "done"
    /\ store' = IF builder = "published" THEN "open" ELSE "none"
    /\ \/ outcome = "store" /\ Continue("store")
       \/ outcome = "import_failure" /\ Throw("import_failure", "exit")
       \/ outcome = "exception" /\ Throw("error", "exit")
       \/ outcome = "exception" /\ Interruptible /\ Throw("interrupt", "exit")
    /\ UNCHANGED <<vars, session, command, status>>

\* open_sqlite_store(), of mount and show.  How it comes to its answer is module
\* ArtifactValidation, where one of its queries need not end.
OpenStore ==
    /\ At("open")
    /\ \/ Continue("store") /\ store' = "open"
       \/ Throw("error", "exit") /\ UNCHANGED store
    /\ UNCHANGED <<vars, session, command, status>>

\* create() without --mount is done, show() prints; others mount.
UseStore ==
    /\ At("store")
    /\ \/ Continue(IF Mounts THEN "mount" ELSE "close")
       \/ command.action = "show" /\ Throw("error", "close")
    /\ UNCHANGED <<vars, session, command, store, status>>

\* mount_store() up to the return of pyfuse3.init.
Mount ==
    /\ At("mount") /\ Session!WorkerMounts
    /\ Continue("serve")
    /\ UNCHANGED <<vars, command, store, status>>

\* Fault: a mount that fails leaves the callback at once.
MountFailsOpen ==
    /\ At("mount") /\ Throw("error", "exit")
    /\ UNCHANGED <<vars, session, command, store, status>>

MountFails ==
    /\ At("mount") /\ Throw("error", "close")
    /\ UNCHANGED <<vars, session, command, store, status>>

Serve ==
    /\ At("serve")
    /\ Session!WorkerEnters \/ Session!WorkerAnnounces \/ Session!MainEnds
    /\ UNCHANGED <<vars, callback>>

\* mount_snapshot() has unmounted.  It returns when another process had done so
\* before, and raises what pyfuse3 or an interrupt did.
ServeEnds ==
    /\ At("serve") /\ Session!WorkerCloses
    /\ \/ announced /\ mount = "none" /\ Continue("close")
       \/ Interruptible /\ Throw("interrupt", "close")
       \/ Throw("error", "close")
    /\ UNCHANGED <<vars, command, store, status>>

\* closing(store), the with statements and the close() of create() without
\* --mount.  A store in memory has nothing to close.
CloseStore ==
    /\ At("close") /\ Continue("exit")
    /\ store' = IF command.store = "sqlite" THEN "closed" ELSE store
    /\ UNCHANGED <<vars, session, command, status>>

\* Between the import and its with statement create() has nothing to close.
Unguarded == command.action = "create" /\ step = "store"

\* KeyboardInterrupt outside of the import and of the served mount.
Interrupt ==
    /\ Front \/ Interruptible
    /\ \/ \E s \in {"start", "open"} : At(s) /\ Throw("interrupt", "exit")
       \/ /\ At("store") \/ At("mount") \/ (At("serve") /\ worker = "init")
          /\ Throw("interrupt", IF Unguarded THEN "exit" ELSE "close")
    /\ UNCHANGED <<vars, session, command, store, status>>

\* The except clauses of _run().
Status(e) ==
    IF e = "none" THEN 0
    ELSE IF e = "usage" THEN 2
    ELSE IF e = "interrupt" THEN 130
    ELSE 1

Exit ==
    /\ At("exit") /\ status' = Status(raised)
    /\ \/ worker = "none" /\ UNCHANGED session
       \/ Session!WorkerFails \/ Session!WorkerExits
       \/ worker = "init" /\ Session!WorkerDies
    /\ UNCHANGED <<vars, command, step, store, raised>>

\* SIGTERM, SIGKILL or a crash: nobody aborts the builder or closes the store.
Die ==
    /\ status = Running /\ Session!WorkerDies
    /\ status' = Killed
    /\ builder' = IF builder = "active" THEN "leaked" ELSE builder
    /\ UNCHANGED <<pc, collector, entries, build_diagnostic, added, report, outcome,
                   command, step, store, raised>>

-----------------------------------------------------------------------------

\* The process that was called, and its kernel and other processes.
Call ==
    /\ Session!Parent
    /\ UNCHANGED <<vars, callback>>

Surroundings ==
    /\ Session!Interrupt \/ Session!Environment
    /\ UNCHANGED <<vars, callback>>

\* Ctrl-C in the foreground.
PressCtrlC ==
    /\ caller = "none" /\ Session!Alive /\ interrupts < MaxInterrupts
    /\ interrupts' = interrupts + 1
    /\ signals' = [signals EXCEPT !["worker"] = @ \cup {"INT"}]
    /\ UNCHANGED <<vars, callback, mode, caller, result, level, worker, consumer, announced,
                   mount, held, directory, cut, crashed>>

Callback ==
    \/ RefuseOptions \/ Detach \/ StayInForeground \/ Begin \/ Import \/ Imported
    \/ OpenStore \/ UseStore \/ Mount \/ MountFails \/ ServeEnds \/ CloseStore \/ Exit

CommandNext ==
    \/ Callback \/ Serve \/ Interrupt \/ Die
    \/ Call \/ Surroundings \/ PressCtrlC

\* A command in the foreground runs: its listing and its mount() come to an end, and
\* a file system is served as long as it is mounted.  That an artifact is opened in
\* the end is not assumed.  A caller runs, and its waits have timeouts, except those
\* for the command of a run and for the answer of a live mount.  Nothing is assumed
\* of a worker, not even that it answers.
CommandSpec ==
    /\ CommandInit /\ [][CommandNext]_everything
    /\ WF_everything(caller = "none" /\ step # "open" /\ Callback)
    /\ WF_everything(Call /\ ~Session!Asking)

-----------------------------------------------------------------------------
(* Properties.                                                             *)

\* What a shell sees: the status of the caller where there is one.  The commands
\* of a run are taken to end with 0.
Told ==
    IF caller = "none" THEN status
    ELSE IF caller # "done" THEN Running
    ELSE IF result = "returned" THEN 0 ELSE Status("error")

\* Success is reported only for what was done: the snapshot is published, and the
\* mount was announced, also when a worker did both.  A refused import and misused
\* options end with their own status, publish nothing and mount nothing.
ExitTellsOutcome ==
    /\ Told = 0 => (Imports => builder = "published") /\ (Mounts => announced)
    /\ Told = 2 => builder = "absent" /\ worker = "none" /\ store = "none"
    /\ Misused /\ Told # Running => Told \in {2, 130}
    /\ outcome = "import_failure" /\ Told # Running =>
         Told # 0 /\ builder # "published" /\ mount = "none"

\* docs/cli/sqlite.md: a background mount is reported, and the command of a run
\* started, only after the worker was ready, whatever the timeout races with.
ReadyFirst == Session!ReadyFirst

\* A caller that gives up on its worker, perhaps in the middle of the import,
\* returns after the worker has ended, or SIGKILL is about to end it, unless an
\* interrupt hit one of the steps of the caller that Session!WorkerLeft names; so it
\* is with the command of a run.  A process that has ended has settled its builder:
\* only a kill, or an exception that meets the abort of a failed import, leaves a
\* file behind.
NothingRunsOn ==
    /\ Session!NoOrphan
    /\ status # Running => builder # "active"
    /\ builder = "leaked" => status = Killed \/ outcome = "exception"

\* A run that returns leaves no mount, directory or process behind, and one that
\* fails no mount and no empty directory, unless its worker crashed or needed SIGKILL
\* or an interrupt hit one of the steps that Session!RunCleansUp exempts.
RunCleansUp == Session!RunCleansUp

\* docs/architecture.md: CLI paths close SQLite stores on normal return, mount
\* failure and interruption.  What is left is a store that no with statement
\* guards yet, when an interrupt or a late failure of the import comes.
StoreClosedAtExit ==
    status \notin {Running, Killed} /\ command.store = "sqlite" /\ store = "open" =>
        /\ mount = "none" /\ ~announced
        /\ outcome = "exception" \/ (raised = "interrupt" /\ command.action = "create")

\* A command ends or serves its mount, unless the query that validates an artifact
\* does not end; a caller that waits for its worker to be ready comes back, and so
\* does one that cleans up, whatever the worker and the import in it do meanwhile,
\* unless it asks a live mount whose worker never answers.
CommandEnds ==
    /\ \/ <>(status # Running \/ step = "serve" \/ caller \in {"wait", "done"})
       \/ <>[](caller = "none" /\ step = "open") \/ <>[]Session!Asking
    /\ Session!CleanupEnds
=============================================================================
