# SnapshotFS in TLA+

SnapshotFS imports a filesystem listing (a Windows `dir /s` transcript), keeps it
as an immutable snapshot in memory or in an SQLite artifact, and mounts the
snapshot read-only through FUSE. This directory holds TLA+ models of its core, the
TLC configurations that check them, and TLAPS proofs. Paths below are relative to
`src/snapshotfs/`.

## The system

| Component | State it keeps | Operations | Talks to |
| --- | --- | --- | --- |
| Line decoder `decoding.py` | the undecoded rest of a chunk, line number, size limits | `iter_decoded_lines` | the parser pulls lines from it |
| Windows dir parser `parser/windows_dir/` | the open section, the footer flags, totals, `saw_section` | one branch per kind of line, end of input | yields `ParsedEntry` values, reports to the `DiagnosticCollector` |
| Diagnostics `diagnostics.py` | a bounded prefix, a total, `has_errors` | `add` | filled by the parser while its entries are consumed |
| Import service `import_service.py` | the first `BuildError` | `_create_store` | drives parser and builder, raises `ImportFailure` |
| Store builders `store/building.py`, `store/memory/builder.py`, `store/sqlite/builder.py` | nodes, children, next inode, `_finished` | `add`, `finish`, `abort` | called by the import service |
| Artifact publication `store/sqlite/builder.py`, `store/sqlite/artifact.py` | the temporary file, its connection, the destination | constructor, `finish` (commit, validate, `publish`, open), `abort` | the file system, other importers |
| Stores `store/memory/store.py`, `store/sqlite/store.py` | immutable nodes; a connection and a lock | `get_node`, `lookup`, `iter_children`, `iter_nodes`, `close` | read by the adapter and the CLI |
| Artifact validation `store/sqlite/validation.py`, `contract.py` | none | accept or refuse a file | every opening of an artifact |
| FUSE adapter `fuse/` | lookup counts, file and directory handles | the FUSE operations, `read_node` | the kernel, a store |
| Mount sessions `mount_session.py` | a worker process and a readiness pipe | `start_background`, `unmount`, `run_mounted`, `stop_process` | the worker, the kernel's mount table |
| Timestamps `timestamps.py` | none | `localize` | called by the parser for every entry |
| Command line `cli*.py`, `doctor.py`, `logging_setup.py` | a registry of sources and parsers | commands | all of the above |

What is hard about each of them:

- **Publication.** Several processes may write to one destination. Every call can
  fail or be interrupted, a process can be killed between two calls, and the
  machine can lose power, which forgets what has not been synced. The properties:
  the destination is whole at every moment, is not overwritten without
  `overwrite`, a returned store is durable, exceptions tell the truth about the
  destination, and no temporary file is forgotten.
- **Builders.** The walk of an `add()` creates ancestors before it knows whether
  the entry is acceptable, and may fail in the middle. Observations of one
  directory come in any order. The properties: the nodes always form a tree, a
  refused entry leaves no trace, an accepted one is there, and the result is a
  function of the set of accepted entries.
- **Import service.** Diagnostics of the parser, refusals of the builder and
  exceptions interleave, and the report is bounded. The properties: a snapshot is
  published whole or not at all, a failed import shows its cause, and the builder
  ends closed.
- **Parser.** One pass with a dozen flags. The properties: exactly the complete
  listings are accepted, and what is accepted was yielded as it stands.
- **Stores.** A call makes up to three queries and gives the lock back in between, when
  another thread may close the store; offsets may be negative or past the end. The
  property: every call answers as one look-up in the in-memory store would.
- **Artifact validation.** A dozen checks, each relying on those before it, one of them
  a recursive query. The properties: exactly snapshots are accepted, what is
  accepted can be served, and the validation ends.
- **FUSE adapter.** Lookup counts are kept on both sides of a queue: a `forget` of what
  the kernel held travels while other lookups of the inode are answered. Directories
  are read in pages whose size the kernel's buffer decides, and again from earlier
  positions. One counter names the handles of two dictionaries. What `open()` says
  about caching decides whether the kernel asks `read()` at all. The properties: the
  counts agree, descriptors are answered about their own inode and leave nothing
  behind, a directory is read exactly, a file is read exactly or its absence is told.
- **Mount sessions.** A timeout races the readiness of a worker, signals are ignored,
  workers die, the mount is busy, and Ctrl-C comes between any two calls. The
  properties: what is reported as mounted was ready, no worker and no mount is left
  without a report, and the cleanup comes to an end.
- **Line decoder.** A character, a newline, a UTF-16 unit or a byte-order mark across two
  reads; a line at the limit. The properties: what is yielded depends on the stream
  alone, and the buffer stays bounded.
- **Timestamps.** Local times in a gap or an overlap, and at the ends of the range of
  `datetime`. The property: an entry is yielded at the instant its listing means.
- **Command line.** Import, store, mount and exit status in one process or in two, with
  exceptions, interrupts and kills at every step. The properties: the status tells
  what happened, nothing is left running and the store is closed.

`PROJECT.json` lists these as hazards, each at its line and with the properties
that cover it, or with the reason why none can.

## Modules

| Module | What it is |
| --- | --- |
| `SnapshotBuilder` | the tree that both builders grow |
| `SnapshotContents` | what a builder promises: an atomic set of entries; implemented by `SnapshotBuilder` |
| `SnapshotBuilderProofs` | proofs about the tree and the refinement |
| `ArtifactPublication` | concurrent SQLite builders that publish at one path |
| `ArtifactRegister` | what the destination promises: a register of whole artifacts; implemented by `ArtifactPublication` |
| `ArtifactPublicationProofs` | proofs about publication and the refinement |
| `LineDecoder`, `LineDecoderProofs` | bytes to lines; proofs of its memory bound and that the reads do not matter |
| `Timestamps` | `localize` over any zone |
| `WindowsDirParser`, `WindowsDirParserProofs` | the parser's state machine, over `Timestamps`; proofs of all its properties, and of what `localize` computes |
| `ImportService` | `_create_store` and the diagnostic collector |
| `ArtifactValidation` | the checks that open an artifact |
| `SqliteStore` | an SQLite store: opened through `ArtifactValidation`, read and closed by threads |
| `SnapshotStore` | what a store promises, and the in-memory store; implemented by `SqliteStore` |
| `Ordering` | `ORDER BY`, shared by the two stores |
| `SqliteStoreProofs` | proofs about validation and the refinement |
| `FuseAdapter`, `FuseAdapterProofs` | lookup counts, handles and directory pages, with the kernel beside them |
| `FuseRead`, `FuseReadProofs` | `open`, `read_node` and the kernel's page cache |
| `MountSession` | a run or background mount: parent, worker, command, mountpoint |
| `CommandLine`, `CommandLineProofs` | a command: `ImportService` and `MountSession` composed with the store and the exit status; proofs about imports, sessions and commands |
| `MC*` | instances for TLC |

Operators introduced by a comment "Fault:" are faulty variants of the definition
that follows them. They are not part of any specification; with one of them in the
place of the original, a property of some run fails, which shows that the
property depends on what the code does there.

### SnapshotBuilder

`nodes`, `children` and `next_id` are the dictionaries of
`InMemorySnapshotBuilder`, and the `nodes` table, its `(parent_id, mounted_name)`
index and `_next_inode` of `SQLiteSnapshotBuilder`. The two classes run the same
loop, so that one module stands for both; where they differ, the difference is an
action (`WriteFails`, SQLite only).

`Add` and `AddInvalid` are the part of `add()` before the loop: `components()`
checks the whole path first. Each iteration of the loop is one step: `WalkNew` when
the child does not exist, `WalkExisting` when it does and fits, `WalkConflict` when
`conflict()` raises. `Merge` and `Compatible` are the two halves of `merge()`, the
node it leaves and whether it raises. `Finish` publishes `Node(...)` of every
node with `ContentValues`; `Abort` may follow anything.

Names are `Names` or `BadName`, which stands for every component that
`components()` refuses. Times and bytes are model values. `original_path`,
`source_line` and the metadata mapping do not influence control and are left out.
`ParsedEntry` is the set of entries that this repository's parser yields. The constructor
of the class asks for less (`LegalMetadata`): a parser of another package could write a
section header with a time, of which `merge()` keeps the first without a conflict, so that what
is said about the order of entries does not extend to it.
The two UPDATE statements that close an SQLite build compute the same as
`content_values()`, and are the one definition `ContentValues`.
The unsuccessful endings of the SQLite `finish()` are `Abort` here and are spelled
out in `ArtifactPublication`. An integer that SQLite cannot hold raises
`OverflowError` from `add()`, which no handler of the builder translates; to the
importer it is one more exception, and `WriteFails` stands for it too.

### ArtifactPublication

Each writer is a builder in a process of its own. Its `pc` is the next call it makes:
the early check, `mkstemp`, the build up to `finish()`, commit and close,
validation, `fsync` of the file, `os.replace` or `os.link`, `unlink` of the temporary
name, `fsync` of the directory, opening the destination. Every call has a failing
twin that leads, with the exception the code raises, to `abort()`. `Interrupt` is a
`KeyboardInterrupt` between two calls; `Kill` ends a process; `PowerLoss` ends
them all.

The file system is external and modelled from what the code assumes of it. A file
is named by its writer. `destination` is the file its name refers to now, `on_disk`
the set of files it may refer to after a loss of power: naming a file adds to that
set, and syncing the directory reduces it to the present one. A file that was not
synced may come back "torn". `DirectorySync` is `DIRECTORY_FSYNC_SUPPORTED`.

The history variables `published`, `leaked` and `losses` serve the properties.

### LineDecoder

`pending`, `line_start`, `line_number` and `byte_order` are the locals of
`iter_decoded_lines`; `search_from` is where the search for a newline resumes. `Read` is
one `read()` of any length, `TakeLine` the body of the inner loop, `KeepRest` what is
done with a part of a line, `End` what is done at the end of the stream. The loop for byte
encodings and the one for UTF-16 differ in the width of a unit, in alignment and in the byte
order, which are parameters here.

Python's decoders are external: a decoder is the set of positions it refuses and the
mark it drops. ASCII stands for every single-byte code page, a letter of two bytes and
the byte-order mark for all that UTF-8 has beyond ASCII.

### WindowsDirParser and Timestamps

A line is what the regular expressions of `grammar.py` make of it, in the order the
code tries them; the numbers of summaries and the properties of an entry that
later checks depend on are its fields. Each branch of `_parse` is an action, with
the diagnostics it reports as codes. Errors are kept as a set of codes because the
properties only ask whether there is one.

A zone is an offset and its changes. `UtcOffset` and `LocalTime` are what `zoneinfo`
computes (external); `Candidates`, `Unlocalizable`, `Overflows` and `Localize` are the two
folds and the way back that `localize()` tries. A refused time is a `ValueError`, which `ReadEntry` reports while
it yields the entry without an instant; an `OverflowError` of `astimezone` is none and ends
the generator (`RaiseOverflow`), which the import service passes on as an exception.

`zoneinfo` looks a local time up by bisection in the local times of the changes, and so takes these
to be sorted. `ZoneAssumptions` says the same of a zone: a clock does not change again before the
hour that its last change repeated or skipped is over. Offsets are less than a day and
changes weeks apart, so that zones meet it.

### ImportService

`pc` follows the statements of `_create_store`. While it is "parse" the generator may
report a diagnostic (`ParserReports`) or yield an entry, which the builder takes
(`AddEntry`), refuses (`AddRefused`) or, after a refusal, never sees
(`SkipEntry`). `Raise` is any exception inside the `try`, from whatever call. `Abort`
is the handler: exceptions of `abort()` are suppressed, a second interrupt is
not. The module is checked inside `CommandLine`.

### ArtifactValidation

An artifact is what the checks tell apart: what is wrong with the file, its nodes with
parent, name, kind, path and content, and one word (`Data`) for whatever else may be wrong with
a row. The row of the snapshot (`record`) and those of the diagnostics (`reports`) are one such word each,
beside the ids, positions and counts. Each check is an action, in the order of `_validate`. The recursive query of
`_require_graph` is run row by row (`Expand`): the queue is SQLite's, and `UNION ALL` does not ask
whether a row was there. `reachable` counts up to one more than there are nodes, which keeps
the state finite also when the query goes on for ever.

The tables of an artifact may hold anything. In particular the names of siblings need not differ:
the schema contract asks whether UNIQUE is declared, and `quick_check` does not verify it. Two things are
taken for granted: an id is the key of its row, since the `INTEGER PRIMARY KEY` is the place of a row in
the table, and the indexes agree with their tables, which `quick_check` does not verify either.
The comparison of declarations in `contract.py` is its verdict only.

### SqliteStore and SnapshotStore

A store exists once `Validate` has accepted. Every query is one step, since it runs under the
`RLock`; a call is one to three of them. `Close` may come between any two. A query
fails when the file cannot be read, or raises `SQLiteStoreClosedError` without a
connection. `QueryCount` is the arithmetic on negative offsets in `iter_children`.
`SnapshotStore` answers each call in one step by the in-memory store's dictionaries. Where siblings
have one name, SQL leaves open which of them a look-up finds and in which order they are listed:
`Answers` is a set, of which a store may give any. For a snapshot that a builder made it has one member.

### FuseAdapter

`lookup_counts`, `file_handles`, `directory_handles` and `next_handle` are the four
fields of `SnapshotOperations`. A handler contains no `await`, so the event loop runs
it as one step. The kernel is external: `nlookup` is its own count of references, `replies`
are entries that were answered and not yet linked, `forgets` are references that
it gave up in requests the adapter has not yet seen. A `forget` request names several inodes; it
is a function from inodes to numbers of references, since two entries for one inode act
like one with their sum. `descriptors` are the kernel's; each has the handle it was
given and, for a directory, the position it reads from next, with what was read up
to there.

`Open` is `open()` or `opendir()`, whichever the kind of inode calls for. `Readdir` fills a
buffer with room for some entries: `readdir_reply` accepts that many, and only
accepted entries are counted. Ids of entries are `start_id + 1, ...`, and the next request comes with
the id of the last one. `Seekdir` is a reader that goes back to an earlier position. `Listing` is the sorted list
of children that `iter_children` yields from an offset.

Requests that are refused change nothing and are left out, like the handlers that only
read the store.

### FuseRead

The file is any `node` that `Node` admits. `ReadNode` is `read_node()` for a regular file:
a read at or past a known size is empty, inline content is sliced, a missing content of
known size reads as NULs under simulation, everything else raises `ENODATA`. `Open`
sets `direct_io` and `keep_cache` as the code does; with direct I/O the kernel passes each
read on, otherwise it fills pages, keeps them, believes the size in the
attributes (0 for an unknown one), takes a short page for the end, and may report any error as `EIO`.
That a read-ahead error becomes `EIO` "on some kernels" is what the comment in `open()`
says, and is a choice here.

### MountSession

`pc` follows the calls of `start_background`, `run_mounted` and `stop_process`; `level` counts
the signals sent by the latter. `stop_process` is one piece of code called from
four places, which are four values of `pc`: on a failed start, in the exception handler around it, for the
command and for the worker. `Interrupted` says where a
`KeyboardInterrupt` leads from each `pc`: to the innermost handler or `finally` that is
left. It comes between two calls or in one that waits; in `Popen` it may come before the fork or after
it (`Forked`), when there is a process that the parent knows nothing of.

`os.path.ismount()` is an `lstat` that the worker of a live mount answers, and it has no timeout: where the
parent is `Asking`, it goes on only if it is `Answered`, and no fairness makes a worker answer.
The first `ismount`, in `Precheck`, asks about a mount that is not of this session,
and is taken to be answered. `Rmdir` leaves a mountpoint that looks mounted and removes an empty one; `RmdirFails` raises
where a dead mount covers it or others have put something into it or removed it.

The worker goes through `starting` (import and checks), `init` (between `pyfuse3.init` and the `try`),
`mounted`, `serving` (its byte is written), `closing` and `exiting`, and may die in each of them. `MainEnds` is
every way out of `pyfuse3.main()`: SIGINT, a mount that is gone, or an exception, also with the mount alive. A
mount whose worker died without `close()` is "stale" while the kernel still answers
`ismount()` from cached attributes, "dead" when it does not. `held` is a process with a file or
working directory in the mount, perhaps one the command left behind;
`fusermount3` refuses such a mount and pyfuse3's `close` detaches it.

`cut` records the steps at which an interrupt cut something short that no handler makes up for
(`Unguarded`), `crashed` that the worker died without closing. Those steps are few, but a first Ctrl-C can
hit them: both `Popen()` calls after the fork, the lines between the last condition of
`start_background` and the assignment in `run_mounted`, its exception handler (only by a second one), and
in the cleanup `stop_process` and `rmdir`. `NoOrphan` exempts `WorkerLeft` and `CommandLeft`, and `RunCleansUp`
all of `Unguarded` but the command's `Popen()`; what the documentation promises for them fails,
which is the run `ctrl_c_cleans_up`.
A parent that is killed leaves worker and mount to themselves by design.

### CommandLine

A command is its action (`create`, `mount`, `show` or `run`), the kind of store and the options that
matter to what happens. `step` follows the callback: the options, the import, the opening
of an artifact, the use of the store, mount and serving, the leaving of the `with` block, the
exit. `raised` is the exception on its way to `_run()`, whose `except` clauses `Status` is.

The module extends `ImportService`, whose steps are taken while the callback is in its
import, and instantiates `MountSession` with `caller` for its `pc`. With `--background`, and in
`run`, a caller starts a worker that runs the same callback, and every step of the worker is one
of the callback too: it mounts in `Mount`, closes in `ServeEnds` and ends in `Exit`. In the
foreground there is no caller, and the "worker" is the command. `Die` is a signal or a crash
that no handler sees: the builder's file is then "leaked". `Told` is what a shell sees.

The commands that only list, complete or diagnose keep no state and are left out.

## Runs

| Run | Instance | What it shows |
| --- | --- | --- |
| `snapshot_builder` | 12 entries, 49,882 states | all tree properties and `ImplementsContents`, the refinement of `SnapshotContents` |
| `publication` | 2 writers, one overwriting, 1 power loss, about 18,000 states | all publication properties, `EveryWriterReturns`, and `ImplementsRegister` |
| `command_line` | 11 commands, 2 retained diagnostics of up to 3, 2 entries, 2 interrupts, about 397,000 states | a snapshot is published whole or not at all, the report of a failed import, the exit status, what is left running, mounted or open, and that commands end |
| `dir_parser` | 18 kinds of line, 10 lines up to the first error, 4 lines with any, about 1.3 million states | exactly complete listings are accepted, and are yielded whole, counted and at the right instants |
| `line_decoder` | some 18,000 streams of up to 6 bytes beside their prefix, reads of up to 3, limit 4, about 350,000 states | the lines and errors depend on the stream alone; the buffer is bounded |
| `sqlite_store` | all graphs of up to 3 nodes, a tree of 4 spoiled in every way, two siblings of one name, 2 threads, about 1.06 million states | what is accepted, that validation ends, and `ImplementsStore` |
| `fuse_adapter` | 4 inodes, 2 descriptors, 2 references, 3 handles, about 626,000 states | `CountsAgree`, `HandlesAgree`, `ScanExact` |
| `fuse_read` | files up to 5 bytes, pages of 2, 2 readers, about 33,000 states | `ReadsExact`, `UnavailableIsTold` |
| `empty_means_empty` | as `fuse_read`, 1 reader, up to 3 bytes | violated, see below |
| `never_detached_in_use` | one session without interrupts | violated, see below |
| `ctrl_c_cleans_up` | one session with one interrupt | violated, see below |
| `validation_ends` | as `sqlite_store` | violated, see below |

Why the bounds are enough:

- *Builder.* The entries contain every relation that the code tells apart: the same
  directory through a header, two entries with different times and only as an
  ancestor; a path that is a file in one entry and a directory in another, at
  the end and in the middle of a path; duplicates of a file with other contents; an
  empty file with and without content; a path of three components; and both kinds of
  invalid path. Entries can be added again and in any order.
- *Publication.* Two writers show every pair of steps, also a writer without overwrite
  that another one overtakes after its early check; with more of them, or with two
  that do not overwrite, exclusion rests on the proof. One power loss
  suffices since it ends all processes, and what follows starts from a state like
  an initial one. The proofs cover any number of each.
- *Commands.* The report can be empty, partly filled, full of warnings, of errors and
  mixed, and overflow; two entries allow one before or after the refused one. The
  commands import or open an artifact, hold a store in memory or in a file, and mount it
  in the foreground, in the background, in a run or not at all; both kinds of misused options are
  among them. Two interrupts: the second can hit the cleanup that the first began. For the
  safety properties the proofs remove all of these bounds.
- *Parser.* A section with a body has six lines with its footer's; two sections need
  ten. Listings that end with their first error may use the full alphabet; what comes
  after an error, or a line that is ignored, is explored up to four lines. The zone has one gap
  and one overlap, and listed times inside each, outside of both and before the first instant.
- *Decoder.* The letters are those that the code tells apart, and make newlines, marks, surrogates and
  two-byte letters that lie across any two reads. A limit of four is two units or four
  bytes: a line can be below it, at it, above it, and above it only by its carriage return.
- *Store.* Three nodes make every shape of a graph: a chain, a fork, a cycle with and without
  inode 1, a forest, a parent that is missing or a file. Each check is violated alone, and fields
  that are read together in every combination. The requests include offsets below, at and beyond both ends.
- *Adapter.* Two references let a reply be on its way while another is linked, and a
  forget of one be queued while the next is answered. The root's listing needs two pages of one
  entry or one of two, with a refused entry after a page of one. Three handles for
  two descriptors allow one to be released and given again in either dictionary. The proofs
  remove all of these bounds.
- *Reads.* Five bytes in pages of two are two whole pages and a short one; reads of up to three bytes
  start, end and lie anywhere in them, and two readers share the cache.

Deadlock is not checked where the modelled processes simply end: publication (all
writers are done or dead), commands and sessions (caller, worker and command have ended), the
parser and the decoder (the input has ended), and the store (an artifact was refused).

**Fairness.** `EveryWriterReturns` assumes that a writer that is not killed takes its
next step: the calls of `finish()` and `abort()` are made one after another by one
thread and none waits for another writer. `CommandEnds` assumes that a command in
the foreground runs, with a finite listing (a pipe that never ends is outside the claim), except that
the opening of an artifact need not end (`validation_ends` shows why), and that
a caller runs while it does not ask a live mount. Nothing is assumed of a worker, a helper or the
command of a run, not even that a worker answers `lstat`. The caller's waits for its worker have
timeouts; a run's wait for its command and the question `os.path.ismount()`, which have none, are
exempt in the property. `RootedValidationEnds` assumes that SQLite goes on with a query while it has
rows. No fairness is put on any single outcome, success or failure.

### Disagreements with the documentation

- `EmptyMeansEmpty` states `docs/concepts/missing-content.md:31`, "Returning empty bytes
  would incorrectly claim that the file is empty", and line 34, that simulation does not
  apply to unknown sizes. Under simulation a file of unknown size is opened for buffered I/O
  with `st_size` 0, and the kernel ends the read without asking
  (`fuse/adapter/operations.py:127`).
- `NeverDetachedInUse` states `docs/cli/troubleshooting.md:128-131`, "mounts are never lazily
  detached behind the user's back". `run_mounted` reports a busy mount, and then stops the
  worker (`mount_session.py:204`), whose `pyfuse3.close(unmount=True)`
  (`fuse/adapter/mount.py:73`) detaches it.
- `CtrlCCleansUp` states `docs/cli/sqlite.md:115-120`, that `run` "unmounts and removes the temporary
  directory" and that "Ctrl-C stops the program and cleans up the mount", and
  `docs/cli/troubleshooting.md:128-129`. A first Ctrl-C that comes after the command has ended or in
  `stop_process(consumer)` (`mount_session.py:197-198`) skips all of the cleanup; one at lines 204-206
  leaves the directory; one in `Popen()` (124) or between lines 141 and 186 leaves worker and mount.
- `ValidationEnds` states `docs/architecture.md:291-292`, "A recursive CTE verifies every
  positive inode reaches root 1; additional checks reject cycles". When inode 1 lies on a
  cycle and some other node has no parent, the count of nodes without one passes and the query
  (`store/sqlite/validation.py:131`) goes round the cycle for ever; that inode 1 has no parent is
  only asked afterwards.

Divergences that were met and have no run of their own:

- An artifact whose tables hold two children of one name is opened. `docs/architecture.md:88-89` says that
  "A unique constraint on `(parent_id, mounted_name)` protects directory semantics", and 286-290 that
  opening "treats the database as untrusted" and verifies "sibling unique constraints"; only the
  declaration is verified, as `PRAGMA quick_check` (`store/sqlite/store.py:230`) does not look at UNIQUE.
  Such artifacts are among those of `sqlite_store`, and accepted there.
- After the byte of readiness the caller asks `os.path.ismount()` (`mount_session.py:139`), which the worker
  answers and no timeout bounds: it waits for as long as a live worker does not answer, while
  `docs/cli/sqlite.md:98-99` says that "Background startup waits up to 120 seconds". Line 200 does the same
  in the cleanup of a run, before any signal is sent. `CommandEnds` names this exception.
- The offset that is reported for a line that cannot be decoded is three bytes short in a first line with a
  byte-order mark, since `utf-8-sig` counts from behind the mark (`decoding.py:228`);
  `docs/cli/troubleshooting.md:114` says "Decode failures report the byte offset". `DecodesStream` claims
  the offset for the other lines only.
- `finish()` opens the destination after `publish()`, and when that fails it raises an error
  of opening although the destination was replaced (`store/sqlite/builder.py:174`);
  `docs/library/error-handling.md:57-59` lets only durability and publication errors come
  after publication. The actions of `ArtifactPublication` do the same.
- With `simulate_missing_content`, remote, failed and redacted files are opened for buffered I/O
  too, where the kernel may turn `ENODATA` into `EIO` (`fuse/adapter/operations.py:125-127`).
- Listed times in the first or last hours of the years 1 and 9999 raise `OverflowError`
  (`timestamps.py:21`), which ends the import as an unexpected exception.
- `create` holds a published store for a moment without a `with` around it; an interrupt there
  leaves it to the garbage collector. `StoreClosedAtExit` names this exception.
- JSON metadata that decodes to NaN or half a surrogate pair passes validation, but `Node` refuses it
  when the row is read. `AcceptedCanBeServed` names this exception.
- A caller whose worker is late reports a failure although the worker may have published its
  artifact by then. `ExitTellsOutcome` claims one direction only.

## Proofs

The proofs hold for every value of the constants that satisfies the `ASSUME` of the
module: any finite or infinite set of writers, any number of power losses, any
set of well-formed entries, any streams, limits, commands and numbers of interrupts.

**Publication** (`SafetySpec`, without fairness).

- `TypeCorrect`, by cases over the actions.
- `DestinationWhole`: `DestinationAlwaysWhole` is not inductive, since it says
  nothing about the file that is about to be linked. The invariant adds what each
  `pc` knows of the writer's own file: from "sync" on it is valid, from "publish" on
  it is synced as well, and a file that reached `on_disk` is no longer changed.
- `ExclusivePublication`: a writer at or before "publish" has not published; while
  no power was lost, a destination that once existed exists for good.
- `ErrorsAreTrue`, `TemporariesAccounted`, `StoresAreDurable`: `CallInv`,
  `TemporaryInv` and `DurableInv` relate each `pc` to the log, the temporary name and
  the order of publications. Durability rests on the log: from its publication on
  a writer finds no file at the destination that was published earlier than its
  own, which makes opening it by name safe, and after it has synced the directory there is
  none in `on_disk` either.
- `PublicationImplementsRegister`: the register's state is a function of
  the protocol's (`current` is `destination`, `recent` is `on_disk`, the log is
  `published`, what a caller was told is read off its outcome), each step maps to one
  of the register's or to a stutter.

**Builder** (`Spec`).

- `BuilderTyped`, `TreeWellFormed`: `TreeInv` adds to the types and the tree what the
  loop of `add()` knows, that the parent reached is a directory whose path is the part
  of the entry's path walked so far.
- `RefusalsLeaveNoTrace`: `FreshInv`, that nothing was created yet or the walk stands
  at a node without children. A conflict needs an existing child.
- `AcceptedArePresent`: `PresentInv` adds that the node of an accepted entry has an
  observation, and that a node with an accepted time is no longer one of a section
  header, so that no merge can take the time away.
- `PublishedAreValid`: `LegalInv`, that metadata stays legal through merges, and `ToldInv`, that a
  file nobody told of is only there after a failed write, from which `finish()` cannot be reached.
- `FinishedIsFrozen`: a finished builder has no walk in progress.

- `ContentsAreImplemented`: the entry of an add() that returns agrees with every accepted one,
  because each of them has its node (`PresentInv`), paths of nodes are unique (`PathsDiffer`) and all
  their ancestors are directories (`AncestorsAreDirectories`). The converse, that an add() that
  raises contradicts an entry and not just a node, needs `CauseInv`: every node with an observation
  says what one accepted entry says, every other node is an ancestor of one. It does not hold in
  the middle of a walk, which is why it speaks of the accepted entries and the one being added,
  and of the tree before the add; that a conflict meets the tree as it was before is `FreshInv`.
  `PublishedContents` computes from both the function of the accepted entries that `finish()` publishes.

**FUSE adapter** (`Spec`), for any tree, any listings and any set of descriptors.

- `CountsAlwaysAgree`: the count of an inode is the sum of what the kernel holds, what is
  on its way to it and what is on its way back; each step moves references between
  the terms of the sum or adds to both sides. That a page has no inode twice is not
  needed, as `Increment` takes a set; that a `forget` never exceeds the count is, and
  follows from the sum.
- `HandlesAlwaysAgree`: `HandlesAgree` alone is not inductive, since a release could take
  another descriptor's handle. `Agree` adds that no two descriptors of a kind share
  one; it is proved once for a set of inodes and used for both dictionaries.
- `ScansAreExact`: the prefix read so far and a page of the rest are a longer prefix
  (`PrefixGrows`), and going back leaves a shorter one (`SeekKeeps`).

**File reads** (`Spec` of `FuseRead`), for any file, page size and readers.

- `FilesReadExactly`, `ReadersAreTold`: a page the kernel keeps is that page of the file (`PagesOfFile`),
  which no page but the last makes short, so that no read lets the kernel shrink the size it was told,
  or the zero of a file of unknown size (`KnownIsSize`). What a reader has been given is
  then the file between where it began and where it is (`Served`). `ReadTyped` gives the lengths that this arithmetic rests on.

**Validation and store** (`Spec` of `SqliteStore`), for any artifacts, finite tables and threads.

- `ValidationIsInvariant`: each `step` knows what the checks before it have passed. While the
  recursive query runs over nodes of which inode 1 has no parent, `WalkInv` says of the rows made so
  far that `reachable` is their number, that the queue lists some of them without repetition, that
  the children of a row have been made exactly if it has left the queue, and that the rows are
  `Grounded`: no set of them without inode 1 holds the parents of all its members.
- `SnapshotsAreAccepted`: if the query made as many rows as there are nodes, the rows are the
  nodes, and the nodes are `Grounded`; if they are, it makes that many (`WalkEnds`). The paths of such
  nodes are the ones `RelativePath` joins (`PathsExist`, `PathsUnique`), by least counterexample over
  the lengths of paths.
- `NodesCanBeServed`: `ContentInvariant` is at least as strict as `Node` in every case.
- `StoreIsImplemented`: `CallsInv` says what the queries of a call have found so far, in a table that
  does not change. A call is answered by its last query, or by its first one without a connection;
  until then `Pending` shows it as not yet answered. Nothing is assumed of the names of siblings: a query
  gives one of the orders of its rows (`Orders`), of which there is one at least (`OrdersExist`), and one of
  the rows it finds (`AnswersOfLookup`, `AnswersOfChildren`, `AnswersOfNodes`).

**Line decoder** (`Spec`).

- `DecoderStaysBounded`: what `Keep` leaves is less than the limit, a carriage return and half a
  unit, and a read adds at most its size; taking a line only removes bytes.
- `ReadsDoNotMatter`: what is decoded is defined from the whole stream (`LinesOfStream`) without
  mention of reads. `DecodeInv` relates the decoder's locals to it: `pending` is the slice of the
  stream from `line_start` to what was read (`InStream`); a newline that is not in `pending` as a whole is the only one
  that may have been missed, also where the search resumes in the middle of `pending` (`Searched`);
  `line_number` counts the starts of lines before `line_start`; the lines before it
  were yielded and hold nothing bad (`LinesYielded`). That a line kept for the next read is too long
  means that the line of the stream is (`KeptIsInLine`), the carriage return at its end left out of
  account. That the error has the offset of the first bad byte of the stream needs that no
  sequence of bytes which Python's decoders look at together reaches across a newline (`BadOfLine`),
  for UTF-8 and for surrogate pairs.

**Parser** (`Spec` of `WindowsDirParser`), for listings of any length over any lines, and for any
zone that satisfies `ZoneAssumptions`.

- `ParserTyped`, by cases over the actions.
- `ListingsAreYielded`: `Linked` ties each entry to its line and to the latest header there
  (`YieldsLinked`), and the open section to the latest header of all (`SectionLinked`). That nothing
  is left out of an accepted listing is inductive for listings without an error so far
  (`AllYielded`): a header or entry that is not yielded reports an error or raises.
- `CountsAreOfYielded`: `Counted`, the four sums over the files yielded, total and under the
  header of the section, and a header before every entry. A step appends at most one
  entry (`FilesAppended`). The sums over sets that they speak of are the sizes of sets of
  cells (`SizeIsCells`), because the prover cannot do induction on their recursive definition.
- `TimesAreMeant`: the two folds that `localize()` tries give all instants at which the clock
  shows the time (`CandidatesAreReadings`): the changes before such an instant are those that the
  search finds with fold 0 or those that it finds with fold 1, because the local times of changes
  are in the order of the changes.
- `ExactlyCompleteIsAccepted`: `CompleteListing` looks back at a whole listing, the parser only at
  its flags. `Structured` says what the flags mean while there is no error: every section but the open one
  is `Whole`, the open one has the `Shape` of the beginning of a section, of which the flags tell which lines
  it has and the sums what its files are, and the same for the totals. Each step that reports
  nothing preserves it (`StructStep`), and at the end it is the shape of a complete listing. The other
  direction, that no complete listing is refused, is not about one state: an error must be one
  for every listing that starts with these lines. `NoErrorIfComplete` shows that a line with which
  some complete listing goes on is read without an error; hence after an error there is no such listing
  (`Doomed`), and the one read to its end is not complete. The two together are `ErrorsMeant`.

**Import** (`Spec` of `ImportService`), for any limit.

- `ImportPublishesWhole`: `finish()` is reached only without errors (`PublishInv`), and
  `has_errors` says whether the parser reported one, retained or not (`ErrorsInv`).
- `ImportKeepsFirstRefusal` is inductive: entries are numbered as they are yielded, and the
  ones after the refused one are skipped.
- `ImportReportsFailure`: the collector has retained a prefix of the reports (`CollectorInv`),
  so that an error within the limit can only be missing where the builder's conflict was put; that is
  the place of a warning unless there is none (`ReplacementSpares`), which needs
  that a set of places has a last one (`LastWarning`).

**Mount session** (`Session!Spec`).

- `MountedMeansReady`: `ReadyInv`, that every `pc` behind the selection, the command and the
  result follow the worker's byte.
- `WorkersAreStopped`: a parent that is done has left its worker ended or signalled with SIGKILL, unless an
  interrupt hit one of the steps of `WorkerLeft` (`SettledInv`), and so for the command and `CommandLeft`; this needs
  `StopInv`, that the third signal was sent.
- `RunsCleanUp`: `ReturnInv` follows a run from the end of its command to its
  return, for which nothing is exempt; `RemovedInv` says what is left when it fails, with a worker that neither
  crashed nor was killed and no interrupt in an `Unguarded` step other than the command's `Popen()`. Both rest on
  `WorkerInv`, that a worker that ended in order has unmounted.

**Commands** (`CommandSpec`).

- The invariant `CInv` consists of the import's, the session's and what relates the
  two. The session's is stated of `caller`, in the instance of `MountSession` that
  the command composes: the steps of a session in a command are steps of `MountSession` (`SameParent`, `SameWorker`,
  `SameSurroundings`), and when a caller begins, the session is in an initial state
  (`FrontInv`), so that `SessionInv` holds from then on.
- `StatusTellsOutcome`: `CallbackInv` says what has been published, opened and announced at each
  `step`, `StatusInv` that the status is that of the exception raised, and `OutcomeInv` how the outcome
  of the import follows from its builder.
- `CommandClosesStore`: `StoreInv`, that the exit with an open store is reached only from an
  exception of the import or an interrupt before the `with` statement.
- `CommandMountsReady`, `CommandLeavesNothingRunning`, `CommandCleansUp`,
  `CommandPublishesWhole`, `CommandKeepsFirstRefusal` and `CommandReportsFailure` follow from the parts.

Only checked by TLC: liveness (`EveryWriterReturns`, `CommandEnds`, `RootedValidationEnds`), which
the proof system cannot handle. Every other property of a passing run is a theorem. The types of the builder, the publication, the adapter,
the decoder, the import and the session are proved and not checked in runs.

What the proofs found in the models: a published artifact was defined by what `Node` accepts of rows and by
their contents twice, once too weakly, so that a node with both a bad content and metadata that `Node`
refuses fell between the two; a store published before `finish()` was a value of no type; and the order of
children rested on an assumption that sibling names differ, which nothing that opens an artifact
verifies: it is gone, and the store promises one of several answers. That `localize()` finds every reading of a time is false of a zone whose changes
follow so closely that the local times of one reach into those of the next; the module now says which zones it is
about.

## Plan

Proofs: all safety properties of the runs have theirs. Models: the composition of the import with `SnapshotBuilder` (exactly the contents of
the listing are published) and with `ArtifactPublication` (the order of overwrite
and mount), and the registry of components with its conflicts.

## Not modelled

- Rendering, completion, hints, logging and `doctor` (probes of the host) keep no state of the
  system. Options are modelled as far as they exclude each other or decide what is done.
- The registry of sources and parsers is a dictionary filled at import time; a factory that
  fails is part of `Begin`.
- The texts of SQL statements and of the schema contract, the encodings of JSON and of datetimes,
  regular expressions and the look-up of a zone's name are abstracted to their outcome.
- The freezing of metadata mappings, `original_path` and `source_line` are carried along by the code without
  influence on control.

`PROJECT.json` gives the status of each component.

## Running

    tlc -config MCSnapshotBuilder.cfg MCSnapshotBuilder
    tlapm SnapshotBuilderProofs.tla

and likewise for the other configurations and proof modules; `NeverDetachedInUse.cfg` and
`CtrlCCleansUp.cfg` belong to `MountSession`, `EmptyMeansEmpty.cfg` to `MCFuseRead`, and `ValidationEnds.cfg` to
`MCSqliteStore`.
