# BreakNWipe in TLA+

A verification development of BreakNWipe, a disk toolkit that wipes drives, certifies the
result, shreds files, recovers deleted files and resizes partitions, from a command line and
from a web service. Paths below are relative to `src/breaknwipe/`.

Contents: 1 inventory, 2 modules, 3 runs, 4 what the checks show, 5 proofs, 6 plan, 7 not modelled.

## 1. Inventory

| Component | State it keeps | Operations | Interacts with |
|---|---|---|---|
| Wipe sessions, `web/session_manager.py` | `sessions` (status, progress, report id, certificate files), callbacks, a thread pool, a lock | start, cancel, get, callbacks, the worker `_execute_wipe` | API (calls), engine (runs it in a pool thread), log service, certificate generator, WebSockets (callbacks) |
| Wipe engine, `wipe_engine/engine.py` | position and pass of one wipe | `wipe_device`, `_execute_pass` | device (writes), algorithms (passes), verifier, progress callback |
| Algorithms, `wipe_engine/algorithms.py` | list of passes | `create_algorithm`, customisation | engine, CLI, shredder, session manager (its own table of totals) |
| Verification, `wipe_engine/verification.py` | samples read, counts | quick, comprehensive, paranoid checks | engine, erasure check |
| Wipe log, `logging/` | SQLite tables `wipe_logs`, `audit_trail`, `wipe_reports`, `device_history` | log start, progress, outcome; store report; delete; query | session manager, API |
| API and WebSockets, `web/server.py` | lists of connections per session or job | ~60 endpoints, 4 sockets, 4 broadcasts | every manager |
| Verify, recovery and shred jobs, `web/*_manager.py` | `jobs` (status, progress, result, cancel flag), callbacks, pool, lock | start, cancel, worker | `device/erasure_check.py`, `device/recovery.py`, `device/shredder.py` |
| Shredder, `device/shredder.py` | files of a mounted file system | check, overwrite, truncate, rename, remove | shred jobs, CLI, other programs on the file system |
| Partitions, `device/partition.py` | partition table, file system size | plan and run grow, shrink, move; extend a logical volume | growpart, sfdisk, resize tools, dd |
| File system check, `device/fsck.py` | none | `check` behind refusal gates | fsck tools |
| Hardware erase, `device/handler.py`, `ata.py`, `nvme.py` | security state of the drive | secure erase, format, sanitize | hdparm, nvme; no caller |
| Certificates, `certificate/` | files, signing keys | generate, sign, verify, store on chain | session manager, CLI, contract |
| Registry contract, `blockchain/contracts/ReportRegistryWithJson.sol` (under `src/`) | reports by hash, texts, a list | four store functions, enumeration | blockchain client, anybody |
| Command line, `cli/` | none | prompts, gates, progress display | all of the above |

### What is hard in this code, and what makes each part correct

* **Wipe sessions.** A pool thread, the event loop and SQLite share a session's status, and the
  worker writes it without the lock that `cancel_session` holds. Correct: evidence of a wipe
  (certificate, successful report, completed row or status) only after every block was
  overwritten; an accepted cancellation leaves no such evidence; records agree in the end;
  every session ends.
* **A wipe by itself.** Sizes that are 0, passes that are numbered twice, a display that divides,
  a verifier of heuristics. Correct: success, bytes, certificate and exit status are earned; the
  progress shown is the progress made; a zeroed device passes.
* **Jobs.** The same skeleton three times, with differences in the order in which status and
  result become visible, and in what a cancellation does at the end.
* **Broadcasts.** Coroutines iterate lists of connections over `await`s while other coroutines
  change them.
* **Shredder.** A path is checked and then followed again; each call may fail; batches share
  files. Correct: nothing else is destroyed, and nothing is freed that was not overwritten.
* **Wipe log.** Several transactions make one operation; logs are deleted while wipes run.
* **Partitions.** Two-step changes (file system and table, data and table) that may stop between
  the steps; plans computed from a layout that is read again before it is used.
* **Certificates and the contract.** Partial failures of one generation, one account for several
  generators, answers that are lost; what a signature covers; "already stored" guards.

Every hazard is listed, at its line, under `hazards` in `PROJECT.json`.

## 2. Modules

| Module | Models |
|---|---|
| `WipeSession` | wipe sessions with the engine, the log rows and process restarts |
| `Algorithms`, `Verification` | the passes of the algorithms; the check at the end of a wipe (operators) |
| `WipeRun` | programs that wipe one device: both modes of the command line and the wipe inside a session; EXTENDS the two above |
| `JobLifecycle` | what a background job promises the clients that poll it (abstract) |
| `JobManager` | the verify, recovery and shred managers with the functions their workers run |
| `ShredFiles` | batches of the shredder on a file system with links and other programs |
| `Broadcast` | the WebSockets of one progress stream and the broadcasts to them |
| `WipeLog` | the four tables, several wipes, and deletions |
| `WriteOnce` | a write-once map (abstract) |
| `ReportRegistry` | the contract, which implements `WriteOnce` |
| `WipeReport` | the report of a wipe and its conversions (operators) |
| `Certificates` | generators, node and chain; EXTENDS `ReportRegistry` and `WipeReport` |
| `PartitionResize` | resize and check requests on one disk |
| `MC...` | constants, definitions and symmetry for TLC |
| `...Proofs` | theorems, see section 5 |

How they compose: `Certificates` is the composition of generator, client and contract, and
`WipeRun` that of command line, engine, algorithms and verifier. `WipeSession` has the engine in
coarser steps, without algorithms; its `EngineReturns` stands for a run of `WipeRun` whose caller
is a session. `Broadcast` takes the notifications of a session or job (`Notify`) as a sequence of
versions. `WipeLog` has in coarser steps what the sessions log, and adds the deletions.
`JobManager` has a batch file by file, `ShredFiles` call by call. `WipeSession` and `JobManager`
share nothing: the managers have executors and locks of their own, and a wipe excludes mounted
devices while the shredder works on mounted ones.

### `WipeSession`

*Threads.* The API handlers for start and cancel are `async def`, so the event loop executes one
at a time: `api` holds the call that is under way and where it is. Each session has a pool
thread, `worker[s]`, whose value names the statement it reaches next:

    idle, queued            not submitted / in the executor's queue
    begun, setup            _execute_wipe up to engine.wipe_device (230-311)
    write, logging, telling the engine's loop and the three parts of its progress callback
    returned                the test of the cancellation (317)
    certify, report, log, settle    lines 329-480
    except, logfail         lines 482-495
    notify, done            the finally clause

*Data.* `status`, `queue` and `snap` (the status a callback has read) are memory; `row`, `audit`,
`report` and `cert` survive a restart; `dirty` is what the device still holds of the host's data;
`accepted` and `erased` are history variables that properties refer to. A block is one write of
the engine; progress percentages and speeds are left out, except for the rule that every tenth
percent is logged (`AtTenth`, with exact rather than floating-point percentages).

*Steps.* Every access to shared state is a step of its own: a worker's reading of the status
(`WriteBlock`) and its writing of the log row (`LogProgress`) are two; `cancel_session`'s test,
assignment and logging are three. The lock is `LockFree`: it is held from the test to the end of
the logging, and each notification needs it. A database call either does both of its
transactions, only the first, or none (`DbOutcomes`, for the sessions in `DbFailsFor`).

*Environment.* The host may mount the devices in `Mountable`, write to and unmount them;
`HostMayMount` says whether it does so under a running wipe. `Restart` loses memory, keeps
database, certificates and devices.

### `WipeRun`, `Algorithms`, `Verification`

`stage[r]` is what a program does next: find its device, ask, create the algorithm, measure,
validate, write, sample, report. `request[r]` is what it was asked for; `capacity` (as probed) and
`size` (as measured by the engine) may each be 0, since both are read by means that may fail. One
step writes a block, with the progress callback that belongs to it, or reads a sample; the host
may mount and write between any two, programs are killed at any of them, and two programs may
share the device. `wrote[r]` counts, per block, how often the program has written it: a history
variable.

A request has the parameters that matter to the number of passes. `Algorithms` keeps of a pattern
whether it is zeros, ones, random or one of the fixed ones. `ContainsRecoverableData` and
`CheckFileSignatures` are sets of possible answers for a sample with the given contents: exact for
samples of one kind, any answer for data and mixtures. A sample is read in one step.
A session's exit status 0 means that the engine returned with success. Certificates of sessions
are in `WipeSession`.

### `JobManager`

The three managers are copies of one skeleton, so one module models them. `kind` is chosen by the
initial state, from `Kinds`, and selects where they differ: the first status, the statuses that
`on_progress` takes over (`Emit`), the work function (`Sample`..`CheckCancelled` for a check,
`Poll` and `ToolExits` for a deep scan, `ShredBlock`..`ShredEnd` for a batch) and what `_run` makes
of its outcome (`Settle`).

*Threads.* The endpoints are plain functions that run in the server's pool, so `request[j]`
follows the start request of a job: it is inserted, submitted, and only then is the callback
registered. `worker[j]` is what the pool thread does next; `hello`, `said`, `crosshello`,
`farewell` and `bye` are the five kinds of notification, which take a snapshot of the job and of
the callbacks under the lock, some time after the status was assigned.

*Data.* `step[j]` counts what is done: the samples and then the partitions of a check; the blocks
of each file and then its removal for a batch, so that position `Unit * n - 1` is the one at which
the file is gone from reach of a cancellation. Passes are merged with blocks, since the event is
tested before each alike. `filled[j]` says that the result, the list of files or the error was
assigned; `told[j]` is the status and `filled` of the last payload a callback got. A batch has at
least one file. The results of single samples, scans and files, percentages and rates are left
out. A manager's jobs live in memory only; a restart of the server forgets them all and needs no
action.

*Environment.* `photorec` ends by itself (`ToolExits`) or not; once it is asked to terminate it
does, or is killed after ten seconds, within `Poll`.

*`JobLifecycle`* merges the stages of a check into `running`, and counts a check or a recovery as
ended when its outcome is there: a check shows `completed` or `cancelled` from its last callback
on, a moment before, and a deep scan that found nothing even shows `completed` and then `failed`
(`recovery_manager.py:152`), while the GUI stops reading at the first (`api.ts:362`).

### `ShredFiles`

`entry` maps each name to a file (an inode), another name (a link), a directory or nothing;
`stored[f]` is the set of blocks of a file that hold what the user stored. Each system call of a
batch is a step, and each but the renaming may fail (`Raises`). `Resolve` follows one link, as
`realpath` does; `Open` and `Truncate` follow the resolved path again, to whatever is there by
then; the handle `open[b]` stays with its file. `held[b]` is the entry under its random name.
History: `leaked` (files of which a block was freed with data in it), `written`, `swapped` and
`lured` (what another program has put in the place of an entry), `grown`.

Left out: directories as parents (a path is a name), hard errors of the file system, what remains
in journals (the module docstring of the code says so too), several swaps and growths.

### `Broadcast`

One stream: the progress of one session or job. `now` is the version that the worker assigned,
`posted` the last that it handed to the event loop; each handing-over creates one coroutine,
`task[v]`, that iterates the list of sockets `conns` from position `at[v]`. Coroutines and
endpoints run on one event loop, which `loop` holds: a coroutine gives it away only where a send
waits, and a send waits when the socket's buffer is full or it is closing. A stream with `smooth`
has no send that waits; one with `live` (wipes) makes its message when the coroutine runs, the
others (jobs) when it is posted. `key` tells an empty list from none, and `stale[v]` marks a
coroutine whose list was dropped from the dictionary. A client that reconnects is another socket.
Left out: the content of messages and the cancellation's own notification of a wipe.

What holds: sockets are registered exactly while they should be (`Registered`); if no send waits,
or nobody leaves, every client is told the end (`EndHeard`, `HeardIfAllStay`). Without either
assumption this fails, and the model shows how: a broadcast of the end waits at an old socket that
is closing, the endpoint of that socket removes it from the list, and the iteration passes over the
socket that moved into its place, for instance that of the reloaded page, which then waits for
ever since the pages do not poll.

### `WipeLog`

The tables are `wipe_logs`, `audit_trail` (a set of events per log), `wipe_reports` and
`device_history`; a method of `LoggingDatabase` is one transaction and one step, a method of the
service several. `loop` is the request that the event loop executes; the threads of the wipes run
beside it. A deletion commits (`DeleteRows`) and replies (`Deleted`) in two steps; `removed` is
history, the rows that each has removed. `Kill` ends the server between any two steps, that commit
and its reply too. The ends of a wipe are one status
here; `WipeSession` tells them apart. `foreign_keys` is on for the connection that creates the
tables only, so nothing cascades.

### `Certificates`, `ReportRegistry`, `WriteOnce`, `WipeReport`

`pc[id]` follows `generate_certificate`: sign, anchor (ask, build with a nonce, send, wait), QR
image, PDF, JSON file. Hashes are the records they are hashes of, so that equal hashes mean equal
contents; a signature is the record of what was signed. The node's pool holds one transaction per
nonce, executes them in order, may drop one that waits, and may lose an answer. `Foreign` calls of
other accounts, at most `MaxForeign`, use all four functions of the contract.

### `PartitionResize`

A disk is a function from sectors to blocks `<<p, i>>` of the file systems, `table` the entries.
`req[r]` is a request with the layout it has seen and the program it runs next. A program does its
work, or it ends with an error status, is killed or runs out of time, before it has had its effect or
after (`ToolFails`; the effects are operators of their own); dd copies a sector at a time. Between any two steps the user may mount or unmount, and the other request may
take a step. `shared` and `overrun` are history: partitions that two requests had at once or that
were mounted under an offline operation, and those that an accepted move was let onto.

## 3. Runs

| Run | Question | Instance |
|---|---|---|
| `session_records` | is evidence of a wipe always true, and do memory, row, audit trail and report agree at the end of a session? | 2 sessions, 1 device, 3 blocks, 1 pass, 2 threads, 1 restart |
| `session_endings` | does every session end, and is evidence still true if the database fails? | 2 sessions, 2 passes of 1 block, 1 thread, failures of one session's records |
| `session_cancel_writes` | does a cancelled wipe stop writing? (it does not) | 1 session |
| `cli_wipe` | are outcome, verification and progress of a wipe true? | 2 programs, 2 blocks, 2 samples, every algorithm |
| `jobs` | do jobs implement `JobLifecycle`, is a status earned, is the end told, does each end? | 2 jobs of one kind, each of three kinds, 1 thread, 2 items, 2 parts |
| `shred_files` | is only what was asked for destroyed, and was it overwritten? | 2 batches, 5 names, 3 files, 1 pass, 1 swap, 1 growth |
| `broadcast` | who is registered on a stream, and who hears its end? | 2 sockets, 2 versions, sends that wait or not, messages made early or late |
| `wipe_log` | what is left of a deleted log, and what is counted? | 2 wipes of one disk, 2 deletions, kills |
| `certificates` | is what a certificate says of the chain true, and is the contract a write-once map? | 2 reports, 2 accounts, 1 foreign call |
| `certificate_verifies` | does a genuine certificate verify? (it does not) | the same |
| `resize` | are file systems whole after every step, and are answers true? | 2 partitions of 2 sectors on a disk of 9, 2 requests |
| `shrink_fits` | does a shrunk file system always fit? (btrfs does not) | 1 request |

*Bounds.* Two sessions are enough for every pairwise race (two workers on a device, a worker and
a cancellation, a worker and the queue), since no step of the code involves three sessions; three
blocks give a callback before, at and after a logged percentage; two passes exercise the reset of
the position. `MaxRestarts` bounds the only unbounded counter.
Two blocks are the least with a first and a last one of a pass, and let samples overlap what the
host wrote (`HostBlocks`, one of them); with a tolerance of one in two samples both verdicts occur.
Two jobs on one thread let one wait, and be cancelled, while the other works; two files of two
blocks have a cancellation before, inside and between files. The names of `shred_files` are the
least with two names of one file, a link, an entry nobody asked for and one outside.
Two sockets and two versions are the least with an order among clients and among messages; the
lost end described above needs no more. Two generators are the least with a
contested nonce, two deletions the least that name one log twice. A disk with a gap behind each
partition lets both grow, shrink and move, onto each other too. `CHECK_DEADLOCK FALSE` is set
because every system here may rest once its sessions, jobs, batches or requests have ended.
Symmetry is used only with safety properties.

*Fairness* (`FairSpec`). Weak fairness of the pool threads, of the executor and of the API call
under way: the operating system schedules threads and the event loop. Nobody is obliged to start,
cancel, mount or crash anything. The lock is free infinitely often because a cancellation is a
finite sequence of steps, so weak fairness of the workers is enough. `JobManager` is fair to its
threads in the same way, but a tool may keep a deep scan at its polling for ever: its jobs need not
end, and `CancelEnds` asks for the end of cancelled ones only. `Broadcast` is fair to the event loop;
a socket that takes no more data is closed by the server's ping timeout, so a waiting send ends.
Nothing obliges the progress to reach its last version, nor anybody to connect or leave.
`Certificates` is fair to the generators only, not to the chain: every wait of theirs is bounded.
The other modules state safety only.

## 4. What the checks show

*Findings.* Three runs expect a violation, each of a statement of the repository; `findings` in
`PROJECT.json` quotes them. The engine ignores the answer of the progress callback and goes on
writing after a cancellation. A genuine certificate does not verify, because the signature is over
a payload with a timestamp and the verification over the bare hash. Shrinking a btrfs partition
cuts its entry and not its file system.

*Observed while modelling*, and why a property has the exception it has:

* Sessions. A cancellation accepted after line 317 is overwritten by the final status
  (`session_manager.py:475`; the API has answered "cancelled", `server.py:664`). A wipe that fails
  in its validation raises in the engine's except clause (`engine.py:148`, a name that is not
  assigned yet) and stores no report. `custom` has no passes: a web session with it completes, and
  is certified, with no block written, which is why `CertifiedErased` is proved for `Passes # 0`.
* Command line. A wipe with `custom` and no certificate says success, exit status 0, with nothing
  written; with a certificate it fails on the first pass that is not there, exit status 1.
  `random` without `--passes` always fails with a TypeError, since the command passes `None`; with
  `--passes n` it makes 3 + n passes. A size that cannot be read makes a success, and a
  certificate, of 0 bytes. A capacity of 0 makes the display divide by zero after the first
  block. The interactive mode exits with 0 whatever happened.
* Progress. The percentage of a session goes back for `random` (passes are numbered twice) and
  exceeds 100 for `rea-extreme` (31 passes, the last is number 32). The count a session
  announces is wrong for `random`, `custom` and `rea-extreme`, and for `rea-custom` with more than seven
  layers or fewer than one; hence `Irregular`.
* Verification. A device filled with random bytes may fail, and with megabyte samples nearly
  always will: some of the magic numbers searched for anywhere in a sample have two bytes.
  `NoFalseAlarm` is about zeros.
* Shredder. With `custom` files are removed without being overwritten, and reported as shredded,
  hence the exception of `ShredIsTrue`. A file that was truncated and cannot be removed counts as
  failed, though its content is gone, and may keep its random name.
* Wipe log. A server that is killed between the commit of a deletion and its reply leaves rows gone
  that no answer counted, hence `Unsaid`. The deletion of the log of a running wipe leaves a report and an event that nothing
  deletes. The event that announces a deletion is deleted with the log.
* Partitions. `plan_move` does not look at the other partitions: a move onto one of them
  overwrites it before sfdisk refuses. A killed e2fsck (a negative status) does not stop a shrink.
  A canceled repair (code 32) is a success. A growpart or sfdisk that fails after its write leaves a
  changed table behind an error: `changes_made` is false after such a growth, and a move answers
  that "the partition still points at the old location" (`partition.py:777`) when it does not; hence
  the two entries that `AnswersAreTrue` allows after an error.

## 5. Proofs

Each module `XProofs` has the theorems about `X`; they hold for all values of the constants that
satisfy the named assumptions, and follow one pattern: a type invariant, a strengthening that is
inductive, one step per action, and frame lemmas that say what the steps of one actor leave alone.

*`WipeSessionProofs`.* `TypeCorrect`: not inductive alone, since the row's type rests on what a
progress callback may have read (`ControlOK`). `EvidenceSound`: `[]CertifiedErased`, if the
algorithm has a pass and nobody mounts a device under the engine; `EvidenceInv` adds which blocks
are `Behind` the engine and which outcome each later phase of the worker carries.
`CancelHonoured`: `[]CancelledWipeUncertified`, with no assumption about database, host or
restarts; `CancelInv` and `QueueInv` follow a session from its creation: it is submitted once,
queued once, and nothing is evidence of it before its worker passed the test. `SettledStays`:
`SettledIsFinal`, since a cancellation that passed its test holds the lock that the worker's last
notification waits for (`SettledInv`). `CancelRecorded`: `[]CancelledRowRecorded`, from `RowOK`: after
such a cancellation every status a callback may still write is the cancelled one.
`RecordsTellOutcome`: `[]UncancelledRecordsAgree`, from `RecordsOK`, which follows the records of a
wipe nobody cancelled through the end of its worker: its log has the start before the worker exists,
and certificate, report, row, audit event and status are written in this order after the same
result. Both assumptions of
`EvidenceSound` are needed: a host that writes to a device behind the engine leaves data on it,
since the engine tests for mounts once, before its passes. A third is built into that model: the
size that the engine reads is the device's size; `WipeRun` does without it.

*`WipeRunProofs`.* `RunTypes`; `TrueOutcome`: `[]OutcomeIsTrue`; `ZerosPass`: `[]NoFalseAlarm`,
for every number of programs, size, sample size and tolerance, and all algorithms. The invariant
`IInv` says of each program how often it has written each block, which is one more for the blocks
before its position (`Counted`), what it has been through at its stage (`Staged`), that blocks
that are its own hold the fill of the pass at work (`Mine`), and that no sample of such blocks was
taken for data (`Clean`). `TrueProgress`: `[]ProgressIsTrue`, from `ProgressInv`, which follows the
counter shown through the passes, and from how the planned passes are numbered (`Planned`).

*`JobManagerProofs`.* `TypeCorrect`, which rests on the arithmetic of a batch (`UnitBound`): a file
that is given up anywhere ends within the batch. `EndTold`: `[]EndIsTold`, from `ControlOK` (request, queue and worker of a job agree; a job is queued
at most once) and `ToldOK`. `StatusEarned`: `[]StatusIsEarned`. `ManagersImplement`:
`Spec => Implements`, the refinement of `JobLifecycle`; `ShredOK` is its strengthening for batches,
which show `running` from `Begin` to `Settle`, whatever their callbacks say. `EndStays`:
`TerminalIsFinal`, since what a work function and its manager assign at the end agree (`FinalOK`).

*`ShredFilesProofs`.* `ShredTypes`, which needs that no link leads to a link. `NothingElse`:
`[]OnlyRequested`, from `ReachInv`: a name that nobody swapped leads where it led in the beginning
or nowhere (`Tree`), and what a batch has resolved, opened or holds is a requested name or file, or
one that another program put there (`Leads`). `ShredTrue`: `[]ShredIsTrue`, from `ShredInv`: while
nobody swaps a requested path, no batch is anywhere behind its overwriting with a block of its file
still holding data (`Wipes`), which is what keeps a second batch on the same file harmless.

*`BroadcastProofs`.* `RegisteredOnce`: `[]Registered`, from `ListInv`: the list is without
repetition, and a broadcast keeps only clients in `failed` that have gone away, so what it removes
when it ends is nobody who is there. `Types`, for finitely many clients: a list without repetition
is no longer than they are many. `StreamNeverBack`: `NeverBack`, from how updates, posts and messages
are numbered (`OrderInv`) and from what the event loop excludes while no send waits (`SmoothInv`).
`EndSeenByAll`: the safety half of `EndHeard`; once the broadcast of the end is done, every client
that is there has been sent it. That the broadcast is done at all is the half left to TLC.

*`WipeLogProofs`.* `Types`, `NothingLeft`, `NeverBack`.
`CountsAreTrue`: `[]Counted`, for finitely many wipes and requests: what a
deletion has removed is gone, and no other deletion removed it, since nothing brings a row back
(`Removals`); its reply says how many it removed, and raises the sum of the answers by that
(`TotalRaised`).

*`CertificatesProofs`.* `Types`, `RegistryEnumerates`, `RegistryKeepsTexts`, `RegistryIsWriteOnce` (the refinement of
`WriteOnce` by the contract with everybody who calls it), `CertificatesAnchored`, and
`CertificatesReadBack`: the conversion to the file and back keeps every field that is hashed. It uses
that a report is one that the engine makes (`CertificateAssumption`).

*`PartitionResizeProofs`.* `WellFormed`: types, and no entry and no copy beyond the last usable
sector. `FitsAlways` and `IntactAlways`: after every step of any number of requests, those that fail or
are interrupted too. `VerdictsTrue`: `VerdictIsTrue`, from how each tool's exit status is read.
`AnswersTrue`: `AnswersAreTrue`, from `AInv`: what a request that has its partition to itself has
read of it and done to it is still so when it answers. A program that fails may have had its effect
(`Failing`), so the lemmas about the effects (`Grown`, `Fixed`, `Sized`, `Written`) serve success and
failure alike.

*Induction over data.* The library's induction theorems take an operator as a parameter, which the
provers cannot instantiate. Two modules need induction: what the recursive function of `Without`
(`Broadcast`) returns, and what the sum over the answers of `WipeLog` is. Both use `SetInduction`: a set
of naturals with 0 and the successor of each member has them all, since `<` is well-founded there.

*Model-checked only*: all liveness (`StartedFinishes`, `CancelEnds`, `JobEnds`, `EndHeard`,
`HeardIfAllStay`, `GenerationEnds`), which is out of the prover's reach, and what the runs that
expect a violation show. Every other property of a run is stated by a theorem.

## 6. Plan

1. `WipeRun`: short writes; the quick and paranoid depths with the cancellation of a check, shared with `JobManager`.
2. `WipeSession` as a refinement: its engine steps implemented by those of `WipeRun`.
3. `ShredFiles`: several swaps, and directories that are renamed above a path.
4. `PartitionResize`: `extend_lv`, and the kernel's view of the table between sfdisk and partprobe.
5. Proofs of what steps 1 to 4 change; of the steps of item 2, the refinement.
6. The key pair that two processes generate at their first start.

## 7. Not modelled

* Rendering (PDF, HTML, QR, the GUI's pages, progress bars) and parsing of tool output
  (`device/detector.py`, `storage.py`, `filesystem.py`, `health.py`, `hexview.py`): no state that
  the modelled parts depend on, beyond the values they use.
* `device/handler.py`, `ata.py`, `nvme.py` and `device/mobile.py`: nothing calls them. A session
  creates a `DeviceHandler` and leaves it unused.
* The pattern detectors' arithmetic on bytes, and how random bytes are made.
* Cancellation inside the engine (`cancel_operation`), `cleanup_completed_sessions`,
  `remove_progress_callback`, `delete_device_history`, `update_wipe_report`: no caller. The
  endpoint that deletes old logs cannot be reached: an earlier route matches its path
  (`server.py:857` before `server.py:898`); a request to it deletes the log named `cleanup`.
* Queries, statistics, search; `recover_files`, `scan_deleted`, downloads: they read, or
  copy what they are told to, inside one request.
* Two statements about verification that have no state: the server's verify endpoint
  (`server.py:545-608`) reads flat keys that `to_dict` nests, so it finds no hash; the
  `verify-certificate` command (`cli/main.py`, about 668-682) prints success in any case.
* Two processes that are first started at once race for the key pair (`generator.py:146`).
* `PartitionResize`: `extend_lv` (one call), a forced file system type, rounding to MiB, a target
  size of 0; a write of the table is atomic. `WipeRun`: short writes. `WipeLog`: SQLite's own
  locking, which is taken to make a transaction atomic.
* Installers and packaging.
