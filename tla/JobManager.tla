----------------------------- MODULE JobManager -----------------------------
(***************************************************************************)
(* The background jobs of the web service: VerifySessionManager,           *)
(* RecoverySessionManager and ShredSessionManager, three copies of one     *)
(* skeleton, each with the function its workers run (check_erasure,        *)
(* deep_scan_recover, shred_files) reduced to its progress callbacks, its  *)
(* tests of the cancel event and its outcomes.                             *)
(*                                                                         *)
(* Endpoints are plain functions and run in the server's thread pool, so   *)
(* the steps of several requests interleave with the workers.  Each block  *)
(* under the manager's lock is one step.                                   *)
(***************************************************************************)
EXTENDS Naturals, Sequences, FiniteSets

CONSTANTS
  Jobs,           \* job ids; a uuid is never used twice
  Kinds,          \* which of the three managers are looked at
  MaxConcurrent,  \* max_workers of its executor
  Items,          \* samples of a check, or files of a batch
  Parts           \* partitions that a check scans, or blocks of a file

ASSUME JobAssumption ==
  /\ Kinds \subseteq {"verify", "recovery", "shred"}
  /\ MaxConcurrent \in Nat \ {0}
  /\ Items \in Nat \ {0}
  /\ Parts \in Nat \ {0}

VARIABLES
  kind,    \* the manager that this is a behaviour of; it never changes
  status,  \* job.status; "absent" before the job is in self.jobs
  filled,  \* were job.result, the recovered files or job.error assigned?
  cancel,  \* the cancel event of the job
  request, \* how far the start request of the job is
  queue,   \* work queue of the executor
  worker,  \* what the pool thread of the job does next
  step,    \* how much of the work is behind it
  good,    \* was a file shredded?
  out,     \* the outcome that the work function returns
  told     \* what the progress callback was given last

vars == <<kind, status, filled, cancel, request, queue, worker, step, good, out, told>>
work == <<step, good, out>>

Terminal == {"completed", "failed", "cancelled"}
Active   == {"running", "sampling", "cross_checking"}
Statuses == {"absent", "pending"} \cup Active \cup Terminal
Phases   == {"idle", "queued", "hello", "enter", "work", "said", "crosshello", "cross",
             "farewell", "settle", "crash", "bye", "done"}
Outcomes == {"none", "ok", "nothing", "refused", "error", "cancelled"}
Requests == {"none", "inserted", "submitted", "listening"}

\* A file is its blocks and then its removal; a check is its samples and then
\* its partitions.
Unit  == Parts + 1
Whole == IF kind = "shred" THEN Items * Unit ELSE Items + Parts

Busy == {j \in Jobs : worker[j] \notin {"idle", "queued", "done"}}

-----------------------------------------------------------------------------
TypeOK ==
  /\ kind \in Kinds
  /\ status \in [Jobs -> Statuses]
  /\ filled \in [Jobs -> BOOLEAN]
  /\ cancel \in [Jobs -> BOOLEAN]
  /\ request \in [Jobs -> Requests]
  /\ queue \in Seq(Jobs)
  /\ worker \in [Jobs -> Phases]
  /\ step \in [Jobs -> 0..Whole]
  /\ good \in [Jobs -> BOOLEAN]
  /\ out \in [Jobs -> Outcomes]
  /\ told \in [Jobs -> {<<"nothing", FALSE>>} \cup Statuses \X BOOLEAN]

Init ==
  /\ kind \in Kinds
  /\ status = [j \in Jobs |-> "absent"]
  /\ filled = [j \in Jobs |-> FALSE]
  /\ cancel = [j \in Jobs |-> FALSE]
  /\ request = [j \in Jobs |-> "none"]
  /\ queue = <<>>
  /\ worker = [j \in Jobs |-> "idle"]
  /\ step = [j \in Jobs |-> 0]
  /\ good = [j \in Jobs |-> FALSE]
  /\ out = [j \in Jobs |-> "none"]
  /\ told = [j \in Jobs |-> <<"nothing", FALSE>>]

\* The worker of j goes on to phase to; nobody else's changes.
Goto(j, to) == worker' = [worker EXCEPT ![j] = to]
Returns(j, o) == out' = [out EXCEPT ![j] = o]

\* A plausible bug of Emit: the job takes every status of its work function.
EmitVerbatim(j, st) == status' = [status EXCEPT ![j] = st]

\* on_progress: which of the work function's statuses the job takes over.
Emit(j, st) ==
  status' = [status EXCEPT ![j] =
    IF kind = "shred" THEN (IF @ = "cancelled" THEN @ ELSE "running") ELSE st]

-----------------------------------------------------------------------------
(* Plausible bugs, each a variant of the action whose name it extends.     *)

\* A cancelled job may be cancelled again, whatever its status is.
CancelAnything(j) ==
  /\ request[j] = "listening"
  /\ cancel' = [cancel EXCEPT ![j] = TRUE]
  /\ status' = [status EXCEPT ![j] = "cancelled"]
  /\ UNCHANGED <<kind, filled, request, queue, worker, work, told>>

\* The clients are told before the outcome is assigned, not after.
NotifyEarly(j, from, to) ==
  /\ worker[j] = from
  /\ from # "bye" => told' = [told EXCEPT ![j] = IF request[j] = "listening"
                                                   THEN <<status[j], filled[j]>> ELSE @]
  /\ from = "bye" => UNCHANGED told
  /\ Goto(j, to)
  /\ UNCHANGED <<kind, status, filled, cancel, request, queue, work>>

\* A batch that failed as a whole is not told from one that did not.
FinalStatusLenient(j) ==
  CASE out[j] = "cancelled" -> "cancelled"
    [] out[j] \in {"refused", "error"} -> "failed"
    [] OTHER -> "completed"

\* A file may be given up after its first block, and still counts as a whole.
ShredSkipAnywhere(j) ==
  /\ kind = "shred" /\ worker[j] = "work" /\ step[j] < Whole
  /\ ~cancel[j]
  /\ \E n \in {Parts, Unit} : step' = [step EXCEPT ![j] = @ + n]
  /\ UNCHANGED <<kind, status, filled, cancel, request, queue, worker, good, out, told>>

\* The pool counts the thread that is being started.
BeginOneLess ==
  /\ queue # <<>>
  /\ Cardinality(Busy) + 1 < MaxConcurrent
  /\ LET j == Head(queue) IN
       /\ status' = [status EXCEPT ![j] = IF kind = "verify" THEN "sampling" ELSE "running"]
       /\ Goto(j, "hello")
  /\ queue' = Tail(queue)
  /\ UNCHANGED <<kind, filled, cancel, request, work, told>>

\* The event is not looked at while the tool runs.
PollDeaf(j) ==
  /\ kind = "recovery" /\ worker[j] = "work"
  /\ Emit(j, "running") /\ Goto(j, "said")
  /\ UNCHANGED <<kind, filled, cancel, request, queue, work, told>>

-----------------------------------------------------------------------------
(* Requests.                                                               *)

\* start_check, start_deep_scan, start_shred: the block under the lock.
Insert(j) ==
  /\ request[j] = "none"
  /\ request' = [request EXCEPT ![j] = "inserted"]
  /\ status' = [status EXCEPT ![j] = "pending"]
  /\ UNCHANGED <<kind, filled, cancel, queue, worker, work, told>>

Submit(j) ==
  /\ request[j] = "inserted"
  /\ request' = [request EXCEPT ![j] = "submitted"]
  /\ queue' = Append(queue, j)
  /\ Goto(j, "queued")
  /\ UNCHANGED <<kind, status, filled, cancel, work, told>>

\* The endpoint registers its callback after the job was submitted, and then
\* returns the job id.
Listen(j) ==
  /\ request[j] = "submitted"
  /\ request' = [request EXCEPT ![j] = "listening"]
  /\ UNCHANGED <<kind, status, filled, cancel, queue, worker, work, told>>

\* cancel_job, where it answers True.
Cancel(j) ==
  /\ request[j] = "listening"
  /\ status[j] \in {"pending"} \cup Active
  /\ cancel' = [cancel EXCEPT ![j] = TRUE]
  /\ UNCHANGED <<kind, status, filled, request, queue, worker, work, told>>

-----------------------------------------------------------------------------
(* The worker of a job: _run and, inside it, the work function.            *)

Begin ==
  /\ queue # <<>>
  /\ Cardinality(Busy) < MaxConcurrent
  /\ LET j == Head(queue) IN
       /\ status' = [status EXCEPT ![j] = IF kind = "verify" THEN "sampling" ELSE "running"]
       /\ Goto(j, "hello")
  /\ queue' = Tail(queue)
  /\ UNCHANGED <<kind, filled, cancel, request, work, told>>

\* _notify: a snapshot of the job for the callbacks that are registered by now.
Notify(j, from, to) ==
  /\ worker[j] = from
  /\ told' = [told EXCEPT ![j] = IF request[j] = "listening"
                                   THEN <<status[j], filled[j]>> ELSE @]
  /\ Goto(j, to)
  /\ UNCHANGED <<kind, status, filled, cancel, request, queue, work>>

NotifyStep(j) ==
  \/ Notify(j, "hello", "enter")
  \/ Notify(j, "said", "work")
  \/ Notify(j, "crosshello", "cross")
  \/ Notify(j, "farewell", "settle")
  \/ Notify(j, "bye", "done")

\* The function refuses (path, mount, tool missing, algorithm), or gives up on
\* an error that it reports; shred_files reports no error of its own.
Declines(j) ==
  /\ worker[j] = "enter"
  /\ \E o \in {"refused"} \cup (IF kind = "shred" THEN {} ELSE {"error"}) : Returns(j, o)
  /\ Goto(j, "settle")
  /\ UNCHANGED <<kind, status, filled, cancel, request, queue, step, good, told>>

\* An exception leaves the function; check_erasure catches those of its samples
\* and scans.
Raises(j) ==
  /\ worker[j] = "enter" \/ (worker[j] = "work" /\ kind # "verify")
  /\ Goto(j, "crash")
  /\ UNCHANGED <<kind, status, filled, cancel, request, queue, work, told>>

\* deep_scan_recover says that its tool was started.
Enter(j) ==
  /\ worker[j] = "enter"
  /\ IF kind = "recovery" THEN Emit(j, "running") /\ Goto(j, "said")
                          ELSE Goto(j, "work") /\ UNCHANGED status
  /\ UNCHANGED <<kind, filled, cancel, request, queue, work, told>>

\* _run_samples: one sample, unless the event is set before it.
Sample(j) ==
  /\ kind = "verify" /\ worker[j] = "work" /\ step[j] < Items /\ ~cancel[j]
  /\ Emit(j, "sampling") /\ step' = [step EXCEPT ![j] = @ + 1] /\ Goto(j, "said")
  /\ UNCHANGED <<kind, filled, cancel, request, queue, good, out, told>>

\* A sample cannot be read.
SampleFails(j) ==
  /\ kind = "verify" /\ worker[j] = "work" /\ step[j] < Items
  /\ Returns(j, "error") /\ Goto(j, "settle")
  /\ UNCHANGED <<kind, status, filled, cancel, request, queue, step, good, told>>

\* The event is not looked at between the last sample and the first partition.
CrossBegin(j) ==
  /\ kind = "verify" /\ worker[j] = "work" /\ step[j] = Items
  /\ Emit(j, "cross_checking") /\ Goto(j, "crosshello")
  /\ UNCHANGED <<kind, filled, cancel, request, queue, work, told>>

CrossCheck(j) ==
  /\ kind = "verify" /\ worker[j] = "cross" /\ step[j] < Whole /\ ~cancel[j]
  /\ step' = [step EXCEPT ![j] = @ + 1]
  /\ UNCHANGED <<kind, status, filled, cancel, request, queue, worker, good, out, told>>

CrossEnd(j) ==
  /\ kind = "verify" /\ worker[j] = "cross" /\ step[j] = Whole
  /\ Emit(j, "completed") /\ Returns(j, "ok") /\ Goto(j, "farewell")
  /\ UNCHANGED <<kind, filled, cancel, request, queue, step, good, told>>

\* A check that finds the event set says so before it returns.
CheckCancelled(j) ==
  /\ kind = "verify" /\ cancel[j]
  /\ \/ worker[j] = "work" /\ step[j] < Items
     \/ worker[j] = "cross" /\ step[j] < Whole
  /\ Emit(j, "cancelled") /\ Returns(j, "cancelled") /\ Goto(j, "farewell")
  /\ UNCHANGED <<kind, filled, cancel, request, queue, step, good, told>>

\* photorec is still running, and is looked at once a second.
Poll(j) ==
  /\ kind = "recovery" /\ worker[j] = "work"
  /\ IF cancel[j] THEN Emit(j, "cancelled") /\ Returns(j, "cancelled") /\ Goto(j, "farewell")
                  ELSE Emit(j, "running") /\ Goto(j, "said") /\ UNCHANGED out
  /\ UNCHANGED <<kind, filled, cancel, request, queue, step, good, told>>

\* photorec has ended by itself, and files are there or not.
ToolExits(j) ==
  /\ kind = "recovery" /\ worker[j] = "work"
  /\ \E o \in {"ok", "nothing"} : Returns(j, o)
  /\ Emit(j, "completed") /\ Goto(j, "farewell")
  /\ UNCHANGED <<kind, filled, cancel, request, queue, step, good, told>>

\* A block of a file is overwritten.
ShredBlock(j) ==
  /\ kind = "shred" /\ worker[j] = "work" /\ step[j] < Whole /\ (step[j] + 1) % Unit # 0
  /\ ~cancel[j]
  /\ Emit(j, "running") /\ step' = [step EXCEPT ![j] = @ + 1] /\ Goto(j, "said")
  /\ UNCHANGED <<kind, filled, cancel, request, queue, good, out, told>>

\* Its last block was: it is truncated, renamed and removed, or that fails.
\* The event is not looked at.
ShredRemove(j) ==
  /\ kind = "shred" /\ worker[j] = "work" /\ step[j] < Whole /\ (step[j] + 1) % Unit = 0
  /\ \E ok \in BOOLEAN : good' = [good EXCEPT ![j] = @ \/ ok]
  /\ Emit(j, "running") /\ step' = [step EXCEPT ![j] = @ + 1] /\ Goto(j, "said")
  /\ UNCHANGED <<kind, filled, cancel, request, queue, out, told>>

\* A file is refused before its first block, or has none.
ShredSkip(j) ==
  /\ kind = "shred" /\ worker[j] = "work" /\ step[j] < Whole /\ step[j] % Unit = 0
  /\ ~cancel[j]
  /\ \E n \in {Parts, Unit} : step' = [step EXCEPT ![j] = @ + n]
  /\ UNCHANGED <<kind, status, filled, cancel, request, queue, worker, good, out, told>>

\* A file cannot be opened or written.
ShredFails(j) ==
  /\ kind = "shred" /\ worker[j] = "work" /\ step[j] < Whole /\ (step[j] + 1) % Unit # 0
  /\ ~cancel[j]
  /\ Emit(j, "running") /\ step' = [step EXCEPT ![j] = Unit * (@ \div Unit + 1)]
  /\ Goto(j, "said")
  /\ UNCHANGED <<kind, filled, cancel, request, queue, good, out, told>>

\* The event is tested before each file and before each block.
ShredCancelled(j) ==
  /\ kind = "shred" /\ worker[j] = "work" /\ step[j] < Whole /\ (step[j] + 1) % Unit # 0
  /\ cancel[j]
  /\ Returns(j, "cancelled") /\ Goto(j, "settle")
  /\ UNCHANGED <<kind, status, filled, cancel, request, queue, step, good, told>>

ShredEnd(j) ==
  /\ kind = "shred" /\ worker[j] = "work" /\ step[j] = Whole
  /\ Emit(j, "completed")
  /\ Returns(j, IF good[j] THEN "ok" ELSE "nothing") /\ Goto(j, "farewell")
  /\ UNCHANGED <<kind, filled, cancel, request, queue, step, good, told>>

\* The status that _run derives from the outcome; that of a recovery stays
\* cancelled if on_progress has made it so.
FinalStatus(j) ==
  CASE out[j] = "cancelled" -> "cancelled"
    [] out[j] = "ok"        -> "completed"
    [] OTHER                -> "failed"

Settle(j) ==
  /\ worker[j] = "settle"
  /\ status' = [status EXCEPT ![j] =
       IF kind = "recovery" /\ @ = "cancelled" THEN @ ELSE FinalStatus(j)]
  /\ filled' = [filled EXCEPT ![j] = TRUE]
  /\ Goto(j, "bye")
  /\ UNCHANGED <<kind, cancel, request, queue, work, told>>

\* except Exception
Crash(j) ==
  /\ worker[j] = "crash"
  /\ status' = [status EXCEPT ![j] = "failed"]
  /\ filled' = [filled EXCEPT ![j] = TRUE]
  /\ Goto(j, "bye")
  /\ UNCHANGED <<kind, cancel, request, queue, work, told>>

-----------------------------------------------------------------------------
Check(j) == Sample(j) \/ SampleFails(j) \/ CrossBegin(j) \/ CrossCheck(j) \/ CrossEnd(j)
              \/ CheckCancelled(j)
Shred(j) == ShredBlock(j) \/ ShredRemove(j) \/ ShredSkip(j) \/ ShredFails(j)
              \/ ShredCancelled(j) \/ ShredEnd(j)

WorkerStep(j) ==
  \/ NotifyStep(j) \/ Declines(j) \/ Raises(j) \/ Enter(j)
  \/ Check(j) \/ Poll(j) \/ ToolExits(j) \/ Shred(j)
  \/ Settle(j) \/ Crash(j)

RequestStep(j) == Submit(j) \/ Listen(j)

Next ==
  \/ \E j \in Jobs : Insert(j) \/ RequestStep(j) \/ Cancel(j) \/ WorkerStep(j)
  \/ Begin

\* Threads are scheduled; clients start and cancel what they like, and a tool
\* may run for ever.
Fairness ==
  /\ WF_vars(Begin)
  /\ \A j \in Jobs : WF_vars(RequestStep(j)) /\ WF_vars(WorkerStep(j))

Spec     == Init /\ [][Next]_vars
FairSpec == Spec /\ Fairness

-----------------------------------------------------------------------------
(* Properties.                                                             *)

\* The status as the abstract life cycle has it: the stages of a check merge,
\* and a check or a recovery has ended when its outcome is there.  (Both show a
\* terminal status before that; the shred manager does not.)
Stage(j) ==
  IF \/ status[j] \in Active
     \/ kind # "shred" /\ status[j] \in Terminal /\ ~filled[j]
  THEN "running" ELSE status[j]

Phase == [j \in Jobs |-> Stage(j)]

Lifecycle == INSTANCE JobLifecycle WITH phase <- Phase, asked <- cancel

(* The three managers keep the promises of the life cycle, and the shred    *)
(* manager keeps them to the letter: it is the copy that takes no terminal  *)
(* status from its work function's callbacks (shred_manager.py:137-145,     *)
(* 178-190), while a check or a recovery shows its end before its outcome   *)
(* (verify_manager.py:118, recovery_manager.py:120).                        *)
Implements == Lifecycle!Spec

(* A client that was told anything has been told the end: the last payload  *)
(* a callback got before the worker ended carries the final status and the  *)
(* outcome, although the callback is registered after the job is submitted  *)
(* (server.py:209-220, verify_manager.py:92-103 and their copies).          *)
EndIsTold ==
  \A j \in Jobs : worker[j] = "done" =>
    told[j] \in {<<"nothing", FALSE>>, <<status[j], TRUE>>}

(* A job shows completed only if all of its work is done, however late it   *)
(* was cancelled, and cancelled only if somebody asked for it.              *)
StatusIsEarned ==
  \A j \in Jobs :
    /\ status[j] = "cancelled" => cancel[j]
    /\ status[j] = "completed" /\ kind # "recovery" => step[j] = Whole
    /\ status[j] = "completed" /\ kind = "shred" => good[j]

(* "VERIFY_JOB_TERMINAL" and "SHRED_JOB_TERMINAL" (breaknwipe-gui/lib/     *)
(* api.ts:439, 473): a check or a batch never leaves the terminal status    *)
(* that a client has seen.  Recovery jobs do: the callback takes over the   *)
(* work function's completed (recovery_manager.py:120), and line 152 then   *)
(* makes it failed if no file was recovered.                                *)
TerminalIsFinal ==
  [][\A j \in Jobs :
       kind # "recovery" /\ status[j] \in Terminal => status'[j] = status[j]]_vars

(* A cancellation that was accepted while the worker was at its work ends   *)
(* the job, even if the tool it waits for never would.                      *)
CancelEnds ==
  \A j \in Jobs : (cancel[j] /\ worker[j] \notin {"idle", "queued"}) ~> worker[j] = "done"

(* Every shred job and every check comes to an end.                         *)
JobEnds ==
  \A j \in Jobs : (kind # "recovery" /\ status[j] = "pending") ~> worker[j] = "done"

=============================================================================
