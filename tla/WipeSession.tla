----------------------------- MODULE WipeSession -----------------------------
(***************************************************************************)
(* The wipe sessions of the web service: WipeSessionManager                *)
(* (web/session_manager.py) with its thread pool, the wipe engine that its *)
(* workers run (wipe_engine/engine.py, one step per block written), and    *)
(* the rows that WipeLoggingService keeps in SQLite (logging/service.py).  *)
(*                                                                         *)
(* Threads: the event loop of the server, which executes one API call at   *)
(* a time (api), and one pool thread per session (worker).  The status of  *)
(* a session is shared: workers write it without the lock that             *)
(* cancel_session holds.                                                   *)
(***************************************************************************)
EXTENDS Naturals, Sequences, FiniteSets

CONSTANTS
  Sessions,       \* session ids; a uuid is never used twice
  Devices,        \* device paths
  Blocks,         \* writes, and so progress callbacks, of one pass
  Passes,         \* passes of the algorithm; the type 'custom' has none
  MaxConcurrent,  \* max_workers of the executor
  MaxRestarts,    \* bound: restarts of the server process
  DbFailsFor,     \* the sessions whose database calls may raise (locked, disk full)
  Mountable,      \* the devices that the host may mount at all
  HostMayMount    \* may it mount one of them that is being wiped?

ASSUME WipeAssumption ==
  /\ Blocks \in Nat \ {0}
  /\ Passes \in Nat
  /\ MaxConcurrent \in Nat \ {0}
  /\ MaxRestarts \in Nat
  /\ DbFailsFor \subseteq Sessions
  /\ Mountable \subseteq Devices
  /\ HostMayMount \in BOOLEAN

VARIABLES
  status,    \* session.progress.status; "absent": not in self.sessions,
             \* "lost": it was in the memory of a process that died
  dev,       \* session.device_info.path
  worker,    \* what the pool thread of the session does next
  result,    \* outcome of engine.wipe_device
  pass, pos, \* the engine's pass and its position in it
  snap,      \* the status a progress callback read for the log
  queue,     \* work queue of the executor
  api,       \* the API call the event loop is executing
  row,       \* wipe_logs.operation_status
  audit,     \* event types in audit_trail
  report,    \* wipe_reports.success
  cert,      \* certificate files were written
  dirty,     \* blocks of a device that hold data the host wrote
  mounted,   \* devices the host has mounted
  restarts,  \* restarts so far
  accepted,  \* history: what the worker was doing when a cancel was accepted
  erased     \* history: the device held no data when the engine returned

vars == <<status, dev, worker, result, pass, pos, snap, queue, api, row, audit,
          report, cert, dirty, mounted, restarts, accepted, erased>>
engine  == <<result, pass, pos, snap, dirty, erased>>
db      == <<row, audit, report>>
world   == <<mounted, restarts>>

Statuses == {"pending", "running", "completed", "failed", "cancelled"}
Writing  == {"write", "logging", "telling"}          \* inside the passes
Phases   == {"idle", "queued", "begun", "setup", "returned", "certify",
             "report", "log", "settle", "except", "logfail", "notify",
             "done"} \cup Writing
Events   == {"wipe_started", "wipe_completed", "wipe_failed", "wipe_cancelled"}
BlockSet == 1..Blocks
Idle     == [op |-> "idle"]
Calls    == [op : {"start", "cancel"}, sid : Sessions, at : {"log", "submit", "set"}]

\* Threads of the pool that are busy with a session.
Busy == {s \in Sessions : worker[s] \notin {"idle", "queued", "done"}}
\* cancel_session holds the lock from its test to the end of its logging.
LockFree == api.op # "cancel"
\* A database call for s: both writes happen, or an exception cuts it short.
DbOutcomes(s) == IF s \in DbFailsFor THEN {"raised", "row", "all"} ELSE {"all"}

-----------------------------------------------------------------------------
TypeOK ==
  /\ status \in [Sessions -> Statuses \cup {"absent", "lost"}]
  /\ dev \in [Sessions -> Devices]
  /\ worker \in [Sessions -> Phases]
  /\ result \in [Sessions -> {"none", "ok", "err"}]
  /\ pass \in [Sessions -> {1} \cup 1..Passes]
  /\ pos \in [Sessions -> 0..Blocks]
  /\ snap \in [Sessions -> Statuses \cup {"absent", "lost"}]
  /\ queue \in Seq(Sessions)
  /\ api \in {Idle} \cup Calls
  /\ row \in [Sessions -> Statuses \cup {"none"}]
  /\ audit \in [Sessions -> SUBSET Events]
  /\ report \in [Sessions -> {"none", "ok", "err"}]
  /\ cert \in [Sessions -> BOOLEAN]
  /\ dirty \in [Devices -> SUBSET BlockSet]
  /\ mounted \in SUBSET Devices
  /\ restarts \in 0..MaxRestarts
  /\ accepted \in [Sessions -> Phases \cup {"no"}]
  /\ erased \in [Sessions -> BOOLEAN]

Init ==
  /\ status = [s \in Sessions |-> "absent"]
  /\ dev \in [Sessions -> Devices]
  /\ worker = [s \in Sessions |-> "idle"]
  /\ result = [s \in Sessions |-> "none"]
  /\ pass = [s \in Sessions |-> 1]
  /\ pos = [s \in Sessions |-> 0]
  /\ snap = [s \in Sessions |-> "absent"]
  /\ queue = <<>>
  /\ api = Idle
  /\ row = [s \in Sessions |-> "none"]
  /\ audit = [s \in Sessions |-> {}]
  /\ report = [s \in Sessions |-> "none"]
  /\ cert = [s \in Sessions |-> FALSE]
  /\ dirty = [d \in Devices |-> BlockSet]
  /\ mounted = {}
  /\ restarts = 0
  /\ accepted = [s \in Sessions |-> "no"]
  /\ erased = [s \in Sessions |-> FALSE]

-----------------------------------------------------------------------------
(* The log service: one row update and one audit event, each in its own    *)
(* transaction; what raises is swallowed by the session manager.  An       *)
(* UPDATE of a row that was never inserted changes nothing.                *)

UpdateRow(s, st) == row' = [row EXCEPT ![s] = IF @ = "none" THEN @ ELSE st]

LogOutcome(s, st, event) ==
  \E out \in DbOutcomes(s) :
    /\ IF out = "raised" THEN UNCHANGED row ELSE UpdateRow(s, st)
    /\ audit' = IF out = "all" THEN [audit EXCEPT ![s] = @ \cup {event}] ELSE audit

-----------------------------------------------------------------------------
(* Plausible bugs, each a variant of the action whose name it extends.     *)

\* The notification does not take the lock.
NotifyUnlocked(s, from, to) ==
  /\ worker[s] = from
  /\ worker' = [worker EXCEPT ![s] = to]
  /\ UNCHANGED <<status, dev, queue, api, accepted, cert, engine, db, world>>

\* The pool counts the thread that is being started.
BeginOneLess ==
  /\ queue # <<>> /\ Cardinality(Busy) + 1 < MaxConcurrent
  /\ status' = [status EXCEPT ![Head(queue)] = "running"]
  /\ worker' = [worker EXCEPT ![Head(queue)] = "begun"]
  /\ queue' = Tail(queue)
  /\ UNCHANGED <<dev, api, accepted, cert, engine, db, world>>

\* "position <= device_size"
WriteBlockPastEnd(s) ==
  /\ worker[s] = "write" /\ pos[s] <= Blocks
  /\ dirty' = [dirty EXCEPT ![dev[s]] = @ \ {pos[s] + 1}]
  /\ pos' = [pos EXCEPT ![s] = @ + 1]
  /\ snap' = [snap EXCEPT ![s] = status[s]]
  /\ worker' = [worker EXCEPT ![s] = "logging"]
  /\ UNCHANGED <<status, dev, queue, api, accepted, cert, result, pass, erased, db, world>>

\* The progress log always says that the wipe is running.
LogProgressRunning(s) ==
  /\ worker[s] = "logging"
  /\ UpdateRow(s, "running")
  /\ worker' = [worker EXCEPT ![s] = "telling"]
  /\ UNCHANGED <<status, dev, queue, api, accepted, cert, audit, report, engine, world>>

\* The last block of a pass is not waited for.
EngineReturnsEarly(s) ==
  /\ worker[s] = "write" /\ pos[s] + 1 >= Blocks /\ pass[s] >= Passes
  /\ result' = [result EXCEPT ![s] = "ok"]
  /\ erased' = [erased EXCEPT ![s] = dirty[dev[s]] = {}]
  /\ worker' = [worker EXCEPT ![s] = "returned"]
  /\ UNCHANGED <<status, dev, queue, api, accepted, cert, pass, pos, snap, dirty, db, world>>

\* The cancellation is not tested after the engine returned.
AfterEngineUntested(s) ==
  /\ worker[s] = "returned"
  /\ worker' = [worker EXCEPT ![s] = IF result[s] = "ok" THEN "certify" ELSE "report"]
  /\ UNCHANGED <<status, dev, queue, api, accepted, cert, engine, db, world>>

\* A certificate is generated whatever the result is.
AfterEngineAnyResult(s) ==
  /\ worker[s] = "returned"
  /\ worker' = [worker EXCEPT ![s] = IF status[s] = "cancelled" THEN "notify" ELSE "certify"]
  /\ UNCHANGED <<status, dev, queue, api, accepted, cert, engine, db, world>>

\* The exception handler does not log.
ExceptLogSkipped(s) ==
  /\ worker[s] = "logfail"
  /\ worker' = [worker EXCEPT ![s] = "notify"]
  /\ UNCHANGED <<status, dev, queue, api, accepted, cert, engine, db, world>>

-----------------------------------------------------------------------------
(* API calls, on the event loop.                                           *)

\* start_wipe_session up to the insertion of the session, under the lock.
StartInsert(s) ==
  /\ api = Idle
  /\ status[s] = "absent"
  /\ status' = [status EXCEPT ![s] = "pending"]
  /\ api' = [op |-> "start", sid |-> s, at |-> "log"]
  /\ UNCHANGED <<dev, worker, queue, accepted, cert, engine, db, world>>

\* log_wipe_started.
StartLog ==
  /\ api.op = "start" /\ api.at = "log"
  /\ \E out \in DbOutcomes(api.sid) :
       /\ row' = IF out = "raised" THEN row ELSE [row EXCEPT ![api.sid] = "pending"]
       /\ audit' = IF out = "all" THEN [audit EXCEPT ![api.sid] = @ \cup {"wipe_started"}]
                                  ELSE audit
  /\ api' = [api EXCEPT !.at = "submit"]
  /\ UNCHANGED <<status, dev, worker, queue, report, accepted, cert, engine, world>>

\* executor.submit
StartSubmit ==
  /\ api.op = "start" /\ api.at = "submit"
  /\ queue' = Append(queue, api.sid)
  /\ worker' = [worker EXCEPT ![api.sid] = "queued"]
  /\ api' = Idle
  /\ UNCHANGED <<status, dev, accepted, cert, engine, db, world>>

\* cancel_session: the test of the status, the assignment and the logging are
\* three steps of one critical section, but workers assign status outside it.
CancelTest(s) ==
  /\ api = Idle
  /\ status[s] = "running"
  /\ api' = [op |-> "cancel", sid |-> s, at |-> "set"]
  /\ UNCHANGED <<status, dev, worker, queue, accepted, cert, engine, db, world>>

CancelSet ==
  /\ api.op = "cancel" /\ api.at = "set"
  /\ status' = [status EXCEPT ![api.sid] = "cancelled"]
  /\ accepted' = [accepted EXCEPT ![api.sid] = worker[api.sid]]
  /\ api' = [api EXCEPT !.at = "log"]
  /\ UNCHANGED <<dev, worker, queue, cert, engine, db, world>>

CancelLog ==
  /\ api.op = "cancel" /\ api.at = "log"
  /\ LogOutcome(api.sid, "cancelled", "wipe_cancelled")
  /\ api' = Idle
  /\ UNCHANGED <<status, dev, worker, queue, report, accepted, cert, engine, world>>

-----------------------------------------------------------------------------
(* The worker of a session: _execute_wipe, and inside it the engine.       *)

\* A free thread takes the oldest task and marks its session running.
Begin ==
  /\ queue # <<>>
  /\ Cardinality(Busy) < MaxConcurrent
  /\ LET s == Head(queue) IN
       /\ status' = [status EXCEPT ![s] = "running"]
       /\ worker' = [worker EXCEPT ![s] = "begun"]
  /\ queue' = Tail(queue)
  /\ UNCHANGED <<dev, api, accepted, cert, engine, db, world>>

\* _notify_progress_callbacks waits for the lock; what it sends is left to
\* the model of the broadcasts.
Notify(s, from, to) ==
  /\ worker[s] = from
  /\ LockFree
  /\ worker' = [worker EXCEPT ![s] = to]
  /\ UNCHANGED <<status, dev, queue, api, accepted, cert, engine, db, world>>

NotifyBegun(s) == Notify(s, "begun", "setup")
NotifyDone(s)  == Notify(s, "notify", "done")

\* create_algorithm raises, or _validate_device does: the except clause of
\* wipe_device reads total_bytes_written before its assignment, so that what
\* it was told leaves wipe_device as an UnboundLocalError.
SetupRaises(s) ==
  /\ worker[s] = "setup"
  /\ worker' = [worker EXCEPT ![s] = "except"]
  /\ UNCHANGED <<status, dev, queue, api, accepted, cert, engine, db, world>>

\* The device is validated, which it is not while it is mounted; then the
\* first pass begins at position 0.
SetupDone(s) ==
  /\ worker[s] = "setup"
  /\ dev[s] \notin mounted
  /\ pass' = [pass EXCEPT ![s] = 1]
  /\ pos' = [pos EXCEPT ![s] = 0]
  /\ worker' = [worker EXCEPT ![s] = "write"]
  /\ UNCHANGED <<status, dev, queue, api, accepted, cert, result, snap, dirty, erased, db, world>>

\* One block of the pass; the progress callback then reads the status.
WriteBlock(s) ==
  /\ worker[s] = "write" /\ pass[s] <= Passes /\ pos[s] < Blocks
  /\ dirty' = [dirty EXCEPT ![dev[s]] = @ \ {pos[s] + 1}]
  /\ pos' = [pos EXCEPT ![s] = @ + 1]
  /\ snap' = [snap EXCEPT ![s] = status[s]]
  /\ worker' = [worker EXCEPT ![s] = "logging"]
  /\ UNCHANGED <<status, dev, queue, api, accepted, cert, result, pass, erased, db, world>>

\* An I/O error ends the pass, and the wipe, without success.
WriteFails(s) ==
  /\ worker[s] = "write" /\ pass[s] <= Passes /\ pos[s] < Blocks
  /\ result' = [result EXCEPT ![s] = "err"]
  /\ worker' = [worker EXCEPT ![s] = "returned"]
  /\ UNCHANGED <<status, dev, queue, api, accepted, cert, pass, pos, snap, dirty, erased,
                 db, world>>

\* progress_percent % 10 == 0
AtTenth(s) == (10 * ((pass[s] - 1) * Blocks + pos[s])) % (Passes * Blocks) = 0

\* log_wipe_progress writes the status that was read before, not the current one.
LogProgress(s) ==
  /\ worker[s] = "logging"
  /\ \/ AtTenth(s) /\ UpdateRow(s, snap[s])
     \/ (AtTenth(s) => s \in DbFailsFor) /\ UNCHANGED row
  /\ worker' = [worker EXCEPT ![s] = "telling"]
  /\ UNCHANGED <<status, dev, queue, api, accepted, cert, audit, report, engine, world>>

\* The callback's answer, FALSE for a cancelled session, is ignored.
NotifyProgress(s) == Notify(s, "telling", "write")

NextPass(s) ==
  /\ worker[s] = "write" /\ pos[s] = Blocks /\ pass[s] < Passes
  /\ pass' = [pass EXCEPT ![s] = @ + 1]
  /\ pos' = [pos EXCEPT ![s] = 0]
  /\ UNCHANGED <<status, dev, worker, queue, api, accepted, cert, result, snap, dirty,
                 erased, db, world>>

\* After the last pass, or at once if there is none; the verdict of the
\* verification does not change success.
EngineReturns(s) ==
  /\ worker[s] = "write"
  /\ Passes = 0 \/ (pos[s] = Blocks /\ pass[s] = Passes)
  /\ result' = [result EXCEPT ![s] = "ok"]
  /\ erased' = [erased EXCEPT ![s] = dirty[dev[s]] = {}]
  /\ worker' = [worker EXCEPT ![s] = "returned"]
  /\ UNCHANGED <<status, dev, queue, api, accepted, cert, pass, pos, snap, dirty, db, world>>

\* The only test of the cancellation.
AfterEngine(s) ==
  /\ worker[s] = "returned"
  /\ worker' = [worker EXCEPT ![s] =
       IF status[s] = "cancelled" THEN "notify"
       ELSE IF result[s] = "ok" THEN "certify" ELSE "report"]
  /\ UNCHANGED <<status, dev, queue, api, accepted, cert, engine, db, world>>

\* The certificate, if it was asked for and its generation does not raise.
Certify(s) ==
  /\ worker[s] = "certify"
  /\ \E made \in BOOLEAN : cert' = [cert EXCEPT ![s] = made]
  /\ worker' = [worker EXCEPT ![s] = "report"]
  /\ UNCHANGED <<status, dev, queue, api, accepted, engine, db, world>>

StoreReport(s) ==
  /\ worker[s] = "report"
  /\ \/ report' = [report EXCEPT ![s] = result[s]]
     \/ s \in DbFailsFor /\ UNCHANGED report
  /\ worker' = [worker EXCEPT ![s] = "log"]
  /\ UNCHANGED <<status, dev, queue, api, accepted, cert, engine, row, audit, world>>

\* log_wipe_completed
LogCompleted(s) ==
  /\ worker[s] = "log"
  /\ IF result[s] = "ok" THEN LogOutcome(s, "completed", "wipe_completed")
                         ELSE LogOutcome(s, "failed", "wipe_failed")
  /\ worker' = [worker EXCEPT ![s] = "settle"]
  /\ UNCHANGED <<status, dev, queue, api, accepted, cert, report, engine, world>>

\* The final status, whatever the status is by now.
Settle(s) ==
  /\ worker[s] = "settle"
  /\ status' = [status EXCEPT ![s] = IF result[s] = "ok" THEN "completed" ELSE "failed"]
  /\ worker' = [worker EXCEPT ![s] = "notify"]
  /\ UNCHANGED <<dev, queue, api, accepted, cert, engine, db, world>>

\* except Exception: no report is stored here.
ExceptSettle(s) ==
  /\ worker[s] = "except"
  /\ status' = [status EXCEPT ![s] = "failed"]
  /\ worker' = [worker EXCEPT ![s] = "logfail"]
  /\ UNCHANGED <<dev, queue, api, accepted, cert, engine, db, world>>

ExceptLog(s) ==
  /\ worker[s] = "logfail"
  /\ LogOutcome(s, "failed", "wipe_failed")
  /\ worker' = [worker EXCEPT ![s] = "notify"]
  /\ UNCHANGED <<status, dev, queue, api, accepted, cert, report, engine, world>>

-----------------------------------------------------------------------------
(* The environment.                                                        *)

\* Sessions whose engine has validated their device and is still at it.
Wiping(d) == {s \in Sessions : dev[s] = d /\ worker[s] \in Writing}

Mount(d) ==
  /\ d \in Mountable \ mounted
  /\ HostMayMount \/ Wiping(d) = {}
  /\ mounted' = mounted \cup {d}
  /\ UNCHANGED <<status, dev, worker, queue, api, accepted, cert, engine, db, restarts>>

Unmount(d) ==
  /\ d \in mounted
  /\ mounted' = mounted \ {d}
  /\ UNCHANGED <<status, dev, worker, queue, api, accepted, cert, engine, db, restarts>>

HostWrite(d, b) ==
  /\ d \in mounted
  /\ dirty' = [dirty EXCEPT ![d] = @ \cup {b}]
  /\ UNCHANGED <<status, dev, worker, queue, api, accepted, cert, result, pass, pos, snap,
                 erased, db, world>>

\* The server process dies and is started again: sessions, queue and threads
\* are gone; the database, the certificate files and the devices are not.
Restart ==
  /\ restarts < MaxRestarts
  /\ restarts' = restarts + 1
  /\ status' = [s \in Sessions |-> IF status[s] = "absent" THEN "absent" ELSE "lost"]
  /\ worker' = [s \in Sessions |-> "idle"]
  /\ queue' = <<>>
  /\ api' = Idle
  /\ result' = [s \in Sessions |-> "none"]
  /\ pass' = [s \in Sessions |-> 1]
  /\ pos' = [s \in Sessions |-> 0]
  /\ snap' = [s \in Sessions |-> "absent"]
  /\ UNCHANGED <<dev, accepted, cert, dirty, erased, db, mounted>>

-----------------------------------------------------------------------------
ApiStep == StartLog \/ StartSubmit \/ CancelSet \/ CancelLog

WorkerStep(s) ==
  \/ NotifyBegun(s) \/ SetupRaises(s) \/ SetupDone(s)
  \/ WriteBlock(s) \/ WriteFails(s) \/ LogProgress(s) \/ NotifyProgress(s)
  \/ NextPass(s) \/ EngineReturns(s) \/ AfterEngine(s) \/ Certify(s)
  \/ StoreReport(s) \/ LogCompleted(s) \/ Settle(s)
  \/ ExceptSettle(s) \/ ExceptLog(s) \/ NotifyDone(s)

Next ==
  \/ \E s \in Sessions : StartInsert(s) \/ CancelTest(s) \/ WorkerStep(s)
  \/ ApiStep
  \/ Begin
  \/ \E d \in Devices : Mount(d) \/ Unmount(d)
  \/ \E d \in Devices, b \in BlockSet : HostWrite(d, b)
  \/ Restart

\* Threads are scheduled; nobody has to start, cancel, mount or crash anything.
Fairness == WF_vars(ApiStep) /\ WF_vars(Begin) /\ \A s \in Sessions : WF_vars(WorkerStep(s))

Spec     == Init /\ [][Next]_vars
FairSpec == Spec /\ Fairness

-----------------------------------------------------------------------------
(* Properties.                                                             *)

\* Everything a user could take as evidence that the wipe was done.
Evidence(s) == cert[s] \/ report[s] = "ok" \/ row[s] = "completed" \/ status[s] = "completed"

(* A certificate, a successful report, a completed log row and a COMPLETED  *)
(* session exist only for a session whose engine had overwritten every      *)
(* block of its device, whatever other sessions do to that device and       *)
(* whenever the process restarts (session_manager.py:317-477), if the       *)
(* algorithm has a pass and nobody mounts a device under the engine.        *)
CertifiedErased == \A s \in Sessions : Evidence(s) => erased[s]

(* A cancellation accepted while the engine was writing leaves no evidence  *)
(* of a finished wipe, in memory or on disk, and the session ends           *)
(* cancelled: the test of _execute_wipe (line 317) sees it.                 *)
CancelledWipeUncertified ==
  \A s \in Sessions : accepted[s] \in Writing =>
    /\ ~Evidence(s) /\ report[s] = "none"
    /\ "wipe_completed" \notin audit[s]
    /\ worker[s] = "done" => status[s] = "cancelled"

(* When the worker of a session nobody cancelled has ended, and none of its *)
(* database calls raised, the log row, the audit trail and the stored       *)
(* report tell the same outcome as the session (lines 322-495).             *)
UncancelledRecordsAgree ==
  \A s \in Sessions \ DbFailsFor :
    worker[s] = "done" /\ accepted[s] = "no" =>
      /\ row[s] = status[s]
      /\ \/ status[s] = "completed" /\ report[s] = "ok"
            /\ audit[s] = {"wipe_started", "wipe_completed"}
         \/ status[s] = "failed" /\ report[s] # "ok" /\ ~cert[s]
            /\ audit[s] = {"wipe_started", "wipe_failed"}

(* A cancellation that does not fall between a progress callback's reading  *)
(* of the status and its writing of it (lines 257-263) is what the log row  *)
(* says in the end: later callbacks read the new status.                    *)
CancelledRowRecorded ==
  \A s \in Sessions \ DbFailsFor :
    worker[s] = "done" /\ accepted[s] \in {"write", "telling"} => row[s] = "cancelled"

(* Once the worker of a session has ended, its status and its records stay  *)
(* as they are: cancel_session holds the lock that the last notification    *)
(* needs, so it cannot assign the status after the worker's end.            *)
SettledIsFinal ==
  [][\A s \in Sessions : worker[s] = "done" /\ restarts' = restarts =>
       UNCHANGED <<status[s], row[s], audit[s], report[s], cert[s]>>]_vars

(* Every session that start_wipe_session created comes to an end, unless    *)
(* the process dies: a session waits for a thread, for the lock and for its *)
(* own writes only.                                                         *)
StartedFinishes ==
  \A s \in Sessions : status[s] = "pending" ~> worker[s] = "done" \/ status[s] = "lost"

-----------------------------------------------------------------------------
(* What the repository says and the code does not do.                      *)

(* "Cancel a running wipe operation." (web/server.py:657): a wipe whose     *)
(* cancellation was accepted writes nothing more to the device.             *)
CancelStopsWriting ==
  [][\A s \in Sessions : accepted[s] # "no" => ~(pos'[s] > pos[s])]_vars

=============================================================================
