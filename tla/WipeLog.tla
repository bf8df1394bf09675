------------------------------- MODULE WipeLog -------------------------------
(***************************************************************************)
(* The wipe log: the four tables of logging/database.py and what writes to *)
(* them through logging/service.py.  WipeSession has one wipe's records;   *)
(* here are those of several wipes of one disk, and the requests that      *)
(* delete logs while wipes run.                                            *)
(*                                                                         *)
(* Each method of LoggingDatabase is one transaction on a connection of    *)
(* its own; methods of the service are several.  The endpoints are         *)
(* coroutines that do not wait, so that starts, cancellations and          *)
(* deletions have the event loop to themselves; the threads of the wipes   *)
(* run beside them.  foreign_keys is switched on only for the connection   *)
(* that makes the tables: nothing holds a report to its log.               *)
(*                                                                         *)
(* WipeSession tells the ends of a wipe apart; here completed, failed and  *)
(* cancelled are one status, ended, pending and running another, open, and *)
(* the events of all of them one event, wipe.                              *)
(***************************************************************************)
EXTENDS Naturals, FiniteSets, Functions

CONSTANTS
  Sessions,    \* session ids; a uuid is never used twice
  Devices,
  Device,      \* device_path of a session
  Others,      \* what else a client may name, "cleanup" of line 898 among it
  Requests     \* bound: the deletions that are asked for

ASSUME LogAssumption ==
  /\ Device \in [Sessions -> Devices]
  /\ Sessions \cap Others = {}

VARIABLES
  wipe_logs,       \* operation_status of a session's row
  wipe_reports,    \* the sessions with a stored report
  audit_trail,     \* events of a session
  device_history,  \* total_wipes of a device, 0 if it has no row
  thread,          \* what the thread of a wipe does next
  loop,            \* the handler that has the event loop, if any
  ids,             \* what a deletion names
  audited,         \* the part of it that was announced in the audit trail
  answer,          \* its answer: deleted_count, or that it failed
  logged,          \* history: the sessions whose start was logged
  late,            \* history: those whose row was deleted while the wipe ran
  removed          \* history: the sessions whose row a deletion removed

tables == <<wipe_logs, wipe_reports, audit_trail, device_history>>
client == <<ids, audited, answer>>
vars   == <<tables, thread, loop, client, logged, late, removed>>

Names    == Sessions \cup Others
Statuses == {"absent", "open", "ended"}
Events   == {"wipe", "log_deleted"}
Running  == {"work", "end", "said"}
Asked    == {"none", "busy", "raised"}
Free     == [at |-> "free"]

TypeOK ==
  /\ wipe_logs \in [Sessions -> Statuses]
  /\ wipe_reports \subseteq Sessions
  /\ audit_trail \in [Names -> SUBSET Events]
  /\ device_history \in [Devices -> Nat]
  /\ thread \in [Sessions -> {"new", "done"} \cup Running]
  /\ loop \in {Free} \cup [at : {"start", "cancel"}, s : Sessions] \cup [at : {"delete"}, q : Requests]
                      \cup [at : {"reply"}, q : Requests, count : Nat]
  /\ ids \in [Requests -> SUBSET Names]
  /\ audited \in [Requests -> SUBSET Names]
  /\ answer \in [Requests -> [state : Asked, count : {0}] \cup [state : {"ok"}, count : Nat]]
  /\ logged \subseteq Sessions
  /\ late \subseteq Sessions
  /\ removed \in [Requests -> SUBSET Sessions]

Init ==
  /\ wipe_logs = [s \in Sessions |-> "absent"]
  /\ wipe_reports = {}
  /\ audit_trail = [n \in Names |-> {}]
  /\ device_history = [d \in Devices |-> 0]
  /\ thread = [s \in Sessions |-> "new"]
  /\ loop = Free
  /\ ids = [q \in Requests |-> {}]
  /\ audited = [q \in Requests |-> {}]
  /\ answer = [q \in Requests |-> [state |-> "none", count |-> 0]]
  /\ logged = {}
  /\ late = {}
  /\ removed = [q \in Requests |-> {}]

Goto(s, to)   == thread' = [thread EXCEPT ![s] = to]
Present(s)    == wipe_logs[s] # "absent"
Reply(q, st, n) == answer' = [answer EXCEPT ![q] = [state |-> st, count |-> n]]

-----------------------------------------------------------------------------
(* Plausible bugs, each a variant of the definition whose name it extends.  *)

\* INSERT OR REPLACE in place of UPDATE.
update_wipe_log_upsert(s, st) == wipe_logs' = [wipe_logs EXCEPT ![s] = st]

\* The reports stay behind.
delete_reportless(N) ==
  /\ UNCHANGED wipe_reports
  /\ audit_trail' = [n \in Names |-> IF n \in N THEN {} ELSE audit_trail[n]]
  /\ wipe_logs' = [s \in Sessions |-> IF s \in N THEN "absent" ELSE wipe_logs[s]]

\* The number asked for is taken for the number deleted.
rowcount_asked(N) == Cardinality(N)

\* The rowcount is that of a cursor that has executed no DELETE.
rowcount_unset(N) == 0 - 1

-----------------------------------------------------------------------------
(* LoggingDatabase, one transaction each.                                   *)

\* The row and, in the same transaction, which the INSERT has locked, the history
\* of its device.  Nothing else writes the history.
add_wipe_log(s) ==
  /\ wipe_logs' = [wipe_logs EXCEPT ![s] = "open"]
  /\ device_history' = [device_history EXCEPT ![Device[s]] = @ + 1]

\* UPDATE ... WHERE session_id = ?; that no row is there is not noticed.
update_wipe_log(s, st) ==
  wipe_logs' = [wipe_logs EXCEPT ![s] = IF Present(s) THEN st ELSE @]

add_audit_event(n, e) == audit_trail' = [audit_trail EXCEPT ![n] = @ \cup {e}]
add_wipe_report(s)    == wipe_reports' = wipe_reports \cup {s}

\* delete_wipe_log and delete_multiple_wipe_logs.
rowcount(N) == Cardinality({s \in Sessions \cap N : Present(s)})
delete_wipe_logs(N) ==
  /\ wipe_reports' = wipe_reports \ N
  /\ audit_trail' = [n \in Names |-> IF n \in N THEN {} ELSE audit_trail[n]]
  /\ wipe_logs' = [s \in Sessions |-> IF s \in N THEN "absent" ELSE wipe_logs[s]]

-----------------------------------------------------------------------------
(* Starts and cancellations.  Whatever raises is caught by the caller.      *)

\* log_wipe_started, called before the wipe is queued.
LogStart(s) ==
  /\ loop = Free /\ thread[s] = "new"
  /\ \/ /\ add_wipe_log(s)
        /\ logged' = logged \cup {s}
        /\ loop' = [at |-> "start", s |-> s]
        /\ UNCHANGED thread
     \/ /\ Goto(s, "work")
        /\ UNCHANGED <<wipe_logs, device_history, logged, loop>>
  /\ UNCHANGED <<wipe_reports, audit_trail, client, late, removed>>

AuditStart(s) ==
  /\ loop = [at |-> "start", s |-> s]
  /\ add_audit_event(s, "wipe") \/ UNCHANGED audit_trail
  /\ Goto(s, "work") /\ loop' = Free
  /\ UNCHANGED <<wipe_logs, wipe_reports, device_history, client, logged, late, removed>>

\* log_wipe_cancelled, of a session that is RUNNING.
LogCancel(s) ==
  /\ loop = Free /\ thread[s] \in Running
  /\ update_wipe_log(s, "ended")
  /\ loop' = [at |-> "cancel", s |-> s]
  /\ UNCHANGED <<wipe_reports, audit_trail, device_history, thread, client, logged, late, removed>>

AuditCancel(s) ==
  /\ loop = [at |-> "cancel", s |-> s]
  /\ add_audit_event(s, "wipe") \/ UNCHANGED audit_trail
  /\ loop' = Free
  /\ UNCHANGED <<wipe_logs, wipe_reports, device_history, thread, client, logged, late, removed>>

-----------------------------------------------------------------------------
(* The threads of the wipes.                                                *)

\* log_wipe_progress, at every tenth percent.
LogProgress(s) ==
  /\ thread[s] = "work"
  /\ update_wipe_log(s, "open")
  /\ UNCHANGED <<wipe_reports, audit_trail, device_history, thread, loop, client, logged, late, removed>>

\* The wipe is over.  If it raised, no report is stored.
StoreReport(s) ==
  /\ thread[s] = "work"
  /\ add_wipe_report(s) \/ UNCHANGED wipe_reports
  /\ Goto(s, "end")
  /\ UNCHANGED <<wipe_logs, audit_trail, device_history, loop, client, logged, late, removed>>

\* log_wipe_completed: the row, and then the event, unless the row raised.
LogEnd(s) ==
  /\ thread[s] = "end"
  /\ \/ update_wipe_log(s, "ended") /\ Goto(s, "said")
     \/ Goto(s, "done") /\ UNCHANGED wipe_logs
  /\ UNCHANGED <<wipe_reports, audit_trail, device_history, loop, client, logged, late, removed>>

AuditEnd(s) ==
  /\ thread[s] = "said"
  /\ add_audit_event(s, "wipe") \/ UNCHANGED audit_trail
  /\ Goto(s, "done")
  /\ UNCHANGED <<wipe_logs, wipe_reports, device_history, loop, client, logged, late, removed>>

-----------------------------------------------------------------------------
(* Deletions: DELETE /api/logs/{session_id} names one log, DELETE /api/logs *)
(* a list, of ids that logs or sessions have shown.  DELETE                 *)
(* /api/logs/cleanup is matched by the first of the two, which is           *)
(* registered before it, and names a log that does not exist.               *)

Delete(q) ==
  /\ loop = Free /\ answer[q].state = "none"
  /\ \E N \in SUBSET ({s \in Sessions : thread[s] # "new"} \cup Others) \ {{}} : ids' = [ids EXCEPT ![q] = N]
  /\ loop' = [at |-> "delete", q |-> q]
  /\ Reply(q, "busy", 0)
  /\ UNCHANGED <<tables, thread, audited, logged, late, removed>>

\* "Add audit event before deletion", one transaction per name: all of them, or
\* those before one that raises.  The threads do not look at these events.
AuditDelete(q) ==
  /\ loop = [at |-> "delete", q |-> q] /\ audited[q] = {}
  /\ \E N \in SUBSET ids[q] \ {{}} :
       /\ audited' = [audited EXCEPT ![q] = N]
       /\ audit_trail' = [n \in Names |-> audit_trail[n] \cup IF n \in N THEN {"log_deleted"} ELSE {}]
  /\ UNCHANGED <<wipe_logs, wipe_reports, device_history, thread, loop, ids, answer, logged, late, removed>>

\* The deletion itself, one transaction; the client knows nothing of it yet.
DeleteRows(q) ==
  /\ loop = [at |-> "delete", q |-> q] /\ audited[q] = ids[q]
  /\ delete_wipe_logs(ids[q])
  /\ loop' = [at |-> "reply", q |-> q, count |-> rowcount(ids[q])]
  /\ late' = late \cup {s \in ids[q] \cap Sessions : Present(s) /\ thread[s] \in Running}
  /\ removed' = [removed EXCEPT ![q] = {s \in Sessions \cap ids[q] : Present(s)}]
  /\ UNCHANGED <<device_history, thread, client, logged>>

\* deleted_count reaches the client.
Deleted(q) ==
  /\ loop.at = "reply" /\ loop.q = q
  /\ Reply(q, "ok", loop.count)
  /\ loop' = Free
  /\ UNCHANGED <<tables, thread, ids, audited, logged, late, removed>>

\* One of its transactions raises; the answer is 500.
DeleteRaises(q) ==
  /\ loop = [at |-> "delete", q |-> q]
  /\ Reply(q, "raised", 0)
  /\ loop' = Free
  /\ UNCHANGED <<tables, thread, ids, audited, logged, late, removed>>

\* The server is killed and started again, with the tables as they are: a
\* deletion may have been committed that nobody is told of.
Kill ==
  /\ thread' = [s \in Sessions |->
       IF thread[s] \in Running \/ loop = [at |-> "start", s |-> s] THEN "done" ELSE thread[s]]
  /\ answer' = [q \in Requests |->
       IF answer[q].state = "busy" THEN [state |-> "raised", count |-> 0] ELSE answer[q]]
  /\ loop' = Free
  /\ UNCHANGED <<tables, ids, audited, logged, late, removed>>

Next ==
  \/ \E s \in Sessions :
       \/ LogStart(s) \/ AuditStart(s) \/ LogCancel(s) \/ AuditCancel(s)
       \/ LogProgress(s) \/ StoreReport(s) \/ LogEnd(s) \/ AuditEnd(s)
  \/ \E q \in Requests : Delete(q) \/ AuditDelete(q) \/ DeleteRows(q) \/ Deleted(q) \/ DeleteRaises(q)
  \/ Kill

Spec == Init /\ [][Next]_vars

-----------------------------------------------------------------------------
(* Properties.                                                             *)

(* What deleting a log leaves behind.  Of a wipe that had ended, nothing:   *)
(* no report and no event.  Of one that still ran, what its thread writes   *)
(* later, which nothing ever deletes again.  And no trace of the deletion:  *)
(* the event log_deleted that announces it goes with the log, and remains   *)
(* only if the deletion failed or the server was killed                     *)
(* (service.py:467-475, database.py:643-653).                               *)
Leftovers ==
  /\ \A s \in logged \ late :
       ~Present(s) => s \notin wipe_reports /\ audit_trail[s] \subseteq {"log_deleted"}
  /\ \A n \in Names : "log_deleted" \in audit_trail[n] =>
       \E q \in Requests : n \in audited[q] /\ answer[q].state \in {"busy", "raised"}

\* What the deletions have counted, by their answers.
Total(a) == FoldFunction(LAMBDA r, n : r.count + n, 0, a)

\* What deletions have removed and not said: the server has not come to the
\* reply yet, or was killed before it.
Unsaid == UNION {removed[q] : q \in {q \in Requests : answer[q].state # "ok"}}

(* deleted_count tells the truth, although several deletions name the same  *)
(* log, some raise and some are killed: over all that were answered it adds *)
(* up to the logs that are gone, but for those a deletion has removed whose *)
(* reply never left (database.py:678-682, server.py:885-891).               *)
Counted == Total(answer) = Cardinality({s \in logged : ~Present(s)} \ Unsaid)

(* A deleted log does not come back, although the wipe that runs on goes on *)
(* reporting its progress, its end and its cancellation.                    *)
StaysDeleted ==
  [][\A s \in logged : ~Present(s) => wipe_logs'[s] = "absent"]_vars
=============================================================================
