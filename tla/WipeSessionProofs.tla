-------------------------- MODULE WipeSessionProofs --------------------------
(***************************************************************************)
(* Theorems about WipeSession for any number of sessions, devices, blocks, *)
(* passes, pool threads and restarts.                                      *)
(***************************************************************************)
EXTENDS WipeSession, TLAPS

-----------------------------------------------------------------------------
(* Facts about the helpers, cited wherever an action calls them.           *)

\* While the event loop executes a call, api is that call.
LEMMA CallType ==
  ASSUME TypeOK, api.op # "idle"
  PROVE  api \in Calls
BY DEF TypeOK, Idle

\* An update of a row keeps the type of the rows.
LEMMA UpdateRowType ==
  ASSUME TypeOK, NEW s \in Sessions, NEW st \in Statuses, UpdateRow(s, st)
  PROVE  row' \in [Sessions -> Statuses \cup {"none"}]
BY DEF TypeOK, UpdateRow

\* So does a logged outcome, and it keeps the type of the audit trail.
LEMMA LogOutcomeType ==
  ASSUME TypeOK, NEW s \in Sessions, NEW st \in Statuses, NEW event \in Events,
         LogOutcome(s, st, event)
  PROVE  /\ row' \in [Sessions -> Statuses \cup {"none"}]
         /\ audit' \in [Sessions -> SUBSET Events]
<1> PICK out \in DbOutcomes(s) :
      /\ IF out = "raised" THEN UNCHANGED row ELSE UpdateRow(s, st)
      /\ audit' = IF out = "all" THEN [audit EXCEPT ![s] = @ \cup {event}] ELSE audit
  BY DEF LogOutcome
<1>1. row' \in [Sessions -> Statuses \cup {"none"}]
  BY UpdateRowType DEF TypeOK
<1>2. audit' \in [Sessions -> SUBSET Events]
  BY DEF TypeOK
<1> QED
  BY <1>1, <1>2

-----------------------------------------------------------------------------

(* The type of the log row depends on a fact about control: a worker inside *)
(* the engine belongs to a session that is running or was cancelled, so a   *)
(* progress callback can read no other status.                              *)

Live == {"running", "cancelled"}

ControlOK ==
  \A s \in Sessions :
    /\ worker[s] \in {"begun", "setup"} \cup Writing => status[s] \in Live
    /\ worker[s] = "logging" => snap[s] \in Live

\* The types are preserved by every step.
LEMMA TypeStep == TypeOK /\ ControlOK /\ [Next]_vars => TypeOK'
<1> SUFFICES ASSUME TypeOK, ControlOK, [Next]_vars PROVE TypeOK'
  OBVIOUS
<1> USE WipeAssumption DEF TypeOK, engine, db, world
<1>1. ASSUME NEW s \in Sessions, StartInsert(s) PROVE TypeOK'
  BY <1>1 DEF StartInsert, Calls, Statuses
<1>2. CASE StartLog
  <2>1. api \in Calls
    BY <1>2, CallType DEF StartLog
  <2>2. PICK out \in DbOutcomes(api.sid) :
          /\ row' = IF out = "raised" THEN row ELSE [row EXCEPT ![api.sid] = "pending"]
          /\ audit' = IF out = "all"
                         THEN [audit EXCEPT ![api.sid] = @ \cup {"wipe_started"}] ELSE audit
    BY <1>2 DEF StartLog
  <2>3. row' \in [Sessions -> Statuses \cup {"none"}]
    BY <2>1, <2>2 DEF Calls, Statuses
  <2>4. audit' \in [Sessions -> SUBSET Events]
    BY <2>1, <2>2 DEF Calls, Events
  <2>5. api' \in Calls
    BY <1>2, <2>1 DEF StartLog, Calls
  <2> QED
    BY <1>2, <2>3, <2>4, <2>5 DEF StartLog
<1>3. CASE StartSubmit
  <2>1. api \in Calls
    BY <1>3, CallType DEF StartSubmit
  <2> QED
    BY <1>3, <2>1 DEF StartSubmit, Calls, Phases
<1>4. ASSUME NEW s \in Sessions, CancelTest(s) PROVE TypeOK'
  BY <1>4 DEF CancelTest, Calls
<1>5. CASE CancelSet
  <2>1. api \in Calls
    BY <1>5, CallType DEF CancelSet
  <2>2. /\ status' \in [Sessions -> Statuses \cup {"absent", "lost"}]
        /\ accepted' \in [Sessions -> Phases \cup {"no"}]
    BY <1>5, <2>1 DEF CancelSet, Calls, Statuses
  <2>3. api' \in Calls
    BY <1>5, <2>1 DEF CancelSet, Calls
  <2> QED
    BY <1>5, <2>2, <2>3 DEF CancelSet
<1>6. CASE CancelLog
  <2>1. api \in Calls
    BY <1>6, CallType DEF CancelLog
  <2>2. LogOutcome(api.sid, "cancelled", "wipe_cancelled") /\ api.sid \in Sessions
    BY <1>6, <2>1 DEF CancelLog, Calls
  <2>3. /\ row' \in [Sessions -> Statuses \cup {"none"}]
        /\ audit' \in [Sessions -> SUBSET Events]
    BY <2>2, LogOutcomeType DEF Statuses, Events
  <2> QED
    BY <1>6, <2>3 DEF CancelLog
<1>7. CASE Begin
  BY <1>7 DEF Begin, Statuses, Phases
<1>8. ASSUME NEW s \in Sessions, WorkerStep(s) PROVE TypeOK'
  <2>1. CASE NotifyBegun(s) \/ NotifyDone(s) \/ NotifyProgress(s)
    <3>1. PICK from \in Phases, to \in Phases : Notify(s, from, to)
      BY <2>1 DEF NotifyBegun, NotifyDone, NotifyProgress, Phases, Writing
    <3> QED
      BY <3>1 DEF Notify
  <2>2. CASE SetupRaises(s)
    BY <2>2 DEF SetupRaises, Phases
  <2>3. CASE SetupDone(s)
    BY <2>3 DEF SetupDone, Phases, Writing
  <2>4. CASE WriteBlock(s)
    <3>1. dirty' \in [Devices -> SUBSET BlockSet]
      BY <2>4 DEF WriteBlock
    <3>2. pos' \in [Sessions -> 0..Blocks]
      BY <2>4 DEF WriteBlock
    <3>3. /\ snap' \in [Sessions -> Statuses \cup {"absent", "lost"}]
          /\ worker' \in [Sessions -> Phases]
      BY <2>4 DEF WriteBlock, Phases, Writing
    <3> QED
      BY <2>4, <3>1, <3>2, <3>3 DEF WriteBlock
  <2>5. CASE WriteFails(s)
    BY <2>5 DEF WriteFails, Phases
  <2>6. CASE LogProgress(s)
    <3>1. worker' \in [Sessions -> Phases]
      BY <2>6 DEF LogProgress, Phases, Writing
    <3>2. row' \in [Sessions -> Statuses \cup {"none"}]
      BY <2>6, UpdateRowType DEF LogProgress, ControlOK, Live, Statuses
    <3> QED
      BY <2>6, <3>1, <3>2 DEF LogProgress
  <2>7. CASE NextPass(s)
    <3>1. pass[s] \in Nat /\ pass[s] >= 1 /\ pass[s] < Passes
      BY <2>7 DEF NextPass
    <3>2. pass[s] + 1 \in 1..Passes
      BY <3>1
    <3> QED
      BY <2>7, <3>2 DEF NextPass
  <2>8. CASE EngineReturns(s)
    BY <2>8 DEF EngineReturns, Phases
  <2>9. CASE AfterEngine(s)
    BY <2>9 DEF AfterEngine, Phases
  <2>10. CASE Certify(s)
    BY <2>10 DEF Certify, Phases
  <2>11. CASE StoreReport(s)
    <3>1. report' \in [Sessions -> {"none", "ok", "err"}]
      BY <2>11 DEF StoreReport
    <3> QED
      BY <2>11, <3>1 DEF StoreReport, Phases
  <2>12. CASE LogCompleted(s)
    <3>1. /\ row' \in [Sessions -> Statuses \cup {"none"}]
          /\ audit' \in [Sessions -> SUBSET Events]
      BY <2>12, LogOutcomeType DEF LogCompleted, Statuses, Events
    <3> QED
      BY <2>12, <3>1 DEF LogCompleted, Phases
  <2>13. CASE Settle(s)
    BY <2>13 DEF Settle, Phases, Statuses
  <2>14. CASE ExceptSettle(s)
    BY <2>14 DEF ExceptSettle, Phases, Statuses
  <2>15. CASE ExceptLog(s)
    <3>1. /\ row' \in [Sessions -> Statuses \cup {"none"}]
          /\ audit' \in [Sessions -> SUBSET Events]
      BY <2>15, LogOutcomeType DEF ExceptLog, Statuses, Events
    <3> QED
      BY <2>15, <3>1 DEF ExceptLog, Phases
  <2> QED
    BY <1>8, <2>1, <2>2, <2>3, <2>4, <2>5, <2>6, <2>7, <2>8, <2>9, <2>10, <2>11, <2>12,
       <2>13, <2>14, <2>15 DEF WorkerStep
<1>9. ASSUME NEW d \in Devices, Mount(d) \/ Unmount(d) PROVE TypeOK'
  BY <1>9 DEF Mount, Unmount
<1>10. ASSUME NEW d \in Devices, NEW b \in BlockSet, HostWrite(d, b) PROVE TypeOK'
  BY <1>10 DEF HostWrite
<1>11. CASE Restart
  BY <1>11 DEF Restart, Phases, Idle
<1>12. CASE UNCHANGED vars
  BY <1>12 DEF vars
<1> QED
  BY <1>1, <1>2, <1>3, <1>4, <1>5, <1>6, <1>7, <1>8, <1>9, <1>10, <1>11, <1>12
     DEF Next, ApiStep

\* So is the fact about control.
LEMMA ControlStep == TypeOK /\ ControlOK /\ [Next]_vars => ControlOK'
<1> SUFFICES ASSUME TypeOK, ControlOK, [Next]_vars, NEW t \in Sessions
             PROVE  /\ worker'[t] \in {"begun", "setup"} \cup Writing => status'[t] \in Live
                    /\ worker'[t] = "logging" => snap'[t] \in Live
  BY DEF ControlOK
<1> USE DEF TypeOK, ControlOK, Live, Writing, engine, db, world
<1>1. ASSUME NEW s \in Sessions, StartInsert(s) \/ CancelTest(s) PROVE ControlOK'
  BY <1>1 DEF StartInsert, CancelTest
<1>2. CASE StartLog \/ StartSubmit \/ CancelSet \/ CancelLog
  <2>1. CASE StartLog
    BY <2>1 DEF StartLog
  <2>2. CASE StartSubmit
    <3>1. api \in Calls
      BY <2>2, CallType DEF StartSubmit
    <3> QED
      BY <2>2, <3>1 DEF StartSubmit, Calls
  <2>3. CASE CancelSet
    <3>1. api \in Calls
      BY <2>3, CallType DEF CancelSet
    <3> QED
      BY <2>3, <3>1 DEF CancelSet, Calls
  <2>4. CASE CancelLog
    BY <2>4 DEF CancelLog
  <2> QED
    BY <1>2, <2>1, <2>2, <2>3, <2>4
<1>3. CASE Begin
  BY <1>3 DEF Begin
<1>4. ASSUME NEW s \in Sessions, WorkerStep(s) PROVE ControlOK'
  <2>1. CASE NotifyBegun(s) \/ NotifyDone(s) \/ NotifyProgress(s)
    BY <2>1 DEF NotifyBegun, NotifyDone, NotifyProgress, Notify
  <2>2. CASE SetupRaises(s) \/ SetupDone(s)
    BY <2>2 DEF SetupRaises, SetupDone
  <2>3. CASE WriteBlock(s) \/ WriteFails(s) \/ LogProgress(s) \/ NextPass(s)
    BY <2>3 DEF WriteBlock, WriteFails, LogProgress, NextPass
  <2>4. CASE EngineReturns(s) \/ AfterEngine(s) \/ Certify(s) \/ StoreReport(s)
    BY <2>4 DEF EngineReturns, AfterEngine, Certify, StoreReport
  <2>5. CASE LogCompleted(s) \/ Settle(s) \/ ExceptSettle(s) \/ ExceptLog(s)
    BY <2>5 DEF LogCompleted, Settle, ExceptSettle, ExceptLog
  <2> QED
    BY <1>4, <2>1, <2>2, <2>3, <2>4, <2>5 DEF WorkerStep
<1>5. CASE \E d \in Devices : Mount(d) \/ Unmount(d) \/ \E b \in BlockSet : HostWrite(d, b)
  BY <1>5 DEF Mount, Unmount, HostWrite
<1>6. CASE Restart
  BY <1>6 DEF Restart
<1>7. CASE UNCHANGED vars
  BY <1>7 DEF vars
<1> QED
  BY <1>1, <1>2, <1>3, <1>4, <1>5, <1>6, <1>7 DEF Next, ApiStep

(* Every variable keeps its type: no step of a worker, of an API call or of *)
(* the environment leaves the state space the code can be in.               *)
THEOREM TypeCorrect == Spec => [](TypeOK /\ ControlOK)
<1>1. Init => TypeOK /\ ControlOK
  BY WipeAssumption DEF Init, TypeOK, ControlOK, Statuses, Phases, Writing, BlockSet
<1>2. TypeOK /\ ControlOK /\ [Next]_vars => TypeOK' /\ ControlOK'
  BY TypeStep, ControlStep
<1> QED
  BY <1>1, <1>2, PTL DEF Spec

-----------------------------------------------------------------------------
(* What the evidence of a wipe is worth.  CertifiedErased is not inductive: *)
(* it needs to know which blocks the engine has behind it, that nobody      *)
(* mounts the device under it, and which outcome each later phase carries.  *)

\* The blocks that the worker of s has overwritten are clean.
Behind(s) ==
  /\ dev[s] \notin mounted
  /\ \A b \in BlockSet : pass[s] > 1 \/ b <= pos[s] => b \notin dirty[dev[s]]

EvidenceInv ==
  \A s \in Sessions :
    /\ worker[s] \in Writing => Behind(s)
    /\ result[s] = "ok" => erased[s]
    /\ worker[s] = "certify" => result[s] = "ok"
    /\ Evidence(s) => erased[s]

\* An API call changes no engine, and creates no evidence.
LEMMA EvidenceApi ==
  ASSUME TypeOK, EvidenceInv,
         (\E s \in Sessions : StartInsert(s) \/ CancelTest(s)) \/ ApiStep
  PROVE  EvidenceInv'
<1> SUFFICES ASSUME NEW t \in Sessions
             PROVE  /\ worker'[t] \in Writing => Behind(t)'
                    /\ result'[t] = "ok" => erased'[t]
                    /\ worker'[t] = "certify" => result'[t] = "ok"
                    /\ Evidence(t)' => erased'[t]
  BY DEF EvidenceInv
<1> USE DEF TypeOK, EvidenceInv, Evidence, Behind, Writing, engine, db, world
<1>1. ASSUME NEW s \in Sessions, StartInsert(s) \/ CancelTest(s) PROVE EvidenceInv'
  BY <1>1 DEF StartInsert, CancelTest
<1>2. CASE StartLog
  BY <1>2 DEF StartLog
<1>3. CASE StartSubmit
  BY <1>3 DEF StartSubmit
<1>4. CASE CancelSet
  BY <1>4 DEF CancelSet
<1>5. CASE CancelLog
  BY <1>5 DEF CancelLog, LogOutcome, UpdateRow
<1> QED
  BY <1>1, <1>2, <1>3, <1>4, <1>5 DEF ApiStep

\* A write moves the worker over one more clean block; other workers of the
\* same device only clean it further.
LEMMA EvidenceWrite ==
  ASSUME TypeOK, EvidenceInv, NEW s \in Sessions, WriteBlock(s)
  PROVE  EvidenceInv'
<1> USE WipeAssumption DEF TypeOK, BlockSet, engine, db, world
<1>1. ASSUME NEW t \in Sessions, worker'[t] \in Writing PROVE Behind(t)'
  <2>1. worker[t] \in Writing /\ Behind(t)
    BY <1>1 DEF WriteBlock, EvidenceInv, Writing
  <2>2. CASE t = s
    BY <2>1, <2>2 DEF WriteBlock, Behind
  <2>3. CASE t # s
    <3>1. pass'[t] = pass[t] /\ pos'[t] = pos[t] /\ dev' = dev /\ mounted' = mounted
      BY <2>3 DEF WriteBlock
    <3>2. dirty'[dev[t]] \subseteq dirty[dev[t]]
      BY DEF WriteBlock
    <3> QED
      BY <2>1, <3>1, <3>2 DEF Behind
  <2> QED
    BY <2>2, <2>3
<1>2. ASSUME NEW t \in Sessions
      PROVE  /\ result'[t] = "ok" => erased'[t]
             /\ worker'[t] = "certify" => result'[t] = "ok"
             /\ Evidence(t)' => erased'[t]
  BY DEF WriteBlock, EvidenceInv, Evidence
<1> QED
  BY <1>1, <1>2 DEF EvidenceInv

\* The engine returns success when the whole device is behind it.
LEMMA EvidenceReturn ==
  ASSUME TypeOK, EvidenceInv, Passes # 0, NEW s \in Sessions, EngineReturns(s)
  PROVE  EvidenceInv'
<1> USE WipeAssumption DEF TypeOK, BlockSet, engine, db, world
<1>1. dirty[dev[s]] = {}
  <2>1. Behind(s)
    BY DEF EngineReturns, EvidenceInv, Writing
  <2> QED
    BY <2>1 DEF EngineReturns, Behind
<1>2. erased' = [erased EXCEPT ![s] = TRUE]
  BY <1>1 DEF EngineReturns
<1>3. ASSUME NEW t \in Sessions
      PROVE  /\ worker'[t] \in Writing => Behind(t)'
             /\ result'[t] = "ok" => erased'[t]
             /\ worker'[t] = "certify" => result'[t] = "ok"
             /\ Evidence(t)' => erased'[t]
  BY <1>2 DEF EngineReturns, EvidenceInv, Evidence, Behind, Writing
<1> QED
  BY <1>3 DEF EvidenceInv

\* Every other step of a worker.
LEMMA EvidenceWorker ==
  ASSUME TypeOK, ControlOK, EvidenceInv, Passes # 0, NEW s \in Sessions, WorkerStep(s)
  PROVE  EvidenceInv'
<1> SUFFICES ASSUME NEW t \in Sessions
             PROVE  /\ worker'[t] \in Writing => Behind(t)'
                    /\ result'[t] = "ok" => erased'[t]
                    /\ worker'[t] = "certify" => result'[t] = "ok"
                    /\ Evidence(t)' => erased'[t]
  BY DEF EvidenceInv
<1> USE WipeAssumption DEF TypeOK, EvidenceInv, Evidence, Behind, Writing, BlockSet,
        engine, db, world
<1>1. CASE NotifyBegun(s) \/ NotifyDone(s) \/ NotifyProgress(s) \/ SetupRaises(s)
  BY <1>1 DEF NotifyBegun, NotifyDone, NotifyProgress, Notify, SetupRaises
<1>2. CASE SetupDone(s)
  BY <1>2 DEF SetupDone
<1>3. CASE WriteBlock(s)
  BY <1>3, EvidenceWrite
<1>4. CASE WriteFails(s)
  BY <1>4 DEF WriteFails
<1>5. CASE LogProgress(s)
  <2>1. row'[t] = "completed" => row[t] = "completed"
    BY <1>5 DEF LogProgress, UpdateRow, ControlOK, Live
  <2> QED
    BY <1>5, <2>1 DEF LogProgress
<1>6. CASE NextPass(s)
  BY <1>6 DEF NextPass
<1>7. CASE EngineReturns(s)
  BY <1>7, EvidenceReturn
<1>8. CASE AfterEngine(s)
  BY <1>8 DEF AfterEngine
<1>9. CASE Certify(s)
  BY <1>9 DEF Certify
<1>10. CASE StoreReport(s)
  BY <1>10 DEF StoreReport
<1>11. CASE LogCompleted(s)
  BY <1>11 DEF LogCompleted, LogOutcome, UpdateRow
<1>12. CASE Settle(s) \/ ExceptSettle(s)
  <2>1. status'[t] = "completed" => status[t] = "completed" \/ result[t] = "ok"
    BY <1>12 DEF Settle, ExceptSettle
  <2>2. UNCHANGED <<dev, row, cert, report, mounted, dirty, pass, pos, result, erased>>
    BY <1>12 DEF Settle, ExceptSettle
  <2>3. worker'[t] \in Writing \cup {"certify"} => worker'[t] = worker[t]
    BY <1>12 DEF Settle, ExceptSettle
  <2> QED
    BY <2>1, <2>2, <2>3
<1>13. CASE ExceptLog(s)
  BY <1>13 DEF ExceptLog, LogOutcome, UpdateRow
<1> QED
  BY <1>1, <1>2, <1>3, <1>4, <1>5, <1>6, <1>7, <1>8, <1>9, <1>10, <1>11, <1>12, <1>13
     DEF WorkerStep

\* The host writes to mounted devices only, and mounts none that is being wiped.
LEMMA EvidenceEnvironment ==
  ASSUME TypeOK, EvidenceInv, ~HostMayMount,
         \/ \E d \in Devices : Mount(d) \/ Unmount(d) \/ \E b \in BlockSet : HostWrite(d, b)
         \/ Restart
  PROVE  EvidenceInv'
<1> SUFFICES ASSUME NEW t \in Sessions
             PROVE  /\ worker'[t] \in Writing => Behind(t)'
                    /\ result'[t] = "ok" => erased'[t]
                    /\ worker'[t] = "certify" => result'[t] = "ok"
                    /\ Evidence(t)' => erased'[t]
  BY DEF EvidenceInv
<1> USE DEF TypeOK, EvidenceInv, Evidence, Behind, engine, db, world
<1>1. ASSUME NEW d \in Devices, Mount(d) PROVE EvidenceInv'
  BY <1>1 DEF Mount, Wiping
<1>2. ASSUME NEW d \in Devices, Unmount(d) PROVE EvidenceInv'
  BY <1>2 DEF Unmount
<1>3. ASSUME NEW d \in Devices, NEW b \in BlockSet, HostWrite(d, b) PROVE EvidenceInv'
  BY <1>3 DEF HostWrite
<1>4. CASE Restart
  BY <1>4 DEF Restart, Writing
<1> QED
  BY <1>1, <1>2, <1>3, <1>4

(* If the algorithm has a pass and nobody mounts a device under a wipe,     *)
(* every certificate, successful report, completed log row and COMPLETED session belongs to a wipe that   *)
(* left no old data on its device, for any number of sessions and passes    *)
(* and across restarts of the server.                                       *)
THEOREM EvidenceSound ==
  ASSUME Passes # 0, ~HostMayMount
  PROVE  Spec => []CertifiedErased
<1> DEFINE IInv == TypeOK /\ ControlOK /\ EvidenceInv
<1>1. Init => IInv
  BY WipeAssumption DEF Init, TypeOK, ControlOK, EvidenceInv, Evidence, Statuses, Phases,
     Writing, BlockSet
<1>2. IInv /\ [Next]_vars => IInv'
  <2> SUFFICES ASSUME TypeOK, ControlOK, EvidenceInv, [Next]_vars
               PROVE  EvidenceInv'
    BY TypeStep, ControlStep
  <2>1. CASE UNCHANGED vars
    BY <2>1 DEF vars, EvidenceInv, Evidence, Behind
  <2>2. CASE Begin
    BY <2>2 DEF Begin, TypeOK, EvidenceInv, Evidence, Behind, Writing, engine, db, world
  <2> QED
    BY <2>1, <2>2, EvidenceApi, EvidenceWorker, EvidenceEnvironment DEF Next
<1>3. IInv => CertifiedErased
  BY DEF EvidenceInv, CertifiedErased
<1> QED
  BY <1>1, <1>2, <1>3, PTL DEF Spec

-----------------------------------------------------------------------------
(* What an accepted cancellation guarantees.  The strengthening follows a   *)
(* session from its creation: it is submitted once, queued once, and there  *)
(* is no evidence of it before its worker has passed the one test of the    *)
(* cancellation.                                                            *)

Fresh(s) == ~Evidence(s) /\ report[s] = "none" /\ "wipe_completed" \notin audit[s]

\* The phases of a worker before that test.
Before == {"queued", "begun", "setup", "returned", "certify"} \cup Writing

CancelInv ==
  \A s \in Sessions :
    /\ status[s] = "absent" => worker[s] = "idle" /\ Fresh(s)
    /\ status[s] = "pending" => worker[s] \in {"idle", "queued"} /\ Fresh(s)
    /\ status[s] = "lost" => worker[s] = "idle"
    /\ worker[s] \in Before => Fresh(s)
    /\ accepted[s] \in Writing =>
         /\ Fresh(s)
         /\ status[s] \in {"cancelled", "lost"}
         /\ worker[s] \in Writing \cup {"returned", "notify", "done", "idle"}

QueueInv ==
  /\ api.op = "start" => status[api.sid] = "pending" /\ worker[api.sid] = "idle"
  /\ \A i \in 1..Len(queue) :
       /\ worker[queue[i]] = "queued"
       /\ \A j \in 1..Len(queue) : queue[i] = queue[j] => i = j

\* A session waits in the queue once, and its worker waits with it.
LEMMA QueueStep ==
  ASSUME TypeOK, ControlOK, CancelInv, QueueInv, [Next]_vars
  PROVE  QueueInv'
<1> USE DEF TypeOK, QueueInv, engine, db, world
<1>1. ASSUME NEW s \in Sessions, StartInsert(s) PROVE QueueInv'
  <2>1. api'.sid = s /\ status'[s] = "pending" /\ worker'[s] = "idle"
    BY <1>1 DEF StartInsert, CancelInv
  <2>2. UNCHANGED <<worker, queue>>
    BY <1>1 DEF StartInsert
  <2> QED
    BY <2>1, <2>2
<1>2. ASSUME NEW s \in Sessions, CancelTest(s) PROVE QueueInv'
  BY <1>2 DEF CancelTest
<1>3. CASE StartLog
  <2>1. api \in Calls
    BY <1>3, CallType DEF StartLog
  <2>2. api'.sid = api.sid /\ api'.op = "start"
    BY <1>3, <2>1 DEF StartLog, Calls
  <2> QED
    BY <1>3, <2>2 DEF StartLog
<1>4. CASE StartSubmit
  <2>1. api \in Calls
    BY <1>4, CallType DEF StartSubmit
  <2>2. api.sid \in Sessions /\ api'.op # "start" /\ worker[api.sid] = "idle"
    BY <1>4, <2>1 DEF StartSubmit, Calls, Idle
  <2>3. /\ Len(queue') = Len(queue) + 1
        /\ \A i \in 1..Len(queue) : queue'[i] = queue[i] /\ queue[i] \in Sessions
        /\ queue'[Len(queue) + 1] = api.sid
    BY <1>4, <2>2 DEF StartSubmit
  <2>4. \A i \in 1..Len(queue) : queue[i] # api.sid
    BY <2>2
  <2>5. worker' = [worker EXCEPT ![api.sid] = "queued"]
    BY <1>4 DEF StartSubmit
  <2>6. ASSUME NEW i \in 1..Len(queue') PROVE worker'[queue'[i]] = "queued"
    <3>1. CASE i \in 1..Len(queue)
      <4>1. queue'[i] = queue[i] /\ queue[i] \in Sessions /\ worker[queue[i]] = "queued"
        BY <2>3, <3>1
      <4> QED
        BY <2>5, <4>1
    <3>2. CASE i = Len(queue) + 1
      BY <2>2, <2>3, <2>5, <3>2
    <3>3. Len(queue) \in Nat /\ Len(queue') = Len(queue) + 1
      BY <2>3
    <3>4. i \in 1..Len(queue) \/ i = Len(queue) + 1
      BY <3>3
    <3> QED
      BY <3>1, <3>2, <3>4
  <2>7. ASSUME NEW i \in 1..Len(queue'), NEW j \in 1..Len(queue'), queue'[i] = queue'[j]
        PROVE  i = j
    <3>1. /\ i \in 1..Len(queue) \/ i = Len(queue) + 1
          /\ j \in 1..Len(queue) \/ j = Len(queue) + 1
      BY <2>3
    <3> QED
      BY <2>3, <2>4, <2>7, <3>1
  <2> QED
    BY <2>2, <2>6, <2>7
<1>5. CASE CancelSet
  BY <1>5 DEF CancelSet
<1>6. CASE CancelLog
  BY <1>6 DEF CancelLog, Idle
<1>7. CASE Begin
  <2>1. /\ Len(queue) > 0 /\ Head(queue) = queue[1] /\ queue[1] \in Sessions
        /\ Len(queue') = Len(queue) - 1
        /\ \A i \in 1..Len(queue') : queue'[i] = queue[i + 1]
    BY <1>7 DEF Begin
  <2>2. ASSUME NEW i \in 1..Len(queue')
        PROVE  queue'[i] # queue[1] /\ queue'[i] \in Sessions /\ worker[queue'[i]] = "queued"
    <3>1. i + 1 \in 1..Len(queue) /\ 1 \in 1..Len(queue) /\ i + 1 # 1
      BY <2>1
    <3>2. queue'[i] = queue[i + 1] /\ queue[i + 1] \in Sessions
      BY <2>1, <3>1
    <3> QED
      BY <3>1, <3>2
  <2>3. /\ worker' = [worker EXCEPT ![queue[1]] = "begun"]
        /\ status' = [status EXCEPT ![queue[1]] = "running"]
        /\ api' = api
    BY <1>7, <2>1 DEF Begin
  <2>4. api.op = "start" => api.sid # queue[1] /\ api.sid \in Sessions
    BY <2>1, CallType DEF Calls
  <2>5. api'.op = "start" => status'[api'.sid] = "pending" /\ worker'[api'.sid] = "idle"
    BY <2>1, <2>3, <2>4
  <2>6. ASSUME NEW i \in 1..Len(queue') PROVE worker'[queue'[i]] = "queued"
    BY <2>1, <2>2, <2>3
  <2>7. ASSUME NEW i \in 1..Len(queue'), NEW j \in 1..Len(queue'), queue'[i] = queue'[j]
        PROVE  i = j
    <3>1. Len(queue) \in Nat /\ Len(queue') = Len(queue) - 1
      BY <2>1
    <3>2. i + 1 \in 1..Len(queue) /\ j + 1 \in 1..Len(queue)
      BY <3>1
    <3>3. queue[i + 1] = queue[j + 1]
      BY <2>1, <2>7
    <3>4. i + 1 = j + 1
      BY <3>2, <3>3
    <3> QED
      BY <3>1, <3>4
  <2> QED
    BY <2>5, <2>6, <2>7
<1>8. ASSUME NEW s \in Sessions, WorkerStep(s) PROVE QueueInv'
  <2>1. /\ worker[s] \notin {"idle", "queued"}
        /\ UNCHANGED <<api, queue>>
        /\ \A t \in Sessions : t # s => worker'[t] = worker[t] /\ status'[t] = status[t]
    BY <1>8 DEF WorkerStep, NotifyBegun, NotifyDone, NotifyProgress, Notify, SetupRaises,
       SetupDone, WriteBlock, WriteFails, LogProgress, NextPass, EngineReturns, AfterEngine,
       Certify, StoreReport, LogCompleted, Settle, ExceptSettle, ExceptLog
  <2>2. \A i \in 1..Len(queue) : queue[i] \in Sessions /\ queue[i] # s
    BY <2>1
  <2>3. api.op = "start" => api.sid \in Sessions /\ api.sid # s
    BY <2>1, CallType DEF Calls
  <2> QED
    BY <2>1, <2>2, <2>3
<1>9. CASE \E d \in Devices : Mount(d) \/ Unmount(d) \/ \E b \in BlockSet : HostWrite(d, b)
  BY <1>9 DEF Mount, Unmount, HostWrite
<1>10. CASE Restart
  BY <1>10 DEF Restart, Idle
<1>11. CASE UNCHANGED vars
  BY <1>11 DEF vars
<1> QED
  BY <1>1, <1>2, <1>3, <1>4, <1>5, <1>6, <1>7, <1>8, <1>9, <1>10, <1>11 DEF Next, ApiStep

\* The strengthening is preserved.
LEMMA CancelStep ==
  ASSUME TypeOK, ControlOK, CancelInv, QueueInv, [Next]_vars
  PROVE  CancelInv'
<1> USE DEF TypeOK, CancelInv, Fresh, Evidence, Before, Writing, engine, db, world
<1>1. ASSUME NEW s \in Sessions, StartInsert(s) PROVE CancelInv'
  BY <1>1 DEF StartInsert
<1>2. ASSUME NEW s \in Sessions, CancelTest(s) PROVE CancelInv'
  BY <1>2 DEF CancelTest
<1>3. CASE StartLog
  <2>1. api \in Calls
    BY <1>3, CallType DEF StartLog
  <2>2. \A t \in Sessions :
          /\ row'[t] = "completed" => row[t] = "completed"
          /\ "wipe_completed" \in audit'[t] => "wipe_completed" \in audit[t]
    BY <1>3, <2>1 DEF StartLog, Calls
  <2> QED
    BY <1>3, <2>2 DEF StartLog
<1>4. CASE StartSubmit
  <2>1. api \in Calls
    BY <1>4, CallType DEF StartSubmit
  <2> QED
    BY <1>4, <2>1 DEF StartSubmit, Calls, QueueInv
<1>5. CASE CancelSet
  <2>1. api \in Calls
    BY <1>5, CallType DEF CancelSet
  <2> QED
    BY <1>5, <2>1 DEF CancelSet, Calls
<1>6. CASE CancelLog
  <2>1. api \in Calls
    BY <1>6, CallType DEF CancelLog
  <2>2. \A t \in Sessions :
          /\ row'[t] = "completed" => row[t] = "completed"
          /\ "wipe_completed" \in audit'[t] => "wipe_completed" \in audit[t]
    BY <1>6, <2>1 DEF CancelLog, LogOutcome, UpdateRow, Calls
  <2> QED
    BY <1>6, <2>2 DEF CancelLog
<1>7. CASE Begin
  <2>1. Head(queue) \in Sessions /\ worker[Head(queue)] = "queued"
    BY <1>7 DEF Begin, QueueInv
  <2> QED
    BY <1>7, <2>1 DEF Begin
<1>8. ASSUME NEW s \in Sessions, WorkerStep(s) PROVE CancelInv'
  <2>1. CASE NotifyBegun(s)
    BY <2>1 DEF NotifyBegun, Notify
  <2>14. CASE SetupRaises(s)
    BY <2>14 DEF SetupRaises
  <2>2. CASE SetupDone(s)
    BY <2>2 DEF SetupDone
  <2>11. CASE NotifyProgress(s)
    BY <2>11 DEF NotifyProgress, Notify
  <2>12. CASE NotifyDone(s)
    BY <2>12 DEF NotifyDone, Notify
  <2>3. CASE WriteBlock(s) \/ WriteFails(s) \/ NextPass(s) \/ EngineReturns(s)
    BY <2>3 DEF WriteBlock, WriteFails, NextPass, EngineReturns
  <2>4. CASE LogProgress(s)
    <3>1. ASSUME NEW t \in Sessions PROVE row'[t] = "completed" => row[t] = "completed"
      <4>1. snap[s] # "completed"
        BY <2>4 DEF LogProgress, ControlOK, Live
      <4> QED
        BY <2>4, <4>1 DEF LogProgress, UpdateRow
    <3> QED
      BY <2>4, <3>1 DEF LogProgress
  <2>5. CASE AfterEngine(s)
    BY <2>5 DEF AfterEngine
  <2>6. CASE Certify(s)
    BY <2>6 DEF Certify
  <2>7. CASE StoreReport(s)
    BY <2>7 DEF StoreReport
  <2>8. CASE LogCompleted(s)
    <3>1. \A t \in Sessions \ {s} : row'[t] = row[t] /\ audit'[t] = audit[t]
      BY <2>8 DEF LogCompleted, LogOutcome, UpdateRow
    <3> QED
      BY <2>8, <3>1 DEF LogCompleted
  <2>9. CASE Settle(s)
    BY <2>9 DEF Settle
  <2>13. CASE ExceptSettle(s)
    BY <2>13 DEF ExceptSettle
  <2>10. CASE ExceptLog(s)
    <3>1. \A t \in Sessions \ {s} : row'[t] = row[t] /\ audit'[t] = audit[t]
      BY <2>10 DEF ExceptLog, LogOutcome, UpdateRow
    <3> QED
      BY <2>10, <3>1 DEF ExceptLog
  <2> QED
    BY <1>8, <2>1, <2>2, <2>3, <2>4, <2>5, <2>6, <2>7, <2>8, <2>9, <2>10,
       <2>11, <2>12, <2>13, <2>14 DEF WorkerStep
<1>9. CASE \E d \in Devices : Mount(d) \/ Unmount(d) \/ \E b \in BlockSet : HostWrite(d, b)
  BY <1>9 DEF Mount, Unmount, HostWrite
<1>10. CASE Restart
  BY <1>10 DEF Restart
<1>11. CASE UNCHANGED vars
  BY <1>11 DEF vars
<1> QED
  BY <1>1, <1>2, <1>3, <1>4, <1>5, <1>6, <1>7, <1>8, <1>9, <1>10, <1>11 DEF Next, ApiStep

(* A wipe whose cancellation was accepted while the engine was writing is   *)
(* never certified, reported or logged as completed, and its session ends   *)
(* cancelled, whatever the database, other sessions and restarts do.        *)
THEOREM CancelHonoured == Spec => []CancelledWipeUncertified
<1> DEFINE IInv == TypeOK /\ ControlOK /\ CancelInv /\ QueueInv
<1>1. Init => IInv
  BY WipeAssumption DEF Init, TypeOK, ControlOK, CancelInv, QueueInv, Fresh, Evidence, Before,
     Statuses, Phases, Writing, BlockSet, Idle
<1>2. IInv /\ [Next]_vars => IInv'
  BY TypeStep, ControlStep, CancelStep, QueueStep
<1>3. IInv => CancelledWipeUncertified
  BY DEF CancelInv, CancelledWipeUncertified, Fresh, Writing
<1> QED
  BY <1>1, <1>2, <1>3, PTL DEF Spec

-----------------------------------------------------------------------------
(* What stays of a session whose worker has ended.  Workers assign the      *)
(* status without the lock, and only the last notification takes it; so     *)
(* what counts is that no cancellation is under way when a worker ends.     *)

Ended   == {"completed", "failed", "cancelled"}
NotOpen == {"idle", "queued", "done"}

SettledInv ==
  /\ \A s \in Sessions :
       /\ worker[s] \in {"logfail", "notify", "done"} => status[s] \in Ended
       /\ status[s] = "running" => worker[s] \notin NotOpen
  /\ api.op = "cancel" => worker[api.sid] \notin NotOpen

\* A worker moves its own session only, and not once it has ended.
LEMMA OwnSession ==
  ASSUME TypeOK, NEW s \in Sessions, WorkerStep(s)
  PROVE  /\ worker[s] \notin NotOpen /\ worker'[s] \notin {"idle", "queued"}
         /\ worker'[s] = "done" => worker[s] = "notify" /\ LockFree /\ status'[s] = status[s]
         /\ UNCHANGED <<dev, queue, api, accepted, mounted, restarts>>
         /\ \A t \in Sessions \ {s} :
              /\ worker'[t] = worker[t] /\ status'[t] = status[t] /\ snap'[t] = snap[t]
              /\ row'[t] = row[t] /\ audit'[t] = audit[t] /\ report'[t] = report[t]
              /\ cert'[t] = cert[t]
<1> USE DEF TypeOK, NotOpen, engine, db, world
<1>1. CASE NotifyBegun(s) \/ NotifyProgress(s) \/ NotifyDone(s)
  BY <1>1 DEF NotifyBegun, NotifyProgress, NotifyDone, Notify
<1>2. CASE SetupRaises(s) \/ SetupDone(s) \/ WriteBlock(s) \/ WriteFails(s)
  BY <1>2 DEF SetupRaises, SetupDone, WriteBlock, WriteFails
<1>3. CASE LogProgress(s)
  BY <1>3 DEF LogProgress, UpdateRow
<1>4. CASE NextPass(s) \/ EngineReturns(s) \/ AfterEngine(s)
  BY <1>4 DEF NextPass, EngineReturns, AfterEngine
<1>5. CASE Certify(s) \/ StoreReport(s)
  BY <1>5 DEF Certify, StoreReport
<1>6. CASE LogCompleted(s)
  BY <1>6 DEF LogCompleted, LogOutcome, UpdateRow
<1>7. CASE ExceptLog(s)
  BY <1>7 DEF ExceptLog, LogOutcome, UpdateRow
<1>8. CASE Settle(s) \/ ExceptSettle(s)
  BY <1>8 DEF Settle, ExceptSettle
<1> QED
  BY <1>1, <1>2, <1>3, <1>4, <1>5, <1>6, <1>7, <1>8 DEF WorkerStep

\* A worker that comes to its last phases has assigned an outcome, or found
\* the session cancelled.
LEMMA EndsSettled ==
  ASSUME TypeOK, SettledInv, NEW s \in Sessions, WorkerStep(s),
         worker'[s] \in {"logfail", "notify", "done"}
  PROVE  status'[s] \in Ended
<1> USE DEF TypeOK, SettledInv, Ended, engine, db, world
<1>1. CASE NotifyBegun(s) \/ NotifyProgress(s) \/ NotifyDone(s)
  BY <1>1 DEF NotifyBegun, NotifyProgress, NotifyDone, Notify
<1>2. CASE SetupRaises(s) \/ SetupDone(s) \/ WriteBlock(s) \/ WriteFails(s) \/ LogProgress(s)
  BY <1>2 DEF SetupRaises, SetupDone, WriteBlock, WriteFails, LogProgress
<1>3. CASE NextPass(s) \/ EngineReturns(s) \/ AfterEngine(s) \/ Certify(s) \/ StoreReport(s)
  BY <1>3 DEF NextPass, EngineReturns, AfterEngine, Certify, StoreReport
<1>4. CASE LogCompleted(s) \/ Settle(s) \/ ExceptSettle(s) \/ ExceptLog(s)
  BY <1>4 DEF LogCompleted, Settle, ExceptSettle, ExceptLog
<1> QED
  BY <1>1, <1>2, <1>3, <1>4 DEF WorkerStep

LEMMA SettledStep ==
  ASSUME TypeOK, CancelInv, QueueInv, SettledInv, [Next]_vars
  PROVE  SettledInv'
<1> USE DEF TypeOK, SettledInv, Ended, NotOpen, engine, db, world
<1>1. ASSUME NEW s \in Sessions, StartInsert(s) \/ CancelTest(s) PROVE SettledInv'
  BY <1>1 DEF StartInsert, CancelTest, CancelInv
<1>2. CASE StartSubmit \/ CancelLog
  <2>1. api \in Calls
    BY <1>2, CallType DEF StartSubmit, CancelLog
  <2> QED
    BY <1>2, <2>1 DEF StartSubmit, CancelLog, Calls, QueueInv, Idle
<1>3. CASE StartLog \/ CancelSet
  <2>1. api \in Calls
    BY <1>3, CallType DEF StartLog, CancelSet
  <2>2. /\ api'.op = api.op /\ api'.sid = api.sid /\ worker' = worker
        /\ status' \in {status, [status EXCEPT ![api.sid] = "cancelled"]}
    BY <1>3, <2>1 DEF StartLog, CancelSet, Calls
  <2> QED
    BY <2>1, <2>2 DEF Calls
<1>4. CASE Begin
  <2>1. Head(queue) \in Sessions /\ worker[Head(queue)] = "queued"
    BY <1>4 DEF Begin, QueueInv
  <2>2. api.op = "cancel" => api.sid \in Sessions
    BY CallType DEF Calls
  <2> QED
    BY <1>4, <2>1, <2>2 DEF Begin
<1>5. ASSUME NEW s \in Sessions, WorkerStep(s) PROVE SettledInv'
  <2>1. \A t \in Sessions : worker'[t] \in {"logfail", "notify", "done"} => status'[t] \in Ended
    BY <1>5, OwnSession, EndsSettled
  <2>2. \A t \in Sessions : status'[t] = "running" => worker'[t] \notin NotOpen
    <3>1. TAKE t \in Sessions
    <3>2. CASE t = s
      BY <1>5, <2>1, <3>2, OwnSession
    <3>3. CASE t # s
      BY <1>5, <3>3, OwnSession
    <3> QED
      BY <3>2, <3>3
  <2>3. api.op = "cancel" => api.sid \in Sessions
    BY CallType DEF Calls
  <2>4. api'.op = "cancel" => worker'[api'.sid] \notin NotOpen
    BY <1>5, <2>3, OwnSession DEF LockFree
  <2> QED
    BY <2>1, <2>2, <2>4
<1>6. CASE \E d \in Devices : Mount(d) \/ Unmount(d) \/ \E b \in BlockSet : HostWrite(d, b)
  BY <1>6 DEF Mount, Unmount, HostWrite
<1>7. CASE Restart
  BY <1>7 DEF Restart, Idle
<1>8. CASE UNCHANGED vars
  BY <1>8 DEF vars
<1> QED
  BY <1>1, <1>2, <1>3, <1>4, <1>5, <1>6, <1>7, <1>8 DEF Next, ApiStep

\* Nothing but a restart touches a session whose worker has ended.
LEMMA LeftAlone ==
  ASSUME TypeOK, CancelInv, QueueInv, SettledInv, [Next]_vars,
         NEW s \in Sessions, worker[s] = "done", restarts' = restarts
  PROVE  UNCHANGED <<status[s], row[s], audit[s], report[s], cert[s]>>
<1> USE DEF TypeOK, engine, db, world
<1>1. ASSUME NEW t \in Sessions, StartInsert(t) \/ CancelTest(t) PROVE UNCHANGED <<status[s], row[s], audit[s], report[s], cert[s]>>
  BY <1>1 DEF StartInsert, CancelTest, CancelInv
<1>2. CASE ApiStep
  <2>1. api \in Calls /\ api.sid # s /\ api.sid \in Sessions
    <3>1. api \in Calls
      BY <1>2, CallType DEF ApiStep, StartLog, StartSubmit, CancelSet, CancelLog
    <3> QED
      BY <3>1 DEF Calls, QueueInv, SettledInv, NotOpen
  <2>2. CASE StartLog \/ StartSubmit
    BY <2>1, <2>2 DEF StartLog, StartSubmit
  <2>3. CASE CancelSet \/ CancelLog
    BY <2>1, <2>3 DEF CancelSet, CancelLog, LogOutcome, UpdateRow
  <2> QED
    BY <1>2, <2>2, <2>3 DEF ApiStep
<1>3. CASE Begin
  <2>1. Head(queue) \in Sessions /\ worker[Head(queue)] = "queued"
    BY <1>3 DEF Begin, QueueInv
  <2> QED
    BY <1>3, <2>1 DEF Begin
<1>4. ASSUME NEW t \in Sessions, WorkerStep(t) PROVE UNCHANGED <<status[s], row[s], audit[s], report[s], cert[s]>>
  BY <1>4, OwnSession DEF NotOpen
<1>5. CASE \E d \in Devices : Mount(d) \/ Unmount(d) \/ \E b \in BlockSet : HostWrite(d, b)
  BY <1>5 DEF Mount, Unmount, HostWrite
<1>6. ~Restart
  BY DEF Restart
<1>7. CASE UNCHANGED vars
  BY <1>7 DEF vars
<1> QED
  BY <1>1, <1>2, <1>3, <1>4, <1>5, <1>6, <1>7 DEF Next

\* What the last two theorems rest on.
SessionInv == TypeOK /\ ControlOK /\ CancelInv /\ QueueInv /\ SettledInv

LEMMA SessionInit == Init => SessionInv
BY WipeAssumption DEF Init, SessionInv, TypeOK, ControlOK, CancelInv, QueueInv, SettledInv, Fresh,
   Evidence, Before, Statuses, Phases, Writing, BlockSet, Idle

LEMMA SessionStep == SessionInv /\ [Next]_vars => SessionInv'
BY TypeStep, ControlStep, CancelStep, QueueStep, SettledStep DEF SessionInv

(* Once the worker of a session has ended, its status and its records stay  *)
(* as they are until the process ends: cancel_session tests, assigns and    *)
(* logs under the lock that the worker's last notification waits for.       *)
THEOREM SettledStays == Spec => SettledIsFinal
<1>1. SessionInv /\ [Next]_vars
        => [\A s \in Sessions : worker[s] = "done" /\ restarts' = restarts =>
              UNCHANGED <<status[s], row[s], audit[s], report[s], cert[s]>>]_vars
  BY LeftAlone DEF SessionInv
<1> QED
  BY SessionInit, SessionStep, <1>1, PTL DEF Spec, SettledIsFinal

-----------------------------------------------------------------------------
(* What the log says of a cancelled wipe.                                   *)

Asked(s) == api.op = "cancel" /\ api.at = "log" /\ api.sid = s

\* While the database works for it: a session has a row before it has a
\* worker, and after an accepted cancellation the row says so, or will as soon
\* as the call has logged; a later callback has read the new status.
RowOK(s) ==
  /\ worker[s] # "idle" => row[s] # "none"
  /\ api.op = "start" /\ api.at = "submit" /\ api.sid = s => row[s] # "none"
  /\ accepted[s] \in {"write", "telling"} /\ worker[s] # "idle" =>
       /\ Asked(s) \/ row[s] = "cancelled"
       /\ worker[s] = "logging" => snap[s] = "cancelled"

LEMMA RowWorker ==
  ASSUME SessionInv, NEW s \in Sessions \ DbFailsFor, RowOK(s), WorkerStep(s)
  PROVE  RowOK(s)'
<1> USE DEF SessionInv, TypeOK, RowOK, Asked, engine, db, world
<1>1. CASE NotifyBegun(s) \/ NotifyProgress(s) \/ NotifyDone(s)
  BY <1>1 DEF NotifyBegun, NotifyProgress, NotifyDone, Notify
<1>2. CASE SetupRaises(s) \/ SetupDone(s) \/ WriteFails(s)
  BY <1>2 DEF SetupRaises, SetupDone, WriteFails
<1>3. CASE WriteBlock(s)
  BY <1>3 DEF WriteBlock, CancelInv, Writing
<1>4. CASE LogProgress(s)
  <2>1. row'[s] = row[s] \/ (row[s] # "none" /\ row'[s] = snap[s])
    BY <1>4 DEF LogProgress, UpdateRow
  <2>2. snap[s] # "none"
    BY DEF Statuses
  <2> QED
    BY <1>4, <2>1, <2>2 DEF LogProgress
<1>5. CASE NextPass(s) \/ EngineReturns(s) \/ AfterEngine(s)
  BY <1>5 DEF NextPass, EngineReturns, AfterEngine
<1>6. CASE Certify(s) \/ StoreReport(s) \/ Settle(s) \/ ExceptSettle(s)
  BY <1>6 DEF Certify, StoreReport, Settle, ExceptSettle
<1>7. CASE LogCompleted(s) \/ ExceptLog(s)
  <2>1. accepted[s] \notin {"write", "telling"}
    BY <1>7 DEF LogCompleted, ExceptLog, CancelInv, Writing
  <2>2. row'[s] = row[s] \/ row'[s] \in {"completed", "failed"}
    BY <1>7 DEF LogCompleted, ExceptLog, LogOutcome, UpdateRow
  <2>3. UNCHANGED <<accepted, api>> /\ worker[s] # "idle"
    BY <1>7 DEF LogCompleted, ExceptLog
  <2> QED
    BY <2>1, <2>2, <2>3
<1> QED
  BY <1>1, <1>2, <1>3, <1>4, <1>5, <1>6, <1>7 DEF WorkerStep

LEMMA RowStep ==
  ASSUME SessionInv, NEW s \in Sessions \ DbFailsFor, RowOK(s), [Next]_vars
  PROVE  RowOK(s)'
<1> USE DEF SessionInv, TypeOK, RowOK, Asked, engine, db, world
<1>1. ASSUME NEW t \in Sessions, StartInsert(t) \/ CancelTest(t) PROVE RowOK(s)'
  BY <1>1 DEF StartInsert, CancelTest, Idle
<1>2. CASE ApiStep
  <2>1. api \in Calls
    BY <1>2, CallType DEF ApiStep, StartLog, StartSubmit, CancelSet, CancelLog
  <2>2. CASE StartLog
    <3>1. api.sid = s => row'[s] = "pending" /\ worker[s] = "idle"
      BY <2>1, <2>2 DEF StartLog, DbOutcomes, QueueInv
    <3>2. api.sid # s => row'[s] = row[s]
      BY <2>1, <2>2 DEF StartLog, Calls
    <3>3. api' = [api EXCEPT !.at = "submit"] /\ api.op = "start"
          /\ UNCHANGED <<worker, accepted, snap>>
      BY <2>2 DEF StartLog
    <3>4. api'.op = "start" /\ api'.sid = api.sid
      BY <2>1, <3>3 DEF Calls
    <3> QED
      BY <3>1, <3>2, <3>3, <3>4
  <2>3. CASE StartSubmit
    <3>1. api.sid = s => accepted[s] \notin {"write", "telling"}
      BY <2>3 DEF StartSubmit, QueueInv, CancelInv, Writing
    <3> QED
      BY <2>1, <2>3, <3>1 DEF StartSubmit, Calls, Idle
  <2>4. CASE CancelSet
    BY <2>1, <2>4 DEF CancelSet, Calls
  <2>5. CASE CancelLog
    <3>1. api.sid = s => row'[s] = "cancelled"
      BY <2>1, <2>5 DEF CancelLog, LogOutcome, UpdateRow, DbOutcomes, SettledInv, NotOpen
    <3>2. api.sid # s => row'[s] = row[s]
      BY <2>1, <2>5 DEF CancelLog, LogOutcome, UpdateRow, Calls
    <3> QED
      BY <2>5, <3>1, <3>2 DEF CancelLog, Idle
  <2> QED
    BY <1>2, <2>2, <2>3, <2>4, <2>5 DEF ApiStep
<1>3. CASE Begin
  <2>1. Head(queue) \in Sessions /\ worker[Head(queue)] = "queued"
    BY <1>3 DEF Begin, QueueInv
  <2> QED
    BY <1>3, <2>1 DEF Begin
<1>4. ASSUME NEW t \in Sessions, WorkerStep(t) PROVE RowOK(s)'
  <2>1. CASE t = s
    BY <1>4, <2>1, RowWorker
  <2>2. CASE t # s
    <3>1. /\ worker'[s] = worker[s] /\ row'[s] = row[s] /\ snap'[s] = snap[s]
          /\ UNCHANGED <<api, accepted>>
      BY <1>4, <2>2, OwnSession
    <3> QED
      BY <3>1
  <2> QED
    BY <2>1, <2>2
<1>5. CASE \E d \in Devices : Mount(d) \/ Unmount(d) \/ \E b \in BlockSet : HostWrite(d, b)
  BY <1>5 DEF Mount, Unmount, HostWrite
<1>6. CASE Restart
  BY <1>6 DEF Restart, Idle
<1>7. CASE UNCHANGED vars
  BY <1>7 DEF vars
<1> QED
  BY <1>1, <1>2, <1>3, <1>4, <1>5, <1>6, <1>7 DEF Next

(* A cancellation accepted between two blocks, and not between a progress   *)
(* callback's reading of the status and its writing of it, is what the log  *)
(* says when the worker has ended, unless the database failed.              *)
THEOREM CancelRecorded == Spec => []CancelledRowRecorded
<1> DEFINE RInv == SessionInv /\ \A s \in Sessions \ DbFailsFor : RowOK(s)
<1>1. Init => RInv
  <2>1. Init => \A s \in Sessions \ DbFailsFor : RowOK(s)
    BY DEF Init, RowOK, Idle
  <2> QED
    BY <2>1, SessionInit
<1>2. RInv /\ [Next]_vars => RInv'
  BY SessionStep, RowStep
<1>3. RInv => CancelledRowRecorded
  BY DEF RowOK, Asked, CancelledRowRecorded, SessionInv, SettledInv, NotOpen
<1> QED
  BY <1>1, <1>2, <1>3, PTL DEF Spec
-----------------------------------------------------------------------------
(* What the records tell of a wipe that nobody cancelled.                   *)

Outcome(s) == IF result[s] = "ok" THEN "completed" ELSE "failed"

\* The row, the report and the audit trail tell the status st.
Agree(s, st) ==
  /\ row[s] = st
  /\ \/ st = "completed" /\ report[s] = "ok" /\ audit[s] = {"wipe_started", "wipe_completed"}
     \/ st = "failed" /\ report[s] # "ok" /\ ~cert[s]
        /\ audit[s] = {"wipe_started", "wipe_failed"}

\* The phases of a worker before it has logged how the wipe ended.
Unlogged == {"queued", "begun", "setup", "returned", "certify", "report", "log", "except",
             "logfail"} \cup Writing

\* While the database works for it: the log has the start of a session before
\* its worker exists, and the worker writes certificate, report, row, audit
\* event and status in this order, each after the same result.
RecordsOK(s) ==
  /\ status[s] = "absent" => audit[s] = {}
  /\ api.op = "start" /\ api.sid = s =>
       /\ api.at = "log" => audit[s] = {}
       /\ api.at = "submit" => audit[s] = {"wipe_started"}
  /\ Asked(s) => accepted[s] # "no"
  /\ accepted[s] = "no" =>
       /\ status[s] # "cancelled"
       /\ worker[s] \in Unlogged =>
            /\ audit[s] = {"wipe_started"}
            /\ worker[s] # "log" => report[s] = "none"
            /\ worker[s] \notin {"report", "log"} => ~cert[s]
       /\ worker[s] = "certify" => result[s] = "ok"
       /\ worker[s] = "report" => result[s] = "ok" \/ ~cert[s]
       /\ worker[s] = "log" => report[s] = result[s] /\ (result[s] = "ok" \/ ~cert[s])
       /\ worker[s] = "settle" => Agree(s, Outcome(s))
       /\ worker[s] = "logfail" => status[s] = "failed"
       /\ worker[s] \in {"notify", "done"} => Agree(s, status[s])

LEMMA RecordsWorker ==
  ASSUME SessionInv, NEW s \in Sessions \ DbFailsFor, RowOK(s), RecordsOK(s), WorkerStep(s)
  PROVE  RecordsOK(s)'
<1> USE DEF SessionInv, TypeOK, RecordsOK, Unlogged, Writing, Asked, engine, db, world
<1>1. CASE NotifyBegun(s) \/ NotifyProgress(s) \/ NotifyDone(s)
  BY <1>1 DEF NotifyBegun, NotifyProgress, NotifyDone, Notify, Agree
<1>2. CASE SetupRaises(s) \/ SetupDone(s) \/ WriteBlock(s) \/ WriteFails(s)
  BY <1>2 DEF SetupRaises, SetupDone, WriteBlock, WriteFails
<1>3. CASE LogProgress(s)
  BY <1>3 DEF LogProgress
<1>4. CASE NextPass(s) \/ EngineReturns(s)
  BY <1>4 DEF NextPass, EngineReturns
<1>5. CASE AfterEngine(s)
  BY <1>5 DEF AfterEngine
<1>6. CASE Certify(s)
  BY <1>6 DEF Certify
<1>7. CASE StoreReport(s)
  BY <1>7 DEF StoreReport
<1>8. CASE LogCompleted(s)
  <2>1. UNCHANGED <<status, api, accepted, cert, report, result>> /\ worker'[s] = "settle"
    BY <1>8 DEF LogCompleted
  <2>2. CASE result[s] = "ok"
    <3>1. row'[s] = "completed" /\ audit'[s] = audit[s] \cup {"wipe_completed"}
      BY <1>8, <2>2 DEF LogCompleted, LogOutcome, UpdateRow, DbOutcomes, RowOK
    <3>2. worker[s] = "log" /\ (Agree(s, Outcome(s))' \/ accepted[s] # "no")
      BY <1>8, <2>1, <2>2, <3>1 DEF LogCompleted, Agree, Outcome
    <3> QED BY <1>8, <2>1, <3>2 DEF LogCompleted, CancelInv, QueueInv
  <2>3. CASE result[s] # "ok"
    <3>1. row'[s] = "failed" /\ audit'[s] = audit[s] \cup {"wipe_failed"}
      BY <1>8, <2>3 DEF LogCompleted, LogOutcome, UpdateRow, DbOutcomes, RowOK
    <3>2. worker[s] = "log" /\ (Agree(s, Outcome(s))' \/ accepted[s] # "no")
      BY <1>8, <2>1, <2>3, <3>1 DEF LogCompleted, Agree, Outcome
    <3> QED BY <1>8, <2>1, <3>2 DEF LogCompleted, CancelInv, QueueInv
  <2> QED BY <2>2, <2>3
<1>9. CASE Settle(s)
  BY <1>9 DEF Settle, Agree, Outcome
<1>10. CASE ExceptSettle(s)
  BY <1>10 DEF ExceptSettle
<1>11. CASE ExceptLog(s)
  <2>1. UNCHANGED <<status, api, accepted, cert, report>> /\ worker'[s] = "notify"
    BY <1>11 DEF ExceptLog
  <2>2. row'[s] = "failed" /\ audit'[s] = audit[s] \cup {"wipe_failed"}
    BY <1>11 DEF ExceptLog, LogOutcome, UpdateRow, DbOutcomes, RowOK
  <2>3. worker[s] = "logfail" /\ (Agree(s, status[s])' \/ accepted[s] # "no")
    BY <1>11, <2>1, <2>2 DEF ExceptLog, Agree
  <2> QED BY <1>11, <2>1, <2>3 DEF ExceptLog, CancelInv, QueueInv
<1> QED
  BY <1>1, <1>2, <1>3, <1>4, <1>5, <1>6, <1>7, <1>8, <1>9, <1>10, <1>11 DEF WorkerStep

LEMMA RecordsApi ==
  ASSUME SessionInv, NEW s \in Sessions \ DbFailsFor, RowOK(s), RecordsOK(s), ApiStep
  PROVE  RecordsOK(s)'
<1> USE DEF SessionInv, TypeOK, RecordsOK, Unlogged, Asked, engine, db, world
<1>1. api \in Calls /\ api.sid \in Sessions
  <2>1. api \in Calls
    BY CallType DEF ApiStep, StartLog, StartSubmit, CancelSet, CancelLog
  <2> QED BY <2>1 DEF Calls
<1>2. CASE StartLog
  <2>1. UNCHANGED <<status, worker, report, accepted, cert, result>>
    BY <1>2 DEF StartLog
  <2>2. api'.op = "start" /\ api'.sid = api.sid /\ api'.at = "submit"
    BY <1>1, <1>2 DEF StartLog, Calls
  <2>3. CASE api.sid = s
    <3>1. audit'[s] = audit[s] \cup {"wipe_started"} /\ audit[s] = {} /\ worker[s] = "idle"
          /\ status[s] = "pending"
      BY <1>2, <2>3 DEF StartLog, DbOutcomes, QueueInv
    <3> QED BY <2>1, <2>2, <3>1 DEF Writing
  <2>4. CASE api.sid # s
    <3>1. audit'[s] = audit[s] /\ row'[s] = row[s]
      BY <1>1, <1>2, <2>4 DEF StartLog
    <3> QED BY <2>1, <2>2, <2>4, <3>1 DEF Agree, Outcome
  <2> QED BY <2>3, <2>4
<1>3. CASE StartSubmit
  <2>1. UNCHANGED <<status, row, audit, report, accepted, cert, result>> /\ api' = Idle
        /\ worker' = [worker EXCEPT ![api.sid] = "queued"]
    BY <1>3 DEF StartSubmit
  <2>2. CASE api.sid = s
    <3>1. audit[s] = {"wipe_started"} /\ worker'[s] = "queued" /\ status[s] = "pending"
      BY <1>1, <1>3, <2>1, <2>2 DEF StartSubmit, QueueInv
    <3>2. report[s] = "none" /\ ~cert[s]
      BY <3>1 DEF CancelInv, Fresh, Evidence
    <3> QED BY <2>1, <3>1, <3>2 DEF Idle, Writing
  <2>3. CASE api.sid # s
    <3>1. worker'[s] = worker[s]
      BY <1>1, <2>1, <2>3
    <3> QED BY <2>1, <3>1 DEF Idle, Agree, Outcome
  <2> QED BY <2>2, <2>3
<1>4. CASE CancelSet
  <2>1. UNCHANGED <<worker, row, audit, report, cert, result>>
    BY <1>4 DEF CancelSet
  <2>2. api'.op = "cancel" /\ api'.sid = api.sid
    BY <1>1, <1>4 DEF CancelSet, Calls
  <2>3. CASE api.sid = s
    <3>1. accepted'[s] = worker[s] /\ worker[s] # "no" /\ status'[s] = "cancelled"
      BY <1>1, <1>4, <2>3 DEF CancelSet, Phases, Writing
    <3> QED BY <2>1, <2>2, <3>1
  <2>4. CASE api.sid # s
    <3>1. accepted'[s] = accepted[s] /\ status'[s] = status[s]
      BY <1>1, <1>4, <2>4 DEF CancelSet
    <3> QED BY <2>1, <2>2, <2>4, <3>1 DEF Agree, Outcome
  <2> QED BY <2>3, <2>4
<1>5. CASE CancelLog
  <2>1. UNCHANGED <<status, worker, report, accepted, cert, result>> /\ api' = Idle
    BY <1>5 DEF CancelLog
  <2>2. CASE api.sid = s
    <3>1. accepted[s] # "no" /\ status[s] # "absent"
      BY <1>5, <2>2 DEF CancelLog, SettledInv, CancelInv, NotOpen
    <3> QED BY <2>1, <3>1 DEF Idle
  <2>3. CASE api.sid # s
    <3>1. audit'[s] = audit[s] /\ row'[s] = row[s]
      BY <1>1, <1>5, <2>3 DEF CancelLog, LogOutcome, UpdateRow
    <3> QED BY <2>1, <3>1 DEF Idle, Agree, Outcome
  <2> QED BY <2>2, <2>3
<1> QED BY <1>2, <1>3, <1>4, <1>5 DEF ApiStep

LEMMA RecordsStep ==
  ASSUME SessionInv, NEW s \in Sessions \ DbFailsFor, RowOK(s), RecordsOK(s), [Next]_vars
  PROVE  RecordsOK(s)'
<1> USE DEF SessionInv, TypeOK, RecordsOK, Unlogged, Asked, engine, db, world
<1>1. ASSUME NEW t \in Sessions, StartInsert(t) PROVE RecordsOK(s)'
  <2>1. UNCHANGED <<worker, row, audit, report, accepted, cert, result>>
    BY <1>1 DEF StartInsert
  <2>2. api'.op = "start" /\ api'.sid = t /\ api'.at = "log"
        /\ status' = [status EXCEPT ![t] = "pending"] /\ status[t] = "absent"
    BY <1>1 DEF StartInsert
  <2>3. CASE t = s
    BY <2>1, <2>2, <2>3 DEF CancelInv, Writing
  <2>4. CASE t # s
    BY <2>1, <2>2, <2>4 DEF Agree, Outcome
  <2> QED BY <2>3, <2>4
<1>2. ASSUME NEW t \in Sessions, CancelTest(t) PROVE RecordsOK(s)'
  BY <1>2 DEF CancelTest, Agree, Outcome
<1>3. CASE Begin
  <2>1. Head(queue) \in Sessions /\ worker[Head(queue)] = "queued"
    BY <1>3 DEF Begin, QueueInv
  <2>2. CASE Head(queue) = s
    BY <1>3, <2>1, <2>2 DEF Begin, Writing
  <2>3. CASE Head(queue) # s
    BY <1>3, <2>1, <2>3 DEF Begin, Agree, Outcome
  <2> QED BY <2>2, <2>3
<1>4. ASSUME NEW t \in Sessions, WorkerStep(t) PROVE RecordsOK(s)'
  <2>1. CASE t = s
    BY <1>4, <2>1, RecordsWorker
  <2>2. CASE t # s
    <3>1. /\ worker'[s] = worker[s] /\ status'[s] = status[s] /\ row'[s] = row[s]
          /\ audit'[s] = audit[s] /\ report'[s] = report[s] /\ cert'[s] = cert[s]
          /\ UNCHANGED <<api, accepted>>
      BY <1>4, <2>2, OwnSession
    <3>2. result'[s] = result[s]
      BY <1>4, <2>2 DEF WorkerStep, NotifyBegun, NotifyProgress, NotifyDone, Notify, SetupRaises,
         SetupDone, WriteBlock, WriteFails, LogProgress, NextPass, EngineReturns, AfterEngine,
         Certify, StoreReport, LogCompleted, Settle, ExceptSettle, ExceptLog
    <3> QED BY <3>1, <3>2 DEF Agree, Outcome
  <2> QED BY <2>1, <2>2
<1>5. CASE \E d \in Devices : Mount(d) \/ Unmount(d) \/ \E b \in BlockSet : HostWrite(d, b)
  BY <1>5 DEF Mount, Unmount, HostWrite, Agree, Outcome
<1>6. CASE Restart
  <2>1. UNCHANGED <<row, audit, report, accepted, cert>> /\ api' = Idle /\ worker'[s] = "idle"
        /\ status'[s] = IF status[s] = "absent" THEN "absent" ELSE "lost"
    BY <1>6 DEF Restart
  <2> QED BY <2>1 DEF Idle, Writing
<1>7. CASE UNCHANGED vars
  BY <1>7 DEF vars, Agree, Outcome
<1> QED
  BY <1>1, <1>2, <1>3, <1>4, <1>5, <1>6, <1>7, RecordsApi DEF Next

(* When the worker of a session nobody cancelled has ended, and its         *)
(* database calls succeeded, the log row, the audit trail and the stored    *)
(* report tell the outcome that the session tells, for any number of        *)
(* sessions, of blocks and of restarts, whatever the other sessions do.     *)
THEOREM RecordsTellOutcome == Spec => []UncancelledRecordsAgree
<1> DEFINE RInv == SessionInv /\ \A s \in Sessions \ DbFailsFor : RowOK(s) /\ RecordsOK(s)
<1>1. Init => RInv
  <2>1. Init => \A s \in Sessions \ DbFailsFor : RowOK(s) /\ RecordsOK(s)
    BY DEF Init, RowOK, RecordsOK, Unlogged, Writing, Asked, Idle
  <2> QED BY <2>1, SessionInit
<1>2. RInv /\ [Next]_vars => RInv'
  BY SessionStep, RowStep, RecordsStep
<1>3. RInv => UncancelledRecordsAgree
  BY DEF RecordsOK, Agree, UncancelledRecordsAgree
<1> QED BY <1>1, <1>2, <1>3, PTL DEF Spec
=============================================================================
