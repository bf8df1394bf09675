-------------------------- MODULE JobManagerProofs --------------------------
(***************************************************************************)
(* Theorems about JobManager for any number of jobs, pool threads, files,  *)
(* blocks, samples and partitions.                                         *)
(***************************************************************************)
EXTENDS JobManager, TLAPS

-----------------------------------------------------------------------------
(* Arithmetic of the files of a batch.                                     *)

\* Numbers of blocks grow with numbers of files.
LEMMA TimesMonotone ==
  ASSUME NEW u \in Nat, NEW a \in Nat, NEW b \in Nat, a <= b
  PROVE  u * a <= u * b
<1>1. /\ b - a \in Nat
      /\ u * (b - a) \in Nat
  OBVIOUS
<1>2. u * b = u * a + u * (b - a)
  OBVIOUS
<1> QED
  BY <1>1, <1>2

\* The end of the file that block s belongs to is within the batch.
LEMMA FileEnd ==
  ASSUME NEW u \in Nat \ {0}, NEW n \in Nat, NEW s \in Nat, s < n * u
  PROVE  /\ s \div u \in Nat
         /\ s % u \in 0..(u - 1)
         /\ s = u * (s \div u) + (s % u)
         /\ u * (s \div u + 1) <= n * u
<1>1. /\ s \div u \in Nat
      /\ s % u \in 0..(u - 1)
      /\ s = u * (s \div u) + (s % u)
  OBVIOUS
<1>2. s \div u < n
  <2> SUFFICES ASSUME n <= s \div u PROVE FALSE
    BY <1>1
  <2>1. u * n <= u * (s \div u)
    BY <1>1, TimesMonotone
  <2> QED
    BY <1>1, <2>1
<1>3. u * (s \div u + 1) <= u * n
  BY <1>1, <1>2, TimesMonotone
<1> QED
  BY <1>1, <1>3

\* A file that is left before its last step ends within the batch, wherever
\* that was; one that is left at its start ends a whole unit later.
LEMMA UnitBound ==
  ASSUME kind = "shred", NEW s \in 0..Whole, s < Whole
  PROVE  /\ Unit * (s \div Unit + 1) \in 0..Whole
         /\ s % Unit = 0 => s + Unit \in 0..Whole /\ s + Parts \in 0..Whole
<1>1. /\ Unit \in Nat \ {0} /\ Items \in Nat /\ Parts \in Nat /\ Unit = Parts + 1
      /\ Whole = Items * Unit
  BY JobAssumption DEF Unit, Whole
<1>2. s \in Nat /\ s < Items * Unit
  BY <1>1
<1> HIDE DEF Unit, Whole
<1>3. /\ s \div Unit \in Nat
      /\ s = Unit * (s \div Unit) + (s % Unit)
      /\ Unit * (s \div Unit + 1) <= Items * Unit
  BY <1>1, <1>2, FileEnd
<1>4. \A q \in Nat : Unit * (q + 1) = Unit * q + Unit
  BY <1>1
<1> QED
  BY <1>1, <1>2, <1>3, <1>4

-----------------------------------------------------------------------------
(* Types.                                                                  *)

\* What a callback makes of a status is a status.
LEMMA EmitType ==
  ASSUME TypeOK, NEW j \in Jobs, NEW st \in Statuses, Emit(j, st)
  PROVE  status' \in [Jobs -> Statuses]
BY DEF TypeOK, Emit, Statuses, Active, Terminal

\* No step changes the manager, and with it the work of a job.
LEMMA KindStep == ASSUME [Next]_vars PROVE kind' = kind /\ Whole' = Whole
<1> SUFFICES kind' = kind
  BY DEF Whole, Unit
<1> USE DEF work
<1>1. ASSUME NEW j \in Jobs, Insert(j) \/ RequestStep(j) \/ Cancel(j) PROVE kind' = kind
  BY <1>1 DEF Insert, RequestStep, Submit, Listen, Cancel
<1>2. CASE Begin
  BY <1>2 DEF Begin
<1>3. ASSUME NEW j \in Jobs, WorkerStep(j) PROVE kind' = kind
  <2>1. CASE NotifyStep(j) \/ Declines(j) \/ Raises(j) \/ Enter(j)
    BY <2>1 DEF NotifyStep, Notify, Declines, Raises, Enter
  <2>2. CASE Check(j)
    BY <2>2 DEF Check, Sample, SampleFails, CrossBegin, CrossCheck, CrossEnd, CheckCancelled
  <2>3. CASE Poll(j) \/ ToolExits(j) \/ Settle(j) \/ Crash(j)
    BY <2>3 DEF Poll, ToolExits, Settle, Crash
  <2>4. CASE Shred(j)
    BY <2>4 DEF Shred, ShredBlock, ShredRemove, ShredSkip, ShredFails, ShredCancelled, ShredEnd
  <2> QED
    BY <1>3, <2>1, <2>2, <2>3, <2>4 DEF WorkerStep
<1>4. CASE UNCHANGED vars
  BY <1>4 DEF vars
<1> QED
  BY <1>1, <1>2, <1>3, <1>4 DEF Next

\* The types are preserved by every step.
LEMMA TypeStep == TypeOK /\ [Next]_vars => TypeOK'
<1> SUFFICES ASSUME TypeOK, [Next]_vars PROVE TypeOK'
  OBVIOUS
<1>0. kind' = kind /\ Whole' = Whole
  BY KindStep
<1> USE <1>0 DEF TypeOK, work, Goto, Returns
<1>1. /\ {"absent", "pending", "failed", "running", "sampling", "cross_checking", "completed",
          "cancelled"} \subseteq Statuses
      /\ Phases = {"idle", "queued", "hello", "enter", "work", "said", "crosshello", "cross",
                   "farewell", "settle", "crash", "bye", "done"}
      /\ Outcomes = {"none", "ok", "nothing", "refused", "error", "cancelled"}
      /\ Requests = {"none", "inserted", "submitted", "listening"}
  BY DEF Statuses, Active, Terminal, Phases, Outcomes, Requests
<1>2. /\ Whole \in Nat
      /\ kind # "shred" => Items <= Whole
  BY JobAssumption DEF Whole, Unit
<1>a. ASSUME NEW j \in Jobs, Insert(j) PROVE TypeOK'
  BY <1>a, <1>1 DEF Insert
<1>b. ASSUME NEW j \in Jobs, RequestStep(j) PROVE TypeOK'
  <2>1. CASE Submit(j)
    <3>1. queue' \in Seq(Jobs)
      BY <2>1 DEF Submit
    <3> QED
      BY <2>1, <3>1, <1>1 DEF Submit
  <2>2. CASE Listen(j)
    BY <2>2, <1>1 DEF Listen
  <2> QED
    BY <1>b, <2>1, <2>2 DEF RequestStep
<1>c. ASSUME NEW j \in Jobs, Cancel(j) PROVE TypeOK'
  BY <1>c DEF Cancel
<1>d. CASE Begin
  <2>1. Head(queue) \in Jobs /\ Tail(queue) \in Seq(Jobs)
    BY <1>d DEF Begin
  <2> QED
    BY <1>d, <1>1, <2>1 DEF Begin
<1>e. ASSUME NEW j \in Jobs, NotifyStep(j) PROVE TypeOK'
  <2>1. ASSUME NEW from, NEW to \in Phases, Notify(j, from, to) PROVE TypeOK'
    BY <2>1 DEF Notify
  <2> QED
    BY <1>e, <1>1, <2>1 DEF NotifyStep
<1>f. ASSUME NEW j \in Jobs, Declines(j) \/ Raises(j) PROVE TypeOK'
  <2>1. CASE Declines(j)
    <3>1. \E o \in {"refused", "error"} : out' = [out EXCEPT ![j] = o]
      BY <2>1 DEF Declines
    <3>2. out' \in [Jobs -> Outcomes]
      BY <3>1, <1>1
    <3> QED
      BY <2>1, <3>2, <1>1 DEF Declines
  <2>2. CASE Raises(j)
    BY <2>2, <1>1 DEF Raises
  <2> QED
    BY <1>f, <2>1, <2>2
<1>g. ASSUME NEW j \in Jobs, Enter(j) PROVE TypeOK'
  BY <1>g, <1>1, EmitType DEF Enter
<1>h. ASSUME NEW j \in Jobs, Check(j) PROVE TypeOK'
  <2>1. ASSUME Sample(j) PROVE TypeOK'
    <3>1. step[j] + 1 \in 0..Whole
      BY <2>1, <1>2, JobAssumption DEF Sample
    <3>2. step' \in [Jobs -> 0..Whole]
      BY <2>1, <3>1 DEF Sample
    <3> QED
      BY <2>1, <3>2, <1>1, EmitType DEF Sample
  <2>2. ASSUME CrossCheck(j) PROVE TypeOK'
    <3>1. step[j] + 1 \in 0..Whole
      BY <2>2, <1>2 DEF CrossCheck
    <3> QED
      BY <2>2, <3>1 DEF CrossCheck
  <2>3. ASSUME SampleFails(j) \/ CrossBegin(j) \/ CrossEnd(j) \/ CheckCancelled(j) PROVE TypeOK'
    BY <2>3, <1>1, EmitType DEF SampleFails, CrossBegin, CrossEnd, CheckCancelled
  <2> QED
    BY <1>h, <2>1, <2>2, <2>3 DEF Check
<1>i. ASSUME NEW j \in Jobs, Poll(j) \/ ToolExits(j) PROVE TypeOK'
  <2>1. CASE Poll(j)
    BY <2>1, <1>1, EmitType DEF Poll
  <2>2. CASE ToolExits(j)
    <3>1. out' \in [Jobs -> Outcomes]
      BY <2>2, <1>1 DEF ToolExits
    <3> QED
      BY <2>2, <3>1, <1>1, EmitType DEF ToolExits
  <2> QED
    BY <1>i, <2>1, <2>2
<1>j. ASSUME NEW j \in Jobs, Shred(j) PROVE TypeOK'
  <2> HIDE DEF TypeOK
  <2>1. ASSUME kind = "shred", step[j] < Whole
        PROVE  /\ step[j] + 1 \in 0..Whole
               /\ Unit * (step[j] \div Unit + 1) \in 0..Whole
               /\ step[j] % Unit = 0 => \A n \in {Parts, Unit} : step[j] + n \in 0..Whole
    <3>1. step[j] \in 0..Whole /\ Whole \in Nat
      BY <2>1, JobAssumption DEF TypeOK, Whole, Unit
    <3> QED
      BY <2>1, <3>1, UnitBound
  <2>2. ASSUME NEW n \in 0..Whole, step' = [step EXCEPT ![j] = n]
        PROVE  step' \in [Jobs -> 0..Whole]
    BY <2>2 DEF TypeOK
  <2>3. ASSUME ShredBlock(j) \/ ShredFails(j) PROVE TypeOK'
    <3>1. step' \in [Jobs -> 0..Whole]
      BY <2>1, <2>2, <2>3 DEF ShredBlock, ShredFails
    <3> QED
      BY <2>3, <3>1, <1>1, EmitType DEF ShredBlock, ShredFails, TypeOK
  <2>4. ASSUME ShredRemove(j) PROVE TypeOK'
    <3>1. step' \in [Jobs -> 0..Whole]
      BY <2>1, <2>2, <2>4 DEF ShredRemove
    <3> QED
      BY <2>4, <3>1, <1>1, EmitType DEF ShredRemove, TypeOK
  <2>5. ASSUME ShredSkip(j) PROVE TypeOK'
    <3>1. step' \in [Jobs -> 0..Whole]
      BY <2>1, <2>2, <2>5 DEF ShredSkip
    <3> QED
      BY <2>5, <3>1 DEF ShredSkip, TypeOK
  <2>6. ASSUME ShredCancelled(j) \/ ShredEnd(j) PROVE TypeOK'
    BY <2>6, <1>1, EmitType DEF ShredCancelled, ShredEnd, TypeOK
  <2> QED
    BY <1>j, <2>3, <2>4, <2>5, <2>6 DEF Shred
<1>k. ASSUME NEW j \in Jobs, Settle(j) \/ Crash(j) PROVE TypeOK'
  <2>1. CASE Settle(j)
    <3>1. FinalStatus(j) \in Statuses
      BY <1>1 DEF FinalStatus
    <3> QED
      BY <2>1, <3>1, <1>1 DEF Settle
  <2>2. CASE Crash(j)
    BY <2>2, <1>1 DEF Crash
  <2> QED
    BY <1>k, <2>1, <2>2
<1>l. CASE UNCHANGED vars
  BY <1>l DEF vars
<1> QED
  BY <1>a, <1>b, <1>c, <1>d, <1>e, <1>f, <1>g, <1>h, <1>i, <1>j, <1>k, <1>l DEF Next, WorkerStep

LEMMA TypeInit == Init => TypeOK
<1> SUFFICES ASSUME Init PROVE TypeOK
  OBVIOUS
<1>1. 0 \in 0..Whole
  BY JobAssumption DEF Whole, Unit
<1> QED
  BY <1>1 DEF Init, TypeOK, Statuses, Requests, Phases, Outcomes

(* Every variable keeps its type; in particular the progress of a shred job *)
(* never passes the end of its batch, whichever of its files are refused,   *)
(* fail or are removed (shredder.py:348-443).                               *)
THEOREM TypeCorrect == Spec => []TypeOK
BY TypeInit, TypeStep, PTL DEF Spec

-----------------------------------------------------------------------------
(* What the steps of one worker leave alone.                               *)

Working == {"hello", "enter", "work", "said", "crosshello", "cross", "farewell", "settle",
            "crash"}

\* A step of the worker of j disturbs no other job, no request and not the
\* queue, and is taken between Begin and the end of _run.
LEMMA WorkerFrame ==
  ASSUME TypeOK, NEW j \in Jobs, WorkerStep(j)
  PROVE  /\ UNCHANGED <<kind, cancel, request, queue>>
         /\ worker[j] \in Working \cup {"bye"}
         /\ worker'[j] \in Working \cup {"bye", "done"}
         /\ \A k \in Jobs \ {j} :
              /\ status'[k] = status[k] /\ filled'[k] = filled[k] /\ worker'[k] = worker[k]
              /\ step'[k] = step[k] /\ good'[k] = good[k] /\ out'[k] = out[k]
              /\ told'[k] = told[k]
<1> USE DEF TypeOK, work, Goto, Returns, Working
<1>1. CASE NotifyStep(j)
  <2>1. ASSUME NEW from \in Working \cup {"bye"}, NEW to \in Working \cup {"bye", "done"},
               Notify(j, from, to)
        PROVE  /\ UNCHANGED <<kind, status, filled, cancel, request, queue, step, good, out>>
               /\ worker[j] \in Working \cup {"bye"}
               /\ worker'[j] \in Working \cup {"bye", "done"}
               /\ \A k \in Jobs \ {j} : worker'[k] = worker[k] /\ told'[k] = told[k]
    BY <2>1 DEF Notify
  <2> QED
    BY <1>1, <2>1 DEF NotifyStep
<1>2. CASE Declines(j) \/ Raises(j) \/ Enter(j)
  BY <1>2 DEF Declines, Raises, Enter, Emit
<1>3. CASE Sample(j) \/ SampleFails(j) \/ CrossBegin(j)
  BY <1>3 DEF Sample, SampleFails, CrossBegin, Emit
<1>4. CASE CrossCheck(j) \/ CrossEnd(j) \/ CheckCancelled(j)
  BY <1>4 DEF CrossCheck, CrossEnd, CheckCancelled, Emit
<1>5. CASE Poll(j) \/ ToolExits(j)
  BY <1>5 DEF Poll, ToolExits, Emit
<1>6. CASE ShredBlock(j) \/ ShredRemove(j) \/ ShredSkip(j)
  BY <1>6 DEF ShredBlock, ShredRemove, ShredSkip, Emit
<1>7. CASE ShredFails(j) \/ ShredCancelled(j) \/ ShredEnd(j)
  BY <1>7 DEF ShredFails, ShredCancelled, ShredEnd, Emit
<1>8. CASE Settle(j) \/ Crash(j)
  BY <1>8 DEF Settle, Crash
<1> QED
  BY <1>1, <1>2, <1>3, <1>4, <1>5, <1>6, <1>7, <1>8 DEF WorkerStep, Check, Shred

-----------------------------------------------------------------------------
(* The request, the queue and the worker of a job agree: a job is in the    *)
(* queue at most once, and only while it is pending and its worker has not  *)
(* begun.                                                                   *)

RequestOK(j) ==
  /\ request[j] = "none" => status[j] = "absent"
  /\ request[j] \in {"none", "inserted"} => worker[j] = "idle"
  /\ worker[j] = "queued" => status[j] = "pending"
  /\ request[j] = "inserted" => status[j] = "pending"

QueueOK ==
  /\ \A i \in 1..Len(queue) : worker[queue[i]] = "queued"
  /\ \A i, k \in 1..Len(queue) : queue[i] = queue[k] => i = k

ControlOK == QueueOK /\ \A j \in Jobs : RequestOK(j)

\* The head of the queue is a job that waits, and is nowhere else in it.
LEMMA HeadOfQueue ==
  ASSUME TypeOK, QueueOK, queue # <<>>
  PROVE  /\ Head(queue) \in Jobs
         /\ worker[Head(queue)] = "queued"
         /\ Tail(queue) \in Seq(Jobs)
         /\ Len(Tail(queue)) = Len(queue) - 1
         /\ \A i \in 1..Len(Tail(queue)) :
              Tail(queue)[i] = queue[i + 1] /\ Tail(queue)[i] # Head(queue)
<1>1. /\ queue \in Seq(Jobs)
      /\ Len(queue) \in Nat \ {0}
      /\ Head(queue) = queue[1]
      /\ Tail(queue) \in Seq(Jobs)
      /\ Len(Tail(queue)) = Len(queue) - 1
      /\ \A i \in 1..Len(Tail(queue)) : Tail(queue)[i] = queue[i + 1]
  BY DEF TypeOK
<1> QED
  BY <1>1 DEF QueueOK

LEMMA QueueStep == TypeOK /\ ControlOK /\ [Next]_vars => QueueOK'
<1> SUFFICES ASSUME TypeOK, ControlOK, [Next]_vars PROVE QueueOK'
  OBVIOUS
<1> USE DEF ControlOK, QueueOK, RequestOK, Goto
<1>1. ASSUME NEW j \in Jobs, Insert(j) \/ Listen(j) \/ Cancel(j) PROVE QueueOK'
  BY <1>1 DEF Insert, Listen, Cancel
<1>2. ASSUME NEW j \in Jobs, Submit(j) PROVE QueueOK'
  <2>1. /\ queue \in Seq(Jobs) /\ Len(queue) \in Nat
        /\ queue' = Append(queue, j) /\ Len(queue') = Len(queue) + 1
        /\ queue'[Len(queue) + 1] = j
        /\ \A i \in 1..Len(queue) : queue'[i] = queue[i]
    BY <1>2 DEF Submit, TypeOK
  <2>2. \A i \in 1..Len(queue) : queue[i] \in Jobs /\ queue[i] # j
    BY <1>2, <2>1 DEF Submit
  <2>3. \A k \in Jobs : worker'[k] = IF k = j THEN "queued" ELSE worker[k]
    BY <1>2 DEF Submit, TypeOK
  <2>4. 1..Len(queue') = 1..Len(queue) \cup {Len(queue) + 1}
    BY <2>1
  <2> QED
    BY <2>1, <2>2, <2>3, <2>4
<1>3. CASE Begin
  <2>1. \A k \in Jobs : k # Head(queue) => worker'[k] = worker[k]
    BY <1>3, HeadOfQueue DEF Begin, TypeOK
  <2>2. /\ queue' \in Seq(Jobs) /\ Len(queue') = Len(queue) - 1 /\ Len(queue) \in Nat
        /\ \A i \in 1..Len(queue') : /\ queue'[i] = queue[i + 1]
                                    /\ queue'[i] # Head(queue)
    BY <1>3, HeadOfQueue DEF Begin, TypeOK
  <2>3. \A i \in 1..Len(queue') : queue'[i] \in Jobs /\ i + 1 \in 1..Len(queue)
    BY <2>2
  <2> QED
    BY SMTT(40), <2>1, <2>2, <2>3
<1>4. ASSUME NEW j \in Jobs, WorkerStep(j) PROVE QueueOK'
  <2>1. \A i \in 1..Len(queue) : queue[i] \in Jobs
    BY DEF TypeOK
  <2> QED
    BY <1>4, <2>1, WorkerFrame DEF Working
<1>5. CASE UNCHANGED vars
  BY <1>5 DEF vars
<1> QED
  BY <1>1, <1>2, <1>3, <1>4, <1>5 DEF Next, RequestStep

LEMMA RequestOKStep ==
  ASSUME TypeOK, ControlOK, [Next]_vars, NEW k \in Jobs
  PROVE  RequestOK(k)'
<1> USE DEF ControlOK, RequestOK, Goto
<1>1. ASSUME NEW j \in Jobs, Insert(j) \/ Listen(j) \/ Cancel(j) \/ Submit(j) PROVE RequestOK(k)'
  <2>1. CASE Insert(j)
    BY <2>1 DEF Insert, TypeOK
  <2>2. CASE Listen(j) \/ Cancel(j)
    BY <2>2 DEF Listen, Cancel, TypeOK
  <2>3. CASE Submit(j)
    BY <2>3 DEF Submit, TypeOK
  <2> QED
    BY <1>1, <2>1, <2>2, <2>3
<1>2. CASE Begin
  BY <1>2, HeadOfQueue DEF Begin, TypeOK
<1>3. ASSUME NEW j \in Jobs, WorkerStep(j) PROVE RequestOK(k)'
  BY <1>3, WorkerFrame DEF Working
<1>4. CASE UNCHANGED vars
  BY <1>4 DEF vars
<1> QED
  BY <1>1, <1>2, <1>3, <1>4 DEF Next, RequestStep

LEMMA ControlStep == TypeOK /\ ControlOK /\ [Next]_vars => ControlOK'
BY QueueStep, RequestOKStep DEF ControlOK

LEMMA ControlInit == Init => ControlOK
BY DEF Init, ControlOK, QueueOK, RequestOK

-----------------------------------------------------------------------------
(* What the clients of a job were told.                                    *)

ToldOK(j) ==
  /\ request[j] # "listening" => told[j] = <<"nothing", FALSE>>
  /\ worker[j] \in {"bye", "done"} => filled[j]
  /\ worker[j] = "done" => told[j] \in {<<"nothing", FALSE>>, <<status[j], TRUE>>}

\* The worker's own steps keep it: only Settle and Crash lead to the last
\* notification, and both fill the outcome in before it.
LEMMA ToldWorker ==
  ASSUME TypeOK, NEW j \in Jobs, ToldOK(j), WorkerStep(j)
  PROVE  ToldOK(j)'
<1> USE DEF TypeOK, ToldOK, work, Goto, Returns
<1>1. CASE NotifyStep(j)
  <2>1. ASSUME NEW from, NEW to, Notify(j, from, to), from = "bye" <=> to = "done", to # "bye"
        PROVE  ToldOK(j)'
    BY <2>1 DEF Notify
  <2> QED
    BY <1>1, <2>1 DEF NotifyStep
<1>2. CASE Settle(j) \/ Crash(j)
  BY <1>2 DEF Settle, Crash
<1>3. CASE Declines(j) \/ Raises(j) \/ Enter(j)
  BY <1>3 DEF Declines, Raises, Enter
<1>4. CASE Check(j)
  BY <1>4 DEF Check, Sample, SampleFails, CrossBegin, CrossCheck, CrossEnd, CheckCancelled
<1>5. CASE Poll(j) \/ ToolExits(j)
  BY <1>5 DEF Poll, ToolExits
<1>6. CASE Shred(j)
  BY <1>6 DEF Shred, ShredBlock, ShredRemove, ShredSkip, ShredFails, ShredCancelled, ShredEnd
<1> QED
  BY <1>1, <1>2, <1>3, <1>4, <1>5, <1>6 DEF WorkerStep

LEMMA ToldStep ==
  ASSUME TypeOK, ControlOK, \A j \in Jobs : ToldOK(j), [Next]_vars, NEW k \in Jobs
  PROVE  ToldOK(k)'
<1> USE DEF ToldOK, Goto
<1>1. ASSUME NEW j \in Jobs, Insert(j) PROVE ToldOK(k)'
  BY <1>1 DEF Insert, TypeOK, ControlOK, RequestOK
<1>2. ASSUME NEW j \in Jobs, RequestStep(j) \/ Cancel(j) PROVE ToldOK(k)'
  BY <1>2 DEF RequestStep, Submit, Listen, Cancel, TypeOK
<1>3. CASE Begin
  BY <1>3, HeadOfQueue DEF Begin, TypeOK, ControlOK
<1>4. ASSUME NEW j \in Jobs, WorkerStep(j) PROVE ToldOK(k)'
  <2>1. CASE k = j
    BY <1>4, <2>1, ToldWorker
  <2>2. CASE k # j
    <3>1. /\ request' = request /\ status'[k] = status[k] /\ filled'[k] = filled[k]
          /\ worker'[k] = worker[k] /\ told'[k] = told[k]
      BY <1>4, <2>2, WorkerFrame
    <3> QED
      BY <3>1
  <2> QED
    BY <2>1, <2>2
<1>5. CASE UNCHANGED vars
  BY <1>5 DEF vars
<1> QED
  BY <1>1, <1>2, <1>3, <1>4, <1>5 DEF Next

(* A client that was told anything of a job has been told its end: for all  *)
(* three managers, however the start request, the cancellations and the     *)
(* workers of all jobs interleave.                                          *)
THEOREM EndTold == Spec => []EndIsTold
<1> DEFINE Inv == TypeOK /\ ControlOK /\ \A j \in Jobs : ToldOK(j)
<1>1. Init => Inv
  <2>1. Init => TypeOK
    BY TypeInit
  <2>2. Init => \A j \in Jobs : ToldOK(j)
    BY DEF Init, ToldOK
  <2> QED
    BY <2>1, <2>2, ControlInit
<1>2. Inv /\ [Next]_vars => Inv'
  BY TypeStep, ControlStep, ToldStep
<1>3. Inv => EndIsTold
  BY DEF EndIsTold, ToldOK
<1> QED
  BY <1>1, <1>2, <1>3, PTL DEF Spec

-----------------------------------------------------------------------------
(* What a status is worth.                                                 *)

Late == {"farewell", "settle", "bye", "done"}

EarnedOK(j) ==
  /\ "cancelled" \in {status[j], out[j]} => cancel[j]
  /\ kind # "recovery" =>
       /\ status[j] = "completed" => out[j] = "ok"
       /\ out[j] = "ok" => step[j] = Whole /\ worker[j] \in Late
  /\ kind = "shred" /\ out[j] = "ok" => good[j]

\* The outcome of a check or a batch is returned when its work is done, and
\* nothing is done after that.
LEMMA EarnedWorker ==
  ASSUME TypeOK, NEW j \in Jobs, EarnedOK(j), WorkerStep(j)
  PROVE  EarnedOK(j)'
<1>0. kind' = kind /\ Whole' = Whole
  BY KindStep DEF Next
<1> USE <1>0 DEF TypeOK, EarnedOK, work, Goto, Returns, Late
<1>1. CASE NotifyStep(j)
  <2>1. ASSUME NEW from, NEW to, Notify(j, from, to), from \in Late => to \in Late
        PROVE  EarnedOK(j)'
    BY <2>1 DEF Notify
  <2> QED
    BY <1>1, <2>1 DEF NotifyStep
<1>2. CASE Declines(j) \/ Raises(j) \/ Enter(j)
  BY <1>2 DEF Declines, Raises, Enter, Emit
<1>3. CASE Sample(j) \/ SampleFails(j) \/ CrossBegin(j)
  BY <1>3 DEF Sample, SampleFails, CrossBegin, Emit
<1>4. CASE CrossCheck(j) \/ CrossEnd(j) \/ CheckCancelled(j)
  <2>1. CASE CrossCheck(j)
    BY <2>1 DEF CrossCheck
  <2>2. CASE CrossEnd(j)
    BY <2>2, JobAssumption DEF CrossEnd, Emit
  <2>3. CASE CheckCancelled(j)
    BY <2>3 DEF CheckCancelled, Emit
  <2> QED
    BY <1>4, <2>1, <2>2, <2>3
<1>5. CASE Poll(j) \/ ToolExits(j)
  BY <1>5 DEF Poll, ToolExits, Emit
<1>6. CASE ShredBlock(j) \/ ShredRemove(j) \/ ShredSkip(j)
  BY <1>6 DEF ShredBlock, ShredRemove, ShredSkip, Emit
<1>7. CASE ShredFails(j) \/ ShredCancelled(j) \/ ShredEnd(j)
  BY <1>7 DEF ShredFails, ShredCancelled, ShredEnd, Emit
<1>8. CASE Settle(j) \/ Crash(j)
  BY <1>8 DEF Settle, Crash, FinalStatus
<1> QED
  BY <1>1, <1>2, <1>3, <1>4, <1>5, <1>6, <1>7, <1>8 DEF WorkerStep, Check, Shred

LEMMA EarnedStep ==
  ASSUME TypeOK, ControlOK, \A j \in Jobs : EarnedOK(j), [Next]_vars, NEW k \in Jobs
  PROVE  EarnedOK(k)'
<1>0. kind' = kind /\ Whole' = Whole
  BY KindStep
<1> USE <1>0 DEF EarnedOK, Goto, work
<1>1. ASSUME NEW j \in Jobs, Insert(j) \/ RequestStep(j) PROVE EarnedOK(k)'
  BY <1>1 DEF Insert, RequestStep, Submit, Listen, TypeOK, ControlOK, RequestOK, Late
<1>2. ASSUME NEW j \in Jobs, Cancel(j) PROVE EarnedOK(k)'
  BY <1>2 DEF Cancel, TypeOK
<1>3. CASE Begin
  BY <1>3, HeadOfQueue DEF Begin, TypeOK, ControlOK, Late
<1>4. ASSUME NEW j \in Jobs, WorkerStep(j) PROVE EarnedOK(k)'
  <2>1. CASE k = j
    BY <1>4, <2>1, EarnedWorker
  <2>2. CASE k # j
    <3>1. /\ kind' = kind /\ cancel' = cancel /\ status'[k] = status[k] /\ step'[k] = step[k]
          /\ worker'[k] = worker[k] /\ out'[k] = out[k] /\ good'[k] = good[k]
      BY <1>4, <2>2, WorkerFrame
    <3> QED
      BY <3>1
  <2> QED
    BY <2>1, <2>2
<1>5. CASE UNCHANGED vars
  BY <1>5 DEF vars
<1> QED
  BY <1>1, <1>2, <1>3, <1>4, <1>5 DEF Next

(* A job that shows completed has done all of its work, and one that shows  *)
(* cancelled was cancelled, at whatever moment the cancellation came.       *)
THEOREM StatusEarned == Spec => []StatusIsEarned
<1> DEFINE Inv == TypeOK /\ ControlOK /\ \A j \in Jobs : EarnedOK(j)
<1>1. Init => Inv
  <2>1. Init => \A j \in Jobs : EarnedOK(j)
    BY DEF Init, EarnedOK
  <2> QED
    BY <2>1, TypeInit, ControlInit
<1>2. Inv /\ [Next]_vars => Inv'
  BY TypeStep, ControlStep, EarnedStep
<1>3. Inv => StatusIsEarned
  BY DEF StatusIsEarned, EarnedOK
<1> QED
  BY <1>1, <1>2, <1>3, PTL DEF Spec

-----------------------------------------------------------------------------
(* The managers implement the abstract life cycle.                         *)

\* While its worker works, a job has no outcome and shows something of the
\* work, a shred job nothing but running.
WorkingOK(j) ==
  /\ worker[j] \in Working =>
       /\ ~filled[j]
       /\ status[j] \in Active \cup Terminal
       /\ kind = "shred" => status[j] = "running"
  /\ worker[j] \in {"idle", "queued"} => ~filled[j]
  /\ "cancelled" \in {status[j], out[j]} => cancel[j]

\* What a step of the worker of j is to a client of j.
LEMMA WorkingStage ==
  ASSUME TypeOK, NEW j \in Jobs, WorkingOK(j), worker[j] \in Working
  PROVE  Stage(j) = "running"
BY DEF WorkingOK, Stage, Active, Terminal, TypeOK

\* Until it settles or crashes, a worker leaves the outcome alone and goes on
\* showing something of the work.
LEMMA StillWorking ==
  ASSUME TypeOK, NEW j \in Jobs, WorkingOK(j), WorkerStep(j),
         ~(Settle(j) \/ Crash(j)), worker[j] # "bye"
  PROVE  /\ WorkingOK(j)'
         /\ worker[j] \in Working /\ worker'[j] \in Working
         /\ filled'[j] = filled[j]
<1> USE DEF TypeOK, WorkingOK, work, Goto, Returns, Working, Active, Terminal
<1>1. CASE NotifyStep(j)
  <2>1. ASSUME NEW from, NEW to, Notify(j, from, to), to \in Working, from \in Working
        PROVE  /\ WorkingOK(j)'
               /\ worker[j] \in Working /\ worker'[j] \in Working
               /\ filled'[j] = filled[j]
    BY <2>1 DEF Notify
  <2>2. ~Notify(j, "bye", "done")
    BY DEF Notify
  <2> QED
    BY <1>1, <2>1, <2>2 DEF NotifyStep
<1>2. CASE Declines(j) \/ Raises(j) \/ Enter(j)
  BY <1>2 DEF Declines, Raises, Enter, Emit
<1>3. CASE Sample(j) \/ SampleFails(j) \/ CrossBegin(j)
  BY <1>3 DEF Sample, SampleFails, CrossBegin, Emit
<1>4. CASE CrossCheck(j) \/ CrossEnd(j) \/ CheckCancelled(j)
  BY <1>4 DEF CrossCheck, CrossEnd, CheckCancelled, Emit
<1>5. CASE Poll(j) \/ ToolExits(j)
  BY <1>5 DEF Poll, ToolExits, Emit
<1>6. CASE ShredBlock(j) \/ ShredRemove(j) \/ ShredSkip(j)
  BY <1>6 DEF ShredBlock, ShredRemove, ShredSkip, Emit
<1>7. CASE ShredFails(j) \/ ShredCancelled(j) \/ ShredEnd(j)
  BY <1>7 DEF ShredFails, ShredCancelled, ShredEnd, Emit
<1> QED
  BY <1>1, <1>2, <1>3, <1>4, <1>5, <1>6, <1>7 DEF WorkerStep, Check, Shred

\* The end of a worker: the outcome and a terminal status at once.
LEMMA Ending ==
  ASSUME TypeOK, NEW j \in Jobs, WorkingOK(j), Settle(j) \/ Crash(j)
  PROVE  /\ WorkingOK(j)'
         /\ worker[j] \in Working
         /\ filled' = [filled EXCEPT ![j] = TRUE]
         /\ \E st \in Terminal : /\ st = "cancelled" => cancel[j]
                                 /\ Stage(j)' = st
<1> USE DEF TypeOK, WorkingOK, Goto, Working, work
<1>1. ASSUME NEW st \in Terminal, st = "cancelled" => cancel[j],
             status'[j] = st, filled'[j]
      PROVE  \E s \in Terminal : (s = "cancelled" => cancel[j]) /\ Stage(j)' = s
  BY <1>1 DEF Stage, Active, Terminal
<1>2. CASE Settle(j)
  <2>1. PICK st \in Terminal : /\ st = "cancelled" => cancel[j]
                              /\ status'[j] = st
    BY <1>2 DEF Settle, FinalStatus, Terminal
  <2>2. filled' = [filled EXCEPT ![j] = TRUE] /\ worker[j] = "settle"
    BY <1>2 DEF Settle
  <2>3. WorkingOK(j)'
    BY <1>2, <2>1 DEF Settle, Terminal, Active
  <2> QED
    BY <2>1, <2>2, <2>3, <1>1
<1>3. CASE Crash(j)
  <2>1. status'[j] = "failed" /\ filled' = [filled EXCEPT ![j] = TRUE] /\ worker[j] = "crash"
    BY <1>3 DEF Crash
  <2>2. WorkingOK(j)'
    BY <1>3, <2>1 DEF Crash
  <2>3. "failed" \in Terminal
    BY DEF Terminal
  <2> QED
    BY <2>1, <2>2, <2>3, <1>1
<1> QED
  BY <1>2, <1>3

\* The last notification changes nothing that a client reads.
LEMMA Farewell ==
  ASSUME TypeOK, NEW j \in Jobs, WorkingOK(j), WorkerStep(j), worker[j] = "bye"
  PROVE  WorkingOK(j)' /\ UNCHANGED <<status, filled>>
<1>1. Notify(j, "bye", "done")
  BY DEF WorkerStep, NotifyStep, Notify, Declines, Raises, Enter, Check, Sample, SampleFails,
         CrossBegin, CrossCheck, CrossEnd, CheckCancelled, Poll, ToolExits, Shred, ShredBlock,
         ShredRemove, ShredSkip, ShredFails, ShredCancelled, ShredEnd, Settle, Crash
<1> QED
  BY <1>1 DEF Notify, Goto, work, WorkingOK, TypeOK, Working

LEMMA WorkingStep ==
  ASSUME TypeOK, ControlOK, \A j \in Jobs : WorkingOK(j), [Next]_vars, NEW k \in Jobs
  PROVE  WorkingOK(k)'
<1> USE DEF WorkingOK, Goto, work, Working
<1>1. ASSUME NEW j \in Jobs, Insert(j) \/ RequestStep(j) \/ Cancel(j) PROVE WorkingOK(k)'
  BY <1>1 DEF Insert, RequestStep, Submit, Listen, Cancel, TypeOK, ControlOK, RequestOK
<1>2. CASE Begin
  BY <1>2, HeadOfQueue DEF Begin, TypeOK, ControlOK, Active
<1>3. ASSUME NEW j \in Jobs, WorkerStep(j) PROVE WorkingOK(k)'
  <2>1. CASE k = j
    BY <1>3, <2>1, StillWorking, Ending, Farewell
  <2>2. CASE k # j
    <3>1. /\ kind' = kind /\ cancel' = cancel /\ request' = request
          /\ status'[k] = status[k] /\ worker'[k] = worker[k]
          /\ out'[k] = out[k] /\ filled'[k] = filled[k]
      BY <1>3, <2>2, WorkerFrame
    <3> QED
      BY <3>1
  <2> QED
    BY <2>1, <2>2
<1>4. CASE UNCHANGED vars
  BY <1>4 DEF vars
<1> QED
  BY <1>1, <1>2, <1>3, <1>4 DEF Next

\* A step that changes the stage of one job changes the phase of that job.
LEMMA PhaseStep ==
  ASSUME NEW j \in Jobs, NEW st, Stage(j)' = st, \A k \in Jobs \ {j} : Stage(k)' = Stage(k)
  PROVE  Phase' = [Phase EXCEPT ![j] = st]
BY DEF Phase

\* Every step of a manager is a step of the life cycle, or none.
LEMMA LifecycleStep ==
  ASSUME TypeOK, ControlOK, \A j \in Jobs : WorkingOK(j), [Next]_vars
  PROVE  [Lifecycle!Next]_(Lifecycle!jobVars)
<1> USE DEF Lifecycle!Next, Lifecycle!jobVars
<1>1. /\ "absent" \notin Active \cup Terminal /\ "pending" \notin Active \cup Terminal
      /\ "running" \in Active /\ "sampling" \in Active
      /\ Lifecycle!Terminal = Terminal
  BY DEF Active, Terminal, Lifecycle!Terminal
<1>2. \A j \in Jobs : Phase[j] = Stage(j)
  BY DEF Phase
<1>0. kind' = kind
  BY KindStep
<1>3. ASSUME NEW j \in Jobs, Insert(j) PROVE Lifecycle!Create(j)
  <2>1. Stage(j) = "absent"
    BY <1>1, <1>3 DEF Insert, ControlOK, RequestOK, Stage
  <2>2. status' = [status EXCEPT ![j] = "pending"] /\ UNCHANGED <<filled, cancel>>
    BY <1>3 DEF Insert
  <2>3. Phase' = [Phase EXCEPT ![j] = "pending"]
    <3>1. Stage(j)' = "pending" /\ \A k \in Jobs \ {j} : Stage(k)' = Stage(k)
      BY <1>0, <1>1, <2>2 DEF TypeOK, Stage
    <3> QED
      BY <3>1, PhaseStep
  <2> QED
    BY <1>2, <2>1, <2>2, <2>3 DEF Lifecycle!Create
<1>4. ASSUME NEW j \in Jobs, RequestStep(j) PROVE UNCHANGED <<Phase, filled, cancel>>
  BY <1>0, <1>4 DEF RequestStep, Submit, Listen, Phase, Stage
<1>5. ASSUME NEW j \in Jobs, Cancel(j) PROVE Lifecycle!Ask(j)
  <2>1. Stage(j) \in {"pending", "running"}
    BY <1>1, <1>5 DEF Cancel, Stage
  <2>2. UNCHANGED Phase
    BY <1>0, <1>5 DEF Cancel, Phase, Stage
  <2> QED
    BY <1>2, <1>5, <2>1, <2>2 DEF Cancel, Lifecycle!Ask
<1>6. CASE Begin
  <2>0. PICK j \in Jobs : j = Head(queue)
    BY <1>6, HeadOfQueue DEF Begin, ControlOK
  <2>1. j \in Jobs /\ status[j] = "pending" /\ Stage(j) = "pending"
    BY <1>1, <1>6, <2>0, HeadOfQueue DEF Begin, ControlOK, RequestOK, Stage
  <2>2. PICK st \in {"running", "sampling"} :
          status' = [status EXCEPT ![j] = st] /\ UNCHANGED <<filled, cancel>>
    BY <1>6, <2>0 DEF Begin
  <2>3. Phase' = [Phase EXCEPT ![j] = "running"]
    <3>1. Stage(j)' = "running" /\ \A k \in Jobs \ {j} : Stage(k)' = Stage(k)
      BY <1>0, <1>1, <2>1, <2>2 DEF TypeOK, Stage
    <3> QED
      BY <2>1, <3>1, PhaseStep
  <2>4. Lifecycle!Run(j)
    BY <1>2, <2>1, <2>2, <2>3 DEF Lifecycle!Run
  <2> QED
    BY <2>1, <2>4
<1>7. ASSUME NEW j \in Jobs, WorkerStep(j)
      PROVE  \/ UNCHANGED <<Phase, filled, cancel>>
             \/ \E st \in Terminal : Lifecycle!Finish(j, st)
  <2>1. /\ UNCHANGED cancel
        /\ \A k \in Jobs \ {j} : status'[k] = status[k] /\ filled'[k] = filled[k]
    BY <1>7, WorkerFrame
  <2>2. \A k \in Jobs \ {j} : Stage(k)' = Stage(k)
    BY <1>0, <2>1 DEF Stage
  <2>3. CASE worker[j] = "bye"
    BY <1>0, <1>7, <2>1, <2>3, Farewell DEF Phase, Stage
  <2>4. CASE Settle(j) \/ Crash(j)
    <3>1. PICK st \in Terminal : /\ st = "cancelled" => cancel[j]
                                /\ Stage(j)' = st
      BY <2>4, Ending
    <3>2. Phase[j] = "running" /\ filled' = [filled EXCEPT ![j] = TRUE]
      BY <1>2, <2>4, Ending, WorkingStage
    <3>3. Phase' = [Phase EXCEPT ![j] = st]
      BY <2>2, <3>1, PhaseStep
    <3> QED
      BY <2>1, <3>1, <3>2, <3>3 DEF Lifecycle!Finish
  <2>5. CASE worker[j] # "bye" /\ ~(Settle(j) \/ Crash(j))
    <3>1. /\ WorkingOK(j)' /\ worker[j] \in Working /\ worker'[j] \in Working
          /\ filled'[j] = filled[j]
      BY <1>7, <2>5, StillWorking
    <3>2. TypeOK'
      BY TypeStep
    <3>3. Stage(j) = "running" /\ Stage(j)' = "running"
      <4>1. Stage(j) = "running"
        BY <3>1, WorkingStage
      <4>2. Stage(j)' = "running"
        BY <3>1, <3>2 DEF WorkingOK, Stage, Active, Terminal, TypeOK
      <4> QED
        BY <4>1, <4>2
    <3>4. UNCHANGED Phase
      BY <2>2, <3>3 DEF Phase
    <3>5. UNCHANGED filled
      <4>1. filled \in [Jobs -> BOOLEAN] /\ filled' \in [Jobs -> BOOLEAN]
        BY <3>2 DEF TypeOK
      <4> QED
        BY <2>1, <3>1, <4>1
    <3> QED
      BY <2>1, <3>4, <3>5
  <2> QED
    BY <2>3, <2>4, <2>5
<1>8. CASE UNCHANGED vars
  BY <1>8 DEF vars, Phase, Stage
<1> QED
  BY <1>1, <1>3, <1>4, <1>5, <1>6, <1>7, <1>8 DEF Next

(* The three managers implement the life cycle their clients rely on: the   *)
(* status goes from pending to running to one terminal status, is cancelled *)
(* only if somebody asked, and does not change once the outcome is there;   *)
(* that of a shred job is terminal only together with its outcome           *)
(* (shred_manager.py:125-191, verify_manager.py:105-153,                    *)
(* recovery_manager.py:109-157).                                            *)
THEOREM ManagersImplement == Spec => Implements
<1> DEFINE Inv == TypeOK /\ ControlOK /\ \A j \in Jobs : WorkingOK(j)
<1>1. Init => Inv
  <2>1. Init => \A j \in Jobs : WorkingOK(j)
    BY DEF Init, WorkingOK, Working
  <2> QED
    BY <2>1, TypeInit, ControlInit
<1>2. Inv /\ [Next]_vars => Inv'
  BY TypeStep, ControlStep, WorkingStep
<1>3. Init => Lifecycle!Init
  BY DEF Init, Lifecycle!Init, Phase, Stage, Active, Terminal
<1>4. Inv /\ [Next]_vars => [Lifecycle!Next]_(Lifecycle!jobVars)
  BY LifecycleStep
<1> QED
  BY <1>1, <1>2, <1>3, <1>4, PTL DEF Spec, Implements, Lifecycle!Spec

-----------------------------------------------------------------------------
(* The terminal status of a check or a batch.                              *)

\* A check that shows an end before it returns shows the one its outcome makes.
FinalOK(j) ==
  kind # "recovery" /\ status[j] \in Terminal =>
    /\ worker[j] \in {"farewell", "settle", "bye", "done"}
    /\ worker[j] \in {"farewell", "settle"} => status[j] = FinalStatus(j)

Final(j) == kind # "recovery" /\ status[j] \in Terminal => status'[j] = status[j]

LEMMA FinalWorker ==
  ASSUME TypeOK, NEW j \in Jobs, FinalOK(j), WorkerStep(j)
  PROVE  FinalOK(j)' /\ Final(j)
<1>0. kind' = kind
  BY KindStep DEF Next
<1> USE <1>0 DEF TypeOK, FinalOK, Final, FinalStatus, work, Goto, Returns, Terminal
<1>1. CASE NotifyStep(j)
  <2>1. ASSUME NEW from, NEW to, Notify(j, from, to),
               <<from, to>> \in {<<"hello", "enter">>, <<"said", "work">>, <<"crosshello", "cross">>,
                                 <<"farewell", "settle">>, <<"bye", "done">>}
        PROVE  FinalOK(j)' /\ Final(j)
    BY <2>1 DEF Notify
  <2> QED
    BY <1>1, <2>1 DEF NotifyStep
<1>2. CASE Declines(j) \/ Raises(j) \/ Enter(j)
  BY <1>2 DEF Declines, Raises, Enter, Emit
<1>3. CASE Sample(j) \/ SampleFails(j) \/ CrossBegin(j)
  BY <1>3 DEF Sample, SampleFails, CrossBegin, Emit
<1>4. CASE CrossCheck(j) \/ CrossEnd(j) \/ CheckCancelled(j)
  BY <1>4 DEF CrossCheck, CrossEnd, CheckCancelled, Emit
<1>5. CASE Poll(j) \/ ToolExits(j)
  BY <1>5 DEF Poll, ToolExits
<1>6. CASE ShredBlock(j) \/ ShredRemove(j) \/ ShredSkip(j)
  BY <1>6 DEF ShredBlock, ShredRemove, ShredSkip, Emit
<1>7. CASE ShredFails(j) \/ ShredCancelled(j) \/ ShredEnd(j)
  BY <1>7 DEF ShredFails, ShredCancelled, ShredEnd, Emit
<1>8. CASE Settle(j) \/ Crash(j)
  BY <1>8 DEF Settle, Crash
<1> QED
  BY <1>1, <1>2, <1>3, <1>4, <1>5, <1>6, <1>7, <1>8 DEF WorkerStep, Check, Shred

LEMMA FinalStep ==
  ASSUME TypeOK, ControlOK, \A j \in Jobs : FinalOK(j), [Next]_vars, NEW k \in Jobs
  PROVE  FinalOK(k)' /\ Final(k)
<1>0. kind' = kind
  BY KindStep
<1> USE <1>0 DEF FinalOK, Final, FinalStatus, Goto, work, Terminal
<1>1. ASSUME NEW j \in Jobs, Insert(j) \/ RequestStep(j) PROVE FinalOK(k)' /\ Final(k)
  BY <1>1 DEF Insert, RequestStep, Submit, Listen, TypeOK, ControlOK, RequestOK
<1>2. ASSUME NEW j \in Jobs, Cancel(j) PROVE FinalOK(k)' /\ Final(k)
  BY <1>2 DEF Cancel
<1>3. CASE Begin
  BY <1>3, HeadOfQueue DEF Begin, TypeOK, ControlOK, RequestOK
<1>4. ASSUME NEW j \in Jobs, WorkerStep(j) PROVE FinalOK(k)' /\ Final(k)
  <2>1. CASE k = j
    BY <1>4, <2>1, FinalWorker
  <2>2. CASE k # j
    <3>1. status'[k] = status[k] /\ worker'[k] = worker[k] /\ out'[k] = out[k]
      BY <1>4, <2>2, WorkerFrame
    <3> QED
      BY <3>1
  <2> QED
    BY <2>1, <2>2
<1>5. CASE UNCHANGED vars
  BY <1>5 DEF vars
<1> QED
  BY <1>1, <1>2, <1>3, <1>4, <1>5 DEF Next

(* A client that has seen a check or a batch end never sees another end of  *)
(* it, although its work function and _run both assign the status: they     *)
(* agree (verify_manager.py:118, 137-148; shred_manager.py:137-145).        *)
THEOREM EndStays == Spec => TerminalIsFinal
<1> DEFINE Inv == TypeOK /\ ControlOK /\ \A j \in Jobs : FinalOK(j)
<1>1. Init => Inv
  <2>1. Init => \A j \in Jobs : FinalOK(j)
    BY DEF Init, FinalOK, Terminal
  <2> QED
    BY <2>1, TypeInit, ControlInit
<1>2. Inv /\ [Next]_vars => Inv'
  BY TypeStep, ControlStep, FinalStep
<1>3. Inv /\ [Next]_vars
        => [\A j \in Jobs : kind # "recovery" /\ status[j] \in Terminal => status'[j] = status[j]]_vars
  BY FinalStep DEF Final
<1> QED
  BY <1>1, <1>2, <1>3, PTL DEF Spec, TerminalIsFinal
=============================================================================
