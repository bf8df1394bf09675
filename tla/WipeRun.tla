-------------------------------- MODULE WipeRun --------------------------------
(***************************************************************************)
(* Programs that work on one device, from the command to the exit status:  *)
(* the expert and interactive modes of the command line (cli/expert.py,    *)
(* cli/interactive.py, with the display of cli/progress.py), and the wipe  *)
(* of a session of the web service from its request to the engine's result *)
(* (what a session does around that is in module WipeSession).  The wipe   *)
(* is wipe_engine/engine.py with the passes of module Algorithms and the   *)
(* check of module Verification.  Each run has one thread, one step per    *)
(* block written or sample read; the host may mount the device and write.  *)
(***************************************************************************)
EXTENDS Algorithms, Verification

CONSTANTS
  Runs,      \* the programs, each executed once
  Host,      \* the host, another writer of the device
  Size,      \* blocks of the device
  HostBlocks,  \* those that belong to the file system the host may mount
  Requests,  \* what each run may be asked for (a set of Request)
  Killed     \* the exit status of a program that was killed

Callers == {"expert", "interactive", "session"}
Request == [caller : Callers, type : AlgorithmType, passes : {Nobody} \cup [{1} -> Int],
            layers : Int, overwrite : {"nist-clear", "nist-purge", "dod-3pass",
                                       "random", "zeros"}]

ASSUME RunAssumption ==
  /\ Size \in Nat \ {0}
  /\ HostBlocks \subseteq 1..Size
  /\ Host \notin Runs
  /\ \A r \in Runs : Requests[r] \subseteq Request
  /\ Killed \notin {0, 1}

VARIABLES
  stage,     \* what the run does next
  request,   \* what it was asked for
  dry,       \* --dry-run
  capacity,  \* device_info.capacity_bytes, as probed
  size,      \* device_size, as the engine measured it
  passes,    \* algorithm.get_passes()
  index,     \* which of them is being executed
  position,  \* blocks of it that are written
  bytes,     \* total_bytes_written, of the pass under way too
  shown,     \* bytes_processed of the display; in a session, the share of
             \* progress_percent in blocks
  taken, detections, signatures,  \* the samples so far
  verdict,   \* verification_passed
  success,   \* the operation is reported as successful
  cert,      \* a certificate was written
  status,    \* exit status, once the run has ended
  device,    \* what each block holds, and who wrote it
  wrote,     \* history: how often a run has written each block
  mounted

wipe  == <<index, position, bytes, shown, wrote, device>>
check == <<taken, detections, signatures>>
plan  == <<request, dry, capacity, passes>>
ended == <<success, cert, status>>
vars  == <<stage, plan, size, wipe, check, verdict, ended, mounted>>

Blocks == 1..Size
Stages == {"idle", "ask", "create", "measure", "validate", "write",
           "sample", "report", "ended"}
Caller(r) == request[r].caller
Pass(r)   == passes[r][index[r]]
Go(r, to) == stage' = [stage EXCEPT ![r] = to]
Exit(r, code) ==
  /\ Go(r, "ended")
  /\ status' = [status EXCEPT ![r] = code]
\* sys.exit(1); the interactive mode prints the error and returns.
Fail(r) == Exit(r, IF Caller(r) = "expert" THEN 1 ELSE 0)

TypeOK ==
  /\ stage \in [Runs -> Stages]
  /\ dry \in [Runs -> BOOLEAN]
  /\ capacity \in [Runs -> {0, Size}]
  /\ size \in [Runs -> {0, Size}]
  /\ passes \in [Runs -> Seq(WipePass)]
  /\ index \in [Runs -> Nat \ {0}]
  /\ position \in [Runs -> 0..Size]
  /\ bytes \in [Runs -> Nat]
  /\ shown \in [Runs -> Int]
  /\ taken \in [Runs -> Nat] /\ detections \in [Runs -> Nat]
  /\ signatures \in [Runs -> BOOLEAN]
  /\ verdict \in [Runs -> {"none", "passed", "failed", "unreadable"}]
  /\ success \in [Runs -> BOOLEAN]
  /\ cert \in [Runs -> BOOLEAN]
  /\ status \in [Runs -> {-1, 0, 1, Killed}]
  /\ device \in [Blocks -> [holds : Contents, by : Runs \cup {Host}]]
  /\ wrote \in [Runs -> [Blocks -> Nat]]
  /\ mounted \in BOOLEAN

Init ==
  /\ request \in [Runs -> UNION {Requests[r] : r \in Runs}]
  /\ \A r \in Runs : request[r] \in Requests[r]
  /\ capacity = [r \in Runs |-> 0]
  /\ stage = [r \in Runs |-> "idle"]
  /\ dry = [r \in Runs |-> FALSE]
  /\ size = [r \in Runs |-> 0]
  /\ passes = [r \in Runs |-> <<>>]
  /\ index = [r \in Runs |-> 1]
  /\ position = [r \in Runs |-> 0]
  /\ bytes = [r \in Runs |-> 0]
  /\ shown = [r \in Runs |-> 0]
  /\ taken = [r \in Runs |-> 0]
  /\ detections = [r \in Runs |-> 0]
  /\ signatures = [r \in Runs |-> FALSE]
  /\ verdict = [r \in Runs |-> "none"]
  /\ success = [r \in Runs |-> FALSE]
  /\ cert = [r \in Runs |-> FALSE]
  /\ status = [r \in Runs |-> -1]
  /\ device = [b \in Blocks |-> [holds |-> "data", by |-> Host]]
  /\ wrote = [r \in Runs |-> [b \in Blocks |-> 0]]
  /\ mounted = FALSE

-----------------------------------------------------------------------------
(* Plausible bugs, each a variant of the definition whose name it extends. *)

\* The position within the pass is not taken modulo the capacity.
AdvanceOfPass(r, done) == (done * capacity[r]) \div size[r] - shown[r]
\* A pass ends one block early.
PassDoneEarly(r) == position[r] >= size[r] - 1

-----------------------------------------------------------------------------
(* Before the engine is called.                                            *)

\* The device is unknown, or there is none to choose from.
NoDevice(r) ==
  /\ stage[r] = "idle"
  /\ Caller(r) # "session"
  /\ Exit(r, 0)
  /\ UNCHANGED <<plan, size, wipe, check, verdict, success, cert, mounted>>

Find(r) ==
  /\ stage[r] = "idle"
  /\ IF Caller(r) = "session"
     THEN Go(r, "create") /\ UNCHANGED capacity
     ELSE /\ Go(r, "ask")
          /\ \E n \in {0, Size} : capacity' = [capacity EXCEPT ![r] = n]
  /\ UNCHANGED <<request, dry, passes, size, wipe, check, verdict, ended, mounted>>

\* Neither --force nor --dry-run was given; the user does not confirm.
Refuse(r) ==
  /\ stage[r] = "ask"
  /\ Exit(r, 0)
  /\ UNCHANGED <<plan, size, wipe, check, verdict, success, cert, mounted>>

Agree(r) ==
  /\ stage[r] = "ask"
  /\ \E d \in BOOLEAN :
       /\ d => Caller(r) = "expert"
       /\ dry' = [dry EXCEPT ![r] = d]
  /\ Go(r, "create")
  /\ UNCHANGED <<request, capacity, passes, size, wipe, check, verdict, ended, mounted>>

(* A session leaves a parameter out that the request does not name, and    *)
(* three is the default; the command line passes what it has.              *)
PassesArgument(r) ==
  IF Caller(r) = "session" /\ request[r].passes \in {Nobody, <<0>>}
  THEN <<3>> ELSE request[r].passes

Create(r) ==
  /\ stage[r] = "create"
  /\ IF CreateRaises(request[r].type, PassesArgument(r))
     THEN Fail(r) /\ UNCHANGED passes
     ELSE /\ passes' = [passes EXCEPT ![r] =
               CreateAlgorithm(request[r].type, PassesArgument(r),
                               request[r].layers, request[r].overwrite)]
          /\ Go(r, "measure")
          /\ UNCHANGED status
  /\ UNCHANGED <<request, dry, capacity, size, wipe, check, verdict, success, cert, mounted>>

-----------------------------------------------------------------------------
(* The engine.                                                             *)

\* _get_device_size: zero when neither way of asking works.
Measure(r) ==
  /\ stage[r] = "measure"
  /\ \E n \in {0, Size} : size' = [size EXCEPT ![r] = n]
  /\ Go(r, IF dry[r] THEN "write" ELSE "validate")
  /\ UNCHANGED <<plan, wipe, check, verdict, ended, mounted>>

\* Not there, no permission, mounted: the exception leaves wipe_device.
ValidateRaises(r) ==
  /\ stage[r] = "validate"
  /\ Fail(r)
  /\ UNCHANGED <<plan, size, wipe, check, verdict, success, cert, mounted>>

Validate(r) ==
  /\ stage[r] = "validate"
  /\ ~mounted
  /\ Go(r, "write")
  /\ UNCHANGED <<plan, size, wipe, check, verdict, ended, mounted>>

\* What the callback adds to the display when so much of the pass is done.
Advance(r, done) == (done * capacity[r]) \div size[r] - (shown[r] % capacity[r])

\* A display divides by the capacity; when it is 0 the callback raises.
CallbackRaises(r) == Caller(r) # "session" /\ capacity[r] = 0
Display(r, done) ==
  shown' = [shown EXCEPT ![r] =
    CASE Caller(r) = "session" -> (Pass(r).number - 1) * size[r] + done
      [] CallbackRaises(r)     -> @
      [] OTHER                 -> @ + Most(0, Advance(r, done))]

PassDone(r) == position[r] >= size[r]

WriteBlock(r) ==
  LET b == position[r] + 1 IN
  /\ stage[r] = "write" /\ ~dry[r]
  /\ index[r] <= Len(passes[r]) /\ ~PassDone(r)
  /\ device' = [device EXCEPT ![b] = [holds |-> Pass(r).fill, by |-> r]]
  /\ wrote' = [wrote EXCEPT ![r][b] = @ + 1]
  /\ position' = [position EXCEPT ![r] = b]
  /\ bytes' = [bytes EXCEPT ![r] = @ + 1]
  /\ Display(r, b)
  /\ IF CallbackRaises(r) THEN Fail(r) ELSE UNCHANGED <<stage, status>>
  /\ UNCHANGED <<plan, size, index, check, verdict, success, cert, mounted>>

\* The device cannot be opened or written, and the pass is not a success.
WriteFails(r) ==
  /\ stage[r] = "write" /\ ~dry[r]
  /\ index[r] <= Len(passes[r])
  /\ Fail(r)
  /\ UNCHANGED <<plan, size, wipe, check, verdict, success, cert, mounted>>

NextPass(r) ==
  /\ stage[r] = "write"
  /\ index[r] <= Len(passes[r])
  /\ dry[r] \/ PassDone(r)
  /\ index' = [index EXCEPT ![r] = @ + 1]
  /\ position' = [position EXCEPT ![r] = 0]
  /\ bytes' = [bytes EXCEPT ![r] = IF dry[r] THEN @ + size[r] ELSE @]
  /\ UNCHANGED <<stage, plan, size, shown, wrote, device, check, verdict, ended, mounted>>

\* All passes are made; --verify, which a dry run does not heed.
EndPasses(r) ==
  /\ stage[r] = "write"
  /\ index[r] > Len(passes[r])
  /\ \E verify \in BOOLEAN : Go(r, IF verify /\ ~dry[r] THEN "sample" ELSE "report")
  /\ UNCHANGED <<plan, size, wipe, check, verdict, ended, mounted>>

-----------------------------------------------------------------------------
(* The verifier, and what is said in the end.                              *)

Samples(r) == SampleCount(size[r])

TakeSample(r) ==
  /\ stage[r] = "sample"
  /\ taken[r] < Samples(r)
  /\ \E start \in Starts(size[r], taken[r]) :
       LET held == {device[b].holds : b \in BlocksAt(start, size[r])} IN
       \E found \in ContainsRecoverableData(held), magic \in CheckFileSignatures(held) :
         /\ detections' = [detections EXCEPT ![r] = IF found THEN @ + 1 ELSE @]
         /\ signatures' = [signatures EXCEPT ![r] = @ \/ magic]
  /\ taken' = [taken EXCEPT ![r] = @ + 1]
  /\ UNCHANGED <<stage, plan, size, wipe, verdict, ended, mounted>>

\* What raises in the verifier is a check that did not pass.
CannotSample(r) ==
  /\ stage[r] = "sample"
  /\ verdict' = [verdict EXCEPT ![r] = "unreadable"]
  /\ Go(r, "report")
  /\ UNCHANGED <<plan, size, wipe, check, ended, mounted>>

Judge(r) ==
  /\ stage[r] = "sample"
  /\ taken[r] = Samples(r)
  /\ verdict' = [verdict EXCEPT ![r] =
       IF Passed(Samples(r), detections[r], signatures[r])
       THEN "passed" ELSE "failed"]
  /\ Go(r, "report")
  /\ UNCHANGED <<plan, size, wipe, check, ended, mounted>>

(* The operation is successful whatever the verification says, which only  *)
(* the certificate tells; one is written when it was asked for.  It names  *)
(* the first pass, and an algorithm without passes raises.                 *)
Report(r) ==
  /\ stage[r] = "report"
  /\ success' = [success EXCEPT ![r] = TRUE]
  /\ \/ Exit(r, 0) /\ UNCHANGED cert
     \/ /\ Caller(r) # "session" /\ ~dry[r] /\ passes[r] # <<>>
        /\ cert' = [cert EXCEPT ![r] = TRUE]
        /\ Exit(r, 0)
     \/ /\ Caller(r) # "session" /\ ~dry[r]     \* no first pass, or no file
        /\ Fail(r)
        /\ UNCHANGED cert
  /\ UNCHANGED <<plan, size, wipe, check, verdict, mounted>>

-----------------------------------------------------------------------------
(* The surroundings.                                                       *)

Kill(r) ==
  /\ stage[r] \notin {"idle", "ended"}
  /\ Exit(r, Killed)
  /\ UNCHANGED <<plan, size, wipe, check, verdict, success, cert, mounted>>

Mount ==
  /\ ~mounted /\ mounted' = TRUE
  /\ UNCHANGED <<stage, plan, size, wipe, check, verdict, ended>>

Unmount ==
  /\ mounted /\ mounted' = FALSE
  /\ UNCHANGED <<stage, plan, size, wipe, check, verdict, ended>>

HostWrite ==
  /\ mounted
  /\ \E b \in HostBlocks : device' = [device EXCEPT ![b] = [holds |-> "data", by |-> Host]]
  /\ UNCHANGED <<stage, plan, size, index, position, bytes, shown, wrote,
                 check, verdict, ended, mounted>>

Program(r) ==
  \/ NoDevice(r) \/ Find(r) \/ Refuse(r) \/ Agree(r) \/ Create(r)
  \/ Measure(r) \/ ValidateRaises(r) \/ Validate(r)
  \/ WriteBlock(r) \/ WriteFails(r) \/ NextPass(r) \/ EndPasses(r)
  \/ TakeSample(r) \/ CannotSample(r) \/ Judge(r) \/ Report(r)

Next == (\E r \in Runs : Program(r) \/ Kill(r)) \/ Mount \/ Unmount \/ HostWrite
Spec == Init /\ [][Next]_vars
-----------------------------------------------------------------------------
(* What a run says of its wipe is true.  A wipe that is reported as        *)
(* successful has overwritten every block of the size the engine measured  *)
(* once in every pass of its algorithm, whoever else wrote to the device,  *)
(* and states as many bytes; the expert mode exits with 0 from a wipe that *)
(* it began only then; and only such a wipe, no dry run and no algorithm   *)
(* without passes, has a certificate (expert.py:129-204).                  *)
Erased(r) ==
  /\ \A b \in 1..size[r] : wrote[r][b] = Len(passes[r])
  /\ bytes[r] = Len(passes[r]) * size[r]
OutcomeIsTrue ==
  \A r \in Runs :
    /\ success[r] /\ ~dry[r] => Erased(r)
    /\ Caller(r) = "expert" /\ status[r] = 0 /\ passes[r] # <<>> => success[r]
    /\ cert[r] => success[r] /\ ~dry[r] /\ passes[r] # <<>>

(* A device that a run has filled with zeros in its last pass and that     *)
(* nobody else has written to since does not fail its verification: the    *)
(* detectors do not mistake what the wipe leaves for data                  *)
(* (verification.py:281-301).                                              *)
NoFalseAlarm ==
  \A r \in Runs :
    verdict[r] = "failed" =>
      \/ \E b \in 1..size[r] : device[b].by # r
      \/ passes[r] = <<>>
      \/ passes[r][Len(passes[r])].fill # "zeros"

(* The progress shown is the progress made.  The display of the command    *)
(* line counts the blocks written, however the passes are numbered         *)
(* (expert.py:88-105); so does the percentage of a session, and the number *)
(* of passes it announces is the one it makes, for every algorithm that    *)
(* numbers its passes from 1 to the last (session_manager.py:194-246).     *)
Irregular == {"random", "rea-extreme", "custom"}
ProgressIsTrue ==
  \A r \in Runs :
    LET q == request[r] IN
    stage[r] = "write" /\ ~dry[r] =>
      /\ q.caller # "session" \/ q.type \notin Irregular =>
           shown[r] = (index[r] - 1) * size[r] + position[r]
      /\ q.type \notin Irregular /\ q.layers \in 1..7 =>
           GetTotalPasses(q.type, q.passes, q.layers, q.overwrite) = Len(passes[r])
===============================================================================
