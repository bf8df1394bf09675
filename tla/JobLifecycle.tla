---------------------------- MODULE JobLifecycle ----------------------------
(***************************************************************************)
(* What a background job of the web service promises the client that polls *)
(* it (GET /api/shred/{job_id} and its siblings in web/server.py): a job   *)
(* is pending, then running, then ended; once it shows a terminal status   *)
(* it never shows another, its outcome is there to be read, and it is      *)
(* cancelled only if somebody asked.                                       *)
(***************************************************************************)
CONSTANT Jobs

VARIABLES
  phase,  \* the status a client sees, with the stages of the work merged
  filled, \* is the result, or the error, of the job there?
  asked   \* was a cancellation accepted?

jobVars == <<phase, filled, asked>>

Terminal == {"completed", "failed", "cancelled"}

Init ==
  /\ phase = [j \in Jobs |-> "absent"]
  /\ filled = [j \in Jobs |-> FALSE]
  /\ asked = [j \in Jobs |-> FALSE]

Create(j) ==
  /\ phase[j] = "absent"
  /\ phase' = [phase EXCEPT ![j] = "pending"]
  /\ UNCHANGED <<filled, asked>>

Run(j) ==
  /\ phase[j] = "pending"
  /\ phase' = [phase EXCEPT ![j] = "running"]
  /\ UNCHANGED <<filled, asked>>

Ask(j) ==
  /\ phase[j] \in {"pending", "running"}
  /\ asked' = [asked EXCEPT ![j] = TRUE]
  /\ UNCHANGED <<phase, filled>>

Finish(j, st) ==
  /\ phase[j] = "running"
  /\ st = "cancelled" => asked[j]
  /\ phase' = [phase EXCEPT ![j] = st]
  /\ filled' = [filled EXCEPT ![j] = TRUE]
  /\ UNCHANGED asked

Next == \E j \in Jobs : Create(j) \/ Run(j) \/ Ask(j) \/ \E st \in Terminal : Finish(j, st)

Spec == Init /\ [][Next]_jobVars
=============================================================================
