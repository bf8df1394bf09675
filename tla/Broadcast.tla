------------------------------ MODULE Broadcast ------------------------------
(***************************************************************************)
(* The progress stream of one wipe or job: the list of its WebSockets, the *)
(* four endpoints that enter and leave it, and the four broadcasts that    *)
(* iterate it (web/server.py), as coroutines of one event loop.            *)
(*                                                                         *)
(* A coroutine keeps the loop until it waits; a send waits only if the     *)
(* buffer of its socket is full, or the socket is closing.  The content of *)
(* a message is the version of the progress that it carries.               *)
(***************************************************************************)
EXTENDS Naturals, SequencesExt

CONSTANTS
  Clients, \* sockets; one that reconnects is another socket
  Updates  \* how often the progress changes; the last change is the end

ASSUME BroadcastAssumption == Updates \in Nat \ {0}

Versions == 1..Updates

VARIABLES
  smooth,  \* does no send of this stream ever wait?
  live,    \* is the progress read when the broadcast runs, or when it is posted?
  now,     \* version of the progress that the worker has assigned
  posted,  \* version for which it has last called the callback
  task,    \* the coroutine that was posted for a version
  at,      \* its position in the list
  value,   \* the version that its message carries
  failed,  \* its disconnected_clients
  stale,   \* does it iterate a list that is no longer the stream's?
  loop,    \* the broadcast that keeps the event loop, or 0
  key,     \* has the dictionary an entry for the stream?
  conns,   \* the list in that entry
  client,  \* the socket and its endpoint
  seen     \* the version that the client was sent last

vars == <<smooth, live, now, posted, task, at, value, failed, stale, loop, key, conns,
          client, seen>>
stream    == <<smooth, live>>
source    == <<now, posted>>
broadcast == <<task, at, value, failed, stale>>
registry  == <<key, conns>>
sockets   == <<client, seen>>

-----------------------------------------------------------------------------
TypeOK ==
  /\ smooth \in BOOLEAN /\ live \in BOOLEAN
  /\ now \in 0..Updates /\ posted \in 0..now
  /\ task \in [Versions -> {"none", "posted", "sending", "done"}]
  /\ at \in [Versions -> 1..(Cardinality(Clients) + 1)]
  /\ value \in [Versions -> 0..Updates]
  /\ failed \in [Versions -> SUBSET Clients]
  /\ stale \in [Versions -> BOOLEAN]
  /\ loop \in 0..Updates
  /\ key \in BOOLEAN
  /\ conns \in Seq(Clients) /\ Len(conns) <= Cardinality(Clients)
  /\ client \in [Clients -> {"new", "open", "closed", "gone"}]
  /\ seen \in [Clients -> 0..Updates]

Init ==
  /\ smooth \in BOOLEAN /\ live \in BOOLEAN
  /\ now = 0 /\ posted = 0
  /\ task = [v \in Versions |-> "none"]
  /\ at = [v \in Versions |-> 1]
  /\ value = [v \in Versions |-> 0]
  /\ failed = [v \in Versions |-> {}]
  /\ stale = [v \in Versions |-> FALSE]
  /\ loop = 0
  /\ key = FALSE /\ conns = <<>>
  /\ client = [c \in Clients |-> "new"]
  /\ seen = [c \in Clients |-> 0]

\* The list that the coroutine iterates.
List(v) == IF stale[v] THEN <<>> ELSE conns

\* The entries of a list that are not in S.
Without(s, S) ==
  LET kept[n \in 0..Len(s)] ==
        IF n = 0 THEN <<>>
        ELSE IF s[n] \in S THEN kept[n - 1] ELSE Append(kept[n - 1], s[n])
  IN  kept[Len(s)]

-----------------------------------------------------------------------------
(* Plausible bugs, each a variant of the action whose name it extends.     *)

\* Every client starts a list of its own.
ConnectAlone(c) ==
  /\ loop = 0 /\ client[c] = "new"
  /\ client' = [client EXCEPT ![c] = "open"]
  /\ key' = TRUE
  /\ conns' = <<c>>
  /\ seen' = [seen EXCEPT ![c] = now]
  /\ UNCHANGED <<stream, source, broadcast, loop>>

\* The coroutines begin in any order.
StartAny(v) ==
  /\ loop = 0 /\ task[v] = "posted"
  /\ value' = [value EXCEPT ![v] = IF live THEN now ELSE @]
  /\ IF key THEN task' = [task EXCEPT ![v] = "sending"] /\ loop' = v
            ELSE task' = [task EXCEPT ![v] = "done"] /\ UNCHANGED loop
  /\ UNCHANGED <<stream, source, at, failed, stale, registry, sockets>>

\* The message of a live stream is made when it is posted.
StartOld(v) ==
  /\ loop = 0 /\ task[v] = "posted"
  /\ \A u \in 1..(v - 1) : task[u] # "posted"
  /\ IF key THEN task' = [task EXCEPT ![v] = "sending"] /\ loop' = v
            ELSE task' = [task EXCEPT ![v] = "done"] /\ UNCHANGED loop
  /\ UNCHANGED <<stream, source, at, value, failed, stale, registry, sockets>>

\* The first position of the list is skipped once the coroutine has waited.
ResumeNext(v) ==
  /\ loop = 0 /\ task[v] = "sending"
  /\ loop' = v
  /\ at' = [at EXCEPT ![v] = IF @ <= Cardinality(Clients) THEN @ + 1 ELSE @]
  /\ UNCHANGED <<stream, source, task, value, failed, stale, registry, sockets>>

-----------------------------------------------------------------------------
(* The worker thread.                                                      *)

Update ==
  /\ posted = now /\ now < Updates
  /\ now' = now + 1
  /\ UNCHANGED <<stream, posted, broadcast, loop, registry, sockets>>

\* The callback hands a broadcast to the event loop.
Post ==
  /\ posted < now
  /\ posted' = now
  /\ task' = [task EXCEPT ![now] = "posted"]
  /\ value' = [value EXCEPT ![now] = now]
  /\ UNCHANGED <<stream, now, at, failed, stale, loop, registry, sockets>>

-----------------------------------------------------------------------------
(* The endpoint of a client.                                               *)

\* From the end of accept to the wait for the client's messages: the client is
\* in the list before it is sent where the work stands.
Connect(c) ==
  /\ loop = 0 /\ client[c] = "new"
  /\ client' = [client EXCEPT ![c] = "open"]
  /\ key' = TRUE
  /\ conns' = Append(IF key THEN conns ELSE <<>>, c)
  /\ seen' = [seen EXCEPT ![c] = now]
  /\ UNCHANGED <<stream, source, broadcast, loop>>

\* A client goes away; nobody at the server knows yet.
Leave(c) ==
  /\ client[c] = "open"
  /\ client' = [client EXCEPT ![c] = "closed"]
  /\ UNCHANGED <<stream, source, broadcast, loop, registry, seen>>

\* The finally clause.  A client that a broadcast has already removed is not in
\* the list: an error is raised before the test for an empty list, and ignored.
Finally(c) ==
  /\ loop = 0 /\ client[c] = "closed"
  /\ client' = [client EXCEPT ![c] = "gone"]
  /\ IF key /\ Contains(conns, c)
       THEN /\ conns' = Without(conns, {c})
            /\ key' = (conns' # <<>>)
            /\ stale' = [v \in Versions |-> stale[v] \/ (task[v] = "sending" /\ ~key')]
       ELSE UNCHANGED <<registry, stale>>
  /\ UNCHANGED <<stream, source, task, at, value, failed, loop, seen>>

-----------------------------------------------------------------------------
(* The coroutine that was posted for version v.                            *)

\* The loop begins its coroutines in the order in which they were posted.
Start(v) ==
  /\ loop = 0 /\ task[v] = "posted"
  /\ \A u \in 1..(v - 1) : task[u] # "posted"
  /\ value' = [value EXCEPT ![v] = IF live THEN now ELSE @]
  /\ IF key THEN task' = [task EXCEPT ![v] = "sending"] /\ loop' = v
            ELSE task' = [task EXCEPT ![v] = "done"] /\ UNCHANGED loop
  /\ UNCHANGED <<stream, source, at, failed, stale, registry, sockets>>

\* The next client of the list is sent the message.  What is sent to one that
\* has gone away is lost, with or without an error.
Send(v) ==
  /\ loop = v /\ at[v] <= Len(List(v))
  /\ LET c == List(v)[at[v]] IN
       IF client[c] = "open"
         THEN seen' = [seen EXCEPT ![c] = value[v]] /\ UNCHANGED failed
         ELSE /\ failed' \in {failed, [failed EXCEPT ![v] = @ \cup {c}]}
              /\ UNCHANGED seen
  /\ at' = [at EXCEPT ![v] = @ + 1]
  /\ loop' \in IF smooth THEN {v} ELSE {v, 0}
  /\ UNCHANGED <<stream, source, task, value, stale, registry, client>>

Resume(v) ==
  /\ loop = 0 /\ task[v] = "sending"
  /\ loop' = v
  /\ UNCHANGED <<stream, source, broadcast, registry, sockets>>

\* The clients that failed are removed from the stream's list as it is then, if
\* it has one; an empty list stays.
End(v) ==
  /\ loop = v /\ at[v] > Len(List(v))
  /\ task' = [task EXCEPT ![v] = "done"]
  /\ loop' = 0
  /\ conns' = Without(conns, failed[v])
  /\ UNCHANGED <<stream, source, at, value, failed, stale, key, sockets>>

-----------------------------------------------------------------------------
Endpoint(c) == Connect(c) \/ Leave(c) \/ Finally(c)
Coroutine(v) == Start(v) \/ Send(v) \/ Resume(v) \/ End(v)

Next == Update \/ Post \/ (\E c \in Clients : Endpoint(c)) \/ (\E v \in Versions : Coroutine(v))

\* The event loop runs what is ready; a socket that takes nothing more is closed
\* by the server's ping timeout, so that no send waits for ever.
Fairness ==
  /\ WF_vars(Post)
  /\ \A c \in Clients : WF_vars(Finally(c))
  /\ \A v \in Versions : WF_vars(Coroutine(v))

Spec     == Init /\ [][Next]_vars
FairSpec == Spec /\ Fairness

-----------------------------------------------------------------------------
(* Properties.                                                             *)

(* A socket whose client is there is in the list once, whatever the others  *)
(* and the broadcasts remove and whenever the entry is deleted and made     *)
(* anew; one whose endpoint has ended is not in it (server.py:1005-1007,    *)
(* 1039-1045, 1248-1252).                                                   *)
Registered ==
  \A c \in Clients :
    LET places == {i \in 1..Len(conns) : conns[i] = c} IN
      /\ client[c] = "open" => Cardinality(places) = 1
      /\ client[c] = "gone" => places = {}

(* If no send waits, every client that stays is left with the end of the    *)
(* work: whenever it connects, whoever leaves, and whether the messages are *)
(* made when they are posted or when they are sent (server.py:1013, 1241).  *)
EndHeard ==
  smooth /\ <>(now = Updates) =>
    \A c \in Clients : <>[](client[c] # "open" \/ seen[c] = Updates)

(* If sends do wait but nobody leaves, every client is sent the end, though *)
(* perhaps an older message after it.                                       *)
HeardIfAllStay ==
  [](\A d \in Clients : client[d] \in {"new", "open"}) /\ <>(now = Updates) =>
    \A c \in Clients : <>(client[c] = "open") => <>(seen[c] = Updates)

(* The stream of a wipe, whose messages are made when they are sent, never  *)
(* goes back before a client's eyes if no send waits.                       *)
NeverBack ==
  [][smooth /\ live => \A c \in Clients : seen'[c] >= seen[c]]_vars

=============================================================================
