--------------------------- MODULE BroadcastProofs ---------------------------
(***************************************************************************)
(* Proofs about Broadcast, for every finite set of sockets and any number  *)
(* of versions.                                                            *)
(***************************************************************************)
EXTENDS Broadcast, SequenceTheorems, FiniteSetTheorems, WellFoundedInduction, TLAPS

-----------------------------------------------------------------------------
(* Induction over the naturals, for a set in place of a predicate.         *)

Less == {m \in Nat \X Nat : m[1] < m[2]}

LEMMA SetInduction ==
  ASSUME NEW A, 0 \in A, \A n \in Nat : n \in A => n + 1 \in A
  PROVE  Nat \subseteq A
<1> DEFINE B == Nat \ A
<1> SUFFICES ASSUME B # {} PROVE FALSE
  OBVIOUS
<1>1. IsWellFoundedOn(Less, Nat)
  BY NatLessThanWellFounded DEF OpToRel, Less
<1>2. PICK m \in B : \A k \in B : <<k, m>> \notin Less
  <2> HIDE DEF B
  <2> SUFFICES B \subseteq Nat
    BY <1>1, WFMin
  <2> QED BY DEF B
<1>3. m \in Nat /\ m # 0
  OBVIOUS
<1>4. m - 1 \in B => <<m - 1, m>> \in Less
  BY <1>3 DEF Less
<1>5. m - 1 \in Nat /\ m - 1 \in A /\ (m - 1) + 1 = m
  BY <1>2, <1>3, <1>4
<1> QED BY <1>5

-----------------------------------------------------------------------------
(* The entries of a list that stay when some are removed.                  *)

Filters(g, s, S, n) ==
  g = [i \in 0..n |-> IF i = 0 THEN <<>>
                      ELSE IF s[i] \in S THEN g[i - 1] ELSE Append(g[i - 1], s[i])]

LEMMA FilterExists ==
  ASSUME NEW s, Len(s) \in Nat, NEW S
  PROVE  \E g : Filters(g, s, S, Len(s))
<1> DEFINE A == {n \in Nat : \E g : Filters(g, s, S, n)}
<1>1. 0 \in A
  <2>1. Filters([i \in 0..0 |-> <<>>], s, S, 0)
    BY DEF Filters
  <2> QED BY <2>1
<1>2. ASSUME NEW n \in Nat, n \in A PROVE n + 1 \in A
  <2>1. PICK g : Filters(g, s, S, n)
    BY <1>2
  <2> DEFINE last == IF s[n + 1] \in S THEN g[n] ELSE Append(g[n], s[n + 1])
             h == [i \in 0..(n + 1) |-> IF i = n + 1 THEN last ELSE g[i]]
  <2>2. ASSUME NEW i \in 0..(n + 1)
        PROVE  h[i] = IF i = 0 THEN <<>>
                      ELSE IF s[i] \in S THEN h[i - 1] ELSE Append(h[i - 1], s[i])
    <3>1. CASE i = n + 1
      <4>1. h[n] = g[n] /\ h[n + 1] = last
        OBVIOUS
      <4> HIDE DEF h
      <4> QED BY <4>1, <3>1
    <3>2. CASE i \in 0..n
      <4>1. h[i] = g[i] /\ (i # 0 => h[i - 1] = g[i - 1])
        BY <3>2
      <4>2. g[i] = IF i = 0 THEN <<>>
                   ELSE IF s[i] \in S THEN g[i - 1] ELSE Append(g[i - 1], s[i])
        BY <2>1, <3>2 DEF Filters
      <4> HIDE DEF h
      <4> QED BY <4>1, <4>2
    <3> QED BY <3>1, <3>2
  <2>3. h = [i \in 0..(n + 1) |-> h[i]]
    OBVIOUS
  <2> HIDE DEF h
  <2>4. Filters(h, s, S, n + 1)
    BY <2>2, <2>3 DEF Filters
  <2> QED BY <2>4
<1> HIDE DEF A
<1>3. Nat \subseteq A
  BY <1>1, <1>2, SetInduction
<1> QED BY <1>3 DEF A

LEMMA WithoutFilters ==
  ASSUME NEW s, Len(s) \in Nat, NEW S
  PROVE  \E g : Filters(g, s, S, Len(s)) /\ Without(s, S) = g[Len(s)]
<1> DEFINE kept == CHOOSE g : Filters(g, s, S, Len(s))
<1>1. Filters(kept, s, S, Len(s))
  BY FilterExists
<1>2. Without(s, S) = kept[Len(s)]
  BY DEF Without, Filters
<1> HIDE DEF kept
<1> QED BY <1>1, <1>2

Places(s, c) == {i \in 1..Len(s) : s[i] = c}
Once(s) == \A i, j \in 1..Len(s) : s[i] = s[j] => i = j
Has(s, c) == \E i \in 1..Len(s) : s[i] = c

\* What stays is what is not in S, and no more often than before.
LEMMA WithoutFacts ==
  ASSUME NEW T, NEW s \in Seq(T), NEW S, Once(s)
  PROVE  /\ Without(s, S) \in Seq(T)
         /\ Once(Without(s, S))
         /\ \A c : Has(Without(s, S), c) <=> c \notin S /\ Has(s, c)
<1>1. PICK g : Filters(g, s, S, Len(s)) /\ Without(s, S) = g[Len(s)]
  BY WithoutFilters
<1> DEFINE Good(n) == /\ g[n] \in Seq(T)
                      /\ Once(g[n])
                      /\ \A c : Has(g[n], c) <=> c \notin S /\ \E i \in 1..n : s[i] = c
           A == {n \in Nat : n <= Len(s) => Good(n)}
<1>2. 0 \in A
  <2>1. g[0] = <<>>
    BY <1>1 DEF Filters
  <2>2. g[0] \in Seq(T) /\ Len(g[0]) = 0
    BY <2>1
  <2>3. Once(g[0]) /\ \A c : ~Has(g[0], c)
    BY <2>2 DEF Once, Has
  <2>4. 1..0 = {}
    OBVIOUS
  <2> QED BY <2>2, <2>3, <2>4
<1>3. ASSUME NEW n \in Nat, n \in A PROVE n + 1 \in A
  <2> SUFFICES ASSUME n + 1 <= Len(s) PROVE Good(n + 1)
    OBVIOUS
  <2>1. Good(n)
    BY <1>3
  <2>2. g[n + 1] = IF s[n + 1] \in S THEN g[n] ELSE Append(g[n], s[n + 1])
    <3>1. \A i \in 0..Len(s) : g[i] = IF i = 0 THEN <<>>
                                      ELSE IF s[i] \in S THEN g[i - 1] ELSE Append(g[i - 1], s[i])
      BY <1>1 DEF Filters
    <3>2. n + 1 \in 0..Len(s) /\ n + 1 # 0 /\ (n + 1) - 1 = n
      OBVIOUS
    <3> QED BY <3>1, <3>2
  <2>3. CASE s[n + 1] \in S
    <3>1. g[n + 1] = g[n]
      BY <2>2, <2>3
    <3>2. \A c : c \notin S => ((\E i \in 1..(n + 1) : s[i] = c) <=> \E i \in 1..n : s[i] = c)
      <4>1. \A i \in 1..(n + 1) : i = n + 1 \/ i \in 1..n
        OBVIOUS
      <4> QED BY <2>3, <4>1
    <3> QED BY <2>1, <3>1, <3>2
  <2>4. CASE s[n + 1] \notin S
    <3> DEFINE t == g[n]
               x == s[n + 1]
    <3>1. g[n + 1] = Append(t, x) /\ x \in T /\ t \in Seq(T)
      BY <2>1, <2>2, <2>4
    <3>2. ~Has(t, x)
      <4>1. \A i \in 1..n : s[i] # s[n + 1]
        BY DEF Once
      <4> QED BY <2>1, <4>1
    <3> HIDE DEF t, x
    <3>3. Append(t, x) \in Seq(T) /\ Len(Append(t, x)) = Len(t) + 1
          /\ \A i \in 1..(Len(t) + 1) : Append(t, x)[i] = IF i = Len(t) + 1 THEN x ELSE t[i]
      BY <3>1
    <3>4. Once(t)
      BY <2>1 DEF t
    <3>5. Once(Append(t, x))
      BY <3>1, <3>2, <3>3, <3>4 DEF Once, Has
    <3>6. \A c : Has(Append(t, x), c) <=> Has(t, c) \/ c = x
      BY <3>1, <3>3 DEF Has
    <3>7. \A c : (\E i \in 1..(n + 1) : s[i] = c) <=> (\E i \in 1..n : s[i] = c) \/ c = x
      <4>1. \A i \in 1..(n + 1) : i = n + 1 \/ i \in 1..n
        OBVIOUS
      <4> QED BY <4>1 DEF x
    <3>8. \A c : Has(t, c) <=> c \notin S /\ \E i \in 1..n : s[i] = c
      BY <2>1 DEF t
    <3>9. \A c : Has(Append(t, x), c) <=> c \notin S /\ \E i \in 1..(n + 1) : s[i] = c
      BY <3>6, <3>7, <3>8, <2>4 DEF x
    <3> QED BY <3>1, <3>3, <3>5, <3>9
  <2> QED BY <2>3, <2>4
<1> HIDE DEF A
<1>4. Nat \subseteq A
  BY <1>2, <1>3, SetInduction
<1>5. Good(Len(s))
  <2>1. Len(s) \in Nat /\ Len(s) <= Len(s)
    OBVIOUS
  <2>2. Len(s) \in A
    BY <1>4, <2>1
  <2> QED BY <2>1, <2>2 DEF A
<1> QED BY <1>1, <1>5 DEF Has

-----------------------------------------------------------------------------
(* The list: nobody is in it twice, everybody who is there is in it, and a  *)
(* broadcast removes only those who have gone away.                         *)

ListInv ==
  /\ conns \in Seq(Clients) /\ Once(conns)
  /\ ~key => conns = <<>>
  /\ \A c \in Clients :
       /\ Has(conns, c) => client[c] \in {"open", "closed"}
       /\ client[c] = "open" => Has(conns, c)
       /\ \A v \in Versions : c \in failed[v] => client[c] \in {"closed", "gone"}
  /\ client \in [Clients -> {"new", "open", "closed", "gone"}]
  /\ failed \in [Versions -> SUBSET Clients]
  /\ at \in [Versions -> Nat \ {0}]

LEMMA ListInit == Init => ListInv
<1> SUFFICES ASSUME Init PROVE ListInv
  OBVIOUS
<1>1. conns = <<>> /\ conns \in Seq(Clients) /\ Len(conns) = 0
  BY DEF Init
<1>2. Once(conns) /\ \A c : ~Has(conns, c)
  BY <1>1 DEF Once, Has
<1> QED BY <1>1, <1>2 DEF Init, ListInv

\* A list that one more is appended to.
LEMMA AppendFacts ==
  ASSUME NEW T, NEW s \in Seq(T), NEW x \in T, Once(s), ~Has(s, x)
  PROVE  /\ Append(s, x) \in Seq(T)
         /\ Once(Append(s, x))
         /\ \A c : Has(Append(s, x), c) <=> Has(s, c) \/ c = x
<1>1. Append(s, x) \in Seq(T) /\ Len(Append(s, x)) = Len(s) + 1
      /\ \A i \in 1..(Len(s) + 1) : Append(s, x)[i] = IF i = Len(s) + 1 THEN x ELSE s[i]
  OBVIOUS
<1>2. Once(Append(s, x))
  BY <1>1 DEF Once, Has
<1>3. \A c : Has(Append(s, x), c) <=> Has(s, c) \/ c = x
  BY <1>1 DEF Has
<1> QED BY <1>1, <1>2, <1>3

LEMMA ListStep == ASSUME ListInv, [Next]_vars PROVE ListInv'
<1> USE DEF ListInv
<1>1. ASSUME UNCHANGED <<registry, client, failed, at>> PROVE ListInv'
  BY <1>1 DEF registry, Versions
<1>2. ASSUME NEW c \in Clients, Connect(c) PROVE ListInv'
  <2> DEFINE s == IF key THEN conns ELSE <<>>
  <2>1. s = conns
    OBVIOUS
  <2>2. ~Has(conns, c)
    BY <1>2 DEF Connect
  <2>3. conns' = Append(conns, c)
    BY <1>2, <2>1 DEF Connect
  <2>4. conns' \in Seq(Clients) /\ Once(conns') /\ \A d : Has(conns', d) <=> Has(conns, d) \/ d = c
    BY <2>2, <2>3, AppendFacts
  <2>5. client' = [client EXCEPT ![c] = "open"] /\ key' /\ failed' = failed /\ at' = at
        /\ client[c] = "new"
    BY <1>2 DEF Connect, broadcast
  <2> HIDE DEF s
  <2> QED BY <2>4, <2>5
<1>3. ASSUME NEW c \in Clients, Leave(c) PROVE ListInv'
  BY <1>3 DEF Leave, registry, broadcast
<1>4. ASSUME NEW c \in Clients, Finally(c) PROVE ListInv'
  <2>1. CASE key /\ Contains(conns, c)
    <3>1. conns' = Without(conns, {c}) /\ (key' <=> conns' # <<>>)
      BY <1>4, <2>1 DEF Finally
    <3>2. conns' \in Seq(Clients) /\ Once(conns') /\ \A d : Has(conns', d) <=> d # c /\ Has(conns, d)
      BY <3>1, WithoutFacts
    <3>3. client' = [client EXCEPT ![c] = "gone"] /\ client[c] = "closed" /\ failed' = failed /\ at' = at
      BY <1>4 DEF Finally
    <3> QED BY <3>1, <3>2, <3>3
  <2>2. CASE ~(key /\ Contains(conns, c))
    <3>1. UNCHANGED <<conns, key, failed, at>>
      BY <1>4, <2>2 DEF Finally, registry
    <3>2. client' = [client EXCEPT ![c] = "gone"] /\ client[c] = "closed"
      BY <1>4 DEF Finally
    <3>3. Has(conns, c) => key
      BY DEF Has
    <3>4. ~Has(conns, c)
      BY <2>2, <3>3 DEF Contains, Has
    <3> QED BY <3>1, <3>2, <3>4
  <2> QED BY <2>1, <2>2
<1>5. ASSUME NEW v \in Versions, Send(v) PROVE ListInv'
  <2> DEFINE c == List(v)[at[v]]
  <2>1. CASE client[c] = "open"
    <3>1. UNCHANGED <<conns, key, client, failed>> /\ at' = [at EXCEPT ![v] = @ + 1]
      BY <1>5, <2>1 DEF Send, registry
    <3> QED BY <3>1
  <2>2. CASE client[c] # "open"
    <3>1. UNCHANGED <<conns, key, client>> /\ at' = [at EXCEPT ![v] = @ + 1]
      BY <1>5 DEF Send, registry
    <3>2. failed' = failed \/ failed' = [failed EXCEPT ![v] = @ \cup {c}]
      BY <1>5, <2>2 DEF Send
    <3>3. c \in Clients /\ client[c] \in {"closed", "gone"}
      <4>1. Len(List(v)) \in Nat /\ loop = v /\ at[v] <= Len(List(v))
        BY <1>5 DEF Send, List
      <4>2. at[v] \in 1..Len(conns) /\ c = conns[at[v]]
        BY <4>1 DEF List
      <4>3. Has(conns, c) /\ c \in Clients
        BY <4>2 DEF Has
      <4> QED BY <2>2, <4>3
    <3> HIDE DEF c
    <3>4. at' \in [Versions -> Nat \ {0}] /\ failed' \in [Versions -> SUBSET Clients]
      BY <3>1, <3>2, <3>3
    <3>5. \A w \in Versions : \A d \in failed'[w] : d \in failed[w] \/ d = c
      BY <3>2
    <3> QED BY <3>1, <3>3, <3>4, <3>5
  <2> QED BY <2>1, <2>2
<1>6. ASSUME NEW v \in Versions, End(v) PROVE ListInv'
  <2>1. conns' = Without(conns, failed[v]) /\ UNCHANGED <<key, failed, client, at>>
    BY <1>6 DEF End, sockets
  <2>2. conns' \in Seq(Clients) /\ Once(conns')
        /\ \A d : Has(conns', d) <=> d \notin failed[v] /\ Has(conns, d)
    BY <2>1, WithoutFacts
  <2>3. ~key => conns' = <<>>
    <3>1. ASSUME ~key PROVE Len(conns') = 0
      <4>1. \A d : ~Has(conns, d)
        BY <3>1 DEF Has
      <4>2. Len(conns') # 0 => Has(conns', conns'[1])
        BY <2>2 DEF Has
      <4> QED BY <2>2, <4>1, <4>2
    <3> QED BY <3>1, <2>2
  <2> QED BY <2>1, <2>2, <2>3
<1>7. CASE Update \/ Post \/ UNCHANGED vars
  BY <1>1, <1>7 DEF Update, Post, vars, broadcast, registry, sockets
<1>8. ASSUME NEW v \in Versions, Start(v) \/ Resume(v) PROVE ListInv'
  BY <1>1, <1>8 DEF Start, Resume, broadcast, registry, sockets
<1> QED BY <1>2, <1>3, <1>4, <1>5, <1>6, <1>7, <1>8 DEF Next, Endpoint, Coroutine

(* Whoever connects, leaves or is removed by whichever broadcast, a socket  *)
(* whose client is there is in the list exactly once, for any number of     *)
(* sockets and broadcasts that overlap (server.py:1005-1045, 1241-1252).    *)
THEOREM RegisteredOnce == Spec => []Registered
<1>1. ListInv => Registered
  <2> SUFFICES ASSUME ListInv, NEW c \in Clients
               PROVE  /\ client[c] = "open" => Cardinality({i \in 1..Len(conns) : conns[i] = c}) = 1
                      /\ client[c] = "gone" => {i \in 1..Len(conns) : conns[i] = c} = {}
    BY DEF Registered
  <2>1. ASSUME client[c] = "open" PROVE Cardinality({i \in 1..Len(conns) : conns[i] = c}) = 1
    <3>1. PICK i \in 1..Len(conns) : conns[i] = c
      BY <2>1 DEF ListInv, Has
    <3>2. {j \in 1..Len(conns) : conns[j] = c} = {i}
      BY <3>1 DEF ListInv, Once
    <3> QED BY <3>2, FS_Singleton
  <2>2. ASSUME client[c] = "gone" PROVE {i \in 1..Len(conns) : conns[i] = c} = {}
    BY <2>2 DEF ListInv, Has
  <2> QED BY <2>1, <2>2
<1> QED BY <1>1, ListInit, ListStep, PTL DEF Spec

-----------------------------------------------------------------------------
(* Types.  A list in which nobody is twice is no longer than the clients.  *)

OrderInv ==
  /\ now \in 0..Updates /\ posted \in 0..now /\ now <= posted + 1
  /\ task \in [Versions -> {"none", "posted", "sending", "done"}]
  /\ value \in [Versions -> 0..Updates]
  /\ seen \in [Clients -> 0..Updates]
  /\ \A v \in Versions :
       /\ task[v] # "none" <=> v <= posted
       /\ value[v] <= now
       /\ v <= posted /\ task[v] # "posted" => value[v] >= v
       /\ v <= posted /\ ~live => value[v] = v
       /\ task[v] \in {"none", "posted"} => at[v] = 1
  /\ \A c \in Clients : seen[c] <= now
  /\ loop \in 0..Updates /\ (loop # 0 => task[loop] = "sending")
  /\ stale \in [Versions -> BOOLEAN]
  /\ smooth \in BOOLEAN /\ live \in BOOLEAN /\ key \in BOOLEAN

LEMMA OrderInit == Init => OrderInv
<1> SUFFICES ASSUME Init PROVE OrderInv
  OBVIOUS
<1>1. now = 0 /\ posted = 0 /\ loop = 0 /\ Updates \in Nat \ {0} /\ \A v \in Versions : ~(v <= posted)
  BY BroadcastAssumption DEF Init, Versions
<1>2. \A v \in Versions : task[v] = "none" /\ value[v] = 0 /\ at[v] = 1
  BY DEF Init
<1>3. /\ task \in [Versions -> {"none", "posted", "sending", "done"}]
      /\ value \in [Versions -> 0..Updates] /\ stale \in [Versions -> BOOLEAN]
      /\ seen \in [Clients -> 0..Updates] /\ \A c \in Clients : seen[c] = 0
  BY <1>1 DEF Init
<1>4. smooth \in BOOLEAN /\ live \in BOOLEAN /\ key \in BOOLEAN
  BY DEF Init
<1> QED BY <1>1, <1>2, <1>3, <1>4 DEF OrderInv

LEMMA OrderStep == ASSUME ListInv, OrderInv, [Next]_vars PROVE OrderInv'
<1> USE BroadcastAssumption DEF OrderInv, Versions
<1>1. CASE Update
  BY <1>1 DEF Update, stream, broadcast, registry, sockets
<1>2. CASE Post
  <2>1. now \in Versions /\ now = posted + 1
    BY <1>2 DEF Post
  <2>2. task[now] = "none"
    BY <2>1
  <2> QED BY <1>2, <2>1, <2>2 DEF Post, stream, registry, sockets
<1>3. ASSUME NEW c \in Clients, Connect(c) PROVE OrderInv'
  BY <1>3 DEF Connect, stream, source, broadcast
<1>4. ASSUME NEW c \in Clients, Leave(c) PROVE OrderInv'
  BY <1>4 DEF Leave, stream, source, broadcast, registry
<1>5. ASSUME NEW c \in Clients, Finally(c) PROVE OrderInv'
  <2> DEFINE Typed == stale' \in [Versions -> BOOLEAN] /\ key' \in BOOLEAN
  <2>1. ASSUME key /\ Contains(conns, c) PROVE Typed
    <3>1. stale' = [v \in Versions |-> stale[v] \/ (task[v] = "sending" /\ ~key')]
      BY <1>5, <2>1 DEF Finally
    <3>2. key' = (conns' # <<>>)
      BY <1>5, <2>1 DEF Finally
    <3>3. key' \in BOOLEAN
      BY <3>2
    <3>4. \A v \in Versions : (stale[v] \/ (task[v] = "sending" /\ ~key')) \in BOOLEAN
      OBVIOUS
    <3> QED
      BY Zenon, <3>1, <3>3, <3>4
  <2>2. ASSUME ~(key /\ Contains(conns, c)) PROVE Typed
    BY <1>5, <2>2 DEF Finally, registry
  <2>3. stale' \in [Versions -> BOOLEAN] /\ key' \in BOOLEAN
    BY Zenon, <2>1, <2>2
  <2> QED BY <1>5, <2>3 DEF Finally, stream, source
<1>6. ASSUME NEW v \in Versions, Start(v) PROVE OrderInv'
  <2>1. task[v] = "posted" /\ v <= posted
    BY <1>6 DEF Start
  <2>2. value' = [value EXCEPT ![v] = IF live THEN now ELSE @]
    BY <1>6 DEF Start
  <2>3. \/ task' = [task EXCEPT ![v] = "sending"] /\ loop' = v
        \/ task' = [task EXCEPT ![v] = "done"] /\ loop' = loop
    BY <1>6 DEF Start
  <2>4. UNCHANGED <<now, posted, at, stale, smooth, live, key, seen>>
    BY <1>6 DEF Start, stream, source, registry, sockets
  <2> QED BY SMTT(40), <1>6, <2>1, <2>2, <2>3, <2>4
<1>7. ASSUME NEW v \in Versions, Send(v) PROVE OrderInv'
  <2> DEFINE c == List(v)[at[v]]
  <2>1. seen' = seen \/ seen' = [seen EXCEPT ![c] = value[v]]
    BY <1>7 DEF Send
  <2>2. at' = [at EXCEPT ![v] = @ + 1] /\ task[v] = "sending" /\ loop' \in {v, 0}
    BY <1>7 DEF Send
  <2>3. UNCHANGED <<now, posted, task, value, stale, smooth, live, key>>
    BY <1>7 DEF Send, stream, source, registry
  <2> HIDE DEF c
  <2>4. value[v] \in 0..Updates /\ value[v] <= now
    OBVIOUS
  <2>5. seen' \in [Clients -> 0..Updates] /\ \A d \in Clients : seen'[d] <= now
    BY <2>1, <2>4
  <2>6. \A w \in Versions : task[w] \in {"none", "posted"} => at'[w] = 1
    BY <2>2 DEF ListInv
  <2> QED BY <2>2, <2>3, <2>5, <2>6
<1>8. ASSUME NEW v \in Versions, Resume(v) PROVE OrderInv'
  BY <1>8 DEF Resume, stream, source, broadcast, registry, sockets
<1>9. ASSUME NEW v \in Versions, End(v) PROVE OrderInv'
  <2>1. task[v] = "sending"
    BY <1>9 DEF End
  <2> QED BY <1>9, <2>1 DEF End, stream, source, sockets
<1>10. CASE UNCHANGED vars
  BY <1>10 DEF vars, stream, source, broadcast, registry, sockets
<1> QED BY <1>1, <1>2, <1>3, <1>4, <1>5, <1>6, <1>7, <1>8, <1>9, <1>10 DEF Next, Endpoint, Coroutine

LEMMA ListIsShort ==
  ASSUME IsFiniteSet(Clients), ListInv
  PROVE  Len(conns) \in 0..Cardinality(Clients) /\ Cardinality(Clients) \in Nat
<1>1. conns \in [1..Len(conns) -> Clients] /\ Len(conns) \in Nat
  BY DEF ListInv
<1>2. \A i, j \in 1..Len(conns) : conns[i] = conns[j] => i = j
  BY DEF ListInv, Once
<1>3. Cardinality(Clients) \in Nat
  BY FS_CardinalityType
<1>4. IsFiniteSet(1..Len(conns)) /\ Cardinality(1..Len(conns)) = Len(conns)
  <2> DEFINE n == Len(conns)
  <2>1. 1 \in Int /\ n \in Int /\ n \in Nat
    BY <1>1
  <2> HIDE DEF n
  <2>2. IsFiniteSet(1..n) /\ Cardinality(1..n) = n
    BY <2>1, FS_Interval
  <2> QED BY <2>2 DEF n
<1>5. ~(Cardinality(Clients) < Len(conns))
  BY <1>1, <1>2, <1>4, FS_PigeonHole
<1> QED BY <1>1, <1>3, <1>5

\* The position in the list is one behind its end at most, unless the list
\* has become shorter meanwhile.
PlaceInv == \A v \in Versions : at[v] <= Cardinality(Clients) + 1

LEMMA PlaceStep ==
  ASSUME IsFiniteSet(Clients), ListInv, OrderInv, PlaceInv, [Next]_vars
  PROVE  PlaceInv'
<1>1. CASE UNCHANGED at
  BY <1>1 DEF PlaceInv, Versions
<1>2. ASSUME NEW v \in Versions, Send(v) PROVE PlaceInv'
  <2>1. at' = [at EXCEPT ![v] = @ + 1] /\ at[v] <= Len(List(v))
    BY <1>2 DEF Send
  <2>2. at[v] <= Len(conns)
    BY <2>1, ListIsShort DEF List, ListInv
  <2> QED BY <2>1, <2>2, ListIsShort DEF PlaceInv, ListInv
<1>3. \/ UNCHANGED at
      \/ \E v \in Versions : Send(v)
  BY DEF Next, Endpoint, Coroutine, Update, Post, Connect, Leave, Finally, Start, Resume, End,
         vars, broadcast
<1> QED BY <1>1, <1>2, <1>3

(* The types of the stream and of the coroutines that iterate its list; the *)
(* list is never longer than the clients there are.                         *)
THEOREM Types == ASSUME IsFiniteSet(Clients) PROVE Spec => []TypeOK
<1> DEFINE Inv == ListInv /\ OrderInv /\ PlaceInv
<1>1. Init => Inv
  <2>1. Init => PlaceInv
    BY FS_CardinalityType DEF Init, PlaceInv
  <2> QED BY <2>1, ListInit, OrderInit
<1>2. Inv /\ [Next]_vars => Inv'
  BY ListStep, OrderStep, PlaceStep
<1>3. Inv => TypeOK
  <2> SUFFICES ASSUME Inv PROVE TypeOK
    OBVIOUS
  <2>1. at \in [Versions -> 1..(Cardinality(Clients) + 1)]
    BY ListIsShort DEF ListInv, PlaceInv
  <2> QED BY <2>1, ListIsShort DEF TypeOK, ListInv, OrderInv
<1> HIDE DEF Inv
<1> QED BY <1>1, <1>2, <1>3, PTL DEF Spec

-----------------------------------------------------------------------------
(* If no send waits, a broadcast has the event loop until it ends: while it *)
(* runs nobody connects, the list stays, and its message is no older than   *)
(* what anybody was sent.                                                   *)

SmoothInv ==
  smooth =>
    /\ \A v \in Versions :
         /\ task[v] = "sending" => loop = v
         /\ ~stale[v]
         /\ task[v] \in {"sending", "done"} => \A u \in 1..(v - 1) : task[u] = "done"
    /\ live /\ loop # 0 => \A c \in Clients : seen[c] <= value[loop]

LEMMA SmoothStep == ASSUME ListInv, OrderInv, SmoothInv, [Next]_vars PROVE SmoothInv'
<1> USE BroadcastAssumption DEF SmoothInv, Versions
<1> SUFFICES ASSUME smooth PROVE SmoothInv'
  <2>1. smooth' = smooth
    BY DEF Next, Endpoint, Coroutine, Update, Post, Connect, Leave, Finally, Start, Resume, End,
           Send, vars, stream
  <2> QED BY <2>1
<1>1. CASE Update \/ UNCHANGED vars
  BY <1>1 DEF Update, vars, stream, broadcast, registry, sockets
<1>2. CASE Post
  <2>1. now \in Versions /\ task[now] = "none" /\ loop # now
    BY <1>2 DEF Post, OrderInv
  <2>2. task' = [task EXCEPT ![now] = "posted"] /\ value' = [value EXCEPT ![now] = now]
        /\ UNCHANGED <<smooth, live, loop, stale, seen>>
    BY <1>2 DEF Post, stream, sockets
  <2> QED BY <2>1, <2>2 DEF OrderInv
<1>3. ASSUME NEW c \in Clients, Endpoint(c) PROVE SmoothInv'
  <2>1. CASE Connect(c)
    BY <2>1 DEF Connect, stream, broadcast
  <2>2. CASE Leave(c)
    BY <2>2 DEF Leave, stream, broadcast
  <2>3. CASE Finally(c)
    <3>1. loop = 0 /\ UNCHANGED <<loop, task, live>>
      BY <2>3 DEF Finally, stream
    <3>2. \A v \in Versions : task[v] # "sending"
      BY <3>1
    <3>3. \A v \in Versions : ~stale'[v]
      BY <2>3, <3>2 DEF Finally, registry
    <3> QED BY <3>1, <3>3
  <2> QED BY <1>3, <2>1, <2>2, <2>3 DEF Endpoint
<1>4. ASSUME NEW v \in Versions, Start(v) PROVE SmoothInv'
  <2>1. loop = 0 /\ task[v] = "posted" /\ v <= posted /\ \A u \in 1..(v - 1) : task[u] # "posted"
    BY <1>4 DEF Start, OrderInv
  <2>2. \A u \in 1..(v - 1) : u \in Versions /\ u <= posted /\ task[u] = "done"
    BY <2>1 DEF OrderInv
  <2>3. \/ task' = [task EXCEPT ![v] = "sending"] /\ loop' = v
        \/ task' = [task EXCEPT ![v] = "done"] /\ loop' = loop
    BY <1>4 DEF Start
  <2>4. UNCHANGED <<smooth, live, stale, seen>> /\ value' = [value EXCEPT ![v] = IF live THEN now ELSE @]
    BY <1>4 DEF Start, stream, sockets
  <2>5. \A u \in Versions : task'[u] \in {"sending", "done"} => \A w \in 1..(u - 1) : task'[w] = "done"
    <3> SUFFICES ASSUME NEW u \in Versions, task'[u] \in {"sending", "done"}, NEW w \in 1..(u - 1)
                 PROVE  task'[w] = "done"
      OBVIOUS
    <3>1. CASE u = v
      BY <2>2, <2>3, <3>1 DEF OrderInv
    <3>2. CASE u # v
      <4>1. task[u] \in {"sending", "done"} /\ task[w] = "done" /\ w # v
        BY <2>1, <2>3, <3>2 DEF OrderInv
      <4> QED BY <2>3, <4>1 DEF OrderInv
    <3> QED BY <3>1, <3>2
  <2>6. \A u \in Versions : task'[u] = "sending" => loop' = u
    BY <2>1, <2>3 DEF OrderInv
  <2>7. live /\ loop' # 0 => \A c \in Clients : seen[c] <= value'[loop']
    BY <2>1, <2>3, <2>4 DEF OrderInv
  <2> QED BY <2>4, <2>5, <2>6, <2>7
<1>5. ASSUME NEW v \in Versions, Send(v) PROVE SmoothInv'
  <2> DEFINE c == List(v)[at[v]]
  <2>1. seen' = seen \/ seen' = [seen EXCEPT ![c] = value[v]]
    BY <1>5 DEF Send
  <2>2. loop = v /\ loop' = v /\ UNCHANGED <<smooth, live, task, value, stale>>
    BY <1>5 DEF Send, stream
  <2> HIDE DEF c
  <2>3. live => \A d \in Clients : seen[d] <= value[v]
    BY <2>2
  <2>4. value[v] \in Nat /\ value[v] <= value[v]
    BY DEF OrderInv
  <2>5. live => \A d \in Clients : seen'[d] <= value[v]
    <3>1. CASE seen' = seen
      BY <2>3, <3>1
    <3>2. CASE seen' = [seen EXCEPT ![c] = value[v]]
      <4>1. ASSUME NEW d \in Clients PROVE seen'[d] = seen[d] \/ seen'[d] = value[v]
        BY <3>2 DEF OrderInv
      <4> QED BY <2>3, <2>4, <4>1
    <3> QED BY <2>1, <3>1, <3>2
  <2> QED BY <2>2, <2>5, <1>5
<1>6. ASSUME NEW v \in Versions, Resume(v) PROVE SmoothInv'
  BY <1>6 DEF Resume
<1>7. ASSUME NEW v \in Versions, End(v) PROVE SmoothInv'
  <2>1. loop = v /\ loop' = 0 /\ task' = [task EXCEPT ![v] = "done"] /\ UNCHANGED <<smooth, live, stale>>
    BY <1>7 DEF End, stream
  <2>2. \A u \in Versions : u # v => task[u] # "sending"
    BY <2>1
  <2> QED BY <2>1, <2>2 DEF OrderInv
<1> QED BY <1>1, <1>2, <1>3, <1>4, <1>5, <1>6, <1>7 DEF Next, Coroutine

LEMMA StreamInv ==
  Spec => [](ListInv /\ OrderInv /\ SmoothInv)
<1>1. Init => ListInv /\ OrderInv /\ SmoothInv
  <2>1. Init => SmoothInv
    BY DEF Init, SmoothInv
  <2> QED BY <2>1, ListInit, OrderInit
<1>2. ListInv /\ OrderInv /\ SmoothInv /\ [Next]_vars => (ListInv /\ OrderInv /\ SmoothInv)'
  BY ListStep, OrderStep, SmoothStep
<1> QED BY <1>1, <1>2, PTL DEF Spec

LEMMA StreamStep ==
  ASSUME ListInv, OrderInv, SmoothInv, [Next]_vars
  PROVE  [smooth /\ live => \A c \in Clients : seen'[c] >= seen[c]]_vars
<1> SUFFICES ASSUME smooth, live, NEW c \in Clients, seen'[c] # seen[c]
             PROVE  seen'[c] >= seen[c]
  BY DEF OrderInv
<1>1. ASSUME NEW d \in Clients, Connect(d) PROVE seen'[c] >= seen[c]
  BY <1>1 DEF Connect, OrderInv
<1>2. ASSUME NEW v \in Versions, Send(v) PROVE seen'[c] >= seen[c]
  <2>1. loop = v /\ v # 0
    BY <1>2, BroadcastAssumption DEF Send, Versions
  <2>2. seen[c] <= value[v]
    BY <2>1 DEF SmoothInv
  <2> DEFINE d == List(v)[at[v]]
  <2>3. seen' = seen \/ seen' = [seen EXCEPT ![d] = value[v]]
    BY <1>2 DEF Send
  <2> HIDE DEF d
  <2> QED BY <2>2, <2>3 DEF OrderInv
<1> QED BY <1>1, <1>2
        DEF Next, Endpoint, Coroutine, Update, Post, Leave, Finally, Start, Resume, End, vars, sockets

(* The stream of a wipe, whose messages are made when they are sent, never  *)
(* goes back before anybody's eyes if no send waits, for any number of      *)
(* clients that come and go and of updates (server.py:1013, 1215-1241).     *)
THEOREM StreamNeverBack == Spec => NeverBack
<1>2. ListInv /\ OrderInv /\ SmoothInv /\ [Next]_vars
        => [smooth /\ live => \A c \in Clients : seen'[c] >= seen[c]]_vars
  BY StreamStep
<1> QED BY <1>2, StreamInv, PTL DEF Spec, NeverBack

-----------------------------------------------------------------------------
(* The end of the work, if no send waits.                                  *)

\* Once the broadcast of the end is done, whoever is there has been sent the
\* end and has seen nothing older since: the safety half of EndHeard.
EndSeen ==
  smooth /\ task[Updates] = "done" => \A c \in Clients : client[c] = "open" => seen[c] = Updates

\* While it runs, it has sent the end to those it has passed.
SentInv ==
  smooth /\ loop = Updates =>
    \A i \in 1..(at[Updates] - 1) :
      i <= Len(conns) /\ client[conns[i]] = "open" => seen[conns[i]] = Updates

LEMMA SentStep ==
  ASSUME ListInv, OrderInv, SmoothInv, SmoothInv', EndSeen, SentInv, [Next]_vars
  PROVE  EndSeen' /\ SentInv'
<1> DEFINE E == Updates
<1> USE BroadcastAssumption
<1>0. smooth' = smooth
  BY DEF Next, Endpoint, Coroutine, Update, Post, Connect, Leave, Finally, Start, Resume, End,
         Send, vars, stream
<1> SUFFICES ASSUME smooth PROVE EndSeen' /\ SentInv'
  BY <1>0 DEF EndSeen, SentInv
<1> E \in Versions /\ E # 0
  BY DEF Versions
<1>1. CASE Update \/ UNCHANGED vars
  BY <1>1 DEF Update, vars, stream, broadcast, registry, sockets, EndSeen, SentInv
<1>2. CASE Post
  BY <1>2 DEF Post, stream, registry, sockets, EndSeen, SentInv, OrderInv
<1>3. ASSUME NEW c \in Clients, Connect(c) PROVE EndSeen' /\ SentInv'
  <2>1. task[E] = "done" => now = E
    BY DEF OrderInv
  <2> QED BY <1>3, <2>1 DEF Connect, EndSeen, SentInv, OrderInv, ListInv, broadcast
<1>4. ASSUME NEW c \in Clients, Leave(c) PROVE EndSeen' /\ SentInv'
  BY <1>4 DEF Leave, EndSeen, SentInv, ListInv, broadcast, registry
<1>5. ASSUME NEW c \in Clients, Finally(c) PROVE EndSeen' /\ SentInv'
  BY <1>5 DEF Finally, EndSeen, SentInv, ListInv
<1>6. ASSUME NEW v \in Versions, Start(v) PROVE EndSeen' /\ SentInv'
  <2>1. UNCHANGED <<conns, client, seen, at>> /\ task[v] = "posted" /\ at[v] = 1
    BY <1>6 DEF Start, OrderInv, registry, sockets
  <2>2. CASE key
    <3>1. task' = [task EXCEPT ![v] = "sending"] /\ loop' = v
      BY <1>6, <2>2 DEF Start
    <3> QED BY <2>1, <3>1 DEF EndSeen, SentInv, OrderInv
  <2>3. CASE ~key
    <3>1. task' = [task EXCEPT ![v] = "done"] /\ loop' = 0
      BY <1>6, <2>3 DEF Start
    <3>2. \A c \in Clients : client[c] # "open"
      BY <2>3 DEF ListInv, Has
    <3> QED BY <2>1, <3>1, <3>2 DEF EndSeen, SentInv
  <2> QED BY <2>2, <2>3
<1>7. ASSUME NEW v \in Versions, Send(v) PROVE EndSeen' /\ SentInv'
  <2> DEFINE c == List(v)[at[v]]
  <2>1. loop = v /\ loop' = v /\ task[v] = "sending" /\ ~stale[v]
    BY <1>7 DEF Send, OrderInv, SmoothInv, Versions
  <2>2. at[v] \in 1..Len(conns) /\ c = conns[at[v]] /\ c \in Clients
    BY <1>7, <2>1 DEF Send, List, ListInv
  <2>3. IF client[c] = "open" THEN seen' = [seen EXCEPT ![c] = value[v]] ELSE UNCHANGED seen
    BY <1>7 DEF Send
  <2>4. UNCHANGED <<conns, client, task>> /\ at' = [at EXCEPT ![v] = @ + 1]
    BY <1>7 DEF Send, registry
  <2> HIDE DEF c
  <2>5. task[E] # "done"
    BY <2>1 DEF SmoothInv, Versions
  <2>6. ASSUME v = E PROVE value[v] = E
    BY <2>1, <2>6 DEF OrderInv
  <2>7. ASSUME v = E, NEW i \in 1..(at'[E] - 1), i <= Len(conns), client[conns[i]] = "open"
        PROVE  seen'[conns[i]] = E
    <3>1. i = at[v] \/ i \in 1..(at[E] - 1)
      BY <2>4, <2>7 DEF ListInv
    <3>2. conns[i] \in Clients /\ i \in 1..Len(conns)
      BY <2>7 DEF ListInv
    <3>3. CASE i = at[v]
      BY <2>2, <2>3, <2>6, <2>7, <3>3 DEF OrderInv
    <3>4. CASE i \in 1..(at[E] - 1)
      BY <2>1, <2>3, <2>6, <2>7, <3>2, <3>4 DEF SentInv, OrderInv
    <3> QED BY <3>1, <3>3, <3>4
  <2> QED BY <2>1, <2>4, <2>5, <2>7 DEF EndSeen, SentInv
<1>8. ASSUME NEW v \in Versions, Resume(v) PROVE EndSeen' /\ SentInv'
  BY <1>8 DEF Resume, SmoothInv, Versions
<1>9. ASSUME NEW v \in Versions, End(v) PROVE EndSeen' /\ SentInv'
  <2>1. loop = v /\ loop' = 0 /\ task' = [task EXCEPT ![v] = "done"] /\ UNCHANGED <<client, seen>>
        /\ at[v] > Len(conns)
    BY <1>9 DEF End, sockets, List, SmoothInv
  <2>2. ASSUME v = E, NEW c \in Clients, client[c] = "open" PROVE seen[c] = E
    <3>1. PICK i \in 1..Len(conns) : conns[i] = c
      BY <2>2 DEF ListInv, Has
    <3>2. i \in 1..(at[E] - 1)
      BY <2>1, <2>2 DEF ListInv
    <3> QED BY <2>1, <2>2, <3>1, <3>2 DEF SentInv
  <2> QED BY <2>1, <2>2 DEF EndSeen, SentInv
<1> QED BY <1>1, <1>2, <1>3, <1>4, <1>5, <1>6, <1>7, <1>8, <1>9 DEF Next, Endpoint, Coroutine

(* If no send waits, the broadcast of the end of the work leaves everybody  *)
(* who is there with the end, whoever connects or leaves before, while and  *)
(* after it runs, and for both ways of making messages.                     *)
THEOREM EndSeenByAll == Spec => []EndSeen
<1>1. Init => EndSeen /\ SentInv
  BY BroadcastAssumption DEF Init, EndSeen, SentInv, Versions
<1>2. (ListInv /\ OrderInv /\ SmoothInv) /\ (ListInv /\ OrderInv /\ SmoothInv)' /\ EndSeen /\ SentInv
        /\ [Next]_vars => (EndSeen /\ SentInv)'
  BY SentStep
<1> QED BY <1>1, <1>2, StreamInv, PTL DEF Spec
=============================================================================
