---------------------------- MODULE WipeLogProofs ----------------------------
(***************************************************************************)
(* Proofs about WipeLog, for every set of sessions, devices and requests.  *)
(***************************************************************************)
EXTENDS WipeLog, FiniteSetTheorems, WellFoundedInduction, TLAPS

-----------------------------------------------------------------------------
(* Types.                                                                  *)

LEMMA InitType == Init => TypeOK
BY DEF Init, TypeOK, Names, Statuses, Asked, Free

LEMMA RowcountType ==
  ASSUME IsFiniteSet(Sessions), NEW N \in SUBSET Names
  PROVE  rowcount(N) \in Nat
<1>1. {s \in Sessions \cap N : Present(s)} \subseteq Sessions
  OBVIOUS
<1> QED BY <1>1, FS_Subset, FS_CardinalityType DEF rowcount

LEMMA StepType ==
  ASSUME IsFiniteSet(Sessions), TypeOK, [Next]_vars
  PROVE  TypeOK'
<1> USE DEF TypeOK, Names, Statuses, Events, Running, Asked, Free, Goto, Present, Reply,
            tables, client
<1>1. ASSUME NEW s \in Sessions, LogStart(s) PROVE TypeOK'
  BY <1>1, LogAssumption DEF LogStart, add_wipe_log
<1>2. ASSUME NEW s \in Sessions, AuditStart(s) \/ LogCancel(s) \/ AuditCancel(s) PROVE TypeOK'
  BY <1>2 DEF AuditStart, LogCancel, AuditCancel, update_wipe_log, add_audit_event
<1>3. ASSUME NEW s \in Sessions, LogProgress(s) \/ StoreReport(s) \/ LogEnd(s) \/ AuditEnd(s)
      PROVE  TypeOK'
  BY <1>3 DEF LogProgress, StoreReport, LogEnd, AuditEnd, update_wipe_log, add_audit_event,
              add_wipe_report
<1>4. ASSUME NEW q \in Requests, Delete(q) PROVE TypeOK'
  BY <1>4 DEF Delete
<1>5. ASSUME NEW q \in Requests, AuditDelete(q) PROVE TypeOK'
  BY <1>5 DEF AuditDelete
<1>6. ASSUME NEW q \in Requests, DeleteRows(q) PROVE TypeOK'
  <2>1. rowcount(ids[q]) \in Nat
    BY RowcountType
  <2>2. loop' \in [at : {"reply"}, q : Requests, count : Nat]
    BY <1>6, <2>1 DEF DeleteRows
  <2> QED BY <1>6, <2>2 DEF DeleteRows, delete_wipe_logs
<1>7. ASSUME NEW q \in Requests, Deleted(q) \/ DeleteRaises(q) PROVE TypeOK'
  BY <1>7 DEF Deleted, DeleteRaises
<1>8. CASE Kill
  BY <1>8 DEF Kill
<1>9. CASE UNCHANGED vars
  BY <1>9 DEF vars
<1> QED BY <1>1, <1>2, <1>3, <1>4, <1>5, <1>6, <1>7, <1>8, <1>9 DEF Next

(* The tables and what works on them keep their types.                      *)
THEOREM Types == ASSUME IsFiniteSet(Sessions) PROVE Spec => []TypeOK
<1>1. Init => TypeOK
  BY InitType
<1>2. TypeOK /\ [Next]_vars => TypeOK'
  BY StepType
<1> QED BY <1>1, <1>2, PTL DEF Spec

-----------------------------------------------------------------------------
(* Leftovers.  It is inductive together with the following: a wipe whose    *)
(* log is gone, and that did not run when it was deleted, has nobody who    *)
(* writes for it any more; the handler of a deletion that has the event     *)
(* loop, before its commit or after it, has not answered; and from the      *)
(* commit to the reply none of its announcements is left, since nobody else *)
(* has the loop to make one.                                                *)

Silent(s) ==
  /\ thread[s] = "done"
  /\ loop.at \in {"start", "cancel"} => loop.s # s

LogInv ==
  /\ \A s \in logged : thread[s] = "new" => loop.at = "start" /\ loop.s = s
  /\ \A s \in logged \ late : ~Present(s) => Silent(s)
  /\ loop.at \in {"delete", "reply"} => answer[loop.q].state = "busy"
  /\ loop.at = "reply" => \A n \in audited[loop.q] : "log_deleted" \notin audit_trail[n]

LEMMA InitInv == Init => LogInv /\ Leftovers
BY DEF Init, LogInv, Leftovers, Free

LEMMA StepInv ==
  ASSUME TypeOK, TypeOK', LogInv, Leftovers, [Next]_vars
  PROVE  LogInv' /\ Leftovers'
<1> USE DEF LogInv, Leftovers, Silent, Present, Running, Free, Goto, Reply, tables, client
<1>1. ASSUME NEW s \in Sessions, LogStart(s) PROVE LogInv' /\ Leftovers'
  <2>1. s \notin logged
    BY <1>1 DEF LogStart
  <2>2. \A r \in logged' \ late' : ~Present(r)' => r # s /\ r \in logged \ late /\ ~Present(r)
    BY <1>1, <2>1 DEF LogStart, add_wipe_log, TypeOK
  <2>3. LogInv'
    BY <1>1, <2>1, <2>2 DEF LogStart, TypeOK
  <2>4. Leftovers'
    BY <1>1, <2>2 DEF LogStart
  <2> QED BY <2>3, <2>4
<1>2. ASSUME NEW s \in Sessions, AuditStart(s) PROVE LogInv' /\ Leftovers'
  BY <1>2 DEF AuditStart, add_audit_event, TypeOK, Names
<1>3. ASSUME NEW s \in Sessions, LogCancel(s) PROVE LogInv' /\ Leftovers'
  BY <1>3 DEF LogCancel, update_wipe_log, TypeOK, Names, Statuses
<1>4. ASSUME NEW s \in Sessions, AuditCancel(s) PROVE LogInv' /\ Leftovers'
  BY <1>4 DEF AuditCancel, add_audit_event, TypeOK, Names
<1>5. ASSUME NEW s \in Sessions, LogProgress(s) PROVE LogInv' /\ Leftovers'
  BY <1>5 DEF LogProgress, update_wipe_log, TypeOK, Names
<1>6. ASSUME NEW s \in Sessions, StoreReport(s) PROVE LogInv' /\ Leftovers'
  BY <1>6 DEF StoreReport, add_wipe_report, TypeOK, Names
<1>7. ASSUME NEW s \in Sessions, LogEnd(s) PROVE LogInv' /\ Leftovers'
  BY <1>7 DEF LogEnd, update_wipe_log, TypeOK, Names
<1>8. ASSUME NEW s \in Sessions, AuditEnd(s) PROVE LogInv' /\ Leftovers'
  BY <1>8 DEF AuditEnd, add_audit_event, TypeOK, Names
<1>9. ASSUME NEW q \in Requests, Delete(q) PROVE LogInv' /\ Leftovers'
  BY <1>9 DEF Delete, TypeOK, Names
<1>10. ASSUME NEW q \in Requests, AuditDelete(q) PROVE LogInv' /\ Leftovers'
  BY <1>10 DEF AuditDelete, TypeOK, Names
<1>11. ASSUME NEW q \in Requests, DeleteRows(q) PROVE LogInv' /\ Leftovers'
  <2>1. \A s \in logged \ late' : s \in ids[q] => thread[s] = "done"
    BY <1>11 DEF DeleteRows, TypeOK
  <2>2. LogInv'
    BY <1>11, <2>1 DEF DeleteRows, delete_wipe_logs, TypeOK, Names
  <2>3. \A n \in Names : "log_deleted" \in audit_trail'[n] => "log_deleted" \in audit_trail[n]
    BY <1>11 DEF DeleteRows, delete_wipe_logs
  <2> QED BY <1>11, <2>2, <2>3 DEF DeleteRows, delete_wipe_logs, TypeOK, Names
<1>12. ASSUME NEW q \in Requests, Deleted(q) PROVE LogInv' /\ Leftovers'
  <2>1. LogInv'
    BY <1>12 DEF Deleted
  <2>2. ASSUME NEW n \in Names, "log_deleted" \in audit_trail'[n]
        PROVE  \E p \in Requests : n \in audited'[p] /\ answer'[p].state \in {"busy", "raised"}
    <3>1. PICK p \in Requests : n \in audited[p] /\ answer[p].state \in {"busy", "raised"}
      BY <1>12, <2>2 DEF Deleted
    <3>2. p # q
      BY <1>12, <2>2, <3>1 DEF Deleted
    <3> QED BY <1>12, <3>1, <3>2 DEF Deleted, TypeOK
  <2> QED BY <1>12, <2>1, <2>2 DEF Deleted
<1>13. ASSUME NEW q \in Requests, DeleteRaises(q) PROVE LogInv' /\ Leftovers'
  BY <1>13 DEF DeleteRaises, TypeOK
<1>14. CASE Kill
  BY <1>14 DEF Kill, TypeOK
<1>15. CASE UNCHANGED vars
  BY <1>15 DEF vars
<1> QED BY <1>1, <1>2, <1>3, <1>4, <1>5, <1>6, <1>7, <1>8, <1>9, <1>10, <1>11, <1>12, <1>13, <1>14, <1>15
        DEF Next

(* A deletion of an ended wipe's log leaves no report and no event, for any *)
(* number of wipes, requests and kills.                                     *)
THEOREM NothingLeft == ASSUME IsFiniteSet(Sessions) PROVE Spec => []Leftovers
<1>1. Init => TypeOK /\ LogInv /\ Leftovers
  BY InitType, InitInv
<1>2. TypeOK /\ LogInv /\ Leftovers /\ [Next]_vars => (TypeOK /\ LogInv /\ Leftovers)'
  BY StepType, StepInv
<1> QED BY <1>1, <1>2, PTL DEF Spec

(* A deleted log does not come back.                                        *)
THEOREM NeverBack == ASSUME IsFiniteSet(Sessions) PROVE Spec => StaysDeleted
<1>1. Init => TypeOK /\ LogInv /\ Leftovers
  BY InitType, InitInv
<1>2. TypeOK /\ LogInv /\ Leftovers /\ [Next]_vars => (TypeOK /\ LogInv /\ Leftovers)'
  BY StepType, StepInv
<1>3. ASSUME TypeOK, LogInv, [Next]_vars
      PROVE  [\A s \in logged : ~Present(s) => wipe_logs'[s] = "absent"]_vars
  <2>1. SUFFICES ASSUME NEW s \in logged, ~Present(s) PROVE wipe_logs'[s] = "absent"
    OBVIOUS
  <2>2. ASSUME NEW r \in Sessions, LogStart(r) PROVE wipe_logs'[s] = "absent"
    BY <2>1, <2>2, <1>3 DEF LogStart, add_wipe_log, LogInv, Present, TypeOK, Free
  <2>3. CASE wipe_logs' = wipe_logs
    BY <2>1, <2>3 DEF Present
  <2>4. ASSUME NEW r \in Sessions, NEW st, update_wipe_log(r, st) PROVE wipe_logs'[s] = "absent"
    BY <2>1, <2>4, <1>3 DEF update_wipe_log, Present, TypeOK
  <2>5. ASSUME NEW q \in Requests, delete_wipe_logs(ids[q]) PROVE wipe_logs'[s] = "absent"
    BY <2>1, <2>5, <1>3 DEF delete_wipe_logs, Present, TypeOK
  <2> QED BY <1>3, <2>2, <2>3, <2>4, <2>5
          DEF Next, vars, tables, client, AuditStart, LogCancel, AuditCancel, LogProgress,
              StoreReport, LogEnd, AuditEnd, Delete, AuditDelete, DeleteRows, Deleted, DeleteRaises, Kill
<1>4. TypeOK /\ LogInv /\ [Next]_vars
        => [\A s \in logged : ~Present(s) => wipe_logs'[s] = "absent"]_vars
  BY <1>3
<1> QED BY <1>1, <1>2, <1>4, PTL DEF Spec, StaysDeleted
-----------------------------------------------------------------------------
(* Sums.  FoldFunction adds up the counts of the answers by a function that *)
(* is defined recursively on the sets of requests: it exists, because those *)
(* sets are finite, and one request that answers raises it by its count.    *)

Less == {m \in Nat \X Nat : m[1] < m[2]}

LEMMA SetInduction ==
  ASSUME NEW A, 0 \in A, \A n \in Nat : n \in A => n + 1 \in A
  PROVE  Nat \subseteq A
<1> DEFINE B == Nat \ A
<1> SUFFICES ASSUME B # {} PROVE FALSE
  OBVIOUS
<1>1. IsWellFoundedOn(Less, Nat)
  BY NatLessThanWellFounded DEF OpToRel, Less
<1>2. PICK m \in B : \A k \in B : <<k, m>> \notin Less
  <2> HIDE DEF B
  <2> SUFFICES B \subseteq Nat
    BY <1>1, WFMin
  <2> QED BY DEF B
<1>3. m \in Nat /\ m # 0
  OBVIOUS
<1>4. m - 1 \in B => <<m - 1, m>> \in Less
  BY <1>3 DEF Less
<1>5. m - 1 \in Nat /\ m - 1 \in A /\ (m - 1) + 1 = m
  BY <1>2, <1>3, <1>4
<1> QED BY <1>5

First(T) == CHOOSE q \in T : TRUE

\* g[T] is the sum of the counts of the answers in T.
Sums(g, a) ==
  g = [T \in SUBSET DOMAIN a |-> IF T = {} THEN 0 ELSE a[First(T)].count + g[T \ {First(T)}]]

LEMMA RestSmaller ==
  ASSUME NEW S, IsFiniteSet(S), NEW T \in SUBSET S, T # {}
  PROVE  /\ First(T) \in T /\ T \ {First(T)} \in SUBSET S
         /\ Cardinality(T) \in Nat /\ Cardinality(T) # 0
         /\ Cardinality(T \ {First(T)}) = Cardinality(T) - 1
<1>1. First(T) \in T
  BY DEF First
<1>2. IsFiniteSet(T)
  BY FS_Subset
<1>3. Cardinality(T) \in Nat /\ Cardinality(T) # 0
  BY <1>2, FS_CardinalityType, FS_EmptySet
<1> QED BY <1>1, <1>2, <1>3, FS_RemoveElement

LEMMA SumsExist ==
  ASSUME NEW a, IsFiniteSet(DOMAIN a)
  PROVE  \E g : Sums(g, a)
<1> DEFINE D == DOMAIN a
           Right(g, T) == g[T] = IF T = {} THEN 0 ELSE a[First(T)].count + g[T \ {First(T)}]
           Good(g, n) == /\ g = [T \in SUBSET D |-> g[T]]
                         /\ \A T \in SUBSET D : Cardinality(T) <= n => Right(g, T)
           A == {n \in Nat : \E g : Good(g, n)}
<1>1. 0 \in A
  <2>1. ASSUME NEW T \in SUBSET D, Cardinality(T) <= 0 PROVE T = {}
    <3>1. IsFiniteSet(T) /\ Cardinality(T) \in Nat
      BY FS_Subset, FS_CardinalityType
    <3> QED BY <2>1, <3>1, FS_EmptySet
  <2>2. Good([T \in SUBSET D |-> 0], 0)
    BY <2>1
  <2> QED BY <2>2
<1>2. ASSUME NEW n \in Nat, n \in A PROVE n + 1 \in A
  <2>1. PICK g : Good(g, n)
    BY <1>2
  <2> DEFINE Next1(T) == IF T = {} THEN 0 ELSE a[First(T)].count + g[T \ {First(T)}]
             h == [T \in SUBSET D |-> Next1(T)]
  <2>2. \A T \in SUBSET D : Cardinality(T) <= n => h[T] = g[T]
    BY <2>1
  <2>3. ASSUME NEW T \in SUBSET D, Cardinality(T) <= n + 1 PROVE Right(h, T)
    <3>1. CASE T = {}
      BY <3>1
    <3>2. CASE T # {}
      <4>1. T \ {First(T)} \in SUBSET D /\ Cardinality(T \ {First(T)}) <= n
        BY <2>3, <3>2, RestSmaller
      <4>2. h[T \ {First(T)}] = g[T \ {First(T)}]
        BY <2>2, <4>1
      <4>3. h[T] = a[First(T)].count + g[T \ {First(T)}]
        BY <3>2
      <4> QED BY <3>2, <4>2, <4>3
    <3> QED BY <3>1, <3>2
  <2>4. h = [T \in SUBSET D |-> h[T]]
    OBVIOUS
  <2>5. Good(h, n + 1)
    <3> HIDE DEF h
    <3> QED BY <2>3, <2>4
  <2>6. \E f : Good(f, n + 1)
    <3> HIDE DEF h, Good
    <3> QED BY <2>5
  <2> HIDE DEF Good
  <2> QED BY <2>6
<1>3. Nat \subseteq A
  <2> HIDE DEF A
  <2> QED BY <1>1, <1>2, SetInduction
<1>4. PICK g : Good(g, Cardinality(D))
  BY <1>3, FS_CardinalityType
<1>5. \A T \in SUBSET D : Right(g, T)
  BY <1>4, FS_Subset
<1>6. Sums(g, a)
  BY <1>4, <1>5 DEF Sums
<1> QED BY <1>6

LEMMA TotalSums ==
  ASSUME NEW a, IsFiniteSet(DOMAIN a)
  PROVE  \E g : Sums(g, a) /\ Total(a) = g[DOMAIN a]
<1> DEFINE iter == CHOOSE g : Sums(g, a)
<1>1. Sums(iter, a)
  BY SumsExist
<1>2. Total(a) = iter[DOMAIN a]
  BY DEF Total, FoldFunction, FoldFunctionOnSet, MapThenFoldSet, Sums, First
<1> HIDE DEF iter
<1> QED BY <1>1, <1>2

\* If the count of one answer is raised by n, so is the total.
Raised(a, b, q, n) ==
  /\ DOMAIN b = DOMAIN a
  /\ \A p \in DOMAIN a : /\ a[p].count \in Nat
                         /\ b[p].count = a[p].count + IF p = q THEN n ELSE 0

LEMMA TotalRaised ==
  ASSUME NEW a, NEW b, IsFiniteSet(DOMAIN a), NEW q, NEW n \in Nat, Raised(a, b, q, n)
  PROVE  /\ Total(a) \in Nat
         /\ Total(b) = Total(a) + IF q \in DOMAIN a THEN n ELSE 0
<1> DEFINE D == DOMAIN a
           More(T) == IF q \in T THEN n ELSE 0
<1> USE DEF Raised
<1>1. PICK g : Sums(g, a) /\ Total(a) = g[D]
  BY TotalSums
<1>2. PICK h : Sums(h, b) /\ Total(b) = h[D]
  BY TotalSums
<1> DEFINE Good(T) == g[T] \in Nat /\ h[T] = g[T] + More(T)
           A == {k \in Nat : \A T \in SUBSET D : Cardinality(T) = k => Good(T)}
<1>3. 0 \in A
  <2>1. \A T \in SUBSET D : Cardinality(T) = 0 => T = {}
    BY RestSmaller
  <2>2. Good({})
    BY <1>1, <1>2 DEF Sums
  <2> QED BY <2>1, <2>2
<1>4. ASSUME NEW k \in Nat, k \in A PROVE k + 1 \in A
  <2> SUFFICES ASSUME NEW T \in SUBSET D, Cardinality(T) = k + 1 PROVE Good(T)
    OBVIOUS
  <2>1. T # {}
    BY FS_EmptySet
  <2> DEFINE x == First(T)
             R == T \ {x}
  <2>2. x \in T /\ R \in SUBSET D /\ Cardinality(R) = k
    BY <2>1, RestSmaller
  <2>3. g[T] = a[x].count + g[R] /\ h[T] = b[x].count + h[R]
    BY <1>1, <1>2, <2>1 DEF Sums
  <2>4. g[R] \in Nat /\ h[R] = g[R] + More(R)
    BY <1>4, <2>2
  <2>5. a[x].count \in Nat /\ b[x].count = a[x].count + IF x = q THEN n ELSE 0
    BY <2>2
  <2>6. More(T) = More(R) + IF x = q THEN n ELSE 0
    BY <2>2
  <2> HIDE DEF x, R
  <2> QED BY <2>3, <2>4, <2>5, <2>6
<1>5. Nat \subseteq A
  <2> HIDE DEF A
  <2> QED BY <1>3, <1>4, SetInduction
<1>6. Good(D)
  BY <1>5, FS_CardinalityType
<1> QED BY <1>1, <1>2, <1>6

LEMMA TotalSame ==
  ASSUME NEW a, NEW b, IsFiniteSet(DOMAIN a), DOMAIN b = DOMAIN a,
         \A p \in DOMAIN a : a[p].count \in Nat /\ b[p].count = a[p].count
  PROVE  Total(b) = Total(a)
<1>1. ASSUME NEW q PROVE Total(a) \in Nat /\ Total(b) = Total(a) + IF q \in DOMAIN a THEN 0 ELSE 0
  <2>1. Raised(a, b, q, 0)
    BY DEF Raised
  <2> QED BY <2>1, TotalRaised
<1> QED BY <1>1

\* Nothing counted yet.
LEMMA TotalZero ==
  ASSUME NEW a, IsFiniteSet(DOMAIN a), \A p \in DOMAIN a : a[p].count = 0
  PROVE  Total(a) = 0
<1>1. PICK g : Sums(g, a) /\ Total(a) = g[DOMAIN a]
  BY TotalSums
<1> DEFINE A == {k \in Nat : \A T \in SUBSET DOMAIN a : Cardinality(T) = k => g[T] = 0}
<1>2. 0 \in A
  BY <1>1, RestSmaller DEF Sums
<1>3. ASSUME NEW k \in Nat, k \in A PROVE k + 1 \in A
  <2> SUFFICES ASSUME NEW T \in SUBSET DOMAIN a, Cardinality(T) = k + 1 PROVE g[T] = 0
    OBVIOUS
  <2>1. T # {}
    BY FS_EmptySet
  <2>2. g[T] = a[First(T)].count + g[T \ {First(T)}]
    BY <1>1, <2>1 DEF Sums
  <2> QED BY <1>3, <2>1, <2>2, RestSmaller
<1>4. Nat \subseteq A
  <2> HIDE DEF A
  <2> QED BY <1>2, <1>3, SetInduction
<1> QED BY <1>1, <1>4, FS_CardinalityType

-----------------------------------------------------------------------------
(* What the deletions have counted.  The logs that are gone and told of are *)
(* those that the answered deletions removed: what two deletions remove is  *)
(* apart, since nothing brings a row back, and a deletion has removed       *)
(* nothing before its commit.                                               *)

Gone == {s \in logged : ~Present(s)}
Told == Gone \ Unsaid

\* A row is there only of a session whose start was logged.
Rows == \A s \in Sessions : Present(s) => s \in logged

Removals ==
  /\ \A q \in Requests : removed[q] \subseteq Gone /\ (answer[q].state = "none" => removed[q] = {})
  /\ \A p, q \in Requests : p # q => removed[p] \cap removed[q] = {}
  /\ loop.at = "delete" => removed[loop.q] = {}
  /\ loop.at = "reply" => loop.count = Cardinality(removed[loop.q])

LEMMA StepRows == ASSUME TypeOK, Rows, [Next]_vars PROVE Rows'
<1> USE DEF TypeOK, Rows, Present, tables, client
<1>1. ASSUME NEW s \in Sessions, LogStart(s) PROVE Rows'
  BY <1>1 DEF LogStart, add_wipe_log
<1>2. ASSUME NEW s \in Sessions, LogCancel(s) \/ LogProgress(s) \/ LogEnd(s) PROVE Rows'
  BY <1>2 DEF LogCancel, LogProgress, LogEnd, update_wipe_log
<1>3. ASSUME NEW q \in Requests, DeleteRows(q) PROVE Rows'
  BY <1>3 DEF DeleteRows, delete_wipe_logs
<1>4. CASE UNCHANGED <<wipe_logs, logged>>
  BY <1>4
<1> QED BY <1>1, <1>2, <1>3, <1>4
        DEF Next, vars, AuditStart, AuditCancel, StoreReport, AuditEnd, Delete, AuditDelete,
            Deleted, DeleteRaises, Kill

\* Only a deletion lets a log go.
LEMMA GoneStays ==
  ASSUME TypeOK, LogInv, Rows, [Next]_vars, \A q \in Requests : ~DeleteRows(q)
  PROVE  Gone' = Gone
<1> USE DEF TypeOK, Present, Gone, Free, tables, client
<1>1. ASSUME NEW s \in Sessions, LogStart(s) PROVE Gone' = Gone
  BY <1>1 DEF LogStart, add_wipe_log, LogInv, Rows
<1>2. ASSUME NEW s \in Sessions, LogCancel(s) \/ LogProgress(s) \/ LogEnd(s) PROVE Gone' = Gone
  BY <1>2 DEF LogCancel, LogProgress, LogEnd, update_wipe_log
<1>3. CASE UNCHANGED <<wipe_logs, logged>>
  BY <1>3
<1> QED BY <1>1, <1>2, <1>3
        DEF Next, vars, AuditStart, AuditCancel, StoreReport, AuditEnd, Delete, AuditDelete,
            Deleted, DeleteRaises, Kill

\* What the commit of a deletion lets go.
LEMMA GoneGrows ==
  ASSUME TypeOK, Rows, NEW q \in Requests, DeleteRows(q)
  PROVE  /\ Gone' = Gone \cup removed'[q]
         /\ Gone \cap removed'[q] = {}
         /\ removed' = [removed EXCEPT ![q] = removed'[q]]
         /\ loop' = [at |-> "reply", q |-> q, count |-> Cardinality(removed'[q])]
BY DEF TypeOK, Rows, Gone, Present, DeleteRows, delete_wipe_logs, rowcount

LEMMA StepRemovals ==
  ASSUME TypeOK, LogInv, Rows, Removals, [Next]_vars
  PROVE  Removals'
<1> USE DEF TypeOK, Removals
<1>1. ASSUME NEW q \in Requests, DeleteRows(q) PROVE Removals'
  <2>1. answer' = answer /\ answer[q].state = "busy"
    BY <1>1 DEF DeleteRows, client, LogInv
  <2> QED BY <1>1, <2>1, GoneGrows
<1>2. ASSUME \A q \in Requests : ~DeleteRows(q) PROVE Removals'
  <2>1. Gone' = Gone
    BY <1>2, GoneStays
  <2>2. removed' = removed
    BY <1>2 DEF Next, vars, LogStart, AuditStart, LogCancel, AuditCancel, LogProgress, StoreReport,
                LogEnd, AuditEnd, Delete, AuditDelete, Deleted, DeleteRaises, Kill
  <2>3. \A q \in Requests : answer'[q].state = "none" => answer[q].state = "none"
    BY <1>2 DEF Next, vars, client, Reply, LogStart, AuditStart, LogCancel, AuditCancel, LogProgress,
                StoreReport, LogEnd, AuditEnd, Delete, AuditDelete, Deleted, DeleteRaises, Kill
  <2>4. \/ loop' = loop
        \/ loop'.at \in {"free", "start", "cancel"}
        \/ loop'.at = "delete" /\ removed[loop'.q] = {}
    BY <1>2 DEF Next, vars, client, Free, LogStart, AuditStart, LogCancel, AuditCancel, LogProgress,
                StoreReport, LogEnd, AuditEnd, Delete, AuditDelete, Deleted, DeleteRaises, Kill
  <2> QED BY <2>1, <2>2, <2>3, <2>4
<1> QED BY <1>1, <1>2

\* No other step tells of a log.
LEMMA KeepsCount ==
  ASSUME IsFiniteSet(Requests), TypeOK, TypeOK', Counted, Told' = Told,
         \A q \in Requests : answer'[q].count = answer[q].count
  PROVE  Counted'
<1>1. /\ DOMAIN answer = Requests /\ DOMAIN answer' = Requests
      /\ \A q \in Requests : answer[q].count \in Nat
  BY DEF TypeOK
<1>2. Total(answer') = Total(answer)
  BY <1>1, TotalSame
<1> QED BY <1>2 DEF Counted, Told, Gone

LEMMA StepCounted ==
  ASSUME IsFiniteSet(Sessions), IsFiniteSet(Requests),
         TypeOK, TypeOK', LogInv, Rows, Removals, Counted, [Next]_vars
  PROVE  Counted'
<1>1. ASSUME NEW q \in Requests, DeleteRows(q) PROVE Counted'
  <2>1. answer' = answer /\ answer[q].state = "busy"
    BY <1>1 DEF DeleteRows, client, LogInv
  <2>2. removed[q] = {}
    BY <1>1 DEF DeleteRows, Removals
  <2> DEFINE Open == {p \in Requests : answer[p].state # "ok"}
  <2>3. Unsaid' = Unsaid \cup removed'[q]
    <3>1. Unsaid = UNION {removed[p] : p \in Open} /\ Unsaid' = UNION {removed'[p] : p \in Open}
      BY <2>1 DEF Unsaid
    <3>2. q \in Open
      BY <2>1
    <3>3. \A p \in Requests \ {q} : removed'[p] = removed[p]
      BY <1>1, GoneGrows DEF TypeOK
    <3>4. Open \subseteq Requests
      OBVIOUS
    <3> HIDE DEF Open
    <3> QED BY <2>2, <3>1, <3>2, <3>3, <3>4
  <2>4. Told' = Told
    BY <1>1, <2>3, GoneGrows DEF Told
  <2> QED BY <2>1, <2>4, KeepsCount
<1>2. ASSUME NEW q \in Requests, Deleted(q) PROVE Counted'
  <2> DEFINE R == removed[q]
  <2>1. Gone' = Gone /\ removed' = removed
    BY <1>2 DEF Deleted, Gone, Present, tables
  <2>2. /\ answer' = [answer EXCEPT ![q] = [state |-> "ok", count |-> Cardinality(R)]]
        /\ answer[q].state = "busy" /\ answer[q].count = 0
    BY <1>2 DEF Deleted, Reply, LogInv, Removals, TypeOK
  <2>3. \A p \in Requests : answer'[p].state # "ok" <=> p # q /\ answer[p].state # "ok"
    BY <2>2 DEF TypeOK
  <2>4. Unsaid' = Unsaid \ R /\ R \subseteq Unsaid
    BY <2>1, <2>2, <2>3 DEF Unsaid, Removals
  <2>5. Told' = Told \cup R /\ Told \cap R = {}
    BY <2>1, <2>4 DEF Told, Removals
  <2>6. IsFiniteSet(Told) /\ IsFiniteSet(R)
    BY FS_Subset DEF Told, Gone, TypeOK
  <2>7. Cardinality(R) \in Nat /\ Cardinality(Told) \in Nat
    BY <2>6, FS_CardinalityType
  <2>8. Cardinality(Told') = Cardinality(Told) + Cardinality(R)
    <3> HIDE DEF R
    <3>1. Cardinality(Told \cup R) = Cardinality(Told) + Cardinality(R) - Cardinality(Told \cap R)
      BY <2>6, FS_Union
    <3>2. Cardinality(Told \cap R) = 0
      BY <2>5, FS_EmptySet
    <3> QED BY <2>5, <2>7, <3>1, <3>2
  <2> HIDE DEF R
  <2>9. DOMAIN answer = Requests /\ Raised(answer, answer', q, Cardinality(R))
    BY <2>2, <2>7 DEF Raised, TypeOK
  <2>10. Total(answer') = Total(answer) + Cardinality(R)
    BY <2>7, <2>9, TotalRaised
  <2> QED BY <2>8, <2>10 DEF Counted, Told, Gone
<1>3. ASSUME \A q \in Requests : ~DeleteRows(q) /\ ~Deleted(q) PROVE Counted'
  <2>1. Gone' = Gone
    BY <1>3, GoneStays
  <2>2. removed' = removed
    BY <1>3 DEF Next, vars, LogStart, AuditStart, LogCancel, AuditCancel, LogProgress, StoreReport,
                LogEnd, AuditEnd, Delete, AuditDelete, DeleteRaises, Kill
  <2>3. \A q \in Requests : /\ answer'[q].count = answer[q].count
                            /\ answer'[q].state = "ok" <=> answer[q].state = "ok"
    <3>1. CASE answer' = answer
      BY <3>1
    <3>2. ASSUME NEW q \in Requests, Delete(q) \/ DeleteRaises(q)
          PROVE  /\ answer[q].state \in {"none", "busy"} /\ answer[q].count = 0
                 /\ \E st \in {"busy", "raised"} :
                      answer' = [answer EXCEPT ![q] = [state |-> st, count |-> 0]]
      BY <3>2 DEF Delete, DeleteRaises, Reply, LogInv, TypeOK
    <3>3. ASSUME NEW q \in Requests, Delete(q) \/ DeleteRaises(q), NEW p \in Requests
          PROVE  /\ answer'[p].count = answer[p].count
                 /\ answer'[p].state = "ok" <=> answer[p].state = "ok"
      <4>1. answer \in [Requests -> [state : Asked, count : {0}] \cup [state : {"ok"}, count : Nat]]
        BY DEF TypeOK
      <4>2. PICK st \in {"busy", "raised"} : answer' = [answer EXCEPT ![q] = [state |-> st, count |-> 0]]
        BY <3>2, <3>3
      <4>3. p # q => answer'[p] = answer[p]
        BY <4>1, <4>2
      <4>4. answer'[q] = [state |-> st, count |-> 0]
        BY <4>1, <4>2
      <4>5. answer[q].state \in {"none", "busy"} /\ answer[q].count = 0
        BY <3>2, <3>3
      <4> QED BY <4>3, <4>4, <4>5
    <3>4. CASE Kill
      BY <3>4 DEF Kill, TypeOK
    <3> QED BY <1>3, <3>1, <3>3, <3>4
            DEF Next, vars, client, LogStart, AuditStart, LogCancel, AuditCancel, LogProgress,
                StoreReport, LogEnd, AuditEnd, AuditDelete
  <2>4. Told' = Told
    BY <2>1, <2>2, <2>3 DEF Told, Unsaid
  <2> QED BY <2>3, <2>4, KeepsCount
<1> QED BY <1>1, <1>2, <1>3

(* Over all deletions that were answered the counts add up to the logs that *)
(* are gone, but for those of a deletion that was committed and whose reply *)
(* has not left, or never left because the server was killed: for any       *)
(* number of wipes and of deletions, whatever they name, whichever fail and *)
(* however often the server is killed, between commit and reply too.        *)
THEOREM CountsAreTrue ==
  ASSUME IsFiniteSet(Sessions), IsFiniteSet(Requests)
  PROVE  Spec => []Counted
<1> DEFINE IInv == TypeOK /\ LogInv /\ Leftovers /\ Rows /\ Removals /\ Counted
<1>1. Init => IInv
  <2> SUFFICES ASSUME Init PROVE Rows /\ Removals /\ Counted
    BY InitType, InitInv
  <2>1. Rows /\ Removals /\ Told = {}
    BY DEF Init, Rows, Removals, Present, Gone, Told, Free
  <2>2. DOMAIN answer = Requests /\ \A q \in Requests : answer[q].count = 0
    BY DEF Init
  <2>3. Total(answer) = 0
    BY <2>2, TotalZero
  <2> QED BY <2>1, <2>3, FS_EmptySet DEF Counted, Told, Gone
<1>2. IInv /\ [Next]_vars => IInv'
  BY StepType, StepInv, StepRows, StepRemovals, StepCounted
<1> QED BY <1>1, <1>2, PTL DEF Spec
=============================================================================
