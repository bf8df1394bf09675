----------------------- MODULE PartitionResizeProofs -----------------------
(***************************************************************************)
(* Proofs about PartitionResize, for every disk and any number of          *)
(* partitions and requests: that a file system fits its partition, and     *)
(* that its blocks are where the table says.                               *)
(***************************************************************************)
EXTENDS PartitionResize, TLAPS, FiniteSetTheorems

USE DEF Idle, Offline, Ops

\* No entry, and no entry a request knows, goes beyond the last sector.
Bounded ==
  /\ \A p \in Parts : table[p].start + table[p].size <= LastLba + 1
  /\ \A r \in Requests : req[r].seen.start + req[r].seen.size <= LastLba + 1
  /\ \A r \in Requests : Active(r) /\ req[r].op = "shrink" => req[r].arg \in 1 .. Total

\* The steps an operation has.
Staged ==
  \A r \in Requests :
    /\ req[r].at \in {"growpart", "grow_fs"} => req[r].op = "grow"
    /\ req[r].at \in {"resolve", "sfdisk", "partprobe"} => req[r].op \in {"shrink", "move"}
    /\ req[r].at = "e2fsck" => req[r].op = "shrink"
    /\ req[r].at = "resize" => req[r].op \in {"grow", "shrink"}
    /\ req[r].at = "dd" => req[r].op = "move"
    /\ req[r].at = "fsck" => req[r].op \in {"check", "repair"}

TInv == TypeOK /\ Bounded /\ Staged

LEMMA FreeIsBounded ==
  ASSUME TypeOK, Bounded, NEW p \in Parts
  PROVE  /\ FreeAfter(p) \in Nat
         /\ table[p].start + table[p].size + FreeAfter(p) <= LastLba + 1
<1> DEFINE S == End(p) .. LastLba
           F == {s \in S : \A t \in End(p) .. s, q \in Parts : t \notin Area(table[q])}
<1>1. End(p) \in Int /\ LastLba \in Int /\ End(p) <= LastLba + 1
  BY DiskAssumption DEF TypeOK, Bounded, End, Entries
<1>2. IsFiniteSet(S) /\ Cardinality(S) = LastLba - End(p) + 1
  BY <1>1, FS_Interval
<1>3. IsFiniteSet(F) /\ Cardinality(F) <= Cardinality(S)
  BY <1>2, FS_Subset, F \subseteq S
<1>4. Cardinality(F) \in Nat
  BY <1>3, FS_CardinalityType
<1> QED
  BY <1>1, <1>2, <1>3, <1>4 DEF FreeAfter, End

LEMMA TInit == Init => TInv
<1> SUFFICES ASSUME Init PROVE TInv
  OBVIOUS
<1>1. NoEntry \in Entries /\ (CHOOSE p \in Parts : TRUE) \in Parts
  BY DiskAssumption DEF NoEntry, Entries
<1>2. disk \in [Sectors -> Blocks]
  <2> SUFFICES ASSUME NEW s \in Sectors, \E p \in Parts : s \in Area(Table0[p]),
                      NEW c, c = CHOOSE p \in Parts : s \in Area(Table0[p])
               PROVE  <<c, s - Table0[c].start>> \in Blocks
    BY DEF Init, Blocks
  <2>1. c \in Parts /\ s \in Area(Table0[c])
    OBVIOUS
  <2>2. Table0[c].start \in Nat /\ Table0[c].size \in Nat /\ s \in Nat /\ Total \in Nat /\ s < Total
    BY <2>1, DiskAssumption DEF Entries, Sectors
  <2>3. s - Table0[c].start \in 0 .. Total
    BY <2>1, <2>2 DEF Area
  <2> QED
    BY <2>1, <2>3 DEF Blocks
<1>3. TypeOK
  <2>1. req \in [Requests -> Request]
    BY <1>1, DiskAssumption DEF Init, Request, Steps, Results
  <2>2. table \in [Parts -> Entries] /\ mounted \subseteq Parts /\ shared \subseteq Parts /\ overrun \subseteq Parts
    BY DiskAssumption DEF Init
  <2>3. fs \in [Parts -> [type : Fstypes, size : 1 .. Total, errors : BOOLEAN]]
    BY DEF Init
  <2> QED
    BY <1>2, <2>1, <2>2, <2>3 DEF TypeOK
<1>4. \A p \in Parts : Table0[p].start + Table0[p].size <= LastLba + 1
  <2> TAKE p \in Parts
  <2>1. Table0[p].start \in Nat /\ Table0[p].size \in Nat /\ Table0[p].size >= 1 /\ LastLba \in Nat
    BY DiskAssumption DEF Entries
  <2>2. Table0[p].start + Table0[p].size - 1 \in Area(Table0[p])
    BY <2>1 DEF Area
  <2>3. Table0[p].start + Table0[p].size - 1 \in First .. LastLba
    BY <2>2, DiskAssumption
  <2> QED
    BY <2>1, <2>3
<1>5. Bounded
  BY <1>4, DiskAssumption DEF Init, Bounded, Active, NoEntry
<1>6. Staged
  BY DEF Init, Staged
<1> QED
  BY <1>3, <1>5, <1>6 DEF TInv

LEMMA TAsk == ASSUME TInv, NEW r \in Requests, Ask(r) PROVE TInv'
<1> PICK op \in Ops, p \in Parts, force \in BOOLEAN, known \in BOOLEAN :
      \E arg \in Args(op, p) : Begin(r, op, p, arg, Refused(op, p, arg, force, known))
  BY DEF Ask
<1> PICK arg \in Args(op, p) : Begin(r, op, p, arg, Refused(op, p, arg, force, known))
  OBVIOUS
<1> DEFINE no == Refused(op, p, arg, force, known)
<1> HIDE DEF no
<1>0. Begin(r, op, p, arg, no)
  BY DEF no
<1>1. arg \in Int /\ (op = "shrink" => arg \in 1 .. Total)
  BY DiskAssumption DEF Args, TInv, TypeOK, Entries
<1>2. /\ req'[r].op = op /\ req'[r].arg = arg /\ req'[r].seen = table[p]
      /\ req'[r].at = IF no THEN "done" ELSE FirstStep(op)
      /\ \A q \in Requests : q # r => req'[q] = req[q]
  BY <1>0 DEF TInv, TypeOK, Request, Begin
<1>3. req' \in [Requests -> Request]
  <2> DEFINE to == IF no THEN "done" ELSE FirstStep(op)
             outcome == IF no THEN "refused" ELSE "none"
             new == [req[r] EXCEPT !.op = op, !.p = p, !.arg = arg, !.seen = table[p],
                                   !.at = to, !.result = outcome]
  <2>1. req[r] \in Request /\ table[p] \in Entries
    BY DEF TInv, TypeOK
  <2>2. to \in Steps /\ outcome \in Results
    BY DEF FirstStep, Steps, Results
  <2>3. req' = [req EXCEPT ![r] = new]
    BY ZenonT(30), <1>0 DEF Begin
  <2> HIDE DEF to, outcome
  <2>4. new \in Request
    BY <1>1, <2>1, <2>2 DEF Request
  <2> HIDE DEF new
  <2> QED
    BY <2>3, <2>4 DEF TInv, TypeOK
<1>4. TypeOK'
  BY <1>0, <1>3 DEF TInv, TypeOK, Ask, Begin
<1>5. Bounded'
  BY <1>1, <1>2 DEF TInv, Bounded, Ask, Active, TypeOK
<1>6. Staged'
  BY <1>2 DEF TInv, Staged, FirstStep
<1> QED
  BY <1>4, <1>5, <1>6 DEF TInv

\* A step of a request changes what it does next, and not what it was asked.
Moves(r, to) ==
  /\ req' \in [Requests -> Request]
  /\ req'[r].at = to /\ req'[r].op = req[r].op /\ req'[r].p = req[r].p /\ req'[r].arg = req[r].arg
  /\ \A q \in Requests : q # r => req'[q] = req[q]

LEMMA Movings ==
  ASSUME TypeOK, NEW r \in Requests, NEW to \in Steps, NEW res \in Results
  PROVE  /\ Goto(r, to) => Moves(r, to) /\ req'[r].seen = req[r].seen
         /\ Did(r, to) => Moves(r, to) /\ req'[r].seen = req[r].seen
         /\ Answer(r, res) => Moves(r, "done") /\ req'[r].seen = req[r].seen
<1> DEFINE went == [req[r] EXCEPT !.at = to]
           did  == [req[r] EXCEPT !.at = to, !.changed = TRUE]
           ans  == [req[r] EXCEPT !.at = "done", !.result = res]
<1>1. req[r] \in Request
  BY DEF TypeOK
<1>2. went \in Request /\ did \in Request /\ ans \in Request
  BY <1>1 DEF Request, Steps
<1>3. /\ Goto(r, to) => req' = [req EXCEPT ![r] = went]
      /\ Did(r, to) => req' = [req EXCEPT ![r] = did]
      /\ Answer(r, res) => req' = [req EXCEPT ![r] = ans]
  BY DEF Goto, Did, Answer
<1>4. /\ went.at = to /\ went.op = req[r].op /\ went.p = req[r].p /\ went.arg = req[r].arg
      /\ went.seen = req[r].seen
      /\ did.at = to /\ did.op = req[r].op /\ did.p = req[r].p /\ did.arg = req[r].arg
      /\ did.seen = req[r].seen
      /\ ans.at = "done" /\ ans.op = req[r].op /\ ans.p = req[r].p /\ ans.arg = req[r].arg
      /\ ans.seen = req[r].seen
  BY <1>1 DEF Request
<1> HIDE DEF went, did, ans
<1> QED
  BY <1>2, <1>3, <1>4 DEF TypeOK, Moves

\* What the steps keep of the other fields, besides Moves.
LEMMA Movings2 ==
  ASSUME TypeOK, NEW r \in Requests, NEW to, NEW res
  PROVE  /\ Goto(r, to) => req'[r].copied = req[r].copied /\ req'[r].seen = req[r].seen
         /\ Did(r, to) => req'[r].copied = req[r].copied /\ req'[r].seen = req[r].seen
         /\ Answer(r, res) => req'[r].copied = req[r].copied /\ req'[r].seen = req[r].seen
<1>1. req[r] \in Request
  BY DEF TypeOK
<1> QED
  BY <1>1 DEF TypeOK, Request, Goto, Did, Answer

LEMMA GrowFsMoves ==
  ASSUME TypeOK, NEW r \in Requests, GrowFs(r)
  PROVE  /\ Moves(r, "resize") \/ Moves(r, "done")
         /\ req'[r].copied = req[r].copied /\ req'[r].seen = req[r].seen
<1>1. Goto(r, "resize") \/ \E res \in Results : Answer(r, res)
  BY DEF GrowFs, Results
<1>2. CASE Goto(r, "resize")
  BY <1>2, Movings, Movings2 DEF Steps, Results
<1>3. ASSUME NEW res \in Results, Answer(r, res)
      PROVE  Moves(r, "done") /\ req'[r].copied = req[r].copied /\ req'[r].seen = req[r].seen
  BY <1>3, Movings, Movings2 DEF Steps
<1> QED
  BY <1>1, <1>2, <1>3

\* What the step of a request has to keep.
LEMMA TMoves ==
  ASSUME TInv, NEW r \in Requests, NEW to \in Steps, Moves(r, to), Active(r),
         \/ req'[r].seen = req[r].seen
         \/ \E p \in Parts : req'[r].seen = table[p],
         table' \in [Parts -> Entries], fs' \in [Parts -> [type : Fstypes, size : 1 .. Total, errors : BOOLEAN]],
         disk' \in [Sectors -> Blocks], mounted' = mounted, shared' = shared, overrun' \subseteq Parts,
         \A p \in Parts : table'[p].start + table'[p].size <= LastLba + 1,
         LET op == req[r].op
         IN  /\ to \in {"growpart", "grow_fs"} => op = "grow"
             /\ to \in {"resolve", "sfdisk", "partprobe"} => op \in {"shrink", "move"}
             /\ to = "e2fsck" => op = "shrink"
             /\ to = "resize" => op \in {"grow", "shrink"}
             /\ to = "dd" => op = "move"
             /\ to = "fsck" => op \in {"check", "repair"}
  PROVE  TInv'
<1>1. TypeOK'
  BY DEF TInv, TypeOK, Moves
<1>2. Bounded'
  <2>1. \A q \in Requests : req'[q].seen.start + req'[q].seen.size <= LastLba + 1
    BY DEF TInv, Bounded, Moves
  <2>2. \A q \in Requests : Active(q)' /\ req'[q].op = "shrink" => req'[q].arg \in 1 .. Total
    BY DEF TInv, Bounded, Moves, Active
  <2> QED
    BY <2>1, <2>2 DEF Bounded
<1>3. Staged'
  BY DEF TInv, Staged, Moves
<1> QED
  BY <1>1, <1>2, <1>3 DEF TInv

\* A file system of n sectors in its partition.
LEMMA TResize ==
  ASSUME TInv, NEW p \in Parts, NEW n \in 1 .. Total, n <= table[p].size, ResizeFs(p, n)
  PROVE  /\ fs' \in [Parts -> [type : Fstypes, size : 1 .. Total, errors : BOOLEAN]]
         /\ disk' \in [Sectors -> Blocks]
         /\ overrun' \subseteq Parts
<1>1. fs' \in [Parts -> [type : Fstypes, size : 1 .. Total, errors : BOOLEAN]]
  BY DEF ResizeFs, TInv, TypeOK
<1>2. overrun' \subseteq Parts
  BY DEF ResizeFs, Overruns, TInv, TypeOK
<1>3. disk' \in [Sectors -> Blocks]
  <2> DEFINE new == table[p].start + fs[p].size .. table[p].start + n - 1
  <2>1. \A s \in Sectors : s \in new => <<p, s - table[p].start>> \in Blocks
    <3> SUFFICES ASSUME NEW s \in Sectors, s \in new PROVE s - table[p].start \in 0 .. Total
      BY DEF Blocks
    <3>1. table[p].start \in Int /\ fs[p].size \in Int /\ fs[p].size >= 1 /\ n \in Int /\ n <= Total
      BY DiskAssumption DEF TInv, TypeOK, Entries
    <3> QED
      BY <3>1, DiskAssumption DEF Sectors
  <2> HIDE DEF new
  <2>2. disk' = [s \in Sectors |-> IF s \in new THEN <<p, s - table[p].start>> ELSE disk[s]]
    BY DEF ResizeFs, new
  <2> QED
    BY <2>1, <2>2 DEF TInv, TypeOK
<1> QED
  BY <1>1, <1>2, <1>3

(* What the programs leave, whether or not their exit status is an error.   *)

LEMMA Grown ==
  ASSUME TInv, NEW p \in Parts, EntryGrown(p)
  PROVE  /\ table' \in [Parts -> Entries]
         /\ \A q \in Parts : table'[q].start + table'[q].size <= LastLba + 1
         /\ table'[p].start = table[p].start /\ table'[p].size >= table[p].size
         /\ \A q \in Parts : q # p => table'[q] = table[q]
<1> USE DEF TInv
<1> DEFINE f == FreeAfter(p)
<1>1. f \in Nat /\ table[p].start + table[p].size + f <= LastLba + 1
  BY FreeIsBounded
<1>2. table' = [table EXCEPT ![p].size = @ + f]
  BY DEF EntryGrown
<1> HIDE DEF f
<1>3. /\ table[p].start \in First .. LastLba /\ table[p].size \in 1 .. Total
      /\ table[p].size + f \in 1 .. Total
  BY <1>1, DiskAssumption DEF TypeOK, Entries
<1>4. table'[p] = [start |-> table[p].start, size |-> table[p].size + f]
  BY <1>2 DEF TypeOK, Entries
<1>5. \A q \in Parts : q # p => table'[q] = table[q]
  BY <1>2 DEF TypeOK
<1>6. table' \in [Parts -> Entries]
  BY <1>2, <1>3 DEF TypeOK, Entries
<1> QED
  BY <1>1, <1>3, <1>4, <1>5, <1>6, DiskAssumption DEF Bounded

LEMMA Fixed ==
  ASSUME TInv, NEW p \in Parts, ErrorsFixed(p)
  PROVE  /\ fs' \in [Parts -> [type : Fstypes, size : 1 .. Total, errors : BOOLEAN]]
         /\ \A o \in Parts : fs'[o].type = fs[o].type /\ fs'[o].size = fs[o].size
<1> DEFINE repaired == [fs[p] EXCEPT !.errors = FALSE]
<1>1. fs' = [fs EXCEPT ![p] = repaired]
  BY DEF ErrorsFixed
<1>2. /\ repaired \in [type : Fstypes, size : 1 .. Total, errors : BOOLEAN]
      /\ repaired.type = fs[p].type /\ repaired.size = fs[p].size
  BY DEF TInv, TypeOK
<1> HIDE DEF repaired
<1> QED
  BY <1>1, <1>2 DEF TInv, TypeOK

\* The size a file system is given.
Size(r) == IF req[r].op = "grow" THEN table[req[r].p].size ELSE req[r].arg

LEMMA Sized ==
  ASSUME TInv, NEW r \in Requests, Active(r), Resized(r)
  PROVE  /\ req[r].p \in Parts /\ req[r].op \in {"grow", "shrink"}
         /\ Size(r) \in 1 .. Total /\ Size(r) <= table[req[r].p].size
         /\ ResizeFs(req[r].p, Size(r))
<1> USE DEF TInv
<1>1. req[r].p \in Parts
  BY DEF TypeOK, Request
<1>2. /\ req[r].op \in {"grow", "shrink"}
      /\ req[r].op = "shrink" => req[r].arg \in Used[req[r].p] .. table[req[r].p].size
      /\ ResizeFs(req[r].p, Size(r))
  BY DEF Resized, Size
<1>3. table[req[r].p].size \in 1 .. Total /\ Used[req[r].p] \in Int
  BY <1>1, DiskAssumption DEF TypeOK, Entries
<1>4. req[r].op = "shrink" => req[r].arg \in 1 .. Total
  BY DEF Bounded
<1> QED
  BY <1>1, <1>2, <1>3, <1>4, DiskAssumption DEF Size

LEMMA Written ==
  ASSUME TInv, NEW r \in Requests, Active(r), req[r].op \in {"shrink", "move"},
         EntryWritten(req[r].p, NewEntry(r))
  PROVE  /\ table' \in [Parts -> Entries]
         /\ \A q \in Parts : table'[q].start + table'[q].size <= LastLba + 1
         /\ table'[req[r].p] = NewEntry(r)
         /\ \A q \in Parts : q # req[r].p => table'[q] = table[q]
<1> USE DEF TInv
<1> DEFINE p == req[r].p
           e == NewEntry(r)
<1>1. p \in Parts
  BY DEF TypeOK, Request
<1>2. e.start \in Int /\ e.size \in 1 .. Total
  BY DiskAssumption DEF NewEntry, TypeOK, Request, Entries, Bounded
<1>3. e = [start |-> e.start, size |-> e.size]
  BY DEF NewEntry
<1>4. Area(e) \subseteq First .. LastLba /\ table' = [table EXCEPT ![p] = e]
  BY DEF EntryWritten, Allowed
<1> HIDE DEF e
<1>5. e.start \in First .. LastLba /\ e.start + e.size - 1 \in First .. LastLba
  BY <1>2, <1>4 DEF Area
<1>6. e \in Entries /\ e.start + e.size <= LastLba + 1
  BY <1>2, <1>3, <1>5, DiskAssumption DEF Entries
<1>7. \A q \in Parts : table'[q] = IF q = p THEN e ELSE table[q]
  BY <1>1, <1>4 DEF TypeOK
<1>8. table' \in [Parts -> Entries]
  BY <1>1, <1>4, <1>6 DEF TypeOK
<1> QED
  BY <1>1, <1>6, <1>7, <1>8 DEF Bounded, e

\* Of the programs that fail: what each may have done.
Failing(r) ==
  LET p == req[r].p
  IN  \/ UNCHANGED <<table, fs, disk, overrun>>
      \/ req[r].op = "grow" /\ EntryGrown(p) /\ UNCHANGED <<fs, disk, overrun>>
      \/ req[r].op \in {"shrink", "repair"} /\ ErrorsFixed(p) /\ UNCHANGED <<table, disk, overrun>>
      \/ req[r].at = "resize" /\ Resized(r) /\ UNCHANGED table
      \/ /\ req[r].at = "sfdisk" /\ req[r].op \in {"shrink", "move"}
         /\ EntryWritten(p, NewEntry(r)) /\ UNCHANGED <<fs, disk, overrun>>

LEMMA Failings ==
  ASSUME TInv, NEW r \in Requests, ToolFails(r)
  PROVE  /\ Active(r) /\ req[r].p \in Parts /\ req[r].at # "partprobe"
         /\ UNCHANGED <<mounted, shared>> /\ Failing(r)
         /\ Moves(r, "done") /\ req'[r].copied = req[r].copied /\ req'[r].seen = req[r].seen
<1>1. Active(r) /\ req[r].p \in Parts /\ req[r].at # "partprobe" /\ UNCHANGED <<mounted, shared>>
  BY DEF ToolFails, Active, TInv, TypeOK, Request
<1>2. Moves(r, "done") /\ req'[r].copied = req[r].copied /\ req'[r].seen = req[r].seen
  BY Movings, Movings2 DEF ToolFails, Steps, Results, TInv
<1>3. Failing(r)
  BY DEF ToolFails, Failing, TInv, Staged
<1> QED
  BY <1>1, <1>2, <1>3

LEMMA ResizeMoves ==
  ASSUME TInv, NEW r \in Requests, Resize(r)
  PROVE  /\ Active(r) /\ req[r].op \in {"grow", "shrink"}
         /\ \/ Moves(r, "done") /\ req[r].op = "grow"
            \/ Moves(r, "sfdisk") /\ req[r].op = "shrink"
         /\ req'[r].copied = req[r].copied /\ req'[r].seen = req[r].seen
<1> USE DEF TInv
<1>1. Active(r) /\ req[r].op \in {"grow", "shrink"}
  BY DEF Resize, Active, Staged
<1>2. CASE req[r].op = "grow"
  <2> DEFINE new == [req[r] EXCEPT !.at = "done", !.changed = TRUE, !.result = "success"]
  <2>1. req[r] \in Request
    BY DEF TypeOK
  <2>2. /\ new \in Request /\ new.at = "done" /\ new.op = req[r].op /\ new.p = req[r].p
        /\ new.arg = req[r].arg /\ new.seen = req[r].seen /\ new.copied = req[r].copied
    BY <2>1 DEF Request, Steps, Results
  <2>3. req' = [req EXCEPT ![r] = new]
    BY <1>2 DEF Resize
  <2> HIDE DEF new
  <2> QED
    BY <1>1, <1>2, <2>2, <2>3 DEF TypeOK, Moves
<1>3. CASE req[r].op = "shrink"
  BY <1>1, <1>3, Movings, Movings2 DEF Resize, Steps, Results
<1> QED
  BY <1>1, <1>2, <1>3

LEMMA TFails == ASSUME TInv, NEW r \in Requests, ToolFails(r) PROVE TInv'
<1>1. /\ Active(r) /\ req[r].p \in Parts /\ UNCHANGED <<mounted, shared>>
      /\ Moves(r, "done") /\ req'[r].seen = req[r].seen /\ Failing(r)
  BY Failings
<1>2. CASE UNCHANGED <<table, fs, disk, overrun>>
  BY <1>1, <1>2, TMoves DEF Steps, TInv, TypeOK, Bounded
<1>3. CASE EntryGrown(req[r].p) /\ UNCHANGED <<fs, disk, overrun>>
  BY <1>1, <1>3, Grown, TMoves DEF Steps, TInv, TypeOK
<1>4. CASE ErrorsFixed(req[r].p) /\ UNCHANGED <<table, disk, overrun>>
  BY <1>1, <1>4, Fixed, TMoves DEF Steps, TInv, TypeOK, Bounded
<1>5. CASE Resized(r) /\ UNCHANGED table
  <2>1. /\ fs' \in [Parts -> [type : Fstypes, size : 1 .. Total, errors : BOOLEAN]]
        /\ disk' \in [Sectors -> Blocks] /\ overrun' \subseteq Parts
    BY <1>1, <1>5, Sized, TResize
  <2> QED
    BY <1>1, <1>5, <2>1, TMoves DEF Steps, TInv, TypeOK, Bounded
<1>6. CASE /\ req[r].op \in {"shrink", "move"} /\ EntryWritten(req[r].p, NewEntry(r))
           /\ UNCHANGED <<fs, disk, overrun>>
  BY <1>1, <1>6, Written, TMoves DEF Steps, TInv, TypeOK
<1> QED
  BY <1>1, <1>2, <1>3, <1>4, <1>5, <1>6 DEF Failing

LEMMA TNext == ASSUME TInv, [Next]_vars PROVE TInv'
<1> USE DEF TInv
<1>0. ASSUME NEW r \in Requests PROVE req[r].p \in Parts /\ req[r].op \in Ops
  BY DEF TypeOK, Request
<1>1. ASSUME NEW r \in Requests, Ask(r) PROVE TInv'
  BY <1>1, TAsk
<1>2. ASSUME NEW r \in Requests, Growpart(r) PROVE TInv'
  <2>1. req[r].p \in Parts /\ Active(r) /\ req[r].op = "grow"
    BY <1>0, <1>2 DEF Growpart, Active, Staged
  <2>2. Moves(r, "grow_fs") /\ req'[r].seen = req[r].seen
    BY <1>2, Movings DEF Growpart, Steps, Results
  <2>3. EntryGrown(req[r].p) \/ table' = table
    BY <1>2 DEF Growpart
  <2>4. /\ table' \in [Parts -> Entries]
        /\ \A q \in Parts : table'[q].start + table'[q].size <= LastLba + 1
    BY <2>1, <2>3, Grown DEF TypeOK, Bounded
  <2> QED
    BY <1>2, <2>1, <2>2, <2>4, TMoves DEF Growpart, Steps, TypeOK
<1>3. ASSUME NEW r \in Requests, GrowFs(r) PROVE TInv'
  <2>1. Active(r) /\ req[r].op = "grow"
    BY <1>3 DEF GrowFs, Active, Staged
  <2>2. req'[r].seen = req[r].seen /\ (Moves(r, "resize") \/ Moves(r, "done"))
    BY Zenon, <1>3, GrowFsMoves DEF TInv
  <2> QED
    BY <1>3, <2>1, <2>2, TMoves DEF GrowFs, Steps, TypeOK, Bounded
<1>4. ASSUME NEW r \in Requests, Resolve(r) PROVE TInv'
  <2>1. Active(r) /\ req[r].op \in {"shrink", "move"}
    BY <1>4 DEF Resolve, Active, Staged
  <2>2. /\ req'[r].seen = table[req[r].p]
        /\ \/ Moves(r, "dd") /\ req[r].op = "move"
           \/ Moves(r, "sfdisk")
           \/ Moves(r, "e2fsck") /\ req[r].op = "shrink"
           \/ Moves(r, "resize") /\ req[r].op = "shrink"
    <3> DEFINE p  == req[r].p
               to == IF req[r].op = "move" THEN "dd"
                     ELSE IF ~ResizeTool(fs[p].type) THEN "sfdisk"
                     ELSE IF fs[p].type = "ext" THEN "e2fsck" ELSE "resize"
               new == [req[r] EXCEPT !.at = to, !.seen = table[p], !.changed = to = "sfdisk"]
    <3>1. req[r] \in Request /\ table[p] \in Entries
      BY <1>0 DEF TypeOK
    <3>2. /\ to \in {"dd", "sfdisk", "e2fsck", "resize"}
          /\ to = "dd" <=> req[r].op = "move"
      OBVIOUS
    <3>3. req' = [req EXCEPT ![r] = new]
      BY <1>4 DEF Resolve
    <3> HIDE DEF to
    <3>4. new \in Request
      BY <3>1, <3>2 DEF Request, Steps
    <3>5. /\ new.at = to /\ new.op = req[r].op /\ new.p = p /\ new.arg = req[r].arg
          /\ new.seen = table[p]
      BY <3>1 DEF Request
    <3> HIDE DEF new
    <3>6. Moves(r, to) /\ req'[r].seen = table[p]
      BY <3>3, <3>4, <3>5 DEF TypeOK, Moves
    <3> QED
      BY <2>1, <3>2, <3>6
  <2> QED
    BY <1>0, <1>4, <2>1, <2>2, TMoves DEF Resolve, Steps, TypeOK, Bounded
<1>5. ASSUME NEW r \in Requests, E2fsck(r) PROVE TInv'
  <2>1. Active(r) /\ req[r].op = "shrink"
    BY <1>5 DEF E2fsck, Active, Staged
  <2>2. Moves(r, "resize") /\ req'[r].seen = req[r].seen
    BY <1>5, Movings DEF E2fsck, Steps, Results
  <2>3. fs' \in [Parts -> [type : Fstypes, size : 1 .. Total, errors : BOOLEAN]]
    BY <1>0, <1>5, Fixed DEF E2fsck, TypeOK
  <2> QED
    BY <1>5, <2>1, <2>2, <2>3, TMoves DEF E2fsck, Steps, TypeOK, Bounded
<1>6. ASSUME NEW r \in Requests, Resize(r) PROVE TInv'
  <2>1. /\ Active(r) /\ req'[r].seen = req[r].seen
        /\ Moves(r, "done") \/ (Moves(r, "sfdisk") /\ req[r].op = "shrink")
    BY <1>6, ResizeMoves
  <2>2. /\ fs' \in [Parts -> [type : Fstypes, size : 1 .. Total, errors : BOOLEAN]]
        /\ disk' \in [Sectors -> Blocks]
        /\ overrun' \subseteq Parts
    BY <1>6, <2>1, Sized, TResize DEF Resize
  <2> QED
    BY <1>6, <2>1, <2>2, TMoves DEF Resize, Steps, TypeOK, Bounded
<1>7. ASSUME NEW r \in Requests, Dd(r) PROVE TInv'
  <2> DEFINE to   == req[r].arg + req[r].copied
             from == req[r].seen.start + req[r].copied
  <2>1. Active(r) /\ req[r].op = "move" /\ req[r].p \in Parts
    BY <1>0, <1>7 DEF Dd, Active, Staged
  <2>2. CASE req[r].copied < req[r].seen.size
    <3>1. from \in Sectors
      <4>1. req[r] \in Request /\ req[r].seen.start + req[r].seen.size <= LastLba + 1
        BY DEF TypeOK, Bounded
      <4>2. /\ req[r].seen.start \in First .. LastLba /\ req[r].seen.size \in Nat
            /\ req[r].copied \in Nat
        BY <4>1 DEF Request, Entries
      <4> QED
        BY <2>2, <4>1, <4>2, DiskAssumption DEF Sectors
    <3>2. disk' \in [Sectors -> Blocks] /\ overrun' \subseteq Parts
      BY <1>7, <2>2, <3>1 DEF Dd, TypeOK, Overruns
    <3>3. req[r].copied + 1 \in 0 .. Total
      BY <2>2, DiskAssumption DEF TypeOK, Request, Entries
    <3>4. Moves(r, "dd") /\ req'[r].seen = req[r].seen
      <4> DEFINE new == [req[r] EXCEPT !.copied = @ + 1]
      <4>1. req[r] \in Request
        BY DEF TypeOK
      <4>2. req' = [req EXCEPT ![r] = new]
        BY <1>7, <2>2 DEF Dd
      <4>3. /\ new \in Request /\ new.at = req[r].at /\ new.op = req[r].op /\ new.p = req[r].p
            /\ new.arg = req[r].arg /\ new.seen = req[r].seen
        BY <3>3, <4>1 DEF Request
      <4>4. req[r].at = "dd"
        BY <1>7 DEF Dd
      <4> HIDE DEF new
      <4> QED
        BY <4>2, <4>3, <4>4 DEF TypeOK, Moves
    <3> QED
      BY <1>7, <2>1, <3>2, <3>4, TMoves DEF Dd, Steps, TypeOK, Bounded
  <2>3. CASE ~(req[r].copied < req[r].seen.size)
    <3>1. Moves(r, "sfdisk") /\ req'[r].seen = req[r].seen
      BY <1>7, <2>3, Movings DEF Dd, Steps, Results
    <3> QED
      BY <1>7, <2>1, <2>3, <3>1, TMoves DEF Dd, Steps, TypeOK, Bounded
  <2> QED
    BY <2>2, <2>3
<1>8. ASSUME NEW r \in Requests, Sfdisk(r) PROVE TInv'
  <2>1. Active(r) /\ req[r].op \in {"shrink", "move"}
    BY <1>8 DEF Sfdisk, Active, Staged
  <2>2. Moves(r, "partprobe") /\ req'[r].seen = req[r].seen
    BY <1>8, Movings DEF Sfdisk, Steps, Results
  <2>3. /\ table' \in [Parts -> Entries]
        /\ \A q \in Parts : table'[q].start + table'[q].size <= LastLba + 1
    BY <1>8, <2>1, Written DEF Sfdisk
  <2> QED
    BY <1>8, <2>1, <2>2, <2>3, TMoves DEF Sfdisk, Steps, TypeOK
<1>9. ASSUME NEW r \in Requests, Fsck(r) PROVE TInv'
  <2>1. Active(r)
    BY <1>9 DEF Fsck, Active
  <2>2. Moves(r, "done") /\ req'[r].seen = req[r].seen
    <3>1. PICK code : req' = [req EXCEPT ![r].at = "done", ![r].canceled = 32 \in code,
                                 ![r].changed = Changes(fs[req[r].p].type, req[r].op = "repair", code),
                                 ![r].result = IF Success(code) THEN "success" ELSE "error"]
      BY <1>9 DEF Fsck
    <3> DEFINE ca == 32 \in code
               ch == Changes(fs[req[r].p].type, req[r].op = "repair", code)
               rs == IF Success(code) THEN "success" ELSE "error"
               new == [req[r] EXCEPT !.at = "done", !.canceled = ca, !.changed = ch, !.result = rs]
    <3>2. ch \in BOOLEAN
      <4>1. (1 \in code) \in BOOLEAN /\ (req[r].op = "repair" /\ code = {}) \in BOOLEAN
        OBVIOUS
      <4> QED
        BY <4>1, Zenon DEF Changes
    <3>3. ca \in BOOLEAN /\ rs \in Results
      BY DEF Results
    <3>4. req' = [req EXCEPT ![r] = new]
      BY <3>1
    <3>5. req[r] \in Request
      BY DEF TypeOK
    <3> HIDE DEF ca, ch, rs
    <3>6. /\ new \in Request
          /\ new.at = "done" /\ new.op = req[r].op /\ new.p = req[r].p
          /\ new.arg = req[r].arg /\ new.seen = req[r].seen
      BY <3>2, <3>3, <3>5 DEF Request, Steps
    <3> HIDE DEF new
    <3> QED
      BY <3>4, <3>6 DEF TypeOK, Moves
  <2>3. fs' \in [Parts -> [type : Fstypes, size : 1 .. Total, errors : BOOLEAN]]
    <3>1. PICK b \in BOOLEAN : fs' = [fs EXCEPT ![req[r].p] = [fs[req[r].p] EXCEPT !.errors = b]]
      BY <1>9 DEF Fsck
    <3> QED
      BY <1>0, <3>1 DEF TypeOK
  <2> QED
    BY <1>9, <2>1, <2>2, <2>3, TMoves DEF Fsck, Steps, TypeOK, Bounded
<1>10. ASSUME NEW r \in Requests, Partprobe(r) \/ Raises(r) PROVE TInv'
  <2>1. Active(r) /\ UNCHANGED <<table, fs, disk, mounted, shared, overrun>>
    BY <1>10 DEF Partprobe, Raises, Active
  <2>2. Moves(r, "done") /\ req'[r].seen = req[r].seen
    BY <1>10, Movings DEF Partprobe, Raises, Steps, Results
  <2> QED
    BY <2>1, <2>2, TMoves DEF Steps, TypeOK, Bounded
<1>13. ASSUME NEW r \in Requests, ToolFails(r) PROVE TInv'
  BY <1>13, TFails
<1>11. ASSUME NEW p \in Parts, Mount(p) \/ Unmount(p) PROVE TInv'
  BY <1>11 DEF Mount, Unmount, TypeOK, Bounded, Staged, Active
<1>12. CASE UNCHANGED vars
  BY <1>12 DEF vars, TypeOK, Bounded, Staged, Active
<1> QED
  BY <1>1, <1>2, <1>3, <1>4, <1>5, <1>6, <1>7, <1>8, <1>9, <1>10, <1>11, <1>12, <1>13 DEF Next, Step

\* Every state a run of the requests reaches is well-formed; no entry and no
\* copy reads beyond the last sector of the table.
THEOREM WellFormed == Spec => []TypeOK
<1>1. TInv /\ [Next]_vars => TInv'
  BY TNext
<1>2. TInv => TypeOK
  BY DEF TInv
<1> QED
  BY TInit, <1>1, <1>2, PTL DEF Spec

-----------------------------------------------------------------------------
(* A file system fits its partition.  An unshared partition has one request *)
(* at a time; what that request saw of it is still so, until it writes the  *)
(* entry itself.                                                            *)

Alone ==
  \A r, q \in Requests :
    r # q /\ Active(r) /\ Active(q) /\ req[r].p = req[q].p => req[r].p \in shared

Known ==
  \A r \in Requests :
    Active(r) /\ req[r].op \in {"shrink", "move"} /\ req[r].at # "partprobe" /\ req[r].p \notin shared
      => req[r].seen = table[req[r].p]

Typed ==
  \A r \in Requests : Active(r) /\ req[r].op = "shrink" => fs[req[r].p].type \in {"ext", "ntfs", "btrfs"}

Shrunk ==
  \A r \in Requests :
    req[r].at = "sfdisk" /\ req[r].op = "shrink" /\ req[r].p \notin shared /\ fs[req[r].p].type # "btrfs"
      => fs[req[r].p].size <= req[r].arg

SInv == Alone /\ Known /\ Typed /\ Shrunk /\ Fits

\* What a step of an operation has to see to, for its own partition.
LEMMA SMoves ==
  ASSUME TInv, TInv', SInv, NEW r \in Requests, NEW to \in Steps, Moves(r, to), Active(r),
         shared' = shared,
         \A o \in Parts : /\ fs'[o].type = fs[o].type
                          /\ o # req[r].p => table'[o] = table[o] /\ fs'[o].size = fs[o].size,
         LET p == req[r].p
         IN  p \notin shared =>
               /\ to \notin {"done", "partprobe"} /\ req[r].op \in {"shrink", "move"} => req'[r].seen = table'[p]
               /\ to = "sfdisk" /\ req[r].op = "shrink" /\ fs[p].type # "btrfs" => fs'[p].size <= req[r].arg
               /\ fs[p].type # "btrfs" => fs'[p].size <= table'[p].size
  PROVE  SInv'
<1> USE DEF TInv, SInv
<1>1. \A q \in Requests : req[q].p \in Parts
  BY DEF TypeOK, Request
<1>2. Alone'
  BY DEF Alone, Moves, Active
<1>3. \A q \in Requests : q # r /\ Active(q) /\ req[q].p \notin shared => req[q].p # req[r].p
  BY DEF Alone
<1>4. Known'
  BY <1>1, <1>3 DEF Known, Moves, Active
<1>5. Typed'
  BY <1>1 DEF Typed, Moves, Active
<1>6. Shrunk'
  BY <1>1, <1>3 DEF Shrunk, Moves, Active
<1>7. Fits'
  BY <1>1 DEF Fits
<1> QED
  BY <1>2, <1>4, <1>5, <1>6, <1>7

LEMMA SInit == Init => SInv
<1> SUFFICES ASSUME Init PROVE SInv
  OBVIOUS
<1>1. \A r \in Requests : req[r].at = "new"
  BY DEF Init
<1>2. Fits
  BY DiskAssumption DEF Init, Fits, Entries
<1> QED
  BY <1>1, <1>2 DEF SInv, Alone, Known, Typed, Shrunk, Active

LEMMA SAsk == ASSUME TInv, SInv, NEW r \in Requests, Ask(r) PROVE SInv'
<1> USE DEF TInv, SInv
<1> PICK op \in Ops, p \in Parts, force \in BOOLEAN, known \in BOOLEAN :
      \E arg \in Args(op, p) : Begin(r, op, p, arg, Refused(op, p, arg, force, known))
  BY DEF Ask
<1> PICK arg \in Args(op, p) : Begin(r, op, p, arg, Refused(op, p, arg, force, known))
  OBVIOUS
<1> DEFINE no == Refused(op, p, arg, force, known)
<1>0. op = "shrink" /\ ~no => fs[p].type \in {"ext", "ntfs", "btrfs"}
  BY DEF Refused, plan_shrink
<1> HIDE DEF no
<1>1. Begin(r, op, p, arg, no)
  BY DEF no
<1>2. /\ req'[r].op = op /\ req'[r].seen = table[p] /\ req'[r].p = p
      /\ req'[r].at = IF no THEN "done" ELSE FirstStep(op)
      /\ \A q \in Requests : q # r => req'[q] = req[q]
  BY <1>1 DEF TypeOK, Request, Begin
<1>3. ~Active(r) /\ UNCHANGED <<table, fs>>
  BY DEF Ask, Active
<1>4. FirstStep(op) \in {"growpart", "resolve", "fsck"}
  BY DEF FirstStep
<1>5. shared \subseteq shared' /\ (~no /\ (\E q \in Requests \ {r} : Active(q) /\ req[q].p = p) => p \in shared')
  BY <1>1 DEF Begin
<1>6. Alone'
  BY <1>2, <1>4, <1>5 DEF Alone, Active
<1>7. Known'
  BY <1>2, <1>3, <1>4, <1>5 DEF Known, Active
<1>8. Typed'
  BY <1>0, <1>2, <1>3, <1>4 DEF Typed, Active
<1>9. Shrunk'
  BY <1>2, <1>3, <1>4, <1>5 DEF Shrunk
<1>10. Fits'
  BY <1>3, <1>5 DEF Fits
<1> QED
  BY <1>6, <1>7, <1>8, <1>9, <1>10

\* The entry that sfdisk writes is no smaller than the file system.
LEMMA NewEntryFits ==
  ASSUME TInv, SInv, NEW r \in Requests, req[r].at = "sfdisk", req[r].op \in {"shrink", "move"},
         req[r].p \notin shared, fs[req[r].p].type # "btrfs"
  PROVE  fs[req[r].p].size <= NewEntry(r).size
<1>1. Active(r) /\ req[r].p \in Parts
  BY DEF Active, TInv, TypeOK, Request
<1> QED
  BY <1>1 DEF NewEntry, SInv, Known, Shrunk, Fits

LEMMA SFails == ASSUME TInv, TInv', SInv, NEW r \in Requests, ToolFails(r) PROVE SInv'
<1> DEFINE p == req[r].p
<1>1. /\ Active(r) /\ p \in Parts /\ shared' = shared /\ Moves(r, "done") /\ Failing(r)
  BY Failings
<1>2. fs[p].type # "btrfs" /\ p \notin shared => fs[p].size <= table[p].size
  BY <1>1 DEF SInv, Fits
<1>3. fs[p].size \in Int /\ table[p].size \in Int /\ table'[p].size \in Int
  BY <1>1, DiskAssumption DEF TInv, TypeOK, Entries
<1>4. CASE UNCHANGED <<table, fs>>
  BY <1>1, <1>2, <1>4, SMoves DEF Steps
<1>5. CASE EntryGrown(p) /\ fs' = fs
  <2>1. table'[p].size >= table[p].size /\ \A o \in Parts : o # p => table'[o] = table[o]
    BY <1>1, <1>5, Grown
  <2> QED
    BY <1>1, <1>2, <1>3, <1>5, <2>1, SMoves DEF Steps
<1>6. CASE ErrorsFixed(p) /\ table' = table
  <2>1. \A o \in Parts : fs'[o].type = fs[o].type /\ fs'[o].size = fs[o].size
    BY <1>1, <1>6, Fixed
  <2> QED
    BY <1>1, <1>2, <1>6, <2>1, SMoves DEF Steps
<1>7. CASE Resized(r) /\ table' = table
  <2>1. Size(r) <= table[p].size /\ ResizeFs(p, Size(r))
    BY <1>1, <1>7, Sized
  <2>2. /\ fs'[p].size = Size(r) /\ fs'[p].type = fs[p].type
        /\ \A o \in Parts : o # p => fs'[o] = fs[o]
    BY <1>1, <2>1 DEF ResizeFs, TInv, TypeOK
  <2> QED
    BY <1>1, <1>7, <2>1, <2>2, SMoves DEF Steps
<1>8. CASE /\ req[r].at = "sfdisk" /\ req[r].op \in {"shrink", "move"}
           /\ EntryWritten(p, NewEntry(r)) /\ fs' = fs
  <2>1. table'[p] = NewEntry(r) /\ \A o \in Parts : o # p => table'[o] = table[o]
    BY <1>1, <1>8, Written
  <2> QED
    BY <1>1, <1>8, <2>1, NewEntryFits, SMoves DEF Steps
<1> QED
  BY <1>1, <1>4, <1>5, <1>6, <1>7, <1>8 DEF Failing

LEMMA SNext == ASSUME TInv, SInv, [Next]_vars PROVE SInv'
<1> USE DEF TInv, SInv
<1>t. TInv'
  BY TNext
<1>0. ASSUME NEW r \in Requests PROVE req[r].p \in Parts /\ req[r].op \in Ops
  BY DEF TypeOK, Request
<1>1. ASSUME NEW r \in Requests, Ask(r) PROVE SInv'
  BY <1>1, SAsk
<1>2. ASSUME NEW r \in Requests, Growpart(r) PROVE SInv'
  <2> DEFINE p == req[r].p
  <2>1. p \in Parts /\ Active(r) /\ req[r].op = "grow"
    BY <1>0, <1>2 DEF Growpart, Active, Staged
  <2>2. Moves(r, "grow_fs")
    BY <1>2, Movings DEF Growpart, Steps, Results
  <2>3. EntryGrown(p) \/ table' = table
    BY <1>2 DEF Growpart
  <2>4. fs[p].size \in Nat /\ table[p].size \in Nat /\ table'[p].size \in Nat
    BY <1>t, <2>1, DiskAssumption DEF TypeOK, Entries
  <2>5. /\ table'[p].size >= table[p].size
        /\ \A o \in Parts : o # p => table'[o] = table[o]
    BY <2>1, <2>3, <2>4, Grown
  <2>6. shared' = shared /\ fs' = fs
    BY <1>2 DEF Growpart
  <2>7. fs[p].type # "btrfs" /\ p \notin shared => fs'[p].size <= table'[p].size
    BY <2>1, <2>4, <2>5, <2>6 DEF Fits
  <2> HIDE DEF TInv, SInv
  <2> QED
    BY <1>t, <2>1, <2>2, <2>5, <2>6, <2>7, SMoves DEF Steps
<1>3. ASSUME NEW r \in Requests, GrowFs(r) PROVE SInv'
  <2>1. Active(r) /\ req[r].op = "grow" /\ req[r].p \in Parts
    BY <1>0, <1>3 DEF GrowFs, Active, Staged
  <2>2. Moves(r, "resize") \/ Moves(r, "done")
    BY Zenon, <1>3, GrowFsMoves DEF TInv
  <2> QED
    BY <1>t, <1>3, <2>1, <2>2, SMoves DEF GrowFs, Steps, Fits
<1>4. ASSUME NEW r \in Requests, Resolve(r) PROVE SInv'
  <2> DEFINE p == req[r].p
  <2>1. Active(r) /\ req[r].op \in {"shrink", "move"} /\ p \in Parts
    BY <1>0, <1>4 DEF Resolve, Active, Staged
  <2>2. /\ req'[r].seen = table[p] /\ Moves(r, req'[r].at)
        /\ req'[r].at \in {"dd", "sfdisk", "e2fsck", "resize"}
        /\ req'[r].at = "sfdisk" /\ req[r].op = "shrink" => ~ResizeTool(fs[p].type)
    <3> DEFINE to == IF req[r].op = "move" THEN "dd"
                     ELSE IF ~ResizeTool(fs[p].type) THEN "sfdisk"
                     ELSE IF fs[p].type = "ext" THEN "e2fsck" ELSE "resize"
               new == [req[r] EXCEPT !.at = to, !.seen = table[p], !.changed = to = "sfdisk"]
    <3>1. req[r] \in Request
      BY DEF TypeOK
    <3>2. req' = [req EXCEPT ![r] = new]
      BY <1>4 DEF Resolve
    <3>3. /\ to \in {"dd", "sfdisk", "e2fsck", "resize"}
          /\ to = "sfdisk" /\ req[r].op = "shrink" => ~ResizeTool(fs[p].type)
      OBVIOUS
    <3> HIDE DEF to
    <3>4. /\ new.at = to /\ new.op = req[r].op /\ new.p = p /\ new.arg = req[r].arg
          /\ new.seen = table[p]
      BY <3>1 DEF Request
    <3> HIDE DEF new
    <3> QED
      BY <1>t, <3>2, <3>3, <3>4 DEF TypeOK, Moves
  <2>3. Typed => (req'[r].at = "sfdisk" /\ req[r].op = "shrink" => fs[p].type = "btrfs")
    BY <2>1, <2>2 DEF Typed, ResizeTool
  <2> QED
    BY <1>t, <1>4, <2>1, <2>2, <2>3, SMoves DEF Resolve, Steps, Fits
<1>5. ASSUME NEW r \in Requests, E2fsck(r) PROVE SInv'
  <2> DEFINE p == req[r].p
  <2>1. Active(r) /\ req[r].op = "shrink" /\ p \in Parts
    BY <1>0, <1>5 DEF E2fsck, Active, Staged
  <2>2. Moves(r, "resize") /\ req'[r].seen = req[r].seen
    BY <1>5, Movings DEF E2fsck, Steps, Results
  <2>3. \A o \in Parts : fs'[o].type = fs[o].type /\ fs'[o].size = fs[o].size
    BY <1>5, <2>1, Fixed DEF E2fsck
  <2> QED
    BY <1>t, <1>5, <2>1, <2>2, <2>3, SMoves DEF E2fsck, Steps, Fits, Known
<1>6. ASSUME NEW r \in Requests, Resize(r) PROVE SInv'
  <2> DEFINE p == req[r].p
  <2>1. /\ Active(r) /\ req'[r].seen = req[r].seen
        /\ \/ Moves(r, "done") /\ req[r].op = "grow"
           \/ Moves(r, "sfdisk") /\ req[r].op = "shrink"
    BY <1>6, ResizeMoves
  <2>2. /\ p \in Parts /\ Size(r) <= table[p].size /\ ResizeFs(p, Size(r))
        /\ req[r].op = "shrink" => Size(r) = req[r].arg /\ req[r].arg \in Int
    BY <1>6, <2>1, Sized DEF Resize, Size, TypeOK, Request
  <2>3. /\ fs'[p].size = Size(r) /\ fs'[p].type = fs[p].type
        /\ \A o \in Parts : o # p => fs'[o] = fs[o]
    BY <2>2 DEF ResizeFs, TypeOK
  <2>4. table' = table /\ shared' = shared
    BY <1>6 DEF Resize
  <2>5. CASE Moves(r, "done") /\ req[r].op = "grow"
    <3> HIDE DEF TInv, SInv
    <3> QED
      BY SMTT(40), <1>t, <2>1, <2>2, <2>3, <2>4, <2>5, SMoves DEF Steps
  <2>6. CASE Moves(r, "sfdisk") /\ req[r].op = "shrink"
    <3>1. p \notin shared => req'[r].seen = table[p]
      BY <1>6, <2>1, <2>6 DEF Known, Resize
    <3> HIDE DEF TInv, SInv
    <3> QED
      BY SMTT(40), <1>t, <2>1, <2>2, <2>3, <2>4, <2>6, <3>1, SMoves DEF Steps
  <2> QED
    BY <2>1, <2>5, <2>6
<1>7. ASSUME NEW r \in Requests, Dd(r) PROVE SInv'
  <2>1. Active(r) /\ req[r].op = "move" /\ req[r].p \in Parts
    BY <1>0, <1>7 DEF Dd, Active, Staged
  <2>2. req'[r].seen = req[r].seen /\ (Moves(r, "dd") \/ Moves(r, "sfdisk"))
    <3>1. CASE req[r].copied < req[r].seen.size
      BY <1>t, <1>7, <3>1 DEF Dd, Moves, TypeOK, Request
    <3>2. CASE ~(req[r].copied < req[r].seen.size)
      BY <1>7, <3>2, Movings DEF Dd, Steps, Results
    <3> QED
      BY <3>1, <3>2
  <2> QED
    BY <1>t, <1>7, <2>1, <2>2, SMoves DEF Dd, Steps, Fits, Known
<1>8. ASSUME NEW r \in Requests, Sfdisk(r) PROVE SInv'
  <2> DEFINE p == req[r].p
             e == NewEntry(r)
  <2>1. Active(r) /\ req[r].op \in {"shrink", "move"} /\ p \in Parts /\ req[r].at = "sfdisk"
    BY <1>0, <1>8 DEF Sfdisk, Active, Staged
  <2>2. Moves(r, "partprobe")
    BY <1>8, Movings DEF Sfdisk, Steps, Results
  <2>3. table'[p] = e /\ \A o \in Parts : o # p => table'[o] = table[o]
    BY <1>8, <2>1, Written DEF Sfdisk
  <2>4. p \notin shared /\ fs[p].type # "btrfs" => fs[p].size <= e.size
    BY <2>1, NewEntryFits
  <2> HIDE DEF e
  <2> QED
    BY <1>t, <1>8, <2>1, <2>2, <2>3, <2>4, SMoves DEF Sfdisk, Steps
<1>9. ASSUME NEW r \in Requests, Fsck(r) PROVE SInv'
  <2> DEFINE p == req[r].p
  <2>1. Active(r) /\ req[r].op \in {"check", "repair"} /\ p \in Parts
    BY <1>0, <1>9 DEF Fsck, Active, Staged
  <2>2. \A o \in Parts : fs'[o].type = fs[o].type /\ fs'[o].size = fs[o].size
    <3>1. PICK b : fs' = [fs EXCEPT ![p] = [fs[p] EXCEPT !.errors = b]]
      BY <1>9 DEF Fsck
    <3> QED
      BY <2>1, <3>1 DEF TypeOK
  <2>3. /\ req'[r].at = "done" /\ req'[r].p = p /\ req'[r].op = req[r].op
        /\ \A q \in Requests : q # r => req'[q] = req[q]
    <3>1. PICK code : req' = [req EXCEPT ![r].at = "done", ![r].canceled = 32 \in code,
                                 ![r].changed = Changes(fs[p].type, req[r].op = "repair", code),
                                 ![r].result = IF Success(code) THEN "success" ELSE "error"]
      BY <1>9 DEF Fsck
    <3> QED
      BY <3>1 DEF TypeOK, Request
  <2>4. table' = table /\ shared' = shared
    BY <1>9 DEF Fsck
  <2>5. Alone' /\ Known'
    BY <2>3, <2>4 DEF Alone, Known, Active
  <2>6. Typed' /\ Shrunk' /\ Fits'
    BY <1>0, <2>2, <2>3, <2>4 DEF Typed, Shrunk, Fits, Active
  <2> QED
    BY <2>5, <2>6
<1>10. ASSUME NEW r \in Requests, Partprobe(r) \/ Raises(r) PROVE SInv'
  <2>1. Active(r) /\ UNCHANGED <<table, fs, disk, mounted, shared, overrun>> /\ req[r].p \in Parts
    BY <1>0, <1>10 DEF Partprobe, Raises, Active
  <2>2. Moves(r, "done")
    BY <1>10, Movings DEF Partprobe, Raises, Steps, Results
  <2> QED
    BY <1>t, <2>1, <2>2, SMoves DEF Steps, Fits
<1>13. ASSUME NEW r \in Requests, ToolFails(r) PROVE SInv'
  <2> HIDE DEF TInv, SInv
  <2> QED
    BY <1>t, <1>13, SFails
<1>11. ASSUME NEW p \in Parts, Mount(p) \/ Unmount(p) PROVE SInv'
  <2>1. UNCHANGED <<table, fs, req>> /\ shared \subseteq shared'
    BY <1>11 DEF Mount, Unmount
  <2> QED
    BY <2>1 DEF Alone, Known, Typed, Shrunk, Fits, Active
<1>12. CASE UNCHANGED vars
  BY <1>12 DEF vars, Alone, Known, Typed, Shrunk, Fits, Active
<1> QED
  BY <1>1, <1>2, <1>3, <1>4, <1>5, <1>6, <1>7, <1>8, <1>9, <1>10, <1>11, <1>12, <1>13 DEF Next, Step

\* Whatever the disk, however many requests: after any step of any of them, a
\* failed or interrupted one too, a file system fits its partition, unless it
\* is btrfs or two requests had the partition at a time.
THEOREM FitsAlways == Spec => []Fits
<1>1. TInv /\ SInv /\ [Next]_vars => TInv' /\ SInv'
  BY TNext, SNext
<1>2. SInv => Fits
  BY DEF SInv
<1> QED
  BY TInit, SInit, <1>1, <1>2, PTL DEF Spec

-----------------------------------------------------------------------------
(* The blocks of a file system are where the table says.  A move copies to  *)
(* sectors apart from those it reads; what it has copied stays, since a     *)
(* write of another partition there counts as having overrun it.            *)

Sound(p) == p \notin shared \cup overrun /\ fs[p].type # "btrfs"

Apart ==
  \A r \in Requests :
    Active(r) /\ req[r].op = "move" /\ req[r].at # "partprobe" /\ req[r].p \notin shared
      => \/ req[r].arg + req[r].seen.size <= req[r].seen.start
         \/ req[r].seen.start + req[r].seen.size <= req[r].arg

CopiedBy(r) ==
  /\ req[r].at \in {"new", "resolve"} => req[r].copied = 0
  /\ req[r].at = "sfdisk" /\ req[r].op = "move" => req[r].copied >= req[r].seen.size
  /\ req[r].at \in {"dd", "sfdisk"} /\ req[r].op = "move" =>
       \A i \in 0 .. req[r].copied - 1 : req[r].arg + i \in Sectors
  /\ req[r].at \in {"dd", "sfdisk"} /\ req[r].op = "move" /\ Sound(req[r].p) =>
       \A i \in 0 .. req[r].copied - 1 :
         i < fs[req[r].p].size => disk[req[r].arg + i] = <<req[r].p, i>>

Copied == \A r \in Requests : CopiedBy(r)

BInv == Apart /\ Copied /\ Intact

LEMMA BInit == Init => BInv
<1> SUFFICES ASSUME Init PROVE BInv
  OBVIOUS
<1>1. Apart /\ Copied
  BY DEF Init, Apart, Copied, CopiedBy, Active
<1>2. ASSUME NEW p \in Parts, NEW i \in 0 .. fs[p].size - 1
      PROVE  disk[table[p].start + i] = <<p, i>>
  <2> DEFINE s == Table0[p].start + i
  <2>1. /\ fs[p].size = Table0[p].size /\ table[p].start = Table0[p].start
        /\ Table0[p].start \in Nat /\ Table0[p].size \in Nat /\ i \in Nat
    BY DiskAssumption DEF Init, Entries
  <2>2. s \in Area(Table0[p])
    BY <2>1 DEF Area
  <2>3. s \in Sectors
    BY <2>2, DiskAssumption DEF Sectors
  <2>4. (CHOOSE q \in Parts : s \in Area(Table0[q])) = p
    BY <2>2, DiskAssumption
  <2>5. s - Table0[p].start = i
    BY <2>1
  <2> HIDE DEF s
  <2>6. disk[s] = <<p, s - Table0[p].start>>
    BY <2>2, <2>3, <2>4 DEF Init
  <2> QED
    BY <2>1, <2>5, <2>6 DEF s
<1> QED
  BY <1>1, <1>2 DEF BInv, Intact

LEMMA BAsk == ASSUME TInv, SInv, BInv, NEW r \in Requests, Ask(r) PROVE BInv'
<1> USE DEF TInv, SInv, BInv
<1> PICK op \in Ops, p \in Parts, force \in BOOLEAN, known \in BOOLEAN :
      \E arg \in Args(op, p) : Begin(r, op, p, arg, Refused(op, p, arg, force, known))
  BY DEF Ask
<1> PICK arg \in Args(op, p) : Begin(r, op, p, arg, Refused(op, p, arg, force, known))
  OBVIOUS
<1> DEFINE no == Refused(op, p, arg, force, known)
<1>0. op = "move" /\ ~no => arg + table[p].size <= table[p].start \/ table[p].start + table[p].size <= arg
  <2> SUFFICES ASSUME op = "move", ~no, ~(arg + table[p].size <= table[p].start),
                      ~(table[p].start + table[p].size <= arg)
               PROVE  FALSE
    OBVIOUS
  <2>1. Area([start |-> arg, size |-> table[p].size]) \cap Area(table[p]) = {}
    BY DEF Refused, plan_move
  <2>2. arg \in Int /\ table[p].start \in Int /\ table[p].size \in Int
    BY DiskAssumption DEF TypeOK, Entries, Args
  <2>3. CASE arg <= table[p].start
    <3>1. table[p].start \in Area([start |-> arg, size |-> table[p].size]) /\ table[p].start \in Area(table[p])
      BY <2>2, <2>3, DiskAssumption DEF Area, TypeOK, Entries
    <3> QED
      BY <2>1, <3>1
  <2>4. CASE ~(arg <= table[p].start)
    <3>1. arg \in Area([start |-> arg, size |-> table[p].size]) /\ arg \in Area(table[p])
      BY <2>2, <2>4, DiskAssumption DEF Area, TypeOK, Entries
    <3> QED
      BY <2>1, <3>1
  <2> QED
    BY <2>3, <2>4
<1> HIDE DEF no
<1>1. Begin(r, op, p, arg, no)
  BY DEF no
<1>2. /\ req'[r].op = op /\ req'[r].seen = table[p] /\ req'[r].p = p /\ req'[r].arg = arg
      /\ req'[r].copied = req[r].copied
      /\ req'[r].at = IF no THEN "done" ELSE FirstStep(op)
      /\ \A q \in Requests : q # r => req'[q] = req[q]
  BY <1>1 DEF TypeOK, Request, Begin
<1>3. req[r].at = "new" /\ UNCHANGED <<table, fs, disk, overrun>> /\ shared \subseteq shared'
  BY <1>1 DEF Ask, Begin
<1>4. FirstStep(op) \in {"growpart", "resolve", "fsck"}
  BY DEF FirstStep
<1>5. Apart'
  BY <1>0, <1>2, <1>3 DEF Apart, Active
<1>6. Copied'
  BY <1>2, <1>3, <1>4 DEF Copied, CopiedBy, Sound
<1>7. Intact'
  BY <1>3 DEF Intact
<1> QED
  BY <1>5, <1>6, <1>7

\* A write of p's blocks to the sectors A leaves alone what others have.
LEMMA Elsewhere ==
  ASSUME TInv, SInv, BInv, NEW p \in Parts, NEW A, Overruns(p, A),
         \A s \in Sectors : s \notin A => disk'[s] = disk[s]
  PROVE  /\ \A q \in Parts \ {p} : Sound(q) /\ q \notin overrun' =>
              \A i \in 0 .. fs[q].size - 1 : disk'[table[q].start + i] = <<q, i>>
         /\ \A o \in Requests : req[o].at \in {"dd", "sfdisk"} /\ req[o].op = "move" /\ req[o].p # p
                                /\ Sound(req[o].p) /\ req[o].p \notin overrun' =>
              \A i \in 0 .. req[o].copied - 1 :
                i < fs[req[o].p].size => disk'[req[o].arg + i] = <<req[o].p, i>>
<1> USE DEF TInv, SInv, BInv
<1>1. ASSUME NEW q \in Parts \ {p}, q \notin overrun' PROVE A \cap Claims(q) = {}
  BY <1>1 DEF Overruns
<1>2. ASSUME NEW q \in Parts \ {p}, Sound(q), q \notin overrun', NEW i \in 0 .. fs[q].size - 1
      PROVE  disk'[table[q].start + i] = <<q, i>>
  <2>1. /\ fs[q].size \in Int /\ table[q].size \in Int /\ table[q].start \in Int /\ i \in Int
        /\ fs[q].size <= table[q].size /\ table[q].start >= First /\ table[q].start + table[q].size <= LastLba + 1
    BY <1>2, DiskAssumption DEF TypeOK, Entries, Fits, Sound, Bounded
  <2>2. table[q].start + i \in Area(table[q]) /\ table[q].start + i \in Sectors
    BY <2>1, DiskAssumption DEF Area, Sectors
  <2>3. table[q].start + i \notin A
    BY <1>1, <1>2, <2>2 DEF Claims
  <2>4. disk[table[q].start + i] = <<q, i>>
    BY <1>2 DEF Intact, Sound
  <2> QED
    BY <2>2, <2>3, <2>4
<1>3. ASSUME NEW o \in Requests, req[o].at \in {"dd", "sfdisk"}, req[o].op = "move", req[o].p # p,
             Sound(req[o].p), req[o].p \notin overrun', NEW i \in 0 .. req[o].copied - 1,
             i < fs[req[o].p].size
      PROVE  disk'[req[o].arg + i] = <<req[o].p, i>>
  <2> DEFINE q == req[o].p
             e == [start |-> req[o].arg, size |-> req[o].seen.size]
  <2>1. q \in Parts \ {p} /\ Active(o)
    BY <1>3 DEF TypeOK, Request, Active
  <2>2. req[o].seen = table[q]
    BY <1>3, <2>1 DEF Known, Sound
  <2>3. req[o].arg \in Int /\ i \in Int /\ 0 <= i /\ i < req[o].seen.size /\ req[o].seen.size \in Int
    BY <1>3, <2>1, <2>2, DiskAssumption DEF TypeOK, Request, Entries, Fits, Sound
  <2>4. req[o].arg + i \in Area(e)
    BY <2>3 DEF Area
  <2>5. Area(e) \subseteq Claims(q)
    BY <1>3, <2>1 DEF Claims, Copying
  <2>6. req[o].arg + i \notin A
    BY <1>1, <1>3, <2>1, <2>4, <2>5
  <2>7. disk[req[o].arg + i] = <<q, i>> /\ req[o].arg + i \in Sectors
    BY <1>3 DEF Copied, CopiedBy
  <2> QED
    BY <2>6, <2>7
<1> QED
  BY <1>2, <1>3

\* A step that writes no sector, and no entry of a partition of which a move
\* goes on.
LEMMA BMoves ==
  ASSUME TInv, TInv', SInv, BInv, NEW r \in Requests, NEW to \in Steps, Moves(r, to), Active(r),
         req'[r].copied = req[r].copied, req'[r].seen = req[r].seen \/ req[r].at = "resolve",
         disk' = disk, shared' = shared, overrun' = overrun,
         \A o \in Parts : /\ fs'[o].type = fs[o].type /\ fs'[o].size = fs[o].size
                          /\ o # req[r].p \/ Sound(o) => table'[o].start = table[o].start,
         to # "new" /\ to # "resolve",
         to \in {"dd", "sfdisk"} /\ req[r].op = "move" =>
           /\ req[r].at \in {"resolve", "dd"}
           /\ req[r].p \notin shared => req'[r].seen = table[req[r].p]
           /\ to = "sfdisk" => req[r].at = "dd" /\ req[r].copied >= req[r].seen.size
  PROVE  BInv'
<1> USE DEF TInv, SInv, BInv
<1>0. ASSUME NEW q \in Requests PROVE req[q].p \in Parts
  BY DEF TypeOK, Request
<1>1. Intact'
  <2> SUFFICES ASSUME NEW o \in Parts, Sound(o)', NEW i \in 0 .. fs'[o].size - 1
               PROVE  disk'[table'[o].start + i] = <<o, i>>
    BY DEF Intact, Sound
  <2>1. Sound(o) /\ fs'[o].size = fs[o].size /\ table'[o].start = table[o].start
    BY DEF Sound
  <2>2. i \in 0 .. fs[o].size - 1 /\ o \notin shared \cup overrun /\ fs[o].type # "btrfs"
    BY <2>1 DEF Sound
  <2>3. disk[table[o].start + i] = <<o, i>>
    BY <2>2 DEF Intact
  <2> QED
    BY <2>1, <2>3
<1>2. Apart'
  <2>1. ASSUME NEW q \in Requests, q # r, Active(q)', req'[q].op = "move", req'[q].at # "partprobe",
               req'[q].p \notin shared
        PROVE  \/ req'[q].arg + req'[q].seen.size <= req'[q].seen.start
               \/ req'[q].seen.start + req'[q].seen.size <= req'[q].arg
    BY <2>1 DEF Apart, Moves, Active
  <2>2. ASSUME Active(r)', req'[r].op = "move", req'[r].at # "partprobe", req'[r].p \notin shared
        PROVE  \/ req'[r].arg + req'[r].seen.size <= req'[r].seen.start
               \/ req'[r].seen.start + req'[r].seen.size <= req'[r].arg
    <3>1. req[r].at # "partprobe" => req'[r].seen = req[r].seen
      BY <2>2, <1>0 DEF Moves, Active, Known, Staged, Steps
    <3> QED
      BY <2>2, <3>1 DEF Apart, Moves, Active, Staged, Steps
  <2> QED
    BY <2>1, <2>2 DEF Apart
<1>3. Copied'
  <2> SUFFICES ASSUME NEW q \in Requests PROVE CopiedBy(q)'
    BY DEF Copied
  <2>0. CopiedBy(q)
    BY DEF Copied
  <2>1. CASE q # r
    <3>1. req'[q] = req[q] /\ req[q].p \in Parts
      BY <1>0, <2>1 DEF Moves
    <3>2. Sound(req[q].p)' => Sound(req[q].p) /\ fs'[req[q].p].size = fs[req[q].p].size
      BY <3>1 DEF Sound
    <3> QED
      BY <2>0, <3>1, <3>2 DEF CopiedBy
  <2>2. CASE q = r /\ to \in {"dd", "sfdisk"} /\ req[r].op = "move"
    <3>1. CASE req[r].at = "dd"
      <4>1. req'[r].seen = req[r].seen
        BY <3>1
      <4> QED
        <5>1. /\ req'[r].p = req[r].p /\ req'[r].arg = req[r].arg /\ req'[r].op = req[r].op
              /\ req'[r].at = to /\ req[r].p \in Parts
          BY <1>0 DEF Moves
        <5>2. Sound(req[r].p)' => Sound(req[r].p) /\ fs'[req[r].p].size = fs[req[r].p].size
          BY <5>1 DEF Sound
        <5> QED
          BY <2>0, <2>2, <3>1, <4>1, <5>1, <5>2 DEF CopiedBy
    <3>2. CASE req[r].at = "resolve"
      <4>1. req'[r].copied = 0 /\ to = "dd"
        BY <2>0, <2>2, <3>2 DEF CopiedBy
      <4> QED
        BY <2>2, <4>1 DEF CopiedBy, Moves
    <3> QED
      BY <2>2, <3>1, <3>2
  <2>3. CASE q = r /\ ~(to \in {"dd", "sfdisk"} /\ req[r].op = "move")
    BY <2>3 DEF CopiedBy, Moves
  <2> QED
    BY <2>1, <2>2, <2>3
<1> QED
  BY <1>1, <1>2, <1>3

\* A file system was resized; its program may have failed.
LEMMA BResize ==
  ASSUME TInv, TInv', SInv, BInv, NEW r \in Requests, req[r].at = "resize", Resized(r),
         UNCHANGED <<table, shared>>, NEW to \in {"done", "sfdisk"}, Moves(r, to),
         req'[r].copied = req[r].copied, req'[r].seen = req[r].seen
  PROVE  BInv'
<1> USE DEF TInv, SInv, BInv
<1> DEFINE p == req[r].p
           n == Size(r)
           new == table[p].start + fs[p].size .. table[p].start + n - 1
<1>0. \A q \in Requests : req[q].p \in Parts /\ req[q].op \in Ops
  BY DEF TypeOK, Request
<1>1. Active(r) /\ req[r].op \in {"grow", "shrink"} /\ p \in Parts
  BY <1>0 DEF Active, Staged
<1>2. n \in 1 .. Total /\ n <= table[p].size /\ ResizeFs(p, n) /\ table' = table /\ shared' = shared
  BY <1>1, Sized
<1>3. /\ req'[r].at \in {"done", "sfdisk"} /\ req'[r].op = req[r].op /\ req'[r].copied = req[r].copied
      /\ req'[r].seen = req[r].seen /\ req'[r].arg = req[r].arg /\ req'[r].p = p
      /\ \A q \in Requests : q # r => req'[q] = req[q]
  BY DEF Moves
<1> HIDE DEF n
<1>4. /\ fs'[p].size = n /\ fs'[p].type = fs[p].type
      /\ \A o \in Parts : o # p => fs'[o] = fs[o]
  BY <1>1, <1>2 DEF ResizeFs, TypeOK
<1>5. /\ disk' = [s \in Sectors |-> IF s \in new THEN <<p, s - table[p].start>> ELSE disk[s]]
      /\ Overruns(p, new)
  BY <1>2 DEF ResizeFs
<1>6. \A s \in Sectors : s \notin new => disk'[s] = disk[s]
  BY <1>5
<1>7. \A q \in Parts : q \notin shared' \cup overrun' /\ fs'[q].type # "btrfs" => Sound(q)
  BY <1>1, <1>2, <1>4, <1>5 DEF Sound, Overruns
<1>8. ASSUME NEW i \in 0 .. n - 1, Sound(p)
      PROVE  disk'[table[p].start + i] = <<p, i>>
  <2> DEFINE s == table[p].start + i
  <2>1. /\ table[p].start \in Int /\ table[p].size \in Int /\ i \in Int /\ n \in Int /\ fs[p].size \in Int
        /\ table[p].start >= First /\ table[p].start + table[p].size <= LastLba + 1 /\ 0 <= i /\ i < n
    BY <1>1, <1>2, DiskAssumption DEF TypeOK, Entries, Bounded
  <2>2. s \in Sectors /\ s - table[p].start = i
    BY <1>2, <2>1, DiskAssumption DEF Sectors
  <2>3. s \in new <=> ~(i < fs[p].size)
    BY <2>1
  <2>4. i < fs[p].size => disk[s] = <<p, i>>
    <3> SUFFICES ASSUME i < fs[p].size PROVE disk[s] = <<p, i>>
      OBVIOUS
    <3>1. i \in 0 .. fs[p].size - 1
      BY <2>1
    <3> QED
      BY <1>1, <1>8, <3>1 DEF Intact, Sound
  <2> HIDE DEF s, new
  <2>5. disk'[s] = <<p, i>>
    BY <1>5, <2>2, <2>3, <2>4
  <2> QED
    BY <2>5 DEF s
<1> HIDE DEF new
<1>9. Intact'
  <2> SUFFICES ASSUME NEW q \in Parts, q \notin shared' \cup overrun', fs'[q].type # "btrfs",
                      NEW i \in 0 .. fs'[q].size - 1
               PROVE  disk'[table[q].start + i] = <<q, i>>
    BY <1>2 DEF Intact
  <2>0. Sound(q) /\ q \notin overrun'
    BY <1>7
  <2>1. CASE q = p
    BY <1>4, <1>8, <2>0, <2>1
  <2>2. CASE q # p
    <3>1. q \in Parts \ {p} /\ fs'[q] = fs[q]
      BY <1>4, <2>2
    <3> QED
      BY <1>1, <1>5, <1>6, <2>0, <3>1, Elsewhere
  <2> QED
    BY <2>1, <2>2
<1>10. Apart'
  BY <1>1, <1>2, <1>3 DEF Apart, Active
<1>11. Copied'
  <2> SUFFICES ASSUME NEW q \in Requests PROVE CopiedBy(q)'
    BY DEF Copied
  <2>0. CopiedBy(q)
    BY DEF Copied
  <2>1. CASE q = r
    BY <1>1, <1>3, <2>1 DEF CopiedBy
  <2>2. CASE q # r
    <3>1. req'[q] = req[q] /\ req[q].p \in Parts
      BY <1>0, <1>3, <2>2
    <3>2. ASSUME req[q].at \in {"dd", "sfdisk"}, req[q].op = "move",
                 req[q].p \notin shared' \cup overrun', fs'[req[q].p].type # "btrfs",
                 NEW i \in 0 .. req[q].copied - 1, i < fs'[req[q].p].size
          PROVE  disk'[req[q].arg + i] = <<req[q].p, i>>
      <4>1. req[q].p # p
        BY <1>1, <1>2, <2>2, <3>2 DEF Alone, Active
      <4>2. fs'[req[q].p] = fs[req[q].p] /\ Sound(req[q].p) /\ req[q].p \notin overrun'
        BY <1>2, <1>4, <1>7, <3>1, <3>2, <4>1 DEF Sound
      <4> QED
        BY <1>1, <1>5, <1>6, <3>2, <4>1, <4>2, Elsewhere
    <3> QED
      BY <2>0, <3>1, <3>2 DEF CopiedBy, Sound
  <2> QED
    BY <2>1, <2>2
<1> QED
  BY <1>9, <1>10, <1>11

LEMMA BDd == ASSUME TInv, TInv', SInv, BInv, NEW r \in Requests, Dd(r) PROVE BInv'
<1> USE DEF TInv, SInv, BInv
<1> DEFINE p    == req[r].p
           to   == req[r].arg + req[r].copied
           from == req[r].seen.start + req[r].copied
<1>0. \A q \in Requests : req[q].p \in Parts /\ req[q].op \in Ops
  BY DEF TypeOK, Request
<1>1. Active(r) /\ req[r].op = "move" /\ p \in Parts /\ req[r].at = "dd"
  BY <1>0 DEF Dd, Active, Staged
<1>2. CASE ~(req[r].copied < req[r].seen.size)
  <2>1. Moves(r, "sfdisk") /\ req'[r].copied = req[r].copied /\ req'[r].seen = req[r].seen
    BY <1>2, Movings, Movings2 DEF Dd, Steps, Results
  <2>2. req[r].copied >= req[r].seen.size
    BY <1>2, DiskAssumption DEF TypeOK, Request, Entries
  <2>3. UNCHANGED <<table, fs, disk, mounted, shared, overrun>>
    BY <1>2 DEF Dd
  <2>4. p \notin shared => req[r].seen = table[p]
    BY <1>1 DEF Known
  <2> QED
    BY <1>1, <2>1, <2>2, <2>3, <2>4, BMoves DEF Steps
<1>3. CASE req[r].copied < req[r].seen.size
  <2>1. /\ to \in Sectors /\ disk' = [disk EXCEPT ![to] = disk[from]] /\ Overruns(p, {to})
        /\ UNCHANGED <<table, fs, mounted, shared>>
    BY <1>3 DEF Dd
  <2>2. /\ req'[r].copied = req[r].copied + 1 /\ req'[r].at = "dd" /\ req'[r].op = "move"
        /\ req'[r].p = p /\ req'[r].arg = req[r].arg /\ req'[r].seen = req[r].seen
        /\ \A q \in Requests : q # r => req'[q] = req[q]
    BY <1>1, <1>3 DEF Dd, TypeOK, Request
  <2>3. \A s \in Sectors : s \notin {to} => disk'[s] = disk[s]
    BY <2>1 DEF TypeOK
  <2>4. disk'[to] = disk[from]
    BY <2>1 DEF TypeOK
  <2>5. \A q \in Parts : q \notin shared' \cup overrun' /\ fs'[q].type # "btrfs" => Sound(q) /\ q \notin overrun'
    BY <2>1 DEF Sound, Overruns
  <2>6. /\ req[r].arg \in Int /\ req[r].copied \in Nat /\ req[r].seen.start \in Int /\ req[r].seen.size \in Int
        /\ table[p].start \in Int /\ table[p].size \in Int /\ fs[p].size \in Int
        /\ table[p].start >= First /\ table[p].start + table[p].size <= LastLba + 1
    BY <1>1, DiskAssumption DEF TypeOK, Request, Entries, Bounded
  <2>7. Sound(p) => /\ req[r].seen = table[p] /\ fs[p].size <= table[p].size
                    /\ \/ req[r].arg + req[r].seen.size <= req[r].seen.start
                       \/ req[r].seen.start + req[r].seen.size <= req[r].arg
    BY <1>1 DEF Sound, Known, Fits, Apart
  <2>8. ASSUME Sound(p), NEW i \in 0 .. fs[p].size - 1
        PROVE  disk'[table[p].start + i] = <<p, i>>
    <3>1. table[p].start + i \in Sectors
      BY <2>6, <2>7, <2>8, DiskAssumption DEF Sectors
    <3>2. table[p].start + i # to
      BY <1>3, <2>6, <2>7, <2>8
    <3>3. disk[table[p].start + i] = <<p, i>>
      BY <1>1, <2>8 DEF Intact, Sound
    <3> QED
      BY <2>3, <3>1, <3>2, <3>3
  <2>9. Intact'
    <3> SUFFICES ASSUME NEW q \in Parts, q \notin shared' \cup overrun', fs'[q].type # "btrfs",
                        NEW i \in 0 .. fs'[q].size - 1
                 PROVE  disk'[table[q].start + i] = <<q, i>>
      <4>1. table' = table
        BY <2>1
      <4> QED
        BY Zenon, <4>1 DEF Intact
    <3>0. Sound(q) /\ q \notin overrun' /\ fs'[q] = fs[q]
      BY <2>1, <2>5
    <3>1. CASE q = p
      BY <2>8, <3>0, <3>1
    <3>2. CASE q # p
      BY <1>1, <2>1, <2>3, <3>0, <3>2, Elsewhere
    <3> QED
      BY <3>1, <3>2
  <2>10. Apart'
    BY <1>1, <2>1, <2>2 DEF Apart, Active
  <2>11. Copied'
    <3> SUFFICES ASSUME NEW q \in Requests PROVE CopiedBy(q)'
      BY DEF Copied
    <3>0. CopiedBy(q)
      BY DEF Copied
    <3>1. CASE q # r
      <4>1. req'[q] = req[q] /\ req[q].p \in Parts
        BY <1>0, <2>2, <3>1
      <4>2. ASSUME req[q].at \in {"dd", "sfdisk"}, req[q].op = "move",
                   req[q].p \notin shared' \cup overrun', fs'[req[q].p].type # "btrfs",
                   NEW i \in 0 .. req[q].copied - 1, i < fs'[req[q].p].size
            PROVE  disk'[req[q].arg + i] = <<req[q].p, i>>
        <5>1. req[q].p # p
          BY <1>1, <2>1, <3>1, <4>2 DEF Alone, Active
        <5>2. fs'[req[q].p] = fs[req[q].p] /\ Sound(req[q].p) /\ req[q].p \notin overrun'
          BY <2>1, <2>5, <4>1, <4>2
        <5> QED
          BY <1>1, <2>1, <2>3, <4>2, <5>1, <5>2, Elsewhere
      <4> QED
        BY <3>0, <4>1, <4>2 DEF CopiedBy, Sound
    <3>2. CASE q = r
      <4>1. ASSUME NEW i \in 0 .. req[r].copied PROVE req[r].arg + i \in Sectors
        <5>1. i < req[r].copied => i \in 0 .. req[r].copied - 1
          BY <2>6
        <5> QED
          BY <1>1, <2>1, <2>6, <3>0, <3>2, <5>1 DEF CopiedBy
      <4>2. ASSUME p \notin shared' \cup overrun', fs'[p].type # "btrfs",
                   NEW i \in 0 .. req[r].copied, i < fs[p].size
            PROVE  disk'[req[r].arg + i] = <<p, i>>
        <5>0. Sound(p)
          BY <1>1, <2>5, <4>2
        <5>1. CASE i < req[r].copied
          <6>1. i \in 0 .. req[r].copied - 1
            BY <2>6, <5>1
          <6>2. disk[req[r].arg + i] = <<p, i>>
            BY <1>1, <3>0, <3>2, <4>2, <5>0, <6>1 DEF CopiedBy
          <6>3. req[r].arg + i # to
            BY <2>6, <5>1
          <6> QED
            BY <2>3, <4>1, <6>2, <6>3
        <5>2. CASE ~(i < req[r].copied)
          <6>1. i = req[r].copied /\ i \in 0 .. fs[p].size - 1
            <7>1. i \in Int /\ 0 <= i /\ i <= req[r].copied /\ i < fs[p].size
              BY <2>6, <4>2
            <7>2. req[r].copied \in Int /\ fs[p].size \in Int
              BY <2>6
            <7>3. i >= req[r].copied
              BY <5>2, <7>1, <7>2
            <7>4. i = req[r].copied
              BY <7>1, <7>2, <7>3
            <7>5. i \in 0 .. fs[p].size - 1
              BY <7>1, <7>2
            <7> QED
              BY <7>4, <7>5
          <6>2. disk[table[p].start + i] = <<p, i>>
            BY <1>1, <5>0, <6>1 DEF Intact, Sound
          <6>3. from = table[p].start + i /\ to = req[r].arg + i
            BY <2>7, <5>0, <6>1
          <6> QED
            BY <2>4, <6>2, <6>3
        <5> QED
          BY <5>1, <5>2
      <4>3. req'[r].copied - 1 = req[r].copied
        BY <2>2, <2>6
      <4> QED
        BY <2>1, <2>2, <3>2, <4>1, <4>2, <4>3 DEF CopiedBy, Sound
    <3> QED
      BY <3>1, <3>2
  <2> QED
    BY <2>9, <2>10, <2>11
<1> QED
  BY <1>2, <1>3

\* The entry was written; sfdisk may have failed.
LEMMA BSfdisk ==
  ASSUME TInv, TInv', SInv, BInv, NEW r \in Requests, req[r].at = "sfdisk",
         EntryWritten(req[r].p, NewEntry(r)), UNCHANGED <<fs, disk, shared, overrun>>,
         NEW to \in {"partprobe", "done"}, Moves(r, to)
  PROVE  BInv'
<1> USE DEF TInv, SInv, BInv
<1> DEFINE p == req[r].p
           e == NewEntry(r)
<1>0. \A q \in Requests : req[q].p \in Parts /\ req[q].op \in Ops
  BY DEF TypeOK, Request
<1>1. Active(r) /\ req[r].op \in {"shrink", "move"} /\ p \in Parts /\ req[r].at = "sfdisk"
  BY <1>0 DEF Active, Staged
<1>3. table'[p] = e /\ \A o \in Parts : o # p => table'[o] = table[o]
  BY <1>1, Written
<1>4. UNCHANGED <<fs, disk, shared, overrun>>
  OBVIOUS
<1>5. Apart' /\ Copied'
  <2>1. Apart'
    <3>1. req'[r].at \in {"partprobe", "done"} /\ \A q \in Requests : q # r => req'[q] = req[q]
      BY DEF Moves
    <3> QED
      BY <1>4, <3>1 DEF Apart, Active
  <2>2. ASSUME NEW q \in Requests PROVE CopiedBy(q)'
    <3>1. CASE q = r
      BY <3>1 DEF CopiedBy, Moves
    <3>2. CASE q # r
      <4>1. CopiedBy(q)
        BY DEF Copied
      <4>2. req'[q] = req[q]
        BY <3>2 DEF Moves
      <4> QED
        BY <1>4, <4>1, <4>2 DEF CopiedBy, Sound
    <3> QED
      BY <3>1, <3>2
  <2> QED
    BY <2>1, <2>2 DEF Copied
<1>6. ASSUME Sound(p), NEW i \in 0 .. fs[p].size - 1
      PROVE  disk[e.start + i] = <<p, i>>
  <2>1. req[r].seen = table[p] /\ fs[p].size <= table[p].size
    BY <1>1, <1>6 DEF Known, Fits, Sound
  <2>2. CASE req[r].op = "shrink"
    <3>1. e.start = table[p].start
      BY <2>1, <2>2 DEF NewEntry
    <3> QED
      BY <1>1, <1>6, <3>1 DEF Intact, Sound
  <2>3. CASE req[r].op = "move"
    <3>1. e.start = req[r].arg /\ CopiedBy(r)
      BY <2>3 DEF NewEntry, Copied
    <3>2. i \in 0 .. req[r].copied - 1 /\ i < fs[p].size
      BY <1>1, <1>6, <2>1, <2>3, <3>1, DiskAssumption DEF CopiedBy, TypeOK, Request, Entries
    <3> QED
      BY <1>1, <1>6, <2>3, <3>1, <3>2 DEF CopiedBy
  <2> QED
    BY <1>1, <2>2, <2>3
<1> HIDE DEF e
<1>7. Intact'
  <2> SUFFICES ASSUME NEW q \in Parts, Sound(q), NEW i \in 0 .. fs[q].size - 1
               PROVE  disk[table'[q].start + i] = <<q, i>>
    BY <1>4 DEF Intact, Sound
  <2>1. CASE q = p
    BY <1>3, <1>6, <2>1
  <2>2. CASE q # p
    BY <1>3, <2>2 DEF Intact, Sound
  <2> QED
    BY <2>1, <2>2
<1> QED
  BY <1>5, <1>7

LEMMA BFails == ASSUME TInv, TInv', SInv, BInv, NEW r \in Requests, ToolFails(r) PROVE BInv'
<1> DEFINE p == req[r].p
<1>1. /\ Active(r) /\ p \in Parts /\ UNCHANGED <<mounted, shared>> /\ Failing(r)
      /\ Moves(r, "done") /\ req'[r].copied = req[r].copied /\ req'[r].seen = req[r].seen
  BY Failings
<1>2. CASE UNCHANGED <<table, fs, disk, overrun>>
  BY <1>1, <1>2, BMoves DEF Steps
<1>3. CASE EntryGrown(p) /\ UNCHANGED <<fs, disk, overrun>>
  <2>1. \A o \in Parts : table'[o].start = table[o].start
    BY <1>1, <1>3, Grown
  <2> QED
    BY <1>1, <1>3, <2>1, BMoves DEF Steps
<1>4. CASE ErrorsFixed(p) /\ UNCHANGED <<table, disk, overrun>>
  <2>1. \A o \in Parts : fs'[o].type = fs[o].type /\ fs'[o].size = fs[o].size
    BY <1>1, <1>4, Fixed
  <2> QED
    BY <1>1, <1>4, <2>1, BMoves DEF Steps
<1>5. CASE req[r].at = "resize" /\ Resized(r) /\ UNCHANGED table
  BY <1>1, <1>5, BResize
<1>6. CASE /\ req[r].at = "sfdisk" /\ EntryWritten(p, NewEntry(r))
           /\ UNCHANGED <<fs, disk, overrun>>
  BY <1>1, <1>6, BSfdisk
<1> QED
  BY <1>1, <1>2, <1>3, <1>4, <1>5, <1>6 DEF Failing

LEMMA BNext == ASSUME TInv, SInv, BInv, [Next]_vars PROVE BInv'
<1> USE DEF TInv, SInv, BInv
<1>t. TInv'
  BY TNext
<1>0. ASSUME NEW r \in Requests PROVE req[r].p \in Parts /\ req[r].op \in Ops
  BY DEF TypeOK, Request
<1>1. ASSUME NEW r \in Requests, Ask(r) PROVE BInv'
  BY <1>1, BAsk
<1>2. ASSUME NEW r \in Requests, Growpart(r) PROVE BInv'
  <2>1. req[r].p \in Parts /\ Active(r) /\ req[r].op = "grow"
    BY <1>0, <1>2 DEF Growpart, Active, Staged
  <2>2. Moves(r, "grow_fs") /\ req'[r].copied = req[r].copied /\ req'[r].seen = req[r].seen
    BY <1>2, Movings, Movings2 DEF Growpart, Steps, Results
  <2>3. \A o \in Parts : table'[o].start = table[o].start
    BY <1>2, <2>1, Grown DEF Growpart
  <2> QED
    BY <1>t, <1>2, <2>1, <2>2, <2>3, BMoves DEF Growpart, Steps
<1>3. ASSUME NEW r \in Requests, GrowFs(r) PROVE BInv'
  <2>1. Active(r) /\ req[r].op = "grow"
    BY <1>3 DEF GrowFs, Active, Staged
  <2>2. /\ Moves(r, "resize") \/ Moves(r, "done")
        /\ req'[r].copied = req[r].copied /\ req'[r].seen = req[r].seen
    BY Zenon, <1>3, GrowFsMoves DEF TInv
  <2> QED
    BY <1>t, <1>3, <2>1, <2>2, BMoves DEF GrowFs, Steps
<1>4. ASSUME NEW r \in Requests, Resolve(r) PROVE BInv'
  <2> DEFINE p == req[r].p
  <2>1. Active(r) /\ req[r].op \in {"shrink", "move"} /\ p \in Parts /\ req[r].at = "resolve"
    BY <1>0, <1>4 DEF Resolve, Active, Staged
  <2>2. /\ req'[r].seen = table[p] /\ req'[r].copied = req[r].copied /\ Moves(r, req'[r].at)
        /\ req'[r].at \in {"dd", "sfdisk", "e2fsck", "resize"}
        /\ req[r].op = "move" => req'[r].at = "dd"
    <3> DEFINE to == IF req[r].op = "move" THEN "dd"
                     ELSE IF ~ResizeTool(fs[p].type) THEN "sfdisk"
                     ELSE IF fs[p].type = "ext" THEN "e2fsck" ELSE "resize"
               new == [req[r] EXCEPT !.at = to, !.seen = table[p], !.changed = to = "sfdisk"]
    <3>1. req[r] \in Request
      BY DEF TypeOK
    <3>2. req' = [req EXCEPT ![r] = new]
      BY <1>4 DEF Resolve
    <3>3. /\ to \in {"dd", "sfdisk", "e2fsck", "resize"}
          /\ req[r].op = "move" => to = "dd"
      OBVIOUS
    <3> HIDE DEF to
    <3>4. /\ new.at = to /\ new.op = req[r].op /\ new.p = p /\ new.arg = req[r].arg
          /\ new.seen = table[p] /\ new.copied = req[r].copied
      BY <3>1 DEF Request
    <3> HIDE DEF new
    <3> QED
      BY <1>t, <3>2, <3>3, <3>4 DEF TypeOK, Moves
  <2> QED
    BY <1>t, <1>4, <2>1, <2>2, BMoves DEF Resolve, Steps
<1>5. ASSUME NEW r \in Requests, E2fsck(r) PROVE BInv'
  <2>1. Active(r) /\ req[r].op = "shrink" /\ req[r].p \in Parts
    BY <1>0, <1>5 DEF E2fsck, Active, Staged
  <2>2. Moves(r, "resize") /\ req'[r].copied = req[r].copied /\ req'[r].seen = req[r].seen
    BY <1>5, Movings, Movings2 DEF E2fsck, Steps, Results
  <2>3. \A o \in Parts : fs'[o].type = fs[o].type /\ fs'[o].size = fs[o].size
    BY <1>5, <2>1, Fixed DEF E2fsck
  <2> QED
    BY <1>t, <1>5, <2>1, <2>2, <2>3, BMoves DEF E2fsck, Steps
<1>6. ASSUME NEW r \in Requests, Resize(r) PROVE BInv'
  <2>1. req[r].at = "resize" /\ Resized(r) /\ UNCHANGED <<table, shared>>
    BY <1>6 DEF Resize
  <2>2. /\ Moves(r, "done") \/ Moves(r, "sfdisk")
        /\ req'[r].copied = req[r].copied /\ req'[r].seen = req[r].seen
    BY <1>6, ResizeMoves
  <2> HIDE DEF TInv, SInv, BInv
  <2> QED
    BY <1>t, <2>1, <2>2, BResize
<1>7. ASSUME NEW r \in Requests, Dd(r) PROVE BInv'
  <2> HIDE DEF TInv, SInv, BInv
  <2> QED
    BY <1>t, <1>7, BDd
<1>8. ASSUME NEW r \in Requests, Sfdisk(r) PROVE BInv'
  <2>1. /\ req[r].at = "sfdisk" /\ EntryWritten(req[r].p, NewEntry(r))
        /\ UNCHANGED <<fs, disk, shared, overrun>>
    BY <1>8 DEF Sfdisk
  <2>2. Moves(r, "partprobe")
    BY <1>8, Movings DEF Sfdisk, Steps, Results
  <2> HIDE DEF TInv, SInv, BInv
  <2> QED
    BY <1>t, <2>1, <2>2, BSfdisk
<1>9. ASSUME NEW r \in Requests, Fsck(r) PROVE BInv'
  <2> DEFINE p == req[r].p
  <2>1. Active(r) /\ p \in Parts
    BY <1>0, <1>9 DEF Fsck, Active
  <2>2. \A o \in Parts : fs'[o].type = fs[o].type /\ fs'[o].size = fs[o].size
    <3>1. PICK b : fs' = [fs EXCEPT ![p] = [fs[p] EXCEPT !.errors = b]]
      BY <1>9 DEF Fsck
    <3> QED
      BY <2>1, <3>1 DEF TypeOK
  <2>3. /\ req'[r].at = "done" /\ req'[r].p = p /\ req'[r].op = req[r].op /\ req'[r].arg = req[r].arg
        /\ req'[r].copied = req[r].copied /\ req'[r].seen = req[r].seen
        /\ \A q \in Requests : q # r => req'[q] = req[q]
    <3>1. PICK code : req' = [req EXCEPT ![r].at = "done", ![r].canceled = 32 \in code,
                                 ![r].changed = Changes(fs[p].type, req[r].op = "repair", code),
                                 ![r].result = IF Success(code) THEN "success" ELSE "error"]
      BY <1>9 DEF Fsck
    <3> QED
      BY <3>1 DEF TypeOK, Request
  <2>4. Moves(r, "done")
    BY <1>t, <2>3 DEF Moves, TypeOK
  <2> QED
    BY <1>t, <1>9, <2>1, <2>2, <2>3, <2>4, BMoves DEF Fsck, Steps
<1>10. ASSUME NEW r \in Requests, Partprobe(r) \/ Raises(r) PROVE BInv'
  <2>1. Active(r) /\ UNCHANGED <<table, fs, disk, mounted, shared, overrun>> /\ req[r].p \in Parts
    BY <1>0, <1>10 DEF Partprobe, Raises, Active
  <2>2. Moves(r, "done") /\ req'[r].copied = req[r].copied /\ req'[r].seen = req[r].seen
    BY <1>10, Movings, Movings2 DEF Partprobe, Raises, Steps, Results
  <2> QED
    BY <1>t, <2>1, <2>2, BMoves DEF Steps
<1>13. ASSUME NEW r \in Requests, ToolFails(r) PROVE BInv'
  <2> HIDE DEF TInv, SInv, BInv
  <2> QED
    BY <1>t, <1>13, BFails
<1>11. ASSUME NEW p \in Parts, Mount(p) \/ Unmount(p) PROVE BInv'
  <2>1. UNCHANGED <<table, fs, disk, req, overrun>> /\ shared \subseteq shared'
    BY <1>11 DEF Mount, Unmount
  <2>2. Copied'
    BY <2>1 DEF Copied, CopiedBy, Sound
  <2>3. Apart' /\ Intact'
    BY <2>1 DEF Apart, Intact, Active
  <2> QED
    BY <2>2, <2>3
<1>12. CASE UNCHANGED vars
  <2>1. Copied'
    BY <1>12 DEF vars, Copied, CopiedBy, Sound
  <2>2. Apart' /\ Intact'
    BY <1>12 DEF vars, Apart, Intact, Active
  <2> QED
    BY <2>1, <2>2
<1> QED
  BY <1>1, <1>2, <1>3, <1>4, <1>5, <1>6, <1>7, <1>8, <1>9, <1>10, <1>11, <1>12, <1>13 DEF Next, Step

\* Whatever the disk, however many requests: after any step of any of them the
\* blocks of a file system are where the table says its partition is.  What is
\* copied from is left alone until the entry points at the copy, and the copy
\* is complete then.
THEOREM IntactAlways == Spec => []Intact
<1>1. TInv /\ SInv /\ BInv /\ [Next]_vars => TInv' /\ SInv' /\ BInv'
  BY TNext, SNext, BNext
<1>2. BInv => Intact
  BY DEF BInv
<1> QED
  BY TInit, SInit, BInit, <1>1, <1>2, PTL DEF Spec

-----------------------------------------------------------------------------
(* The answer of a check or a repair.                                      *)

\* A step of a request is about that request and its partition.
LEMMA OwnRequest ==
  ASSUME TInv, NEW r \in Requests, Step(r)
  PROVE  /\ \A o \in Requests : o # r => req'[o] = req[o]
         /\ \A o \in Parts : o # req[r].p => table'[o] = table[o]
         /\ shared \subseteq shared'
         /\ Active(r) \/ (Ask(r) /\ table' = table)
<1> USE DEF TInv, TypeOK
<1>1. CASE Growpart(r) \/ GrowFs(r) \/ Resolve(r)
  BY <1>1 DEF Growpart, EntryGrown, GrowFs, Resolve, Goto, Did, Answer, Active
<1>2. CASE Ask(r)
  <2>1. PICK op, p, arg, refused : Begin(r, op, p, arg, refused)
    BY <1>2 DEF Ask
  <2> QED
    BY <1>2, <2>1 DEF Begin, Ask
<1>3. CASE E2fsck(r) \/ Resize(r) \/ Dd(r) \/ Sfdisk(r)
  BY <1>3 DEF E2fsck, Resize, Dd, Sfdisk, EntryWritten, Goto, Did, Active
<1>4. CASE Partprobe(r) \/ Raises(r)
  BY <1>4 DEF Partprobe, Raises, Answer, Active
<1>6. CASE ToolFails(r)
  <2>1. /\ Active(r) /\ shared' = shared
        /\ \A o \in Requests : o # r => req'[o] = req[o]
    BY <1>6, Failings DEF Moves
  <2>2. \A o \in Parts : o # req[r].p => table'[o] = table[o]
    BY <1>6 DEF ToolFails, EntryGrown, EntryWritten
  <2> QED
    BY <2>1, <2>2
<1>5. CASE Fsck(r)
  BY <1>5 DEF Fsck, Active
<1> QED
  BY <1>1, <1>2, <1>3, <1>4, <1>5, <1>6 DEF Step

Verdict(r) ==
  LET q == req'[r]
  IN  Active(r) /\ q.at = "done" /\ q.op \in {"check", "repair"} /\ q.result = "success" =>
        q.canceled \/ fs[q.p].type = "ntfs" \/ ~fs'[q.p].errors

\* A step of one request ends no other.
LEMMA OthersGoOn ==
  ASSUME NEW r \in Requests, NEW o \in Requests, o # r, req'[o] = req[o]
  PROVE  Verdict(o)
BY DEF Verdict, Active

\* What the tool's exit code says of the file system.
LEMMA Codes ==
  ASSUME NEW t, NEW repair, NEW m, NEW code, code \in ExitCodes(t, repair, TRUE, m),
         Success(code), 32 \notin code, t # "ntfs"
  PROVE  repair /\ Fixes(t, code)
<1>1. code # {8} /\ code # {32} /\ code # {1, 32} /\ code # {4} /\ code # {1, 4}
  BY DEF Success
<1>2. CASE t = "ext"
  <2>1. (repair /\ code \in {{1}, {4}, {1, 4}}) \/ code \in {{8}, {32}, {1, 32}, {4}}
    BY <1>2 DEF ExitCodes
  <2> QED
    BY <1>1, <1>2, <2>1 DEF Fixes
<1>3. CASE t # "ext"
  BY <1>1, <1>3 DEF ExitCodes, Fixes
<1> QED
  BY <1>2, <1>3

LEMMA ToolVerdict == ASSUME TInv, NEW r \in Requests, Fsck(r) PROVE \A o \in Requests : Verdict(o)
<1> DEFINE p == req[r].p
           t == fs[p].type
           repair == req[r].op = "repair"
<1>0. p \in Parts /\ req \in [Requests -> Request] /\ req[r] \in Request
      /\ fs \in [Parts -> [type : Fstypes, size : 1 .. Total, errors : BOOLEAN]]
  BY DEF TInv, TypeOK, Request
<1>1. PICK code \in ExitCodes(t, repair, fs[p].errors, p \in mounted) :
           /\ fs' = [fs EXCEPT ![p].errors = @ /\ ~(repair /\ Fixes(t, code))]
           /\ req' = [req EXCEPT ![r].at = "done", ![r].canceled = 32 \in code,
                                 ![r].changed = Changes(t, repair, code),
                                 ![r].result = IF Success(code) THEN "success" ELSE "error"]
  BY ZenonT(60) DEF Fsck
<1>2. /\ req'[r].p = p
      /\ 32 \in code => req'[r].canceled
      /\ req'[r].result = "success" => Success(code)
      /\ \A o \in Requests : o # r => req'[o] = req[o]
  BY <1>0, <1>1 DEF Request
<1>3. fs'[p].errors => fs[p].errors /\ ~(repair /\ Fixes(t, code))
  BY <1>0, <1>1
<1>4. Success(code) => 32 \in code \/ t = "ntfs" \/ ~fs[p].errors \/ (repair /\ Fixes(t, code))
  <2> SUFFICES ASSUME Success(code), 32 \notin code, t # "ntfs", fs[p].errors
               PROVE  repair /\ Fixes(t, code)
    OBVIOUS
  <2>1. fs[p].errors = TRUE
    BY <1>0
  <2>2. code \in ExitCodes(t, repair, TRUE, p \in mounted)
    BY <1>1, <2>1
  <2> HIDE DEF t, repair, p
  <2> QED
    BY <2>2, Codes
<1>5. Verdict(r)
  <2> HIDE DEF repair
  <2> QED
    BY <1>2, <1>3, <1>4 DEF Verdict
<1> QED
  BY <1>2, <1>5, OthersGoOn

\* Only the tool ends a check or a repair with success.
LEMMA StepVerdict == ASSUME TInv, [Next]_vars PROVE \A o \in Requests : Verdict(o)
<1>0. ASSUME NEW r \in Requests PROVE req[r] \in Request /\ req[r].op \in Ops
  BY DEF TInv, TypeOK, Request
<1>1. ASSUME NEW r \in Requests, Step(r), ~Fsck(r) PROVE \A o \in Requests : Verdict(o)
  <2>1. \A o \in Requests : o # r => req'[o] = req[o]
    BY <1>1, OwnRequest
  <2>2. Verdict(r)
    <3>1. CASE Ask(r)
      BY <3>1 DEF Ask, Active, Verdict
    <3>2. CASE Growpart(r) \/ GrowFs(r) \/ Partprobe(r)
      <4>1. req[r].op \in {"grow", "shrink", "move"}
        BY <3>2 DEF Growpart, GrowFs, Partprobe, TInv, Staged
      <4>2. req'[r].op = req[r].op
        <5>1. Moves(r, "grow_fs") \/ Moves(r, "resize") \/ Moves(r, "done")
          BY <3>2, Movings DEF Growpart, GrowFs, Partprobe, Steps, Results, TInv
        <5> QED
          BY <5>1 DEF Moves
      <4> QED
        BY <4>1, <4>2 DEF Verdict
    <3>3. CASE Resolve(r) \/ E2fsck(r) \/ Resize(r) \/ Dd(r) \/ Sfdisk(r)
      <4>1. req[r].op \in {"grow", "shrink", "move"}
        BY <3>3 DEF Resolve, E2fsck, Resize, Dd, Sfdisk, TInv, Staged
      <4>2. req'[r].op = req[r].op
        <5>1. CASE Resolve(r)
          BY <1>0, <5>1 DEF Resolve, TInv, TypeOK, Request
        <5>2. CASE E2fsck(r) \/ Sfdisk(r)
          <6>1. Moves(r, "resize") \/ Moves(r, "partprobe")
            BY <5>2, Movings DEF E2fsck, Sfdisk, Steps, Results, TInv
          <6> QED
            BY <6>1 DEF Moves
        <5>3. CASE Resize(r) \/ Dd(r)
          BY <1>0, <5>3 DEF Resize, Dd, Did, TInv, TypeOK, Request
        <5> QED
          BY <3>3, <5>1, <5>2, <5>3
      <4> QED
        BY <4>1, <4>2 DEF Verdict
    <3>4. CASE ToolFails(r) \/ Raises(r)
      <4>1. req'[r].result \in {"error", "raised"}
        BY <1>0, <3>4 DEF ToolFails, Raises, Answer, TInv, TypeOK, Request
      <4> QED
        BY <4>1 DEF Verdict
    <3> QED
      BY <1>1, <3>1, <3>2, <3>3, <3>4 DEF Step
  <2> QED
    BY <2>1, <2>2, OthersGoOn
<1>2. ASSUME NEW r \in Requests, Fsck(r) PROVE \A o \in Requests : Verdict(o)
  BY <1>2, ToolVerdict
<1>3. CASE UNCHANGED req
  BY <1>3 DEF Verdict, Active
<1> QED
  BY <1>1, <1>2, <1>3 DEF Next, Mount, Unmount, vars

\* Whatever the disk and the requests, a check that was not canceled answers
\* with success only for a file system without errors (ntfsfix excepted): the
\* exit codes of e2fsck are bits, and the other tools have one code for all.
THEOREM VerdictsTrue == Spec => VerdictIsTrue
<1>1. TInv /\ [Next]_vars => TInv'
  BY TNext
<1>2. TInv /\ [Next]_vars
        => [\A r \in Requests :
              LET q == req'[r]
              IN  Active(r) /\ q.at = "done" /\ q.op \in {"check", "repair"} /\ q.result = "success" =>
                    q.canceled \/ fs[q.p].type = "ntfs" \/ ~fs'[q.p].errors]_vars
  BY StepVerdict DEF Verdict
<1> QED
  BY TInit, <1>1, <1>2, PTL DEF Spec, VerdictIsTrue
-----------------------------------------------------------------------------
(* The other answers.  What a request knows of its partition, if it has it  *)
(* for itself, is still so: until it writes the entry, or after it has.     *)

Informed(r) ==
  LET p == req[r].p
  IN  Active(r) /\ p \notin shared =>
        /\ req[r].op \in {"check", "repair"} => req[r].seen = table[p]
        /\ req[r].op = "grow" =>
             /\ table[p].start = req[r].seen.start /\ table[p].size >= req[r].seen.size
             /\ ~req[r].changed => table[p] = req[r].seen
        /\ req[r].at = "partprobe" => table[p] = NewEntry(r)
        /\ req[r].at = "sfdisk" => req[r].changed

AInv == \A r \in Requests : Informed(r)

LEMMA AOwn ==
  ASSUME TInv, TInv', SInv, AInv, NEW r \in Requests, Step(r)
  PROVE  Informed(r)'
<1> USE DEF TInv
<1>0. req[r].p \in Parts /\ req[r] \in Request
  BY DEF TypeOK, Request
<1>1. CASE Ask(r)
  <2>1. PICK op, p, arg, refused : Begin(r, op, p, arg, refused) /\ p \in Parts
    BY <1>1 DEF Ask
  <2>2. /\ req'[r].op = op /\ req'[r].seen = table[p] /\ req'[r].p = p
        /\ req'[r].at = IF refused THEN "done" ELSE FirstStep(op)
    BY <2>1 DEF TypeOK, Request, Begin
  <2>3. table' = table /\ table[p].size \in Nat
    BY <1>1, <2>1, DiskAssumption DEF Ask, TypeOK, Entries
  <2> QED
    BY <2>2, <2>3 DEF Informed, Active, FirstStep
<1>2. CASE Growpart(r)
  <2> DEFINE p == req[r].p
  <2>1. Active(r) /\ req[r].op = "grow"
    BY <1>2 DEF Growpart, Active, Staged
  <2>2. Moves(r, "grow_fs") /\ req'[r].seen = req[r].seen /\ shared' = shared
    BY <1>2, Movings DEF Growpart, Steps, Results
  <2>3. p \notin shared => /\ table[p].start = req[r].seen.start /\ table[p].size >= req[r].seen.size
                           /\ ~req[r].changed => table[p] = req[r].seen
    BY <2>1 DEF AInv, Informed
  <2>4. table[p].size \in Int /\ table'[p].size \in Int /\ req[r].seen.size \in Int
    BY <1>0, DiskAssumption DEF TypeOK, Request, Entries
  <2>5. p \notin shared => /\ table'[p].start = req[r].seen.start /\ table'[p].size >= req[r].seen.size
                           /\ ~req'[r].changed => table'[p] = req[r].seen
    <3>1. CASE table' = table /\ Goto(r, "grow_fs")
      <4>1. req'[r].changed = req[r].changed
        BY <1>0, <3>1 DEF Goto, TypeOK, Request
      <4> QED
        BY <2>3, <3>1, <4>1
    <3>2. CASE EntryGrown(p) /\ Did(r, "grow_fs")
      <4>1. table'[p].start = table[p].start /\ table'[p].size >= table[p].size
        BY <1>0, <3>2, Grown
      <4>2. req'[r].changed = TRUE
        BY <1>0, <3>2 DEF Did, TypeOK, Request
      <4> QED
        BY <2>3, <2>4, <4>1, <4>2
    <3> QED
      BY <1>2, <3>1, <3>2 DEF Growpart
  <2> QED
    BY <2>1, <2>2, <2>5 DEF Informed, Moves
<1>3. CASE GrowFs(r)
  <2>1. Active(r) /\ req[r].op = "grow" /\ UNCHANGED <<table, shared>>
    BY <1>3 DEF GrowFs, Active, Staged
  <2>2. /\ req'[r].at = "done" \/ req'[r].changed = req[r].changed
        /\ req'[r].at \in {"resize", "done"} /\ req'[r].seen = req[r].seen
        /\ req'[r].op = req[r].op /\ req'[r].p = req[r].p
    BY <1>0, <1>3 DEF GrowFs, Goto, Answer, TypeOK, Request
  <2> QED
    BY <2>1, <2>2 DEF AInv, Informed, Active
<1>4. CASE Resolve(r) \/ E2fsck(r) \/ Resize(r) \/ Dd(r)
  <2>1. req[r].op \in {"shrink", "move"} \/ (Resize(r) /\ req[r].op = "grow")
    BY <1>4 DEF Resolve, E2fsck, Resize, Dd, Staged
  <2>2. /\ req'[r].op = req[r].op /\ req'[r].at # "partprobe"
        /\ Resize(r) /\ req[r].op = "grow" => req'[r].at = "done"
    BY <1>0, <1>4 DEF Resolve, E2fsck, Resize, Dd, Goto, Did, TypeOK, Request
  <2>3. req'[r].at = "sfdisk" => req'[r].changed
    <3>1. CASE Resolve(r)
      BY <1>0, <3>1 DEF Resolve, TypeOK, Request
    <3>2. CASE E2fsck(r) \/ Resize(r) \/ Dd(r)
      BY <1>0, <3>2 DEF E2fsck, Resize, Dd, Goto, Did, TypeOK, Request
    <3> QED
      BY <1>4, <3>1, <3>2
  <2> QED
    BY <2>1, <2>2, <2>3 DEF Informed, Active
<1>5. CASE Sfdisk(r)
  <2>1. req[r].op \in {"shrink", "move"}
    BY <1>5 DEF Sfdisk, Staged
  <2>2. Moves(r, "partprobe") /\ req'[r].seen = req[r].seen
    BY <1>5, Movings DEF Sfdisk, Steps, Results
  <2>3. table'[req[r].p] = NewEntry(r)
    BY <1>0, <1>5 DEF Sfdisk, EntryWritten, TypeOK
  <2>4. NewEntry(r)' = NewEntry(r)
    BY <2>2 DEF NewEntry, Moves
  <2> QED
    BY <2>1, <2>2, <2>3, <2>4 DEF Informed, Moves
<1>6. CASE Partprobe(r) \/ Fsck(r) \/ ToolFails(r) \/ Raises(r)
  <2>1. CASE Fsck(r)
    <3>1. PICK code : req' = [req EXCEPT ![r].at = "done", ![r].canceled = 32 \in code,
                                         ![r].changed = Changes(fs[req[r].p].type, req[r].op = "repair", code),
                                         ![r].result = IF Success(code) THEN "success" ELSE "error"]
      BY <2>1 DEF Fsck
    <3>2. req'[r].at = "done"
      BY <1>0, <3>1 DEF TypeOK, Request
    <3> QED
      BY <3>2 DEF Informed, Active
  <2>2. CASE Partprobe(r) \/ ToolFails(r) \/ Raises(r)
    <3>1. Moves(r, "done")
      BY <2>2, Movings DEF Partprobe, ToolFails, Raises, Steps, Results
    <3> QED
      BY <3>1 DEF Moves, Informed, Active
  <2> QED
    BY <1>6, <2>1, <2>2
<1> QED
  BY <1>1, <1>2, <1>3, <1>4, <1>5, <1>6 DEF Step

\* Nobody else writes the entry of a partition that a request has for itself.
LEMMA ANext == ASSUME TInv, TInv', SInv, AInv, [Next]_vars PROVE AInv'
<1>1. ASSUME NEW r \in Requests, Step(r) PROVE AInv'
  <2> SUFFICES ASSUME NEW o \in Requests, o # r PROVE Informed(o)'
    BY <1>1, AOwn DEF AInv
  <2>1. req'[o] = req[o] /\ shared \subseteq shared' /\ req[o].p \in Parts
    BY <1>1, OwnRequest DEF TInv, TypeOK, Request
  <2>2. Active(o) /\ req[o].p \notin shared => table'[req[o].p] = table[req[o].p]
    BY <1>1, <2>1, OwnRequest DEF SInv, Alone
  <2>3. NewEntry(o)' = NewEntry(o)
    BY <2>1 DEF NewEntry
  <2>4. Informed(o)
    BY DEF AInv
  <2> QED
    BY <2>1, <2>2, <2>3, <2>4 DEF Informed, Active
<1>2. ASSUME NEW p \in Parts, Mount(p) \/ Unmount(p) PROVE AInv'
  <2>1. UNCHANGED <<table, req>> /\ shared \subseteq shared'
    BY <1>2 DEF Mount, Unmount
  <2> QED
    BY <2>1 DEF AInv, Informed, Active, NewEntry
<1>3. CASE UNCHANGED vars
  BY <1>3 DEF vars, AInv, Informed, Active, NewEntry
<1> QED
  BY <1>1, <1>2, <1>3 DEF Next

Answered(r) ==
  LET p == req[r].p
      q == req'[r]
  IN  Active(r) /\ q.at = "done" /\ p \notin shared =>
        /\ q.result = "success" /\ q.op \in {"shrink", "move"} => table'[p] = NewEntry(r)
        /\ q.result = "success" /\ q.op = "grow" =>
             /\ table'[p].start = q.seen.start /\ table'[p].size >= q.seen.size
             /\ fs[p].type \in {"ext", "lvm"} => fs'[p].size = table'[p].size
        /\ q.result = "error" /\ q.op = "grow" =>
             table'[p].start = q.seen.start /\ table'[p].size >= q.seen.size
        /\ q.result = "error" /\ q.op # "grow" =>
             \/ table'[p] = q.seen
             \/ q.op \in {"shrink", "move"} /\ q.changed /\ table'[p] = NewEntry(r)

\* The answer that a step gives, by the program that gives it.
LEMMA AAnswer ==
  ASSUME TInv, TInv', SInv, AInv, NEW r \in Requests, Step(r), Active(r), req'[r].at = "done",
         req[r].p \notin shared
  PROVE  Answered(r)
<1> USE DEF TInv
<1> DEFINE p == req[r].p
<1>0. p \in Parts /\ req[r] \in Request /\ Informed(r)
  BY DEF TypeOK, Request, AInv
<1>1. CASE GrowFs(r)
  <2>1. req[r].op = "grow" /\ UNCHANGED <<table, fs>>
    BY <1>1 DEF GrowFs, Staged
  <2>2. /\ req'[r].op = req[r].op /\ req'[r].seen = req[r].seen
        /\ req'[r].result \in {"success", "neither"} /\ fs[p].type \notin {"ext", "lvm"}
    BY <1>0, <1>1 DEF GrowFs, HasGrowTool, Goto, Answer, TypeOK, Request
  <2> QED
    BY <1>0, <2>1, <2>2 DEF Answered, Informed
<1>2. CASE Resize(r)
  <2>1. req[r].op = "grow"
    BY <1>0, <1>2, ResizeMoves DEF Moves
  <2>2. /\ req'[r].op = req[r].op /\ req'[r].seen = req[r].seen /\ req'[r].result = "success"
        /\ table' = table /\ fs'[p].size = table[p].size
    BY <1>0, <1>2, <2>1 DEF Resize, Resized, ResizeFs, TypeOK, Request
  <2> QED
    BY <1>0, <2>1, <2>2 DEF Answered, Informed
<1>3. CASE Partprobe(r)
  <2>1. req[r].at = "partprobe" /\ req[r].op \in {"shrink", "move"} /\ table' = table
    BY <1>3 DEF Partprobe, Staged
  <2>2. req'[r].op = req[r].op /\ req'[r].result = "success"
    BY <1>0, <1>3 DEF Partprobe, Answer, TypeOK, Request
  <2> QED
    BY <1>0, <2>1, <2>2 DEF Answered, Informed
<1>4. CASE ToolFails(r)
  <2>1. Active(r) /\ req[r].at # "partprobe" /\ Failing(r)
    BY <1>4, Failings
  <2>2. /\ req'[r].op = req[r].op /\ req'[r].seen = req[r].seen /\ req'[r].changed = req[r].changed
        /\ req'[r].result \in {"error", "raised"}
    BY <1>0, <1>4 DEF ToolFails, Answer, TypeOK, Request
  <2>3. CASE req[r].op = "grow"
    <3>1. table'[p].start = table[p].start /\ table'[p].size >= table[p].size
      <4>1. table'[p] = table[p] \/ EntryGrown(p)
        BY <2>1, <2>3 DEF Failing
      <4>2. table[p].size \in Int
        BY <1>0, DiskAssumption DEF TypeOK, Entries
      <4> QED
        BY <1>0, <4>1, <4>2, Grown
    <3>2. table[p].start = req[r].seen.start /\ table[p].size >= req[r].seen.size
      BY <1>0, <2>3 DEF Informed
    <3>3. table[p].size \in Int /\ req[r].seen.size \in Int /\ table'[p].size \in Int
      BY <1>0, DiskAssumption DEF TypeOK, Request, Entries
    <3> QED
      BY <2>2, <2>3, <3>1, <3>2, <3>3 DEF Answered
  <2>4. CASE req[r].op # "grow"
    <3>1. req[r].seen = table[p]
      <4>1. req[r].op \in {"shrink", "move", "check", "repair"}
        BY <1>0, <2>4 DEF Request
      <4> QED
        BY <1>0, <2>1, <4>1 DEF SInv, Known, Informed
    <3>2. \/ table'[p] = table[p]
          \/ /\ req[r].op \in {"shrink", "move"} /\ req[r].at = "sfdisk"
             /\ EntryWritten(p, NewEntry(r))
      BY <2>1, <2>4 DEF Failing
    <3>3. EntryWritten(p, NewEntry(r)) => table'[p] = NewEntry(r)
      BY <1>0 DEF EntryWritten, TypeOK
    <3>4. req[r].at = "sfdisk" => req[r].changed
      BY <1>0 DEF Informed
    <3> QED
      BY <2>2, <2>4, <3>1, <3>2, <3>3, <3>4 DEF Answered
  <2> QED
    BY <2>3, <2>4
<1>5. CASE Raises(r)
  <2>1. req'[r].result = "raised"
    BY <1>0, <1>5 DEF Raises, Answer, TypeOK, Request
  <2> QED
    BY <2>1 DEF Answered
<1>6. CASE Fsck(r)
  <2>1. req[r].op \in {"check", "repair"} /\ table' = table
    BY <1>6 DEF Fsck, Staged
  <2>2. req'[r].op = req[r].op /\ req'[r].seen = req[r].seen
    <3>1. PICK code : req' = [req EXCEPT ![r].at = "done", ![r].canceled = 32 \in code,
                                         ![r].changed = Changes(fs[req[r].p].type, req[r].op = "repair", code),
                                         ![r].result = IF Success(code) THEN "success" ELSE "error"]
      BY <1>6 DEF Fsck
    <3> QED
      BY <1>0, <3>1 DEF TypeOK, Request
  <2> QED
    BY <1>0, <2>1, <2>2 DEF Answered, Informed
<1>7. ASSUME Growpart(r) \/ Resolve(r) \/ E2fsck(r) \/ Dd(r) \/ Sfdisk(r) PROVE FALSE
  BY <1>0, <1>7 DEF Growpart, Resolve, E2fsck, Dd, Sfdisk, Goto, Did, Active, TypeOK, Request
<1>8. ~Ask(r)
  BY DEF Ask, Active
<1> QED
  BY <1>1, <1>2, <1>3, <1>4, <1>5, <1>6, <1>7, <1>8 DEF Step

LEMMA StepAnswered == ASSUME TInv, TInv', SInv, AInv, [Next]_vars PROVE \A o \in Requests : Answered(o)
<1>1. ASSUME NEW r \in Requests, Step(r), NEW o \in Requests PROVE Answered(o)
  <2>1. CASE o = r
    BY <1>1, <2>1, AAnswer DEF Answered
  <2>2. CASE o # r
    BY <1>1, <2>2, OwnRequest DEF Answered, Active
  <2> QED
    BY <2>1, <2>2
<1>2. CASE UNCHANGED req
  BY <1>2 DEF Answered, Active
<1> QED
  BY <1>1, <1>2 DEF Next, Mount, Unmount, vars

\* Whatever the disk and however many requests, what an operation answers of a
\* partition that it had for itself is so, whichever of its programs fails, before
\* it has changed the table or after.
THEOREM AnswersTrue == Spec => AnswersAreTrue
<1>1. Init => AInv
  BY DEF Init, AInv, Informed, Active
<1>2. TInv /\ SInv /\ AInv /\ [Next]_vars => (TInv /\ SInv /\ AInv)'
  BY TNext, SNext, ANext
<1>3. TInv /\ SInv /\ AInv /\ [Next]_vars
        => [\A r \in Requests :
              LET p == req[r].p
                  q == req'[r]
              IN  Active(r) /\ q.at = "done" /\ p \notin shared =>
                    /\ q.result = "success" /\ q.op \in {"shrink", "move"} => table'[p] = NewEntry(r)
                    /\ q.result = "success" /\ q.op = "grow" =>
                         /\ table'[p].start = q.seen.start /\ table'[p].size >= q.seen.size
                         /\ fs[p].type \in {"ext", "lvm"} => fs'[p].size = table'[p].size
                    /\ q.result = "error" /\ q.op = "grow" =>
                         table'[p].start = q.seen.start /\ table'[p].size >= q.seen.size
                    /\ q.result = "error" /\ q.op # "grow" =>
                         \/ table'[p] = q.seen
                         \/ q.op \in {"shrink", "move"} /\ q.changed /\ table'[p] = NewEntry(r)]_vars
  BY TNext, StepAnswered DEF Answered
<1> QED
  BY TInit, SInit, <1>1, <1>2, <1>3, PTL DEF Spec, AnswersAreTrue
=============================================================================
