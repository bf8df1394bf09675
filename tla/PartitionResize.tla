--------------------------- MODULE PartitionResize ---------------------------
(***************************************************************************)
(* The partitions of one disk and the requests that change them:           *)
(* device/partition.py (grow, shrink, move) and device/fsck.py (check,     *)
(* repair), called by synchronous endpoints that run in a thread pool, and *)
(* by the command line, a process of its own.  Nothing orders two requests *)
(* for one disk, and nothing keeps a partition unmounted after the gate    *)
(* that looked: an operation is a row of programs (growpart, e2fsck,       *)
(* resize2fs, ntfsresize, dd, sfdisk), each of which may end with an error *)
(* status, be killed, or run out of time, before it has done its work or   *)
(* after: dd a sector at a time, the others all of their work or nothing.  *)
(*                                                                         *)
(* A file system is an image of blocks <<p, 0>>, <<p, 1>>, ..., one to a   *)
(* sector, kept from the first sector of its partition on.  Sizes are in   *)
(* sectors.  The programs are external; each write of the table is atomic. *)
(***************************************************************************)
EXTENDS Integers, FiniteSets

CONSTANTS
  Parts,        \* partitions of the disk
  Requests,     \* bound: the requests that are made
  First,        \* first usable sector, 34 in the code
  LastLba,      \* last sector the table may give to a partition
  Total,        \* sectors of the disk; the end holds the backup table
  Table0,       \* the table at the start
  Used,         \* what resize2fs -P finds for a file system
  Types,        \* the types each partition may have
  Damaged,      \* bound: file systems that may have errors at the start
  System        \* partitions whose mount point is one of the system's

Area(e) == e.start .. (e.start + e.size - 1)
Fstypes == {"ext", "xfs", "btrfs", "ntfs", "lvm"}
Sectors == First .. Total - 1
Entries == [start : First .. LastLba, size : 1 .. Total]

ASSUME DiskAssumption ==
  /\ First \in Nat /\ LastLba \in Nat /\ Total \in Nat /\ LastLba < Total
  /\ First <= LastLba /\ Parts # {}
  /\ Table0 \in [Parts -> Entries]
  /\ Used \in [Parts -> Nat \ {0}]
  /\ \A p \in Parts : Used[p] <= Table0[p].size /\ Area(Table0[p]) \subseteq First .. LastLba
  /\ \A p, q \in Parts : p # q => Area(Table0[p]) \cap Area(Table0[q]) = {}
  /\ Types \in [Parts -> SUBSET Fstypes]
  /\ System \subseteq Parts /\ Damaged \subseteq Parts

VARIABLES
  table,        \* the partition table
  fs,           \* file systems: type, size, and whether they have errors
  disk,         \* the block in a sector
  mounted,
  req,          \* requests: step, operation, arguments, what they know, result
  shared,       \* history: partitions two requests had at a time, or that
                \* were mounted under an operation that wants them offline
  overrun       \* history: those whose sectors another partition's blocks took

vars == <<table, fs, disk, mounted, req, shared, overrun>>

Ops     == {"grow", "shrink", "move", "check", "repair"}
Offline == {"shrink", "move", "repair"}
Idle    == {"new", "done"}
Steps   == Idle \cup {"growpart", "grow_fs", "resolve", "e2fsck", "resize", "dd", "sfdisk", "partprobe", "fsck"}
Results == {"none", "refused", "error", "raised", "success", "neither"}
Blocks  == Parts \X (0 .. Total) \cup {<<>>}
NoEntry == [start |-> First, size |-> 1]
Request == [at : Steps, op : Ops, p : Parts, arg : Int, seen : Entries, copied : 0 .. Total,
            changed : BOOLEAN, canceled : BOOLEAN, result : Results]

TypeOK ==
  /\ table \in [Parts -> Entries]
  /\ fs \in [Parts -> [type : Fstypes, size : 1 .. Total, errors : BOOLEAN]]
  /\ disk \in [Sectors -> Blocks]
  /\ mounted \subseteq Parts
  /\ req \in [Requests -> Request]
  /\ shared \subseteq Parts
  /\ overrun \subseteq Parts

End(p)    == table[p].start + table[p].size
Active(r) == req[r].at \notin Idle

Init ==
  /\ table = Table0
  /\ fs \in [Parts -> [type : Fstypes, size : 1 .. Total, errors : BOOLEAN]]
  /\ \A p \in Parts : fs[p].type \in Types[p] /\ fs[p].size = Table0[p].size
                        /\ (fs[p].errors => p \in Damaged)
  /\ disk = [s \in Sectors |-> IF \E p \in Parts : s \in Area(Table0[p])
                               THEN LET p == CHOOSE p \in Parts : s \in Area(Table0[p])
                                    IN <<p, s - Table0[p].start>>
                               ELSE <<>>]
  /\ mounted = {}
  /\ req = [r \in Requests |-> [at |-> "new", op |-> "check", p |-> CHOOSE p \in Parts : TRUE,
                                arg |-> 0, seen |-> NoEntry, copied |-> 0, changed |-> FALSE,
                                canceled |-> FALSE, result |-> "none"]]
  /\ shared = {}
  /\ overrun = {}

-----------------------------------------------------------------------------
(* What the layout says.                                                    *)

\* get_disk_layout: the free sectors that start where the partition ends.
FreeAfter(p) ==
  Cardinality({s \in End(p) .. LastLba :
                 \A t \in End(p) .. s, q \in Parts : t \notin Area(table[q])})

IsSystem(p) == p \in mounted \cap System

\* The entry that a shrink or a move gives to sfdisk.
NewEntry(r) ==
  IF req[r].op = "move" THEN [start |-> req[r].arg, size |-> req[r].seen.size]
  ELSE [start |-> req[r].seen.start, size |-> req[r].arg]

-----------------------------------------------------------------------------
(* Plausible bugs, each a variant of the definition whose name it extends.  *)

\* A move onto part of the partition's own sectors is let through.
plan_move_overlapping(p, to, force) ==
  \/ p \in mounted
  \/ to = table[p].start
  \/ to < First \/ to + table[p].size - 1 > Total - 1
  \/ ~force

\* The table entry is shrunk whether or not the file system was.
ResizeTool_ignored(t) == FALSE

\* The exit status of sfdisk is not looked at.
Sfdisk_unchecked(r) ==
  LET e == NewEntry(r)
  IN  /\ req[r].at = "sfdisk"
      /\ table' = [table EXCEPT ![req[r].p] =
           IF \A q \in Parts \ {req[r].p} : Area(e) \cap Area(table[q]) = {} THEN e ELSE @]
      /\ req' = [req EXCEPT ![r].at = "partprobe"]
      /\ UNCHANGED <<fs, disk, mounted, shared, overrun>>

\* Only 8, 16 and 128 are errors.
Success_uncorrected(code) == code \cap {8, 16, 128} = {}

-----------------------------------------------------------------------------
(* The plans: what the gates refuse.  plan_* has no effect of its own; the  *)
(* operation computes it again and does not trust an earlier one.           *)

plan_grow(p, force) == FreeAfter(p) <= 1 \/ (IsSystem(p) /\ ~force)

\* known: resize2fs -P could be asked for the minimum.  A system partition is
\* a mounted one, so that its demand for force is never reached.
plan_shrink(p, target, known) ==
  \/ fs[p].type \notin {"ext", "ntfs", "btrfs"}
  \/ p \in mounted
  \/ target >= table[p].size
  \/ fs[p].type = "ext" /\ known /\ target < Used[p]

\* The new place may not overlap the old one; the other partitions and the
\* end of the disk that the backup table has are not looked at.
plan_move(p, to, force) ==
  \/ p \in mounted
  \/ to = table[p].start
  \/ Area([start |-> to, size |-> table[p].size]) \cap Area(table[p]) # {}
  \/ to < First \/ to + table[p].size - 1 > Total - 1
  \/ ~force

\* FilesystemChecker.check up to the call of the tool.
fsck_gate(p, repair, force) ==
  \/ fs[p].type = "lvm"
  \/ repair /\ p \in mounted
  \/ repair /\ fs[p].type = "btrfs" /\ ~force
  \/ fs[p].type = "xfs" /\ p \in mounted

Refused(op, p, arg, force, known) ==
  \/ op = "grow" /\ plan_grow(p, force)
  \/ op = "shrink" /\ plan_shrink(p, arg, known)
  \/ op = "move" /\ plan_move(p, arg, force)
  \/ op \in {"check", "repair"} /\ fsck_gate(p, op = "repair", force)

Args(op, p) ==
  IF op = "shrink" THEN 1 .. table[p].size ELSE IF op = "move" THEN 0 .. Total ELSE {0}

FirstStep(op) ==
  IF op = "grow" THEN "growpart" ELSE IF op \in {"shrink", "move"} THEN "resolve" ELSE "fsck"

Begin(r, op, p, arg, refused) ==
  /\ req' = [req EXCEPT ![r].op = op, ![r].p = p, ![r].arg = arg, ![r].seen = table[p],
                        ![r].at = IF refused THEN "done" ELSE FirstStep(op),
                        ![r].result = IF refused THEN "refused" ELSE "none"]
  /\ shared' = IF ~refused /\ \E q \in Requests \ {r} : Active(q) /\ req[q].p = p
               THEN shared \cup {p} ELSE shared

Ask(r) ==
  /\ req[r].at = "new"
  /\ \E op \in Ops, p \in Parts, force, known \in BOOLEAN : \E arg \in Args(op, p) :
       Begin(r, op, p, arg, Refused(op, p, arg, force, known))
  /\ UNCHANGED <<table, fs, disk, mounted, overrun>>

-----------------------------------------------------------------------------
(* What the programs do to the disk.                                        *)

\* What a write of p's blocks to sectors A takes from other partitions: the
\* sectors they have, and those a move is copying them to.
Copying(q)  == {o \in Requests : Active(o) /\ req[o].op = "move" /\ req[o].p = q}
Claims(q)   == Area(table[q]) \cup
               UNION {Area([start |-> req[o].arg, size |-> req[o].seen.size]) : o \in Copying(q)}
Overruns(p, A) == overrun' = overrun \cup {q \in Parts \ {p} : A \cap Claims(q) # {}}

\* A file system of n sectors: new blocks are written, or the blocks past the
\* end go to free ones before it.
ResizeFs(p, n) ==
  LET new == table[p].start + fs[p].size .. table[p].start + n - 1
  IN  /\ fs' = [fs EXCEPT ![p].size = n]
      /\ disk' = [s \in Sectors |-> IF s \in new THEN <<p, s - table[p].start>> ELSE disk[s]]
      /\ Overruns(p, new)

\* growpart: the entry takes the free space there is when it runs.
EntryGrown(p) == table' = [table EXCEPT ![p].size = @ + FreeAfter(p)]

\* e2fsck -y and fsck, which leave a mounted file system alone.
ErrorsFixed(p) == p \notin mounted /\ fs' = [fs EXCEPT ![p].errors = FALSE]

\* resize2fs, ntfsresize, xfs_growfs, btrfs, pvresize: to the end of the
\* partition, or to the target of a shrink, which they do offline only.
Resized(r) ==
  LET p == req[r].p
  IN  /\ p \notin mounted => ~fs[p].errors
      /\ \/ req[r].op = "grow" /\ ResizeFs(p, table[p].size)
         \/ /\ req[r].op = "shrink" /\ p \notin mounted
            /\ req[r].arg \in Used[p] .. table[p].size
            /\ ResizeFs(p, req[r].arg)

\* sfdisk takes an entry on the usable part of the disk that overlaps no other.
Allowed(p, e) ==
  /\ Area(e) \subseteq First .. LastLba
  /\ \A q \in Parts \ {p} : Area(e) \cap Area(table[q]) = {}

EntryWritten(p, e) == Allowed(p, e) /\ table' = [table EXCEPT ![p] = e]

-----------------------------------------------------------------------------
(* Steps of the operations.                                                 *)

Goto(r, to) == req' = [req EXCEPT ![r].at = to]
Did(r, to)  == req' = [req EXCEPT ![r].at = to, ![r].changed = TRUE]
Answer(r, res) == req' = [req EXCEPT ![r].at = "done", ![r].result = res]

\* growpart may say NOCHANGE, which is no error.
Growpart(r) ==
  LET p == req[r].p
  IN  /\ req[r].at = "growpart"
      /\ \/ EntryGrown(p) /\ Did(r, "grow_fs")
         \/ Goto(r, "grow_fs") /\ UNCHANGED table
      /\ UNCHANGED <<fs, disk, mounted, shared, overrun>>

\* _fs_grow_commands.
HasGrowTool(t, m) ==
  t \in {"ext", "lvm"} \/ (t \in {"xfs", "btrfs"} /\ m) \/ (t = "ntfs" /\ ~m)

GrowFs(r) ==
  LET p == req[r].p
  IN  /\ req[r].at = "grow_fs"
      /\ IF HasGrowTool(fs[p].type, p \in mounted) THEN Goto(r, "resize")
         ELSE Answer(r, IF req[r].changed THEN "success" ELSE "neither")
      /\ UNCHANGED <<table, fs, disk, mounted, shared, overrun>>

\* btrfs passes SHRINKABLE_FS and has no command.
ResizeTool(t) == t \in {"ext", "ntfs"}

\* _resolve a second time; the gates are not asked again.
Resolve(r) ==
  LET p  == req[r].p
      to == IF req[r].op = "move" THEN "dd"
            ELSE IF ~ResizeTool(fs[p].type) THEN "sfdisk"
            ELSE IF fs[p].type = "ext" THEN "e2fsck" ELSE "resize"
  IN  /\ req[r].at = "resolve"
      /\ req' = [req EXCEPT ![r].at = to, ![r].seen = table[p], ![r].changed = to = "sfdisk"]
      /\ UNCHANGED <<table, fs, disk, mounted, shared, overrun>>

\* An exit status below 4 goes on, that of a killed e2fsck (below 0) among them.
E2fsck(r) ==
  LET p == req[r].p
  IN  /\ req[r].at = "e2fsck"
      /\ ErrorsFixed(p) \/ UNCHANGED fs
      /\ Goto(r, "resize")
      /\ UNCHANGED <<table, disk, mounted, shared, overrun>>

Resize(r) ==
  /\ req[r].at = "resize"
  /\ Resized(r)
  /\ IF req[r].op = "shrink" THEN Did(r, "sfdisk")
     ELSE req' = [req EXCEPT ![r].at = "done", ![r].changed = TRUE, ![r].result = "success"]
  /\ UNCHANGED <<table, mounted, shared>>

\* dd, a sector at a time.
Dd(r) ==
  LET p    == req[r].p
      to   == req[r].arg + req[r].copied
      from == req[r].seen.start + req[r].copied
  IN  /\ req[r].at = "dd"
      /\ IF req[r].copied < req[r].seen.size
         THEN /\ to \in Sectors
              /\ disk' = [disk EXCEPT ![to] = disk[from]]
              /\ Overruns(p, {to})
              /\ req' = [req EXCEPT ![r].copied = @ + 1]
         ELSE Did(r, "sfdisk") /\ UNCHANGED <<disk, overrun>>
      /\ UNCHANGED <<table, fs, mounted, shared>>

Sfdisk(r) ==
  /\ req[r].at = "sfdisk"
  /\ EntryWritten(req[r].p, NewEntry(r))
  /\ Goto(r, "partprobe")
  /\ UNCHANGED <<fs, disk, mounted, shared, overrun>>

\* Its exit status is not looked at; its time limit raises.
Partprobe(r) ==
  /\ req[r].at = "partprobe"
  /\ Answer(r, "success")
  /\ UNCHANGED <<table, fs, disk, mounted, shared, overrun>>

\* A program ends with an exit status that is an error, or it is stopped, since
\* its time is up or the process ends that waits for it: before it has changed
\* anything, or when its work is done.
ToolFails(r) ==
  LET p  == req[r].p
      at == req[r].at
  IN  /\ at \in {"growpart", "e2fsck", "resize", "dd", "sfdisk", "fsck"}
      /\ \/ UNCHANGED <<table, fs, disk, overrun>>
         \/ at = "growpart" /\ EntryGrown(p) /\ UNCHANGED <<fs, disk, overrun>>
         \/ at = "e2fsck" /\ ErrorsFixed(p) /\ UNCHANGED <<table, disk, overrun>>
         \/ at = "resize" /\ Resized(r) /\ UNCHANGED table
         \/ at = "sfdisk" /\ EntryWritten(p, NewEntry(r)) /\ UNCHANGED <<fs, disk, overrun>>
         \/ /\ at = "fsck" /\ req[r].op = "repair" /\ fs[p].type # "ntfs"
            /\ ErrorsFixed(p) /\ UNCHANGED <<table, disk, overrun>>
      /\ \E res \in {"error", "raised"} : Answer(r, res)
      /\ UNCHANGED <<mounted, shared>>

\* TimeoutExpired or OSError out of _run, or the end of the process, where no
\* program is at work that changes the disk.
Raises(r) ==
  /\ Active(r)
  /\ Answer(r, "raised")
  /\ UNCHANGED <<table, fs, disk, mounted, shared, overrun>>

-----------------------------------------------------------------------------
(* Checks of a file system.                                                 *)

\* Exit codes as the bits they have: 1 corrected, 4 left uncorrected, 8 could
\* not run, 32 canceled.  The other tools have 0 and one code, here {8}, that
\* says all else.
ExitCodes(t, repair, errors, m) ==
  {{8}} \cup IF t = "ext"
             THEN IF repair /\ m THEN {}
                  ELSE {{32}, {1, 32}} \cup IF ~errors THEN {{}}
                                            ELSE IF repair THEN {{1}, {4}, {1, 4}} ELSE {{4}}
             ELSE IF errors /\ ~repair THEN {} ELSE {{}}

\* ntfsfix clears flags and leaves the errors to the next boot of Windows.
Fixes(t, code) == IF t = "ext" THEN code = {1} ELSE t # "ntfs" /\ code = {}

\* _interpret_exit_code: the same verdict in both styles.
Success(code) == code \cap {4, 8, 16, 128} = {}
Changes(t, repair, code) == IF t = "ext" THEN 1 \in code ELSE repair /\ code = {}

Fsck(r) ==
  LET p == req[r].p
      repair == req[r].op = "repair"
  IN  /\ req[r].at = "fsck"
      /\ \E code \in ExitCodes(fs[p].type, repair, fs[p].errors, p \in mounted) :
           /\ fs' = [fs EXCEPT ![p].errors = @ /\ ~(repair /\ Fixes(fs[p].type, code))]
           /\ req' = [req EXCEPT ![r].at = "done", ![r].canceled = 32 \in code,
                                 ![r].changed = Changes(fs[p].type, repair, code),
                                 ![r].result = IF Success(code) THEN "success" ELSE "error"]
      /\ UNCHANGED <<table, disk, mounted, shared, overrun>>

-----------------------------------------------------------------------------
(* The user mounts and unmounts when he likes.                              *)

Mount(p) ==
  /\ p \notin mounted
  /\ mounted' = mounted \cup {p}
  /\ shared' = IF \E r \in Requests : Active(r) /\ req[r].p = p /\ req[r].op \in Offline
               THEN shared \cup {p} ELSE shared
  /\ UNCHANGED <<table, fs, disk, req, overrun>>

Unmount(p) ==
  /\ p \in mounted
  /\ mounted' = mounted \ {p}
  /\ UNCHANGED <<table, fs, disk, req, shared, overrun>>

Step(r) ==
  \/ Ask(r) \/ Growpart(r) \/ GrowFs(r) \/ Resolve(r) \/ E2fsck(r) \/ Resize(r) \/ Dd(r)
  \/ Sfdisk(r) \/ Partprobe(r) \/ Fsck(r) \/ ToolFails(r) \/ Raises(r)

Next == (\E r \in Requests : Step(r)) \/ \E p \in Parts : Mount(p) \/ Unmount(p)

Spec == Init /\ [][Next]_vars

-----------------------------------------------------------------------------
(* Properties.                                                              *)

\* At every step of every operation, and so after any failure or stop between
\* two steps, a file system is no larger than its partition: the entry grows
\* before the file system and shrinks after it.  Not so for btrfs, for which
\* see ShrinkFits, nor if two requests had the partition.
Fits == \A p \in Parts \ shared : fs[p].type # "btrfs" => fs[p].size <= table[p].size

\* Where the table says a partition is, all blocks of its file system are: the
\* copy of a move is complete before the entry points at it, and what it was
\* copied from is whole until then, when dd or sfdisk fails too.  This holds
\* unless two requests had the partition, it was mounted under an operation
\* that had found it unmounted, or another partition's move was let onto it.
Intact ==
  \A p \in Parts \ (shared \cup overrun) : fs[p].type # "btrfs" =>
    \A i \in 0 .. fs[p].size - 1 : disk[table[p].start + i] = <<p, i>>

\* What an operation answers is so.  After success the entry is the one that was
\* asked for, and grown ext file systems and LVM volumes fill theirs.  After an
\* error it is the one that was seen, unless the error is that of a program that
\* writes the table: it may have written it before it failed.  So a failed growth
\* has not moved or shrunk the entry, whatever changes_made says; a shrink or move
\* has left it as it was, if changes_made is not set ("aborting shrink", "Partition
\* table NOT changed"), and else has left one of the two it knows of.
AnswersAreTrue ==
  [][\A r \in Requests :
       LET p == req[r].p
           q == req'[r]
       IN  Active(r) /\ q.at = "done" /\ p \notin shared =>
             /\ q.result = "success" /\ q.op \in {"shrink", "move"} => table'[p] = NewEntry(r)
             /\ q.result = "success" /\ q.op = "grow" =>
                  /\ table'[p].start = q.seen.start /\ table'[p].size >= q.seen.size
                  /\ fs[p].type \in {"ext", "lvm"} => fs'[p].size = table'[p].size
             /\ q.result = "error" /\ q.op = "grow" =>
                  table'[p].start = q.seen.start /\ table'[p].size >= q.seen.size
             /\ q.result = "error" /\ q.op # "grow" =>
                  \/ table'[p] = q.seen
                  \/ q.op \in {"shrink", "move"} /\ q.changed /\ table'[p] = NewEntry(r)]_vars

\* A check or repair that is not canceled is a success only if the file system
\* has no errors when it ends; ntfsfix is said to be no full check.
VerdictIsTrue ==
  [][\A r \in Requests :
       LET q == req'[r]
       IN  Active(r) /\ q.at = "done" /\ q.op \in {"check", "repair"} /\ q.result = "success" =>
             q.canceled \/ fs[q.p].type = "ntfs" \/ ~fs'[q.p].errors]_vars

\* "so the partition is never smaller than the freshly-shrunk filesystem", for
\* every type that plan_shrink lets through.
ShrinkFits == \A p \in Parts \ shared : fs[p].size <= table[p].size
=============================================================================
