------------------------------ MODULE ShredFiles ------------------------------
(***************************************************************************)
(* shred_files (device/shredder.py): batches that overwrite, truncate,     *)
(* rename and remove files by name, on a file system that other programs   *)
(* use.  Two pool threads of the web service and the command line may run  *)
(* batches at the same time; each system call is a step.  The job around a *)
(* batch is in module JobManager.                                          *)
(*                                                                         *)
(* A name leads to a file (an inode), to another name (a symbolic link),   *)
(* to a directory or to nothing.  Of the contents the model keeps which    *)
(* blocks still hold what the user stored.                                 *)
(***************************************************************************)
EXTENDS Integers, Sequences

CONSTANTS
  Names,     \* resolved paths
  Inside,    \* those below the mount point
  Files,     \* inodes
  Entry0,    \* what the names lead to in the beginning
  Length0,   \* blocks of the files in the beginning
  MaxLength, \* bound: to how many blocks they grow
  Volatile,  \* the names that another program may change,
  Baits,     \* what it may put there,
  Growing,   \* and the files it may append to
  Batches,
  Cancellable, \* those with a cancel_event; the command line has none
  Paths,     \* result.requested: the paths of each batch
  Passes     \* how many passes its algorithm makes

Entry == [kind : {"none", "dir"}] \cup [kind : {"file"}, file : Files]
         \cup [kind : {"link"}, to : Names]

ASSUME ShredAssumption ==
  /\ Names # {} /\ Files # {} /\ Inside \subseteq Names /\ Volatile \subseteq Names
  /\ Baits \subseteq Entry
  /\ Growing \subseteq Files /\ Cancellable \subseteq Batches
  /\ Entry0 \in [Names -> Entry]
  /\ \A n \in Names : Entry0[n].kind = "link" => Entry0[Entry0[n].to].kind # "link"
  /\ MaxLength \in Nat
  /\ Length0 \in [Files -> 0..MaxLength]
  /\ Paths \in [Batches -> Seq(Names)]
  /\ Passes \in [Batches -> Nat]

VARIABLES
  entry,     \* the directories
  length,    \* of a file
  stored,    \* its blocks that hold the user's data
  leaked,    \* history: files of which a block was freed with such data
  written,   \* history: files that a batch has overwritten or truncated
  swapped,   \* history: the names another program has changed, or linked to
  lured,     \* history: the files behind what it put there
  grown,     \* history: files another program has appended to
  cancel,    \* cancel_event of a batch
  at,        \* what a batch does next
  item,      \* which path it is at
  resolved,  \* the path with its links followed
  file,      \* history: the file that the second lstat saw there
  size,      \* st_size
  open,      \* the file behind the handle
  pass, position,
  held,      \* the entry under its random name
  shredded   \* history: the files in result.shredded

disk   == <<entry, length, stored, leaked, written>>
others == <<swapped, lured, grown, cancel>>
place  == <<resolved, file, size>>
work   == <<open, pass, position, held>>
vars   == <<disk, others, at, item, place, work, shredded>>

None == [kind |-> "none"]
Path(b) == Paths[b][item[b]]
Go(b, to) == at' = [at EXCEPT ![b] = to]
Steps == {"next", "resolve", "examine", "open", "write", "truncate", "rename",
          "remove", "completed", "cancelled", "refused"}

\* The file at the end of the (one) link: what open and truncate work on.
Followed(n) == IF entry[n].kind = "link" THEN entry[entry[n].to] ELSE entry[n]

TypeOK ==
  /\ entry \in [Names -> Entry]
  /\ length \in [Files -> 0..MaxLength]
  /\ stored \in [Files -> SUBSET (1..MaxLength)]
  /\ leaked \subseteq Files /\ written \subseteq Files /\ grown \subseteq Files
  /\ swapped \subseteq Names /\ lured \subseteq Files
  /\ cancel \in [Batches -> BOOLEAN]
  /\ at \in [Batches -> Steps]
  /\ item \in [Batches -> Nat \ {0}]
  /\ resolved \in [Batches -> Names]
  /\ file \in [Batches -> Files]
  /\ size \in [Batches -> 0..MaxLength]
  /\ open \in [Batches -> Files]
  /\ pass \in [Batches -> Nat \ {0}]
  /\ position \in [Batches -> 0..MaxLength]
  /\ held \in [Batches -> Entry]
  /\ shredded \in [Batches -> SUBSET Files]

Init ==
  /\ entry = Entry0
  /\ length = Length0
  /\ stored = [f \in Files |-> 1..Length0[f]]
  /\ leaked = {} /\ written = {} /\ grown = {}
  /\ swapped = {} /\ lured = {}
  /\ cancel = [b \in Batches |-> FALSE]
  /\ at \in [Batches -> {"next", "refused"}]    \* not mounted, no such algorithm
  /\ item = [b \in Batches |-> 1]
  /\ resolved = [b \in Batches |-> CHOOSE n \in Names : TRUE]
  /\ file = [b \in Batches |-> CHOOSE f \in Files : TRUE]
  /\ open = file
  /\ size = [b \in Batches |-> 0]
  /\ pass = [b \in Batches |-> 1]
  /\ position = [b \in Batches |-> 0]
  /\ held = [b \in Batches |-> None]
  /\ shredded = [b \in Batches |-> {}]

-----------------------------------------------------------------------------
(* Plausible bugs, each a variant of the definition whose name it extends. *)

\* A symbolic link is not refused, but followed.
AcceptedAnything(e) == e.kind # "none"
\* The last pass is not waited for.
OverwrittenAlmost(b) == position[b] >= size[b] - 1

-----------------------------------------------------------------------------
(* One path of a batch.                                                    *)

\* The outcome has an error (result.failed), and the batch goes on.
Fail(b) ==
  /\ Go(b, "next")
  /\ item' = [item EXCEPT ![b] = @ + 1]
  /\ held' = [held EXCEPT ![b] = None]

Finish(b) ==
  /\ at[b] = "next"
  /\ \/ item[b] > Len(Paths[b]) /\ Go(b, "completed")
     \/ item[b] <= Len(Paths[b]) /\ cancel[b] /\ Go(b, "cancelled")
  /\ UNCHANGED <<disk, others, item, place, work, shredded>>

\* os.lstat(raw_path): nothing there, or a link, is refused.
Accepted(e) == e.kind \notin {"none", "link"}
Lstat(b) ==
  /\ at[b] = "next" /\ item[b] <= Len(Paths[b]) /\ ~cancel[b]
  /\ IF Accepted(entry[Path(b)])
     THEN Go(b, "resolve") /\ UNCHANGED <<item, held>>
     ELSE Fail(b)
  /\ UNCHANGED <<disk, others, place, open, pass, position, shredded>>

\* _resolve_within_mount: os.path.realpath, and is it inside?
Realpath(n) == IF entry[n].kind = "link" THEN entry[n].to ELSE n
Resolve(b) ==
  /\ at[b] = "resolve"
  /\ resolved' = [resolved EXCEPT ![b] = Realpath(Path(b))]
  /\ IF Realpath(Path(b)) \in Inside
     THEN Go(b, "examine") /\ UNCHANGED <<item, held>>
     ELSE Fail(b)
  /\ UNCHANGED <<disk, others, file, size, open, pass, position, shredded>>

\* The second lstat: only a regular file is shredded; an empty one is not opened.
Examine(b) ==
  LET e == entry[resolved[b]] IN
  /\ at[b] = "examine"
  /\ IF e.kind = "file"
     THEN /\ file' = [file EXCEPT ![b] = e.file]
          /\ size' = [size EXCEPT ![b] = length[e.file]]
          /\ Go(b, IF length[e.file] = 0 THEN "truncate" ELSE "open")
          /\ UNCHANGED <<item, held>>
     ELSE Fail(b) /\ UNCHANGED <<file, size>>
  /\ UNCHANGED <<disk, others, resolved, open, pass, position, shredded>>

\* open(path, "r+b"): of what the path leads to by now.
Open(b) ==
  LET e == Followed(resolved[b]) IN
  /\ at[b] = "open"
  /\ e.kind = "file"
  /\ open' = [open EXCEPT ![b] = e.file]
  /\ pass' = [pass EXCEPT ![b] = 1]
  /\ position' = [position EXCEPT ![b] = 0]
  /\ Go(b, "write")
  /\ UNCHANGED <<disk, others, item, place, held, shredded>>

Overwritten(b) == position[b] >= size[b]

\* The event is tested before each block, not after the last one of a pass.
StopWriting(b) ==
  /\ at[b] = "write" /\ cancel[b] /\ pass[b] <= Passes[b] /\ ~Overwritten(b)
  /\ Go(b, "cancelled")
  /\ UNCHANGED <<disk, others, item, place, work, shredded>>

\* A block past the end of a file that was truncated meanwhile extends it.
WriteBlock(b) ==
  LET p == position[b] + 1  f == open[b] IN
  /\ at[b] = "write" /\ ~cancel[b] /\ pass[b] <= Passes[b] /\ ~Overwritten(b)
  /\ stored' = [stored EXCEPT ![f] = @ \ {p}]
  /\ length' = [length EXCEPT ![f] = IF p > @ THEN p ELSE @]
  /\ written' = written \cup {f}
  /\ position' = [position EXCEPT ![b] = p]
  /\ UNCHANGED <<entry, leaked, others, at, item, place, open, pass, held, shredded>>

NextPass(b) ==
  /\ at[b] = "write" /\ pass[b] <= Passes[b] /\ Overwritten(b)
  /\ pass' = [pass EXCEPT ![b] = @ + 1]
  /\ position' = [position EXCEPT ![b] = 0]
  /\ UNCHANGED <<disk, others, at, item, place, open, held, shredded>>

EndPasses(b) ==
  /\ at[b] = "write" /\ pass[b] > Passes[b]
  /\ Go(b, "truncate")
  /\ UNCHANGED <<disk, others, item, place, work, shredded>>

\* os.truncate(resolved, 0), which frees the blocks.
Truncate(b) ==
  LET e == Followed(resolved[b]) IN
  /\ at[b] = "truncate"
  /\ e.kind = "file"
  /\ leaked' = IF stored[e.file] = {} THEN leaked ELSE leaked \cup {e.file}
  /\ stored' = [stored EXCEPT ![e.file] = {}]
  /\ length' = [length EXCEPT ![e.file] = 0]
  /\ written' = written \cup {e.file}
  /\ Go(b, "rename")
  /\ UNCHANGED <<entry, others, item, place, work, shredded>>

\* To a random name; when three attempts fail the file keeps its name.
Rename(b) ==
  /\ at[b] = "rename"
  /\ \/ UNCHANGED <<entry, held>>
     \/ /\ entry[resolved[b]] # None
        /\ held' = [held EXCEPT ![b] = entry[resolved[b]]]
        /\ entry' = [entry EXCEPT ![resolved[b]] = None]
  /\ Go(b, "remove")
  /\ UNCHANGED <<length, stored, leaked, written, others, item, place, open, pass, position, shredded>>

LastLink(f) ==
  /\ \A n \in Names : entry'[n] # [kind |-> "file", file |-> f]
  /\ \A b \in Batches : held'[b] # [kind |-> "file", file |-> f]

Remove(b) ==
  LET e == IF held[b] = None THEN entry[resolved[b]] ELSE held[b] IN
  /\ at[b] = "remove"
  /\ e.kind \in {"file", "link"}
  /\ entry' = IF held[b] = None THEN [entry EXCEPT ![resolved[b]] = None] ELSE entry
  /\ held' = [held EXCEPT ![b] = None]
  /\ leaked' = IF e.kind = "file" /\ LastLink(e.file) /\ stored[e.file] # {}
               THEN leaked \cup {e.file} ELSE leaked
  /\ Go(b, "next")
  /\ item' = [item EXCEPT ![b] = @ + 1]
  /\ shredded' = [shredded EXCEPT ![b] = @ \cup {file[b]}]
  /\ UNCHANGED <<length, stored, written, others, place, open, pass, position>>

\* Any call on the file raises OSError; what was done to it stays done.
Raises(b) ==
  /\ at[b] \in {"next", "examine", "open", "write", "truncate", "remove"}
  /\ at[b] = "next" => item[b] <= Len(Paths[b]) /\ ~cancel[b]
  /\ Fail(b)
  /\ UNCHANGED <<disk, others, place, open, pass, position, shredded>>

-----------------------------------------------------------------------------
(* The surroundings.                                                       *)

Cancel(b) ==
  /\ ~cancel[b]
  /\ cancel' = [cancel EXCEPT ![b] = TRUE]
  /\ UNCHANGED <<disk, swapped, lured, grown, at, item, place, work, shredded>>

(* Another program puts something else in the place of an entry, once; it  *)
(* makes no chains of links.                                               *)
Swap(n) ==
  /\ swapped = {}
  /\ \E e \in Baits \ {entry[n]} :
       /\ e.kind = "link" => /\ e.to # n /\ entry[e.to].kind # "link"
                             /\ \A m \in Names : entry[m] # [kind |-> "link", to |-> n]
       /\ entry' = [entry EXCEPT ![n] = e]
       /\ swapped' = {n} \cup (IF e.kind = "link" THEN {e.to} ELSE {})
  /\ lured' = {f \in Files : \E m \in swapped' : entry'[m] = [kind |-> "file", file |-> f]}
  /\ UNCHANGED <<length, stored, leaked, written, grown, cancel, at, item, place, work, shredded>>

\* Another program stores more in a file, once.
Grow(f) ==
  /\ grown = {} /\ length[f] < MaxLength
  /\ length' = [length EXCEPT ![f] = @ + 1]
  /\ stored' = [stored EXCEPT ![f] = @ \cup {length[f] + 1}]
  /\ grown' = {f}
  /\ UNCHANGED <<entry, leaked, written, swapped, lured, cancel, at, item, place, work, shredded>>

Batch(b) ==
  \/ Lstat(b) \/ Finish(b) \/ Resolve(b) \/ Examine(b) \/ Open(b) \/ StopWriting(b)
  \/ WriteBlock(b) \/ NextPass(b) \/ EndPasses(b) \/ Truncate(b) \/ Rename(b)
  \/ Remove(b) \/ Raises(b)

Next ==
  \/ \E b \in Batches : Batch(b)
  \/ \E b \in Cancellable : Cancel(b)
  \/ \E n \in Volatile : Swap(n)
  \/ \E f \in Growing : Grow(f)

Spec == Init /\ [][Next]_vars

-----------------------------------------------------------------------------
(* What is reported as shredded was overwritten first: no block of a file  *)
(* is given back to the file system with the user's data in it, and a file *)
(* that a batch counts as shredded holds none, however batches that were   *)
(* given the same file or two names of it overtake each other, fail or are *)
(* cancelled (shredder.py:405-439).  Left out are files that grew in the   *)
(* meantime, paths that somebody changed, and algorithms without passes.   *)
Asked     == {n \in Names : \E b \in Batches : \E i \in 1..Len(Paths[b]) : Paths[b][i] = n}
Requested == Asked \cap Inside
ShredIsTrue ==
  swapped \cap Asked = {} /\ (\A b \in Batches : Passes[b] # 0) =>
    /\ leaked \subseteq grown
    /\ \A b \in Batches : \A f \in shredded[b] \ grown : stored[f] = {}

(* Only what was asked for is destroyed: a file that a batch overwrote or  *)
(* truncated was, in the beginning, a regular file at one of the paths of  *)
(* a batch, inside the mount point; so were the entries that are gone.     *)
(* Links and other paths do not lead a batch astray.  Between the checks   *)
(* and the calls that follow the path anew another program can exchange    *)
(* what is there (shredder.py:353-383, 405, 423): then the batch destroys  *)
(* what that program has put there, and nothing else.                      *)
OnlyRequested ==
  /\ \A f \in written \ lured :
       \E n \in Requested : Entry0[n] = [kind |-> "file", file |-> f]
  /\ \A n \in Names \ swapped : entry[n] # Entry0[n] => n \in Requested
===============================================================================
