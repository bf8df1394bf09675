--------------------------- MODULE ShredFilesProofs ---------------------------
(***************************************************************************)
(* Proofs about module ShredFiles: batches destroy only what was asked     *)
(* for, and what they report as shredded they have overwritten, for any    *)
(* number of batches, any names and links, and any interleaving with each  *)
(* other and with the other programs of the system.                        *)
(***************************************************************************)
EXTENDS ShredFiles, TLAPS

\* A batch that is at work on a path has one.
Busy  == {"examine", "open", "write", "truncate", "rename", "remove"}
Placed == \A b \in Batches : at[b] \in Busy \cup {"resolve"} => item[b] <= Len(Paths[b])
TInv  == TypeOK /\ Placed

LEMMA NoneIsEntry == None \in Entry /\ None.kind = "none"
  BY DEF None, Entry

LEMMA PathType ==
  ASSUME TypeOK, NEW b \in Batches, item[b] <= Len(Paths[b])
  PROVE  Path(b) \in Names /\ item[b] \in 1..Len(Paths[b]) /\ Path(b) \in Asked
<1>1. Paths[b] \in Seq(Names) /\ item[b] \in 1..Len(Paths[b])
  BY ShredAssumption DEF TypeOK
<1> QED
  BY <1>1 DEF Path, Asked

LEMMA EntryTypes ==
  ASSUME NEW e \in Entry
  PROVE  /\ e.kind \in {"none", "dir", "file", "link"}
         /\ e.kind = "file" => e.file \in Files /\ e = [kind |-> "file", file |-> e.file]
         /\ e.kind = "link" => e.to \in Names /\ e = [kind |-> "link", to |-> e.to]
  BY DEF Entry

LEMMA FollowedType == ASSUME TypeOK, NEW n \in Names PROVE Followed(n) \in Entry
<1>1. entry[n] \in Entry /\ \A m \in Names : entry[m] \in Entry
  BY DEF TypeOK
<1> QED
  BY <1>1, EntryTypes DEF Followed

LEMMA TypesInit == Init => TypeOK
<1> SUFFICES ASSUME Init PROVE TypeOK
  OBVIOUS
<1> USE ShredAssumption DEF Init
<1>1. (CHOOSE n \in Names : TRUE) \in Names /\ (CHOOSE f \in Files : TRUE) \in Files
  OBVIOUS
<1>2. stored \in [Files -> SUBSET (1..MaxLength)]
  <2>1. \A f \in Files : 1..Length0[f] \subseteq 1..MaxLength
    OBVIOUS
  <2> QED
    BY <2>1
<1>3. length \in [Files -> 0..MaxLength] /\ entry \in [Names -> Entry]
  OBVIOUS
<1>4. /\ resolved \in [Batches -> Names] /\ file \in [Batches -> Files]
      /\ open \in [Batches -> Files] /\ held \in [Batches -> Entry]
  BY <1>1, NoneIsEntry
<1>5. /\ at \in [Batches -> Steps] /\ item \in [Batches -> Nat \ {0}]
      /\ size \in [Batches -> 0..MaxLength] /\ pass \in [Batches -> Nat \ {0}]
      /\ position \in [Batches -> 0..MaxLength]
  BY DEF Steps
<1> QED
  BY <1>2, <1>3, <1>4, <1>5 DEF TypeOK

LEMMA TypesNext == ASSUME TInv, [Next]_vars PROVE TypeOK'
<1> USE DEF disk, others, place, work, Steps
<1>18. ASSUME NEW b \in Batches, Resolve(b) PROVE item[b] <= Len(Paths[b])
  BY <1>18 DEF Resolve, TInv, Placed
<1>19. TypeOK
  BY DEF TInv
<1> USE <1>19 DEF TypeOK
<1>0. None \in Entry /\ \A b \in Batches : item[b] + 1 \in Nat \ {0}
  BY <1>19, NoneIsEntry
<1>1. ASSUME NEW b \in Batches, Finish(b) PROVE TypeOK'
  BY <1>1 DEF Finish, Go
<1>2. ASSUME NEW b \in Batches, Lstat(b) PROVE TypeOK'
  <2>1. CASE Accepted(entry[Path(b)])
    BY <1>2, <2>1 DEF Lstat, Go
  <2>2. CASE ~Accepted(entry[Path(b)])
    <3>1. at' = [at EXCEPT ![b] = "next"] /\ item' = [item EXCEPT ![b] = @ + 1] /\ held' = [held EXCEPT ![b] = None]
      BY <1>2, <2>2 DEF Lstat, Fail, Go
    <3> QED
      BY <1>0, <1>2, <3>1 DEF Lstat
  <2> QED
    BY <2>1, <2>2
<1>3. ASSUME NEW b \in Batches, Resolve(b), item[b] <= Len(Paths[b]) PROVE TypeOK'
  <2>1. Path(b) \in Names /\ entry[Path(b)] \in Entry
    BY <1>3, PathType
  <2>2. Realpath(Path(b)) \in Names
    BY <2>1, EntryTypes DEF Realpath
  <2>3. resolved' \in [Batches -> Names]
    BY <1>3, <2>2 DEF Resolve
  <2>4. CASE Realpath(Path(b)) \in Inside
    BY <1>3, <2>3, <2>4 DEF Resolve, Go
  <2>5. CASE Realpath(Path(b)) \notin Inside
    <3>1. at' = [at EXCEPT ![b] = "next"] /\ item' = [item EXCEPT ![b] = @ + 1] /\ held' = [held EXCEPT ![b] = None]
      BY <1>3, <2>5 DEF Resolve, Fail, Go
    <3> QED
      BY <1>0, <1>3, <2>3, <3>1 DEF Resolve
  <2> QED
    BY <2>4, <2>5
<1>4. ASSUME NEW b \in Batches, Examine(b) PROVE TypeOK'
  <2> DEFINE e == entry[resolved[b]]
  <2>1. e \in Entry
    OBVIOUS
  <2>2. CASE e.kind = "file"
    <3>1. e.file \in Files /\ length[e.file] \in 0..MaxLength
      BY <2>1, <2>2, EntryTypes
    <3> QED
      BY <1>4, <2>2, <3>1 DEF Examine, Go
  <2>3. CASE e.kind # "file"
    <3>1. at' = [at EXCEPT ![b] = "next"] /\ item' = [item EXCEPT ![b] = @ + 1] /\ held' = [held EXCEPT ![b] = None]
      BY <1>4, <2>3 DEF Examine, Fail, Go
    <3> QED
      BY <1>0, <1>4, <2>3, <3>1 DEF Examine
  <2> QED
    BY <2>2, <2>3
<1>5. ASSUME NEW b \in Batches, Open(b) PROVE TypeOK'
  <2> DEFINE e == Followed(resolved[b])
  <2>1. e.file \in Files
    BY <1>5, FollowedType, EntryTypes DEF Open
  <2>2. 0 \in 0..MaxLength
    BY ShredAssumption
  <2> QED
    BY <1>5, <2>1, <2>2 DEF Open, Go
<1>6. ASSUME NEW b \in Batches, StopWriting(b) PROVE TypeOK'
  BY <1>6 DEF StopWriting, Go
<1>7. ASSUME NEW b \in Batches, WriteBlock(b) PROVE TypeOK'
  <2> DEFINE p == position[b] + 1
             f == open[b]
  <2>1. p \in 0..MaxLength /\ f \in Files
    <3>1. position[b] \in 0..MaxLength /\ size[b] \in 0..MaxLength /\ ~(position[b] >= size[b]) /\ MaxLength \in Nat
      BY <1>7, ShredAssumption DEF WriteBlock, Overwritten
    <3> QED
      BY <3>1
  <2>2. stored' \in [Files -> SUBSET (1..MaxLength)]
    BY <1>7, <2>1 DEF WriteBlock
  <2>3. length' \in [Files -> 0..MaxLength]
    BY <1>7, <2>1 DEF WriteBlock
  <2>4. position' \in [Batches -> 0..MaxLength] /\ written' \subseteq Files
    BY <1>7, <2>1 DEF WriteBlock
  <2> QED
    BY <1>7, <2>2, <2>3, <2>4 DEF WriteBlock
<1>8. ASSUME NEW b \in Batches, NextPass(b) PROVE TypeOK'
  <2>1. 0 \in 0..MaxLength
    BY ShredAssumption
  <2> QED
    BY <1>8, <2>1 DEF NextPass
<1>9. ASSUME NEW b \in Batches, EndPasses(b) PROVE TypeOK'
  BY <1>9 DEF EndPasses, Go
<1>10. ASSUME NEW b \in Batches, Truncate(b) PROVE TypeOK'
  <2> DEFINE e == Followed(resolved[b])
  <2>1. e.file \in Files
    BY <1>10, FollowedType, EntryTypes DEF Truncate
  <2>2. 0 \in 0..MaxLength
    BY ShredAssumption
  <2>3. stored' \in [Files -> SUBSET (1..MaxLength)] /\ length' \in [Files -> 0..MaxLength]
    BY <1>10, <2>1, <2>2 DEF Truncate
  <2>4. leaked' \subseteq Files /\ written' \subseteq Files
    BY <1>10, <2>1 DEF Truncate
  <2> QED
    BY <1>10, <2>3, <2>4 DEF Truncate, Go
<1>11. ASSUME NEW b \in Batches, Rename(b) PROVE TypeOK'
  <2>1. entry' \in [Names -> Entry] /\ held' \in [Batches -> Entry]
    BY <1>0, <1>11 DEF Rename
  <2> QED
    BY <1>11, <2>1 DEF Rename, Go
<1>12. ASSUME NEW b \in Batches, Remove(b) PROVE TypeOK'
  <2>1. entry' \in [Names -> Entry] /\ held' \in [Batches -> Entry]
    BY <1>0, <1>12 DEF Remove
  <2>2. leaked' \subseteq Files
    <3> DEFINE e == IF held[b] = None THEN entry[resolved[b]] ELSE held[b]
    <3>1. e \in Entry
      OBVIOUS
    <3> HIDE DEF e
    <3>2. e.kind = "file" => e.file \in Files
      BY <3>1, EntryTypes
    <3>3. leaked' = leaked \/ (e.kind = "file" /\ leaked' = leaked \cup {e.file})
      BY <1>12 DEF Remove, e
    <3> QED
      BY <3>2, <3>3
  <2>3. item' \in [Batches -> Nat \ {0}] /\ shredded' \in [Batches -> SUBSET Files]
    BY <1>0, <1>12 DEF Remove
  <2> QED
    BY <1>12, <2>1, <2>2, <2>3 DEF Remove, Go
<1>13. ASSUME NEW b \in Batches, Raises(b) PROVE TypeOK'
  BY <1>0, <1>13 DEF Raises, Fail, Go
<1>14. ASSUME NEW b \in Batches, Cancel(b) PROVE TypeOK'
  BY <1>14 DEF Cancel
<1>15. ASSUME NEW n \in Names, Swap(n) PROVE TypeOK'
  <2> PICK e \in Baits \ {entry[n]} :
        /\ entry' = [entry EXCEPT ![n] = e]
        /\ swapped' = {n} \cup (IF e.kind = "link" THEN {e.to} ELSE {})
    BY <1>15 DEF Swap
  <2>1. e \in Entry
    BY ShredAssumption
  <2>2. entry' \in [Names -> Entry] /\ swapped' \subseteq Names
    BY <2>1, EntryTypes
  <2> QED
    BY <1>15, <2>2 DEF Swap
<1>16. ASSUME NEW f \in Files, Grow(f) PROVE TypeOK'
  <2>1. length[f] + 1 \in 1..MaxLength
    BY <1>16, ShredAssumption DEF Grow
  <2>2. stored' \in [Files -> SUBSET (1..MaxLength)]
    BY <1>16, <2>1 DEF Grow
  <2>3. length' \in [Files -> 0..MaxLength] /\ grown' \subseteq Files
    BY <1>16, <2>1 DEF Grow
  <2> QED
    BY <1>16, <2>2, <2>3 DEF Grow
<1>17. CASE UNCHANGED vars
  BY <1>17 DEF vars
<1> QED
  BY <1>1, <1>2, <1>3, <1>4, <1>5, <1>6, <1>7, <1>8, <1>9, <1>10, <1>11, <1>12, <1>13, <1>14, <1>15,
     <1>16, <1>17, <1>18, ShredAssumption DEF Next, Batch

\* A step of another batch, or of another program.
SameBatch(b) ==
  /\ at'[b] = at[b] /\ item'[b] = item[b] /\ resolved'[b] = resolved[b] /\ file'[b] = file[b]
  /\ size'[b] = size[b] /\ open'[b] = open[b] /\ pass'[b] = pass[b]
  /\ position'[b] = position[b] /\ held'[b] = held[b] /\ shredded'[b] = shredded[b]

LEMMA OneBatch ==
  ASSUME TypeOK, NEW b \in Batches, NEW c \in Batches, b # c, Batch(c)
  PROVE  SameBatch(b)
<1> USE DEF TypeOK, place, work, Fail, Go, SameBatch
<1>1. CASE Finish(c)
  BY <1>1 DEF Finish
<1>2. CASE Lstat(c)
  BY <1>2 DEF Lstat
<1>3. CASE Resolve(c)
  BY <1>3 DEF Resolve
<1>4. CASE Examine(c)
  BY <1>4 DEF Examine
<1>5. CASE Open(c)
  BY <1>5 DEF Open
<1>6. CASE StopWriting(c)
  BY <1>6 DEF StopWriting
<1>7. CASE WriteBlock(c)
  BY <1>7 DEF WriteBlock
<1>8. CASE NextPass(c)
  BY <1>8 DEF NextPass
<1>9. CASE EndPasses(c)
  BY <1>9 DEF EndPasses
<1>10. CASE Truncate(c)
  BY <1>10 DEF Truncate
<1>11. CASE Rename(c)
  BY <1>11 DEF Rename
<1>12. CASE Remove(c)
  BY <1>12 DEF Remove
<1>13. CASE Raises(c)
  BY <1>13 DEF Raises
<1> QED
  BY <1>1, <1>2, <1>3, <1>4, <1>5, <1>6, <1>7, <1>8, <1>9, <1>10, <1>11, <1>12, <1>13 DEF Batch

LEMMA Programs ==
  ASSUME NEW b \in Batches,
         (\E c \in Batches : Cancel(c)) \/ (\E n \in Names : Swap(n)) \/ (\E f \in Files : Grow(f))
         \/ UNCHANGED vars
  PROVE  SameBatch(b)
  BY DEF Cancel, Swap, Grow, vars, place, work, SameBatch

\* Whoever the step is by, the others do not notice it.
LEMMA Elsewhere ==
  ASSUME TypeOK, [Next]_vars, NEW b \in Batches, ~Batch(b)
  PROVE  SameBatch(b)
<1>1. \/ \E c \in Batches : Batch(c)
      \/ (\E c \in Batches : Cancel(c)) \/ (\E n \in Names : Swap(n)) \/ (\E f \in Files : Grow(f))
      \/ UNCHANGED vars
  BY ShredAssumption DEF Next
<1>2. CASE \E c \in Batches : Batch(c)
  BY <1>2, OneBatch
<1> QED
  BY <1>1, <1>2, Programs

LEMMA TNext == ASSUME TInv, [Next]_vars PROVE TInv'
<1>1. TypeOK /\ TypeOK'
  BY TypesNext DEF TInv
<1> SUFFICES ASSUME NEW b \in Batches, at'[b] \in Busy \cup {"resolve"}
             PROVE  item'[b] <= Len(Paths[b])
  BY <1>1 DEF TInv, Placed
<1>2. at[b] \in Busy \cup {"resolve"} => item[b] <= Len(Paths[b])
  BY DEF TInv, Placed
<1>3. CASE ~Batch(b)
  BY <1>1, <1>2, <1>3, Elsewhere DEF SameBatch
<1>4. CASE Batch(b)
  <2> USE <1>1 DEF Busy, Go, Fail, place
  <2>1. CASE Finish(b) \/ Raises(b) \/ Remove(b) \/ StopWriting(b)
    BY <2>1 DEF Finish, Raises, Remove, StopWriting, TypeOK
  <2>2. CASE Lstat(b)
    BY <2>2 DEF Lstat, TypeOK
  <2>3. CASE Resolve(b)
    BY <1>2, <2>3 DEF Resolve, TypeOK
  <2>4. CASE Examine(b)
    BY <1>2, <2>4 DEF Examine, TypeOK
  <2>5. CASE Open(b) \/ WriteBlock(b) \/ NextPass(b) \/ EndPasses(b) \/ Truncate(b) \/ Rename(b)
    BY <1>2, <2>5 DEF Open, WriteBlock, NextPass, EndPasses, Truncate, Rename
  <2> QED
    BY <1>4, <2>1, <2>2, <2>3, <2>4, <2>5 DEF Batch
<1> QED
  BY <1>3, <1>4
-----------------------------------------------------------------------------
(* Only what was asked for.  A name leads where it led, or nowhere, unless *)
(* another program changed it; a link that program made leads to a name    *)
(* that counts as changed; and where a batch is at work is such a name or  *)
(* one it was asked for.                                                   *)

FileEntry(f) == [kind |-> "file", file |-> f]
MayWrite(f)  == f \in lured \/ \E n \in Requested : Entry0[n] = FileEntry(f)
Tree ==
  /\ \A n \in Names : n \in swapped \/ entry[n] = Entry0[n] \/ (entry[n] = None /\ n \in Requested)
  /\ \A n \in swapped : /\ entry[n].kind = "file" => entry[n].file \in lured
                        /\ entry[n].kind = "link" => entry[n].to \in swapped
  /\ swapped = {} => lured = {}
  /\ \A n \in Names : entry[n].kind = "link" => entry[entry[n].to].kind # "link"
  /\ \A f \in written : MayWrite(f)
  /\ \A f \in Files : stored[f] \subseteq 1..length[f]
Leads(b) ==
  /\ at[b] = "resolve" => Path(b) \in swapped \/ entry[Path(b)].kind # "link"
  /\ at[b] \in Busy =>
       /\ resolved[b] \in Requested \cup swapped
       /\ resolved[b] \in swapped \/ entry[resolved[b]].kind # "link"
  /\ at[b] = "write" => MayWrite(open[b])

\* What no step takes back.
Moved ==
  /\ swapped \subseteq swapped' /\ lured \subseteq lured' /\ grown \subseteq grown'
  /\ \A n \in Names : entry'[n] = entry[n] \/ entry'[n] = None \/ n \in swapped'
  /\ \A f \in Files : f \in grown' \/ stored'[f] \subseteq stored[f]

LEMMA TreeInit == Init => Tree /\ \A b \in Batches : Leads(b)
<1> SUFFICES ASSUME Init PROVE Tree /\ \A b \in Batches : Leads(b)
  OBVIOUS
<1>1. Tree
  BY ShredAssumption DEF Init, Tree
<1>2. \A b \in Batches : at[b] \in {"next", "refused"}
  BY DEF Init
<1> QED
  BY <1>1, <1>2 DEF Leads, Busy

\* A name that is unlinked was asked for, or changed by somebody else.
LEMMA Unlinked ==
  ASSUME TypeOK, Tree, NEW n \in Names, n \in Requested \cup swapped,
         entry' = [entry EXCEPT ![n] = None] \/ entry' = entry,
         UNCHANGED <<length, stored, written, swapped, lured, grown>>
  PROVE  Tree' /\ Moved
<1>1. \A m \in Names : entry'[m] = entry[m] \/ (m = n /\ entry'[m] = None)
  BY DEF TypeOK
<1>2. None.kind = "none"
  BY NoneIsEntry
<1>3. \A m \in Names : entry[m].kind = "link" => entry[m].to \in Names
  BY EntryTypes DEF TypeOK
<1>4. \A f \in written : MayWrite(f)'
  BY DEF Tree, MayWrite
<1>5. \A m \in Names : m \in swapped \/ entry'[m] = Entry0[m] \/ (entry'[m] = None /\ m \in Requested)
  BY <1>1 DEF Tree
<1>6. \A m \in swapped : /\ entry'[m].kind = "file" => entry'[m].file \in lured
                         /\ entry'[m].kind = "link" => entry'[m].to \in swapped
  BY <1>1, <1>2 DEF Tree, TypeOK
<1>7. \A m \in Names : entry'[m].kind = "link" => entry'[entry'[m].to].kind # "link"
  BY <1>1, <1>2, <1>3 DEF Tree
<1>8. Tree'
  BY <1>4, <1>5, <1>6, <1>7 DEF Tree
<1> QED
  BY <1>1, <1>8 DEF Moved

\* What the name leads to, a link followed, is what a batch may destroy.
LEMMA Reaches ==
  ASSUME TypeOK, Tree, NEW b \in Batches, Leads(b), at[b] \in Busy,
         Followed(resolved[b]).kind = "file"
  PROVE  MayWrite(Followed(resolved[b]).file)
<1> DEFINE n == resolved[b]
<1>1. n \in Names /\ entry[n] \in Entry /\ \A m \in Names : entry[m] \in Entry
  BY DEF TypeOK
<1>2. CASE entry[n].kind = "link"
  <2>1. n \in swapped /\ entry[n].to \in swapped
    BY <1>2 DEF Leads, Tree
  <2>2. Followed(n) = entry[entry[n].to]
    BY <1>2 DEF Followed
  <2> QED
    BY <2>1, <2>2 DEF Tree, MayWrite
<1>3. CASE entry[n].kind # "link"
  <2>1. Followed(n) = entry[n]
    BY <1>3 DEF Followed
  <2>2. CASE n \in swapped
    BY <2>1, <2>2 DEF Tree, MayWrite
  <2>3. CASE n \notin swapped
    <3>1. n \in Requested /\ entry[n] # None
      BY <2>1, <2>3, NoneIsEntry DEF Leads
    <3>2. entry[n] = Entry0[n]
      BY <1>1, <2>3, <3>1 DEF Tree
    <3>3. entry[n] = FileEntry(entry[n].file)
      BY <1>1, <2>1, EntryTypes DEF FileEntry
    <3> QED
      BY <2>1, <3>1, <3>2, <3>3 DEF MayWrite
  <2> QED
    BY <2>2, <2>3
<1> QED
  BY <1>2, <1>3

\* A file that a batch may write is overwritten or truncated.
LEMMA Erased ==
  ASSUME TypeOK, TypeOK', Tree, NEW f \in Files, MayWrite(f), written' = written \cup {f},
         stored'[f] \subseteq stored[f], stored'[f] \subseteq 1..length'[f],
         \A g \in Files : g # f => stored'[g] = stored[g] /\ length'[g] = length[g],
         UNCHANGED <<entry, swapped, lured, grown>>
  PROVE  Tree' /\ Moved
<1>1. \A g \in written' : MayWrite(g)'
  BY DEF Tree, MayWrite
<1>2. \A g \in Files : stored'[g] \subseteq stored[g] /\ stored'[g] \subseteq 1..length'[g]
  BY DEF Tree
<1>3. Tree'
  BY <1>1, <1>2 DEF Tree
<1> QED
  BY <1>2, <1>3 DEF Moved

LEMMA Swaps == ASSUME TInv, Tree, NEW n \in Names, Swap(n) PROVE Tree' /\ Moved
<1> PICK e \in Baits \ {entry[n]} :
      /\ e.kind = "link" => /\ e.to # n /\ entry[e.to].kind # "link"
                            /\ \A m \in Names : entry[m] # [kind |-> "link", to |-> n]
      /\ entry' = [entry EXCEPT ![n] = e]
      /\ swapped' = {n} \cup (IF e.kind = "link" THEN {e.to} ELSE {})
  BY DEF Swap
<1>1. e \in Entry /\ TypeOK /\ (e.kind = "link" => e.to \in Names)
  BY ShredAssumption, EntryTypes DEF TInv
<1>2. /\ swapped = {} /\ lured = {}
      /\ lured' = {f \in Files : \E m \in swapped' : entry'[m] = FileEntry(f)}
      /\ UNCHANGED <<length, stored, written, grown>>
  BY DEF Swap, Tree, FileEntry
<1>3. entry'[n] = e /\ \A m \in Names : m # n => entry'[m] = entry[m]
  BY <1>1 DEF TypeOK
<1>4. swapped' \subseteq Names /\ \A m \in Names : entry[m] \in Entry /\ entry'[m] \in Entry
  BY <1>1, <1>3 DEF TypeOK
<1>5. \A m \in Names : m \in swapped' \/ entry'[m] = Entry0[m] \/ (entry'[m] = None /\ m \in Requested)
  BY <1>2, <1>3 DEF Tree
<1>6. \A m \in swapped' : /\ entry'[m].kind = "file" => entry'[m].file \in lured'
                          /\ entry'[m].kind = "link" => entry'[m].to \in swapped'
  <2> TAKE m \in swapped'
  <2>1. ASSUME entry'[m].kind = "file" PROVE entry'[m].file \in lured'
    <3>1. entry'[m].file \in Files /\ entry'[m] = FileEntry(entry'[m].file)
      BY <1>4, <2>1, EntryTypes DEF FileEntry
    <3> QED
      BY <1>2, <3>1
  <2>2. ASSUME entry'[m].kind = "link" PROVE entry'[m].to \in swapped'
    BY <1>3, <1>4, <2>2
  <2> QED
    BY <2>1, <2>2
<1>7. ASSUME NEW m \in Names, entry'[m].kind = "link" PROVE entry'[entry'[m].to].kind # "link"
  <2>1. CASE m = n
    BY <1>1, <1>3, <1>7, <2>1
  <2>2. CASE m # n
    <3>1. entry[m].kind = "link" /\ entry[m].to \in Names
          /\ entry[m] = [kind |-> "link", to |-> entry[m].to]
      BY <1>3, <1>4, <1>7, <2>2, EntryTypes
    <3>2. CASE entry[m].to = n
      BY <1>3, <2>2, <3>1, <3>2
    <3>3. CASE entry[m].to # n
      BY <1>3, <2>2, <3>1, <3>3 DEF Tree
    <3> QED
      BY <3>2, <3>3
  <2> QED
    BY <2>1, <2>2
<1>8. \A f \in written' : MayWrite(f)'
  BY <1>2 DEF Tree, MayWrite
<1>9. Tree'
  BY <1>2, <1>5, <1>6, <1>7, <1>8 DEF Tree
<1> QED
  BY <1>2, <1>3, <1>9 DEF Moved

LEMMA Grows == ASSUME TInv, Tree, NEW f \in Files, Grow(f) PROVE Tree' /\ Moved
<1>1. /\ UNCHANGED <<entry, written, swapped, lured>> /\ grown = {} /\ grown' = {f}
      /\ length' = [length EXCEPT ![f] = @ + 1]
      /\ stored' = [stored EXCEPT ![f] = @ \cup {length[f] + 1}]
  BY DEF Grow
<1>2. length \in [Files -> 0..MaxLength] /\ stored \in [Files -> SUBSET (1..MaxLength)] /\ MaxLength \in Nat
  BY ShredAssumption DEF TInv, TypeOK
<1>3. \A g \in Files : g # f => stored'[g] = stored[g] /\ length'[g] = length[g]
  BY <1>1, <1>2
<1>4. stored'[f] \subseteq 1..length'[f]
  <2>1. stored'[f] = stored[f] \cup {length[f] + 1} /\ length'[f] = length[f] + 1 /\ length[f] \in Nat
    BY <1>1, <1>2
  <2>2. stored[f] \subseteq 1..length[f]
    BY DEF Tree
  <2> QED
    BY <2>1, <2>2
<1>5. Tree'
  <2>1. \A g \in Files : stored'[g] \subseteq 1..length'[g]
    BY <1>3, <1>4 DEF Tree
  <2>2. \A g \in written' : MayWrite(g)'
    BY <1>1 DEF Tree, MayWrite
  <2> QED
    BY <1>1, <2>1, <2>2 DEF Tree
<1> QED
  BY <1>1, <1>3, <1>5 DEF Moved

LEMMA TreeNext ==
  ASSUME TInv, TInv', Tree, \A b \in Batches : Leads(b), [Next]_vars
  PROVE  Tree' /\ Moved
<1>1. TypeOK /\ TypeOK'
  BY DEF TInv
<1>2. CASE UNCHANGED <<entry, length, stored, written, swapped, lured, grown>>
  <2>1. \A f \in written' : MayWrite(f)'
    BY <1>2 DEF Tree, MayWrite
  <2>2. Tree'
    BY <1>2, <2>1 DEF Tree
  <2> QED
    BY <1>2, <2>2 DEF Moved
<1>3. ASSUME NEW b \in Batches, WriteBlock(b) PROVE Tree' /\ Moved
  <2> DEFINE p == position[b] + 1
             f == open[b]
  <2>1. f \in Files /\ MayWrite(f) /\ p \in Nat
    BY <1>1, <1>3 DEF WriteBlock, Leads, TypeOK
  <2>2. /\ stored' = [stored EXCEPT ![f] = @ \ {p}]
        /\ length' = [length EXCEPT ![f] = IF p > @ THEN p ELSE @]
        /\ written' = written \cup {f}
        /\ UNCHANGED <<entry, swapped, lured, grown>>
    BY <1>3 DEF WriteBlock, others
  <2> HIDE DEF f, p
  <2>3. length \in [Files -> 0..MaxLength] /\ stored \in [Files -> SUBSET (1..MaxLength)]
    BY <1>1 DEF TypeOK
  <2>4. stored'[f] \subseteq stored[f] /\ length[f] \in Nat /\ length'[f] = IF p > length[f] THEN p ELSE length[f]
    BY <2>1, <2>2, <2>3
  <2>5. stored[f] \subseteq 1..length[f]
    BY <2>1 DEF Tree
  <2>6. 1..length[f] \subseteq 1..length'[f]
    BY <2>1, <2>4
  <2>7. stored'[f] \subseteq 1..length'[f]
    BY <2>4, <2>5, <2>6
  <2>8. \A g \in Files : g # f => stored'[g] = stored[g] /\ length'[g] = length[g]
    BY <2>2, <2>3
  <2> QED
    BY <1>1, <2>1, <2>2, <2>4, <2>7, <2>8, Erased
<1>4. ASSUME NEW b \in Batches, Truncate(b) PROVE Tree' /\ Moved
  <2> DEFINE f == Followed(resolved[b]).file
  <2>1. f \in Files
    BY <1>1, <1>4, FollowedType, EntryTypes DEF Truncate, TypeOK
  <2>2. MayWrite(f)
    BY <1>1, <1>4, Reaches DEF Truncate, Busy
  <2>3. /\ stored' = [stored EXCEPT ![f] = {}]
        /\ length' = [length EXCEPT ![f] = 0]
        /\ written' = written \cup {f}
        /\ UNCHANGED <<entry, swapped, lured, grown>>
    BY <1>4 DEF Truncate, others
  <2> HIDE DEF f
  <2>4. stored'[f] = {} /\ \A g \in Files : g # f => stored'[g] = stored[g] /\ length'[g] = length[g]
    BY <1>1, <2>1, <2>3 DEF TypeOK
  <2> QED
    BY <1>1, <2>1, <2>2, <2>3, <2>4, Erased
<1>5. ASSUME NEW b \in Batches, Rename(b) \/ Remove(b) PROVE Tree' /\ Moved
  <2>1. /\ resolved[b] \in Names /\ resolved[b] \in Requested \cup swapped
        /\ entry' = [entry EXCEPT ![resolved[b]] = None] \/ entry' = entry
        /\ UNCHANGED <<length, stored, written, swapped, lured, grown>>
    BY <1>1, <1>5 DEF Rename, Remove, Leads, Busy, TypeOK, others
  <2> QED
    BY <1>1, <2>1, Unlinked
<1>6. ASSUME NEW b \in Batches, Batch(b),
             ~(WriteBlock(b) \/ Truncate(b) \/ Rename(b) \/ Remove(b))
      PROVE  UNCHANGED <<entry, length, stored, written, swapped, lured, grown>>
  BY <1>6 DEF Batch, Lstat, Finish, Resolve, Examine, Open, StopWriting, NextPass, EndPasses, Raises,
              disk, others
<1>7. ASSUME (\E b \in Batches : Cancel(b)) \/ UNCHANGED vars
      PROVE  UNCHANGED <<entry, length, stored, written, swapped, lured, grown>>
  BY <1>7 DEF Cancel, vars, disk, others
<1> QED
  BY <1>2, <1>3, <1>4, <1>5, <1>6, <1>7, Swaps, Grows, ShredAssumption DEF Next

LEMMA LeadsStay ==
  ASSUME TInv, TInv', Moved, Tree', NEW b \in Batches, Leads(b), SameBatch(b)
  PROVE  Leads(b)'
<1>1. Path(b)' = Path(b) /\ at'[b] = at[b] /\ resolved'[b] = resolved[b] /\ open'[b] = open[b]
  BY DEF SameBatch, Path
<1>2. None.kind # "link" /\ resolved[b] \in Names
  BY NoneIsEntry DEF TInv, TypeOK
<1>3. at[b] = "resolve" => Path(b) \in Names
  BY PathType DEF TInv, Placed
<1>4. MayWrite(open[b]) => MayWrite(open[b])'
  BY <1>1 DEF MayWrite, Moved
<1> QED
  BY <1>1, <1>2, <1>3, <1>4 DEF Leads, Moved

LEMMA LeadsNext ==
  ASSUME TInv, TInv', Tree, Tree', Moved, NEW b \in Batches, Leads(b), Batch(b)
  PROVE  Leads(b)'
<1> USE DEF Go, Fail
<1>0. TypeOK
  BY DEF TInv
<1>1. CASE Lstat(b)
  <2>1. CASE Accepted(entry[Path(b)])
    <3>1. at'[b] = "resolve" /\ Path(b)' = Path(b) /\ entry'[Path(b)].kind # "link"
      BY <1>0, <1>1, <2>1 DEF Lstat, Accepted, Path, TypeOK, disk
    <3> QED
      BY <3>1 DEF Leads, Busy
  <2>2. CASE ~Accepted(entry[Path(b)])
    <3>1. at'[b] = "next"
      BY <1>0, <1>1, <2>2 DEF Lstat, TypeOK
    <3> QED
      BY <3>1 DEF Leads, Busy
  <2> QED
    BY <2>1, <2>2
<1>2. CASE Resolve(b)
  <2> DEFINE n == Realpath(Path(b))
  <2>1. Path(b) \in Names /\ Path(b) \in Asked /\ entry[Path(b)] \in Entry
    BY <1>0, <1>2, PathType DEF Resolve, TInv, Placed, TypeOK
  <2>2. UNCHANGED <<entry, swapped>> /\ resolved'[b] = n /\ at[b] = "resolve"
    BY <1>0, <1>2 DEF Resolve, disk, others, TypeOK
  <2>3. CASE n \in Inside
    <3>1. at'[b] = "examine"
      BY <1>0, <1>2, <2>3 DEF Resolve, TypeOK
    <3>2. n \in Requested \cup swapped
      <4>1. CASE entry[Path(b)].kind = "link"
        BY <2>1, <2>2, <4>1 DEF Leads, Tree, Realpath
      <4>2. CASE entry[Path(b)].kind # "link"
        BY <2>1, <2>3, <4>2 DEF Realpath, Requested
      <4> QED
        BY <4>1, <4>2
    <3>3. entry[n].kind # "link"
      BY <2>1 DEF Realpath, Tree
    <3> QED
      BY <2>2, <3>1, <3>2, <3>3 DEF Leads
  <2>4. CASE n \notin Inside
    <3>1. at'[b] = "next"
      BY <1>0, <1>2, <2>4 DEF Resolve, TypeOK
    <3> QED
      BY <3>1 DEF Leads, Busy
  <2> QED
    BY <2>3, <2>4
<1>3. CASE Open(b)
  <2>1. Followed(resolved[b]).file \in Files
    BY <1>0, <1>3, FollowedType, EntryTypes DEF Open, TypeOK
  <2>2. PICK f \in Files : f = Followed(resolved[b]).file
    BY <2>1
  <2>3. at'[b] = "write" /\ open'[b] = f /\ at[b] \in Busy
        /\ UNCHANGED <<resolved, entry, swapped, lured>>
    BY <1>0, <1>3, <2>2 DEF Open, disk, others, place, TypeOK, Busy
  <2>4. MayWrite(f)
    BY <1>0, <1>3, <2>2, <2>3, Reaches DEF Open
  <2>5. MayWrite(open[b])'
    BY <2>3, <2>4 DEF MayWrite
  <2> QED
    BY <2>3, <2>5 DEF Leads
<1>4. CASE WriteBlock(b) \/ NextPass(b)
  <2>1. UNCHANGED <<at, open, resolved, entry, swapped, lured, item>>
    BY <1>4 DEF WriteBlock, NextPass, disk, others, place
  <2> QED
    BY <2>1 DEF Leads, MayWrite, Path
<1>5. CASE Examine(b) \/ EndPasses(b) \/ Truncate(b)
  <2>1. UNCHANGED <<resolved, entry, swapped>> /\ at[b] \in Busy
        /\ at'[b] \in {"next", "open", "truncate", "rename"}
    BY <1>0, <1>5 DEF Examine, EndPasses, Truncate, disk, others, place, TypeOK, Busy
  <2> QED
    BY <2>1 DEF Leads, Busy
<1>6. CASE Rename(b)
  <2>1. UNCHANGED <<resolved, swapped>> /\ at[b] \in Busy /\ at'[b] = "remove"
        /\ (entry'[resolved[b]] = entry[resolved[b]] \/ entry'[resolved[b]] = None)
    BY <1>0, <1>6 DEF Rename, others, place, TypeOK, Busy
  <2> QED
    BY <2>1, NoneIsEntry DEF Leads, Busy
<1>7. CASE Finish(b) \/ StopWriting(b) \/ Remove(b) \/ Raises(b)
  <2>1. at'[b] \in {"completed", "cancelled", "next"}
    BY <1>0, <1>7 DEF Finish, StopWriting, Remove, Raises, TypeOK
  <2> QED
    BY <2>1 DEF Leads, Busy
<1> QED
  BY <1>1, <1>2, <1>3, <1>4, <1>5, <1>6, <1>7 DEF Batch

ReachInv == TInv /\ Tree /\ \A b \in Batches : Leads(b)

LEMMA ReachNext == ReachInv /\ [Next]_vars => ReachInv' /\ Moved
<1> SUFFICES ASSUME ReachInv, [Next]_vars PROVE ReachInv' /\ Moved
  OBVIOUS
<1>1. TInv /\ TInv' /\ TypeOK
  BY TNext DEF ReachInv, TInv
<1>2. Tree /\ Tree' /\ Moved
  BY <1>1, TreeNext DEF ReachInv
<1>3. ASSUME NEW b \in Batches PROVE Leads(b)'
  <2>1. Leads(b)
    BY DEF ReachInv
  <2> QED
    BY <1>1, <1>2, <2>1, LeadsNext, LeadsStay, Elsewhere
<1> QED
  BY <1>1, <1>2, <1>3 DEF ReachInv

LEMMA ReachInit == Init => ReachInv
<1> SUFFICES ASSUME Init PROVE ReachInv
  OBVIOUS
<1>1. Placed
  BY DEF Init, Placed, Busy
<1> QED
  BY <1>1, TypesInit, TreeInit DEF ReachInv, TInv

LEMMA Reach == Spec => []ReachInv
  BY ReachInit, ReachNext, PTL DEF Spec

(* Type correctness, for any names, links, files and batches.              *)
THEOREM ShredTypes == Spec => []TypeOK
<1>1. ReachInv => TypeOK
  BY DEF ReachInv, TInv
<1> QED
  BY <1>1, Reach, PTL

(* A batch destroys only what was asked for, or what another program put   *)
(* in its place while the batch was between its checks and its calls       *)
(* (shredder.py:353-433).                                                  *)
THEOREM NothingElse == Spec => []OnlyRequested
<1>1. ASSUME ReachInv PROVE OnlyRequested
  <2>1. \A f \in written \ lured : \E n \in Requested : Entry0[n] = FileEntry(f)
    BY <1>1 DEF ReachInv, Tree, MayWrite
  <2>2. \A n \in Names \ swapped : entry[n] # Entry0[n] => n \in Requested
    BY <1>1 DEF ReachInv, Tree
  <2> QED
    BY <2>1, <2>2 DEF OnlyRequested, FileEntry
<1> QED
  BY <1>1, Reach, PTL

-----------------------------------------------------------------------------
(* What is shredded was overwritten.  While nobody changes the paths, the  *)
(* file a batch works on is the one its path led to from the beginning,    *)
(* and of what was stored there the first pass has left only what comes    *)
(* after its position.                                                     *)

Works == {"open", "write", "truncate", "rename", "remove"}
Alone == swapped \cap Asked = {} /\ \A b \in Batches : Passes[b] # 0
Wipes(b) ==
  /\ at[b] \in Busy => resolved[b] = Path(b)
  /\ at[b] \in Works => Entry0[Path(b)] = FileEntry(file[b])
  /\ at[b] = "write" => open[b] = file[b]
  /\ held[b] # None => at[b] = "remove" /\ held[b] = FileEntry(file[b])
  /\ at[b] \in Works /\ file[b] \notin grown =>
       /\ stored[file[b]] \subseteq 1..size[b]
       /\ at[b] = "write" => \A i \in stored[file[b]] : pass[b] = 1 /\ i > position[b]
       /\ at[b] \in {"truncate", "rename", "remove"} => stored[file[b]] = {}
  /\ \A f \in shredded[b] \ grown : stored[f] = {}
Freed == leaked \subseteq grown

LEMMA AloneBefore == ASSUME Moved, Alone' PROVE Alone
  BY DEF Moved, Alone

LEMMA WipesStay ==
  ASSUME TInv, TInv', Moved, NEW b \in Batches, Wipes(b), SameBatch(b)
  PROVE  Wipes(b)'
<1>1. Path(b)' = Path(b) /\ file[b] \in Files /\ shredded[b] \subseteq Files
  BY DEF SameBatch, Path, TInv, TypeOK
<1>2. \A f \in Files : f \notin grown' => f \notin grown /\ stored'[f] \subseteq stored[f]
  BY DEF Moved
<1>3. /\ (at[b] \in Busy => resolved[b] = Path(b))'
      /\ (at[b] \in Works => Entry0[Path(b)] = FileEntry(file[b]))'
      /\ (at[b] = "write" => open[b] = file[b])'
      /\ (held[b] # None => at[b] = "remove" /\ held[b] = FileEntry(file[b]))'
  BY <1>1 DEF Wipes, SameBatch, FileEntry, None
<1>4. (at[b] \in Works /\ file[b] \notin grown =>
        /\ stored[file[b]] \subseteq 1..size[b]
        /\ at[b] = "write" => \A i \in stored[file[b]] : pass[b] = 1 /\ i > position[b]
        /\ at[b] \in {"truncate", "rename", "remove"} => stored[file[b]] = {})'
  BY <1>1, <1>2 DEF Wipes, SameBatch
<1>5. (\A f \in shredded[b] \ grown : stored[f] = {})'
  BY <1>1, <1>2 DEF Wipes, SameBatch
<1> QED
  BY <1>3, <1>4, <1>5 DEF Wipes

\* The path still leads to the batch's own file, or nowhere.
LEMMA OwnFile ==
  ASSUME ReachInv, Alone, NEW b \in Batches, Wipes(b), at[b] \in Works
  PROVE  /\ resolved[b] = Path(b) /\ file[b] \in Files
         /\ entry[Path(b)] = None \/ entry[Path(b)] = FileEntry(file[b])
         /\ Followed(resolved[b]) = entry[Path(b)]
<1>1. TypeOK /\ Tree /\ at[b] \in Busy
  BY DEF ReachInv, TInv, Works, Busy
<1>2. Path(b) \in Names /\ Path(b) \in Asked
  BY <1>1, PathType DEF ReachInv, TInv, Placed
<1>3. Path(b) \notin swapped
  BY <1>2 DEF Alone
<1>4. resolved[b] = Path(b) /\ Entry0[Path(b)] = FileEntry(file[b])
  BY <1>1 DEF Wipes
<1>5. entry[Path(b)] = None \/ entry[Path(b)] = FileEntry(file[b])
  BY <1>1, <1>2, <1>3, <1>4 DEF Tree
<1>6. entry[Path(b)].kind # "link"
  BY <1>5, NoneIsEntry DEF FileEntry
<1> QED
  BY <1>1, <1>4, <1>5, <1>6 DEF Followed, TypeOK

LEMMA FreedNext ==
  ASSUME ReachInv, [Next]_vars, Moved, Alone, Freed, \A b \in Batches : Wipes(b)
  PROVE  Freed'
<1> USE DEF Freed
<1>1. TypeOK
  BY DEF ReachInv, TInv
<1>2. ASSUME NEW b \in Batches, Truncate(b) PROVE Freed'
  <2>1. Followed(resolved[b]) = FileEntry(file[b])
    BY <1>2, OwnFile, NoneIsEntry DEF Truncate, Works
  <2>2. file[b] \notin grown => stored[file[b]] = {}
    BY <1>2 DEF Truncate, Wipes, Works
  <2>3. leaked' = IF stored[file[b]] = {} THEN leaked ELSE leaked \cup {file[b]}
    BY <1>2, <2>1 DEF Truncate, FileEntry
  <2> QED
    BY <2>2, <2>3 DEF Moved
<1>3. ASSUME NEW b \in Batches, Remove(b) PROVE Freed'
  <2> DEFINE e == IF held[b] = None THEN entry[resolved[b]] ELSE held[b]
  <2>1. at[b] = "remove" /\ e # None
    BY <1>3, NoneIsEntry DEF Remove
  <2>2. e = FileEntry(file[b])
    BY <2>1, OwnFile DEF Works, Wipes
  <2>3. file[b] \notin grown => stored[file[b]] = {}
    BY <2>1 DEF Wipes, Works
  <2>4. leaked' = leaked \/ (leaked' = leaked \cup {e.file} /\ stored[e.file] # {})
    BY <1>3 DEF Remove
  <2> HIDE DEF e
  <2> QED
    BY <2>2, <2>3, <2>4 DEF Moved, FileEntry
<1>4. ASSUME NEW b \in Batches, Batch(b), ~(Truncate(b) \/ Remove(b)) PROVE leaked' = leaked
  BY <1>4 DEF Batch, Lstat, Finish, Resolve, Examine, Open, StopWriting, WriteBlock, NextPass,
              EndPasses, Rename, Raises, disk
<1>5. ASSUME (\E b \in Batches : Cancel(b)) \/ (\E n \in Names : Swap(n)) \/ (\E f \in Files : Grow(f))
             \/ UNCHANGED vars
      PROVE  leaked' = leaked
  BY <1>5 DEF Cancel, Swap, Grow, vars, disk
<1>6. leaked' = leaked \/ (\E b \in Batches : Truncate(b) \/ Remove(b))
  BY <1>4, <1>5, ShredAssumption DEF Next
<1> QED
  BY <1>2, <1>3, <1>6 DEF Moved

\* A step after which the batch is at no file.
LEMMA Leaves ==
  ASSUME TypeOK, Moved, NEW b \in Batches, Wipes(b), at'[b] \notin Busy, held'[b] = None,
         shredded'[b] = shredded[b]
  PROVE  Wipes(b)'
<1>1. \A f \in Files : f \notin grown' => f \notin grown /\ stored'[f] \subseteq stored[f]
  BY DEF Moved
<1>2. shredded[b] \subseteq Files
  BY DEF TypeOK
<1>3. (\A f \in shredded[b] \ grown : stored[f] = {})'
  BY <1>1, <1>2 DEF Wipes
<1>4. at'[b] \notin Works /\ at'[b] # "write"
  BY DEF Works, Busy
<1> QED
  BY <1>3, <1>4 DEF Wipes, None

LEMMA WipesNext ==
  ASSUME ReachInv, ReachInv', Moved, Alone, NEW b \in Batches, Wipes(b), Batch(b)
  PROVE  Wipes(b)'
<1> USE DEF Go, Fail
<1>0. TypeOK /\ Tree /\ Leads(b) /\ TypeOK'
  BY DEF ReachInv, TInv
<1>1. held[b] # None => at[b] = "remove"
  BY DEF Wipes
<1>2. CASE Finish(b) \/ StopWriting(b) \/ Lstat(b) \/ Raises(b)
  <2>1. at'[b] \notin Busy /\ held'[b] = None /\ shredded'[b] = shredded[b]
    <3>1. CASE Finish(b) \/ StopWriting(b)
      BY <1>0, <1>1, <3>1 DEF Finish, StopWriting, Busy, TypeOK, work
    <3>2. CASE Lstat(b)
      BY <1>0, <1>1, <3>2 DEF Lstat, Busy, TypeOK
    <3>3. CASE Raises(b)
      BY <1>0, <3>3 DEF Raises, Busy, TypeOK
    <3> QED
      BY <1>2, <3>1, <3>2, <3>3
  <2> QED
    BY <1>0, <2>1, Leaves
<1>3. CASE Resolve(b)
  <2>1. Path(b) \in Names /\ Path(b) \in Asked
    BY <1>0, <1>3, PathType DEF Resolve, ReachInv, TInv, Placed
  <2>2. entry[Path(b)].kind # "link"
    BY <1>3, <1>0, <2>1 DEF Alone, Resolve, Leads
  <2>3. UNCHANGED <<stored, grown, shredded, file>> /\ resolved'[b] = Path(b) /\ at[b] = "resolve"
    BY <1>0, <1>3, <2>2 DEF Resolve, Realpath, disk, others, TypeOK
  <2>4. held'[b] = None /\ (at'[b] = "next" \/ (at'[b] = "examine" /\ item'[b] = item[b]))
    BY <1>0, <1>1, <1>3 DEF Resolve, TypeOK
  <2>5. CASE at'[b] = "next"
    BY <1>0, <2>3, <2>4, <2>5, Leaves DEF Busy
  <2>6. CASE at'[b] = "examine" /\ item'[b] = item[b]
    <3>1. Path(b)' = Path(b)
      BY <2>6 DEF Path
    <3> QED
      BY <2>3, <2>4, <2>6, <3>1 DEF Wipes, Works, None
  <2> QED
    BY <2>4, <2>5, <2>6
<1>4. CASE Examine(b)
  <2> DEFINE e == entry[resolved[b]]
  <2>1. at[b] = "examine" /\ resolved[b] = Path(b) /\ e \in Entry
    BY <1>0, <1>4 DEF Examine, Wipes, Busy, TypeOK
  <2>2. UNCHANGED <<stored, grown, shredded, resolved, entry, length>>
    BY <1>4 DEF Examine, disk, others
  <2>3. CASE e.kind # "file"
    <3>1. at'[b] = "next" /\ held'[b] = None
      BY <1>0, <1>4, <2>3 DEF Examine, TypeOK
    <3> QED
      BY <1>0, <2>2, <3>1, Leaves DEF Busy
  <2>4. CASE e.kind = "file"
    <3>1. Path(b) \in Names /\ Path(b) \in Asked
      BY <1>0, <2>1, PathType DEF ReachInv, TInv, Placed, Busy
    <3>2. Path(b) \notin swapped /\ e # None
      BY <2>4, <3>1, NoneIsEntry DEF Alone
    <3>3. e = Entry0[Path(b)] /\ e = FileEntry(e.file) /\ e.file \in Files
      BY <1>0, <2>1, <2>4, <3>1, <3>2, EntryTypes DEF Tree, FileEntry
    <3>4. /\ file'[b] = e.file /\ size'[b] = length[e.file]
          /\ at'[b] = IF length[e.file] = 0 THEN "truncate" ELSE "open"
          /\ held'[b] = None /\ item'[b] = item[b]
      BY <1>0, <1>1, <1>4, <2>1, <2>4 DEF Examine, TypeOK
    <3>5. stored[e.file] \subseteq 1..length[e.file]
      BY <1>0, <3>3 DEF Tree
    <3>6. length[e.file] = 0 => stored[e.file] = {}
      BY <3>5
    <3>7. Path(b)' = Path(b)
      BY <3>4 DEF Path
    <3> HIDE DEF e
    <3>8. at'[b] # "write" /\ (at'[b] # "open" => length[e.file] = 0)
      BY <3>4
    <3> QED
      BY <2>1, <2>2, <3>3, <3>4, <3>5, <3>6, <3>7, <3>8 DEF Wipes, None
  <2> QED
    BY <2>3, <2>4
<1>5. CASE Open(b)
  <2>1. /\ at[b] = "open" /\ at'[b] = "write" /\ pass'[b] = 1 /\ position'[b] = 0
        /\ UNCHANGED <<stored, grown, shredded, resolved, file, size, held, item>>
        /\ open'[b] = Followed(resolved[b]).file
        /\ Followed(resolved[b]).kind = "file"
    BY <1>0, <1>5 DEF Open, disk, others, place, TypeOK
  <2>2. open'[b] = file[b]
    <3>1. /\ entry[Path(b)] = None \/ entry[Path(b)] = FileEntry(file[b])
          /\ Followed(resolved[b]) = entry[Path(b)]
      BY <1>1, <2>1, OwnFile DEF Works
    <3>2. Followed(resolved[b]) = FileEntry(file[b])
      BY <2>1, <3>1 DEF None
    <3> QED
      BY <2>1, <3>2 DEF FileEntry
  <2>3. Path(b)' = Path(b)
    BY <2>1 DEF Path
  <2>4. file[b] \notin grown => \A i \in stored[file[b]] : i > 0
    BY <2>1 DEF Wipes, Works
  <2> QED
    BY <1>1, <2>1, <2>2, <2>3, <2>4 DEF Wipes, Works, Busy, None, FileEntry
<1>6. CASE WriteBlock(b)
  <2> DEFINE p == position[b] + 1
  <2>1. /\ at[b] = "write" /\ open[b] = file[b] /\ file[b] \in Files
    BY <1>0, <1>6 DEF WriteBlock, Wipes, TypeOK
  <2>2. /\ UNCHANGED <<at, grown, shredded, resolved, file, size, held, item, open, pass>>
        /\ position'[b] = p
        /\ stored' = [stored EXCEPT ![file[b]] = @ \ {p}]
    BY <1>0, <1>6, <2>1 DEF WriteBlock, others, place, TypeOK
  <2>3. /\ stored'[file[b]] = stored[file[b]] \ {p}
        /\ \A f \in Files : stored'[f] \subseteq stored[f]
    <3> HIDE DEF p
    <3> QED
      BY <1>0, <2>1, <2>2 DEF TypeOK
  <2>4. Path(b)' = Path(b)
    BY <2>2 DEF Path
  <2>5. file[b] \notin grown => \A i \in stored'[file[b]] : pass[b] = 1 /\ i > p
    <3>1. position[b] \in Nat /\ stored[file[b]] \subseteq Nat
      BY <1>0, <2>1 DEF TypeOK
    <3>2. file[b] \notin grown => \A i \in stored[file[b]] : pass[b] = 1 /\ i > position[b]
      BY <2>1 DEF Wipes, Works
    <3>3. \A i \in stored'[file[b]] : i \in Nat /\ i \in stored[file[b]] /\ i # p
      BY <2>3, <3>1
    <3> QED
      BY <3>1, <3>2, <3>3
  <2>6. \A f \in shredded[b] \ grown : stored'[f] = {}
    BY <1>0, <2>3 DEF Wipes, TypeOK
  <2>7. file[b] \notin grown => stored'[file[b]] \subseteq 1..size[b]
    BY <2>1, <2>3 DEF Wipes, Works
  <2> HIDE DEF p
  <2> QED
    BY <1>1, <2>1, <2>2, <2>4, <2>5, <2>6, <2>7 DEF Wipes, Works, Busy, None, FileEntry
<1>7. CASE NextPass(b) \/ EndPasses(b)
  <2>1. /\ at[b] = "write" /\ at'[b] \in {"write", "truncate"}
        /\ UNCHANGED <<stored, grown, shredded, resolved, file, size, held, item, open>>
    BY <1>0, <1>7 DEF NextPass, EndPasses, disk, others, place, work, TypeOK
  <2>2. file[b] \notin grown => stored[file[b]] = {}
    <3>1. file[b] \notin grown => /\ stored[file[b]] \subseteq 1..size[b]
                                  /\ \A i \in stored[file[b]] : pass[b] = 1 /\ i > position[b]
      BY <2>1 DEF Wipes, Works
    <3>2. size[b] \in Nat /\ position[b] \in Nat /\ pass[b] \in Nat \ {0} /\ Passes[b] \in Nat \ {0}
      BY <1>0, ShredAssumption DEF TypeOK, Alone
    <3>3. CASE NextPass(b)
      BY <3>1, <3>2, <3>3 DEF NextPass, Overwritten
    <3>4. CASE EndPasses(b)
      BY <3>1, <3>2, <3>4 DEF EndPasses
    <3> QED
      BY <1>7, <3>3, <3>4
  <2>3. Path(b)' = Path(b)
    BY <2>1 DEF Path
  <2> QED
    BY <1>1, <2>1, <2>2, <2>3 DEF Wipes, Works, Busy, None, FileEntry
<1>8. CASE Truncate(b) \/ Rename(b)
  <2>1. /\ at[b] \in {"truncate", "rename"} /\ at'[b] \in {"rename", "remove"}
        /\ at[b] = "truncate" => at'[b] = "rename" /\ held'[b] = held[b]
        /\ at[b] = "rename" => at'[b] = "remove"
        /\ UNCHANGED <<grown, shredded, resolved, file, size, item>>
    BY <1>0, <1>8 DEF Truncate, Rename, others, place, work, TypeOK
  <2>2. at[b] \in Works /\ file[b] \in Files
    BY <1>0, <2>1 DEF Works, TypeOK
  <2>3. held'[b] # None => at'[b] = "remove" /\ held'[b] = FileEntry(file[b])
    <3>1. CASE at[b] = "truncate"
      BY <1>1, <2>1, <3>1
    <3>2. CASE at[b] = "rename"
      <4>1. held'[b] = held[b] \/ held'[b] = entry[resolved[b]]
        BY <1>0, <1>8, <3>2 DEF Truncate, Rename, TypeOK
      <4>2. entry[resolved[b]] = None \/ entry[resolved[b]] = FileEntry(file[b])
        BY <2>2, OwnFile
      <4> QED
        BY <1>1, <2>1, <3>2, <4>1, <4>2
    <3> QED
      BY <2>1, <3>1, <3>2
  <2>4. \A f \in Files : f \notin grown => stored'[f] \subseteq stored[f]
    BY <2>1 DEF Moved
  <2>5. file[b] \notin grown => stored'[file[b]] = {}
    BY <2>1, <2>2, <2>4 DEF Wipes
  <2>6. \A f \in shredded[b] \ grown : stored'[f] = {}
    BY <1>0, <2>4 DEF Wipes, TypeOK
  <2>7. Path(b)' = Path(b)
    BY <2>1 DEF Path
  <2> QED
    BY <2>1, <2>2, <2>3, <2>5, <2>6, <2>7 DEF Wipes, Works, Busy, None, FileEntry
<1>9. CASE Remove(b)
  <2>1. /\ at[b] = "remove" /\ at'[b] = "next" /\ held'[b] = None
        /\ UNCHANGED <<stored, grown>> /\ shredded'[b] = shredded[b] \cup {file[b]}
    BY <1>0, <1>9 DEF Remove, others, TypeOK
  <2>2. file[b] \notin grown => stored[file[b]] = {}
    BY <2>1 DEF Wipes, Works
  <2>3. (\A f \in shredded[b] \ grown : stored[f] = {})'
    BY <2>1, <2>2 DEF Wipes
  <2> QED
    BY <2>1, <2>3 DEF Wipes, Works, Busy, None
<1> QED
  BY <1>2, <1>3, <1>4, <1>5, <1>6, <1>7, <1>8, <1>9 DEF Batch

ShredInv == ReachInv /\ (Alone => Freed /\ \A b \in Batches : Wipes(b))

LEMMA ShredInit == Init => ShredInv
<1> SUFFICES ASSUME Init PROVE ShredInv
  OBVIOUS
<1>1. Freed
  BY DEF Init, Freed
<1>2. \A b \in Batches : /\ at[b] \in {"next", "refused"} /\ held[b] = None /\ shredded[b] = {}
  BY DEF Init
<1>3. \A b \in Batches : Wipes(b)
  BY <1>2 DEF Wipes, Works, Busy
<1> QED
  BY <1>1, <1>3, ReachInit DEF ShredInv

LEMMA ShredNext == ShredInv /\ [Next]_vars => ShredInv'
<1> SUFFICES ASSUME ShredInv, [Next]_vars PROVE ShredInv'
  OBVIOUS
<1>1. ReachInv /\ ReachInv' /\ Moved
  BY ReachNext DEF ShredInv
<1>2. TypeOK /\ TInv /\ TInv'
  BY <1>1 DEF ReachInv, TInv
<1> SUFFICES ASSUME Alone' PROVE Freed' /\ \A b \in Batches : Wipes(b)'
  BY <1>1 DEF ShredInv
<1>3. Alone /\ Freed /\ \A b \in Batches : Wipes(b)
  BY <1>1, AloneBefore DEF ShredInv
<1>4. Freed'
  BY <1>1, <1>3, FreedNext
<1>5. ASSUME NEW b \in Batches PROVE Wipes(b)'
  BY <1>1, <1>2, <1>3, WipesNext, WipesStay, Elsewhere
<1> QED
  BY <1>4, <1>5

(* A file that is reported as shredded holds nothing of what was stored in *)
(* it, and no block of it was given back to the file system before it was  *)
(* overwritten (shredder.py:405-439).                                      *)
THEOREM ShredTrue == Spec => []ShredIsTrue
<1>1. Spec => []ShredInv
  BY ShredInit, ShredNext, PTL DEF Spec
<1>2. ShredInv => ShredIsTrue
  BY DEF ShredInv, Alone, Freed, Wipes, ShredIsTrue
<1> QED
  BY <1>1, <1>2, PTL
===============================================================================
