----------------------------- MODULE WipeRunProofs -----------------------------
(***************************************************************************)
(* Proofs about module WipeRun: what a run says of its wipe is true, and a *)
(* zeroed device raises no false alarm, for any number of runs on the      *)
(* device, any algorithms and sizes, and whatever the host writes.         *)
(***************************************************************************)
EXTENDS WipeRun, TLAPS

LEMMA FunctionIsSequence ==
  ASSUME NEW S, NEW n \in Nat, NEW f \in [1..n -> S] PROVE f \in Seq(S)
  OBVIOUS

LEMMA TimesType == ASSUME NEW n \in Int, NEW x \in Fills PROVE Times(n, x) \in Seq(Fills)
<1> DEFINE k == IF n < 0 THEN 0 ELSE n
<1>1. k \in Nat /\ 1..n = 1..k
  OBVIOUS
<1>2. Times(n, x) \in [1..k -> Fills]
  BY <1>1 DEF Times
<1> QED
  BY <1>1, <1>2

LEMMA NumberedType == ASSUME NEW s \in Seq(Fills) PROVE Numbered(s) \in Seq(WipePass)
<1>1. Len(s) \in Nat /\ \A i \in 1..Len(s) : s[i] \in Fills
  OBVIOUS
<1>2. Numbered(s) \in [1..Len(s) -> WipePass]
  BY <1>1 DEF Numbered, WipePass
<1> QED
  BY <1>1, <1>2

LEMMA PurgeType == Purge \in Seq(Fills)
  BY DEF Purge, Fills

\* create_algorithm returns a list of passes for every request.
LEMMA CreateType ==
  ASSUME NEW type \in AlgorithmType, NEW p \in {Nobody} \cup [{1} -> Int],
         ~CreateRaises(type, p), NEW layers \in Int, NEW overwrite
  PROVE  CreateAlgorithm(type, p, layers, overwrite) \in Seq(WipePass)
<1>1. \A n \in Int : Numbered(Times(n, "random")) \in Seq(WipePass)
  BY TimesType, NumberedType DEF Fills
<1>2. OverwritePasses(overwrite) \in Seq(Fills)
  <2>1. Times(3, "random") \in Seq(Fills) /\ <<"zeros">> \in Seq(Fills)
    BY TimesType DEF Fills
  <2> QED
    BY <2>1, PurgeType DEF OverwritePasses
<1>3. CustomizeRea(DefaultLayers(layers), overwrite) \in Seq(WipePass)
  <2>1. Layers(DefaultLayers(layers)) \in Int
    BY DEF Layers, DefaultLayers
  <2>2. Times(Layers(DefaultLayers(layers)), "random") \in Seq(Fills)
    BY <2>1, TimesType DEF Fills
  <2>3. Times(Layers(DefaultLayers(layers)), "random") \o OverwritePasses(overwrite) \in Seq(Fills)
    BY <1>2, <2>2
  <2> QED
    BY <2>3, NumberedType DEF CustomizeRea
<1>4. Gutmann \in Seq(WipePass)
  <2> DEFINE fills == [i \in 1..35 |->
               IF i <= 4 \/ i >= 32 THEN "random"
               ELSE IF i = 10 THEN "zeros" ELSE IF i = 25 THEN "ones" ELSE "fixed"]
  <2>1. fills \in [1..35 -> Fills]
    BY DEF Fills
  <2>2. fills \in Seq(Fills)
    BY <2>1
  <2> HIDE DEF fills
  <2>3. Numbered(fills) \in Seq(WipePass)
    BY <2>2, NumberedType
  <2> QED
    BY <2>3 DEF Gutmann, fills
<1>5. ReaExtreme \in Seq(WipePass)
  <2>1. ReaExtreme \in [1..31 -> WipePass]
    BY DEF ReaExtreme, WipePass, Fills
  <2> QED
    BY <2>1, FunctionIsSequence
<1>6. SetupPasses(type) \in Seq(WipePass)
  <2>1. /\ <<"zeros">> \in Seq(Fills) /\ <<"random">> \in Seq(Fills)
        /\ <<"zeros", "random">> \in Seq(Fills) /\ <<"random", "zeros">> \in Seq(Fills)
        /\ <<"random", "random", "zeros">> \in Seq(Fills)
        /\ Times(3, "random") \in Seq(Fills) /\ Times(5, "random") \in Seq(Fills)
    BY TimesType DEF Fills
  <2>2. Purge \o Purge \o <<"random">> \in Seq(Fills)
    BY <2>1, PurgeType
  <2>3. Times(3, "random") \o <<"zeros", "random">> \in Seq(Fills)
    BY <2>1
  <2>4. Times(5, "random") \o Purge \in Seq(Fills)
    BY <2>1, PurgeType
  <2>5. <<>> \in Seq(WipePass)
    OBVIOUS
  <2> QED
    BY <1>4, <1>5, <2>1, <2>2, <2>3, <2>4, <2>5, PurgeType, NumberedType DEF SetupPasses, AlgorithmType
<1>7. CASE type = "random"
  <2>1. p[1] \in Int
    BY <1>7 DEF CreateRaises, Nobody
  <2>2. Numbered(Times(p[1], "random")) \in Seq(WipePass)
    BY <1>1, <2>1
  <2>3. SetupPasses("random") \in Seq(WipePass)
    BY <1>6, <1>7
  <2> QED
    BY <1>7, <2>2, <2>3 DEF CreateAlgorithm
<1>8. CASE type # "random"
  BY <1>3, <1>6, <1>8 DEF CreateAlgorithm
<1> QED
  BY <1>7, <1>8

-----------------------------------------------------------------------------
(* The verifier reads blocks of the device, and takes at least one sample. *)

LEMMA SamplesAreBlocks ==
  ASSUME NEW n \in Nat, NEW i \in Nat, NEW start \in Starts(n, i)
  PROVE  start \in Nat /\ BlocksAt(start, n) \subseteq 1..n
<1> USE VerificationAssumption
<1>1. LastStart(n) \in Nat
  BY DEF LastStart, Most
<1> DEFINE half == SampleCount(n) \div 2
           step == n \div half
<1>2. SampleCount(n) \in Nat \ {0}
  BY DEF SampleCount, Most, Least
<1>3. half \in Nat
  BY <1>2
<1>4. start \in Nat
  <2>1. CASE i % 2 = 0 \/ half = 0
    BY <1>1, <2>1 DEF Starts
  <2>2. CASE ~(i % 2 = 0 \/ half = 0)
    <3>1. half \in Nat \ {0}
      BY <1>3, <2>2
    <3> HIDE DEF half
    <3>2. step \in Nat /\ i \div 2 \in Nat
      BY <3>1
    <3> HIDE DEF step
    <3>3. (i \div 2) * step \in Nat
      BY <3>2
    <3>4. start = Least((i \div 2) * step, LastStart(n))
      BY <2>2 DEF Starts, step, half
    <3> QED
      BY <1>1, <3>3, <3>4 DEF Least
  <2> QED
    BY <2>1, <2>2
<1> QED
  BY <1>4 DEF BlocksAt, Least

LEMMA SampleCountType == ASSUME NEW n \in Nat PROVE SampleCount(n) \in Nat \ {0}
  BY VerificationAssumption DEF SampleCount, Most, Least

\* Zeros, and nothing at all, are neither data nor a file.
LEMMA ZerosAreClean ==
  ASSUME NEW held, held \subseteq {"zeros"}
  PROVE  ContainsRecoverableData(held) = {FALSE} /\ CheckFileSignatures(held) = {FALSE}
<1>1. held \cap {"data", "random"} = {}
  OBVIOUS
<1>2. \E fill \in {"zeros", "ones", "random"} : held \subseteq {fill}
  OBVIOUS
<1>3. held # {"fixed"}
  OBVIOUS
<1> QED
  BY <1>1, <1>2, <1>3 DEF ContainsRecoverableData, CheckFileSignatures
-----------------------------------------------------------------------------
(* The state stays well-typed.                                             *)

TInv == TypeOK /\ request \in [Runs -> Request]

LEMMA PassType ==
  ASSUME TInv, NEW r \in Runs, index[r] <= Len(passes[r])
  PROVE  Pass(r) \in WipePass /\ Pass(r).fill \in Contents /\ Pass(r).number \in Nat
<1>1. passes[r] \in Seq(WipePass) /\ index[r] \in 1..Len(passes[r])
  BY DEF TInv, TypeOK
<1>2. Pass(r) \in WipePass
  BY <1>1 DEF Pass
<1> QED
  BY <1>2 DEF WipePass, Fills, Contents

LEMMA SizeType ==
  ASSUME TInv, NEW r \in Runs
  PROVE  /\ size[r] \in Nat /\ size[r] <= Size /\ 1..size[r] \subseteq Blocks
         /\ shown[r] \in Int /\ position[r] \in Nat /\ index[r] \in Nat \ {0}
         /\ passes[r] \in Seq(WipePass) /\ Len(passes[r]) \in Nat
<1>1. Size \in Nat \ {0}
  BY RunAssumption
<1>2. size[r] \in {0, Size} /\ shown[r] \in Int /\ position[r] \in 0..Size /\ index[r] \in Nat \ {0}
  BY DEF TInv, TypeOK
<1>3. passes[r] \in Seq(WipePass)
  BY DEF TInv, TypeOK
<1> QED
  BY <1>1, <1>2, <1>3 DEF Blocks

LEMMA TInit == Init => TInv
<1> SUFFICES ASSUME Init PROVE TInv
  OBVIOUS
<1>1. <<>> \in Seq(WipePass)
  OBVIOUS
<1>2. request \in [Runs -> Request]
  BY RunAssumption DEF Init
<1>3. device \in [Blocks -> [holds : Contents, by : Runs \cup {Host}]]
  BY DEF Init, Contents
<1>4. /\ capacity \in [Runs -> {0, Size}] /\ size \in [Runs -> {0, Size}]
      /\ position \in [Runs -> 0..Size]
  BY RunAssumption DEF Init
<1>5. /\ wrote \in [Runs -> [Blocks -> Nat]] /\ stage \in [Runs -> Stages]
      /\ passes \in [Runs -> Seq(WipePass)]
  BY <1>1 DEF Init, Stages
<1>6. /\ dry \in [Runs -> BOOLEAN] /\ index \in [Runs -> Nat \ {0}] /\ bytes \in [Runs -> Nat]
      /\ shown \in [Runs -> Int] /\ taken \in [Runs -> Nat] /\ detections \in [Runs -> Nat]
  BY DEF Init
<1>7. /\ signatures \in [Runs -> BOOLEAN] /\ success \in [Runs -> BOOLEAN]
      /\ cert \in [Runs -> BOOLEAN] /\ mounted \in BOOLEAN
  BY DEF Init
<1>8. /\ verdict \in [Runs -> {"none", "passed", "failed", "unreadable"}]
      /\ status \in [Runs -> {-1, 0, 1, Killed}]
  BY DEF Init
<1> QED
  BY <1>2, <1>3, <1>4, <1>5, <1>6, <1>7, <1>8 DEF TInv, TypeOK

LEMMA DisplayType ==
  ASSUME TInv, NEW r \in Runs, NEW b \in 1..size[r], index[r] <= Len(passes[r]), Display(r, b),
         Pass(r).number \in Nat
  PROVE  shown' \in [Runs -> Int]
<1>1. size[r] \in Nat /\ Size \in Nat \ {0} /\ shown[r] \in Int /\ b \in Nat
  BY SizeType, RunAssumption
<1>0. shown \in [Runs -> Int] /\ capacity[r] \in {0, Size} /\ size[r] \in {0, Size}
  BY DEF TInv, TypeOK
<1>2. CASE Caller(r) = "session"
  <2> DEFINE n == (Pass(r).number - 1) * size[r] + b
  <2>1. n \in Int
    BY <1>1
  <2>2. shown' = [shown EXCEPT ![r] = n]
    BY <1>2 DEF Display, CallbackRaises
  <2> HIDE DEF n
  <2> QED
    BY <1>0, <2>1, <2>2
<1>3. CASE Caller(r) # "session" /\ CallbackRaises(r)
  BY <1>0, <1>3 DEF Display
<1>4. CASE Caller(r) # "session" /\ ~CallbackRaises(r)
  <2>1. capacity[r] = Size /\ size[r] = Size /\ Size \in Nat \ {0}
    BY <1>0, <1>1, <1>4 DEF CallbackRaises
  <2>2. (b * Size) \div Size \in Int /\ shown[r] % Size \in Int
    BY <1>1, <2>1
  <2>3. Advance(r, b) \in Int
    BY <2>1, <2>2 DEF Advance
  <2>4. shown' = [shown EXCEPT ![r] = @ + Most(0, Advance(r, b))]
    BY <1>4 DEF Display
  <2> QED
    BY <1>0, <1>1, <2>3, <2>4 DEF Most
<1> QED
  BY <1>2, <1>3, <1>4
LEMMA TNext == ASSUME TInv, [Next]_vars PROVE TInv'
<1> USE DEF TInv, TypeOK, Stages, plan, wipe, check, ended
<1>1. ASSUME NEW r \in Runs, NoDevice(r) PROVE TInv'
  BY <1>1 DEF NoDevice, Exit, Fail, Go
<1>2. ASSUME NEW r \in Runs, Find(r) PROVE TInv'
  <2>1. stage' \in [Runs -> Stages]
    <3>1. stage' = [stage EXCEPT ![r] = "create"] \/ stage' = [stage EXCEPT ![r] = "ask"]
      BY <1>2 DEF Find, Go
    <3> QED
      BY <3>1
  <2>2. capacity' \in [Runs -> {0, Size}]
    BY <1>2 DEF Find, Go
  <2> QED
    BY <1>2, <2>1, <2>2 DEF Find
<1>3. ASSUME NEW r \in Runs, Refuse(r) PROVE TInv'
  BY <1>3 DEF Refuse, Exit, Fail, Go
<1>4. ASSUME NEW r \in Runs, Agree(r) PROVE TInv'
  BY <1>4 DEF Agree, Exit, Fail, Go
<1>5. ASSUME NEW r \in Runs, Measure(r) PROVE TInv'
  BY <1>5 DEF Measure, Exit, Fail, Go
<1>6. ASSUME NEW r \in Runs, ValidateRaises(r) PROVE TInv'
  BY <1>6 DEF ValidateRaises, Exit, Fail, Go
<1>7. ASSUME NEW r \in Runs, Validate(r) PROVE TInv'
  BY <1>7 DEF Validate, Exit, Fail, Go
<1>8. ASSUME NEW r \in Runs, WriteFails(r) PROVE TInv'
  BY <1>8 DEF WriteFails, Exit, Fail, Go
<1>9. ASSUME NEW r \in Runs, EndPasses(r) PROVE TInv'
  BY <1>9 DEF EndPasses, Exit, Fail, Go
<1>10. ASSUME NEW r \in Runs, TakeSample(r) PROVE TInv'
  BY SMTT(40), <1>10 DEF TakeSample, Exit, Fail, Go
<1>11. ASSUME NEW r \in Runs, CannotSample(r) PROVE TInv'
  BY <1>11 DEF CannotSample, Exit, Fail, Go
<1>12. ASSUME NEW r \in Runs, Judge(r) PROVE TInv'
  BY <1>12 DEF Judge, Exit, Fail, Go
<1>13. ASSUME NEW r \in Runs, Report(r) PROVE TInv'
  BY <1>13 DEF Report, Exit, Fail, Go
<1>14. ASSUME NEW r \in Runs, Kill(r) PROVE TInv'
  BY <1>14 DEF Kill, Exit, Fail, Go
<1>15. ASSUME NEW r \in Runs, Create(r) PROVE TInv'
  <2> DEFINE new == CreateAlgorithm(request[r].type, PassesArgument(r), request[r].layers, request[r].overwrite)
  <2>1. CASE CreateRaises(request[r].type, PassesArgument(r))
    BY <1>15, <2>1 DEF Create, Exit, Fail, Go
  <2>2. CASE ~CreateRaises(request[r].type, PassesArgument(r))
    <3>1. request[r] \in Request
      OBVIOUS
    <3>2. PassesArgument(r) \in {Nobody} \cup [{1} -> Int]
      BY <3>1 DEF PassesArgument, Request
    <3>3. new \in Seq(WipePass)
      BY <2>2, <3>1, <3>2, CreateType DEF Request
    <3> HIDE DEF new
    <3>4. passes' = [passes EXCEPT ![r] = new]
      BY <1>15, <2>2 DEF Create, new
    <3> QED
      BY <1>15, <2>2, <3>3, <3>4 DEF Create, Go
  <2> QED
    BY <2>1, <2>2
<1>16. ASSUME NEW r \in Runs, WriteBlock(r) PROVE TInv'
  <2> DEFINE b == position[r] + 1
             new == [holds |-> Pass(r).fill, by |-> r]
  <2>0. ~(position[r] >= size[r])
    BY <1>16 DEF WriteBlock, PassDone
  <2>1. b \in 1..size[r] /\ b \in Blocks /\ b \in 0..Size
    <3> HIDE DEF TInv, TypeOK
    <3>1. size[r] \in Nat /\ position[r] \in Nat /\ size[r] <= Size /\ Size \in Nat
      BY SizeType, RunAssumption
    <3> QED
      BY <2>0, <3>1 DEF Blocks
  <2>2. Pass(r).fill \in Contents /\ Pass(r).number \in Nat
    BY <1>16, PassType DEF WriteBlock
  <2>3. shown' \in [Runs -> Int]
    BY <1>16, <2>1, <2>2, DisplayType DEF WriteBlock
  <2>4. new \in [holds : Contents, by : Runs \cup {Host}]
    BY <2>2
  <2> HIDE DEF b, new
  <2>5. /\ device' = [device EXCEPT ![b] = new]
        /\ wrote' = [wrote EXCEPT ![r][b] = @ + 1]
        /\ position' = [position EXCEPT ![r] = b]
        /\ bytes' = [bytes EXCEPT ![r] = @ + 1]
        /\ stage' \in [Runs -> Stages] /\ status' \in [Runs -> {-1, 0, 1, Killed}]
        /\ UNCHANGED <<plan, size, index, check, verdict, success, cert, mounted>>
    BY <1>16 DEF WriteBlock, Exit, Fail, Go, b, new
  <2>6. device' \in [Blocks -> [holds : Contents, by : Runs \cup {Host}]]
    BY <2>1, <2>4, <2>5
  <2>8. position' \in [Runs -> 0..Size]
    BY <2>1, <2>5
  <2>9. bytes' \in [Runs -> Nat]
    BY <2>5
  <2>7. wrote' \in [Runs -> [Blocks -> Nat]]
    BY <2>1, <2>5
  <2> QED
    BY <2>3, <2>5, <2>6, <2>7, <2>8, <2>9
<1>17. ASSUME NEW r \in Runs, NextPass(r) PROVE TInv'
  <2>0. Size \in Nat
    BY RunAssumption
  <2>1. size[r] \in Nat /\ 0 \in 0..Size
    <3> HIDE DEF TypeOK, TInv
    <3> QED
      BY <2>0, SizeType
  <2>2. index' \in [Runs -> Nat \ {0}] /\ position' \in [Runs -> 0..Size]
    BY <1>17, <2>1 DEF NextPass
  <2>3. bytes' \in [Runs -> Nat]
    BY <1>17, <2>1 DEF NextPass
  <2> QED
    BY <1>17, <2>2, <2>3 DEF NextPass
<1>18. CASE Mount \/ Unmount
  BY <1>18 DEF Mount, Unmount
<1>19. CASE HostWrite
  <2> PICK b \in HostBlocks : device' = [device EXCEPT ![b] = [holds |-> "data", by |-> Host]]
    BY <1>19 DEF HostWrite
  <2> DEFINE new == [holds |-> "data", by |-> Host]
  <2>1. b \in Blocks /\ new \in [holds : Contents, by : Runs \cup {Host}]
    BY RunAssumption DEF Blocks, Contents
  <2> HIDE DEF new
  <2>2. device' = [device EXCEPT ![b] = new]
    BY DEF new
  <2> QED
    BY <1>19, <2>1, <2>2 DEF HostWrite
<1>20. CASE UNCHANGED vars
  BY <1>20 DEF vars
<1> QED
  BY <1>1, <1>2, <1>3, <1>4, <1>5, <1>6, <1>7, <1>8, <1>9, <1>10, <1>11, <1>12, <1>13, <1>14, <1>15, <1>16, <1>17, <1>18, <1>19, <1>20 DEF Next, Program

-----------------------------------------------------------------------------
(* The inductive invariant of one run.  What it has counted is what it has *)
(* written; how far it got bounds what it may say; a block that it wrote   *)
(* last holds the fill of that pass; and zeros of its own raised no alarm. *)

Early == {"idle", "ask", "create", "measure", "validate"}
Counted(r) ==
  /\ index[r] <= Len(passes[r]) + 1
  /\ position[r] <= size[r]
  /\ index[r] > Len(passes[r]) => position[r] = 0
  /\ ~dry[r] =>
       /\ bytes[r] = (index[r] - 1) * size[r] + position[r]
       /\ \A b \in 1..size[r] : wrote[r][b] = IF b <= position[r] THEN index[r] ELSE index[r] - 1
Staged(r) ==
  /\ stage[r] \in {"idle", "ask", "create"} => passes[r] = <<>>
  /\ stage[r] \in Early =>
       /\ index[r] = 1 /\ position[r] = 0 /\ bytes[r] = 0
       /\ \A b \in Blocks : wrote[r][b] = 0
  /\ stage[r] \in {"sample", "report"} => index[r] > Len(passes[r])
  /\ stage[r] = "sample" => ~dry[r]
  /\ stage[r] # "ended" => ~success[r] /\ ~cert[r] /\ status[r] = -1
  /\ success[r] => index[r] > Len(passes[r])
  /\ cert[r] => success[r] /\ ~dry[r] /\ passes[r] # <<>>
  /\ Caller(r) = "expert" /\ status[r] = 0 /\ passes[r] # <<>> => success[r]
Mine(r) ==
  \A b \in Blocks :
    device[b].by = r =>
      /\ wrote[r][b] \in 1..Len(passes[r])
      /\ device[b].holds = passes[r][wrote[r][b]].fill
Zeroed(r) ==
  /\ \A b \in 1..size[r] : device[b].by = r
  /\ passes[r] # <<>> /\ passes[r][Len(passes[r])].fill = "zeros"
Clean(r) ==
  /\ stage[r] \in Early \cup {"write"} => detections[r] = 0 /\ ~signatures[r]
  /\ stage[r] \in Early \cup {"write", "sample"} => verdict[r] = "none"
  /\ stage[r] = "sample" /\ Zeroed(r) => detections[r] = 0 /\ ~signatures[r]
  /\ verdict[r] = "failed" => ~Zeroed(r)
RInv(r) == Counted(r) /\ Staged(r) /\ Mine(r) /\ Clean(r)
IInv == TInv /\ \A r \in Runs : RInv(r)

LEMMA RInit == Init => \A r \in Runs : RInv(r)
<1> SUFFICES ASSUME Init, NEW r \in Runs PROVE RInv(r)
  OBVIOUS
<1> USE DEF Init
<1>1. Counted(r)
  BY DEF Counted
<1>2. Staged(r)
  BY RunAssumption DEF Staged, Early
<1>3. Mine(r)
  BY RunAssumption DEF Mine
<1>4. Clean(r)
  BY DEF Clean, Early
<1> QED
  BY <1>1, <1>2, <1>3, <1>4 DEF RInv

\* A step of somebody else: it leaves the run alone, and the blocks it
\* writes are no longer the run's.
NotWritten(r) == \A b \in Blocks : device'[b] = device[b] \/ device'[b].by # r
SamePlan(r) ==
  /\ request'[r] = request[r] /\ dry'[r] = dry[r] /\ size'[r] = size[r] /\ passes'[r] = passes[r]
SameWork(r) ==
  /\ index'[r] = index[r] /\ position'[r] = position[r] /\ bytes'[r] = bytes[r] /\ wrote'[r] = wrote[r]
SameWords(r) ==
  /\ stage'[r] = stage[r] /\ detections'[r] = detections[r] /\ signatures'[r] = signatures[r]
  /\ verdict'[r] = verdict[r]
  /\ success'[r] = success[r] /\ cert'[r] = cert[r] /\ status'[r] = status[r]

\* Whatever leaves the plan and the work of a run alone.
LEMMA Kept ==
  ASSUME TInv, NEW r \in Runs, RInv(r), SamePlan(r), SameWork(r), NotWritten(r)
  PROVE  Counted(r)' /\ Mine(r)' /\ (Zeroed(r)' => Zeroed(r))
<1> USE DEF RInv, SamePlan, SameWork, NotWritten
<1>1. Counted(r)'
  BY DEF Counted
<1>2. Mine(r)'
  BY DEF Mine
<1>3. ASSUME Zeroed(r)' PROVE Zeroed(r)
  <2>1. 1..size[r] \subseteq Blocks
    BY SizeType
  <2> QED
    BY <1>3, <2>1 DEF Zeroed
<1> QED
  BY <1>1, <1>2, <1>3

LEMMA Others ==
  ASSUME TInv, NEW r \in Runs, RInv(r), SamePlan(r), SameWork(r), SameWords(r), NotWritten(r)
  PROVE  RInv(r)'
<1>1. Counted(r)' /\ Mine(r)' /\ (Zeroed(r)' => Zeroed(r))
  BY Kept
<1>2. Staged(r)'
  BY DEF RInv, Staged, SamePlan, SameWork, SameWords, Caller
<1>3. Clean(r)'
  BY <1>1 DEF RInv, Clean, SameWords
<1> QED
  BY <1>1, <1>2, <1>3 DEF RInv

LEMMA OneAtATime ==
  ASSUME TInv, NEW p \in Runs, NEW r \in Runs, r # p, Program(p) \/ Kill(p)
  PROVE  SamePlan(r) /\ SameWork(r) /\ SameWords(r) /\ NotWritten(r)
<1> DEFINE Same == SamePlan(r) /\ SameWork(r) /\ SameWords(r) /\ NotWritten(r)
<1> USE DEF TInv, TypeOK, plan, wipe, check, ended, Exit, Fail, Go,
            SamePlan, SameWork, SameWords, NotWritten
<1>1. CASE NoDevice(p)
  BY <1>1 DEF NoDevice
<1>2. CASE Find(p)
  BY <1>2 DEF Find
<1>3. CASE Refuse(p)
  BY <1>3 DEF Refuse
<1>4. CASE Agree(p)
  BY <1>4 DEF Agree
<1>5. CASE Create(p)
  BY <1>5 DEF Create
<1>6. CASE Measure(p)
  BY <1>6 DEF Measure
<1>7. CASE ValidateRaises(p)
  BY <1>7 DEF ValidateRaises
<1>8. CASE Validate(p)
  BY <1>8 DEF Validate
<1>9. CASE WriteBlock(p)
  BY <1>9 DEF WriteBlock
<1>10. CASE WriteFails(p)
  BY <1>10 DEF WriteFails
<1>11. CASE NextPass(p)
  BY <1>11 DEF NextPass
<1>12. CASE EndPasses(p)
  BY <1>12 DEF EndPasses
<1>13. CASE TakeSample(p)
  BY <1>13 DEF TakeSample
<1>14. CASE CannotSample(p)
  BY <1>14 DEF CannotSample
<1>15. CASE Judge(p)
  BY <1>15 DEF Judge
<1>16. CASE Report(p)
  BY <1>16 DEF Report
<1>17. CASE Kill(p)
  BY <1>17 DEF Kill
<1> QED
  BY <1>1, <1>2, <1>3, <1>4, <1>5, <1>6, <1>7, <1>8, <1>9, <1>10, <1>11, <1>12, <1>13, <1>14, <1>15, <1>16, <1>17 DEF Program

-----------------------------------------------------------------------------
(* The run's own steps.                                                    *)

\* A run that ends without a word on its wipe: an exit status of 0 from the
\* expert mode is possible only before there are passes.
LEMMA Ends ==
  ASSUME TInv, NEW r \in Runs, RInv(r), SamePlan(r), SameWork(r), NotWritten(r),
         stage[r] # "ended", stage'[r] = "ended",
         success'[r] = success[r], cert'[r] = cert[r], verdict'[r] = verdict[r],
         Caller(r) = "expert" /\ status'[r] = 0 => passes[r] = <<>>
  PROVE  RInv(r)'
<1>1. Counted(r)' /\ Mine(r)' /\ (Zeroed(r)' => Zeroed(r))
  BY Kept
<1>2. Staged(r)'
  BY DEF RInv, Staged, SamePlan, SameWork, Caller, Early
<1>3. Clean(r)'
  BY <1>1 DEF RInv, Clean, Early
<1> QED
  BY <1>1, <1>2, <1>3 DEF RInv

LEMMA EndsEarly ==
  ASSUME TInv, NEW r \in Runs, RInv(r),
         NoDevice(r) \/ Refuse(r) \/ ValidateRaises(r) \/ WriteFails(r) \/ Kill(r)
  PROVE  RInv(r)'
<1>1. UNCHANGED <<request, dry, size, passes, index, position, bytes, wrote, device,
                  success, cert, verdict>>
  BY DEF NoDevice, Refuse, ValidateRaises, WriteFails, Kill, plan, wipe, check
<1>2. r \in DOMAIN stage /\ r \in DOMAIN status
  BY DEF TInv, TypeOK
<1>3. stage[r] # "ended" /\ stage'[r] = "ended"
  BY <1>2 DEF NoDevice, Refuse, ValidateRaises, WriteFails, Kill, Fail, Exit, Go
<1>4. Caller(r) = "expert" /\ status'[r] = 0 => passes[r] = <<>>
  <2>1. CASE NoDevice(r) \/ Refuse(r)
    BY <2>1 DEF NoDevice, Refuse, RInv, Staged
  <2>2. CASE ValidateRaises(r) \/ WriteFails(r)
    BY <1>2, <2>2 DEF ValidateRaises, WriteFails, Fail, Exit
  <2>3. CASE Kill(r)
    BY <1>2, <2>3, RunAssumption DEF Kill, Exit
  <2> QED
    BY <2>1, <2>2, <2>3
<1> QED
  BY <1>1, <1>3, <1>4, Ends DEF SamePlan, SameWork, NotWritten

\* Steps before and after the passes, which neither plan nor write.
LEMMA Talks ==
  ASSUME TInv, NEW r \in Runs, RInv(r),
         Find(r) \/ Validate(r) \/ EndPasses(r) \/ CannotSample(r) \/ Report(r)
  PROVE  RInv(r)'
<1>1. /\ UNCHANGED <<request, dry, size, passes, index, position, bytes, wrote, device,
                     detections, signatures>>
      /\ r \in DOMAIN stage /\ r \in DOMAIN verdict /\ r \in DOMAIN status
      /\ r \in DOMAIN cert /\ r \in DOMAIN success
  BY DEF Find, Validate, EndPasses, CannotSample, Report, plan, wipe, check, TInv, TypeOK
<1>2. SamePlan(r) /\ SameWork(r) /\ NotWritten(r) /\ Caller(r)' = Caller(r)
  BY <1>1 DEF SamePlan, SameWork, NotWritten, Caller
<1>3. Counted(r)' /\ Mine(r)' /\ (Zeroed(r)' => Zeroed(r))
  BY <1>2, Kept
<1>4. CASE Find(r)
  <2>1. /\ stage[r] = "idle" /\ stage'[r] \in {"ask", "create"}
        /\ UNCHANGED <<success, cert, status, verdict>>
    BY <1>1, <1>4 DEF Find, Go, ended
  <2>2. Staged(r)'
    BY <1>1, <1>2, <2>1 DEF RInv, Staged, Early
  <2>3. Clean(r)'
    BY <1>1, <2>1 DEF RInv, Clean, Early
  <2> QED
    BY <1>3, <2>2, <2>3 DEF RInv
<1>5. CASE Validate(r)
  <2>1. /\ stage[r] = "validate" /\ stage'[r] = "write"
        /\ UNCHANGED <<success, cert, status, verdict>>
    BY <1>1, <1>5 DEF Validate, Go, ended
  <2>2. Staged(r)'
    BY <1>1, <1>2, <2>1 DEF RInv, Staged, Early
  <2>3. Clean(r)'
    BY <1>1, <2>1 DEF RInv, Clean, Early
  <2> QED
    BY <1>3, <2>2, <2>3 DEF RInv
<1>6. CASE EndPasses(r)
  <2>1. /\ stage[r] = "write" /\ stage'[r] \in {"sample", "report"}
        /\ stage'[r] = "sample" => ~dry[r]
        /\ index[r] > Len(passes[r])
        /\ UNCHANGED <<success, cert, status, verdict>>
    BY <1>1, <1>6 DEF EndPasses, Go, ended
  <2>2. Staged(r)'
    BY <1>1, <1>2, <2>1 DEF RInv, Staged, Early
  <2>3. Clean(r)'
    BY <1>1, <2>1 DEF RInv, Clean, Early
  <2> QED
    BY <1>3, <2>2, <2>3 DEF RInv
<1>7. CASE CannotSample(r)
  <2>1. /\ stage[r] = "sample" /\ stage'[r] = "report" /\ verdict'[r] = "unreadable"
        /\ UNCHANGED <<success, cert, status>>
    BY <1>1, <1>7 DEF CannotSample, Go, ended
  <2>2. Staged(r)'
    BY <1>1, <1>2, <2>1 DEF RInv, Staged, Early
  <2>3. Clean(r)'
    BY <1>1, <2>1 DEF RInv, Clean, Early
  <2> QED
    BY <1>3, <2>2, <2>3 DEF RInv
<1>8. CASE Report(r)
  <2>1. /\ stage[r] = "report" /\ stage'[r] = "ended" /\ success'[r]
        /\ verdict'[r] = verdict[r]
        /\ cert'[r] => cert[r] \/ (~dry[r] /\ passes[r] # <<>>)
    BY <1>1, <1>8 DEF Report, Exit, Fail, Go
  <2>2. Staged(r)'
    BY <1>1, <1>2, <2>1 DEF RInv, Staged, Early
  <2>3. Clean(r)'
    BY <1>1, <1>3, <2>1 DEF RInv, Clean, Early
  <2> QED
    BY <1>3, <2>2, <2>3 DEF RInv
<1> QED
  BY <1>4, <1>5, <1>6, <1>7, <1>8

\* Steps that decide the plan: nothing has been counted or written yet.
LEMMA Plans ==
  ASSUME TInv, TInv', NEW r \in Runs, RInv(r), Agree(r) \/ Create(r) \/ Measure(r)
  PROVE  RInv(r)'
<1>1. /\ UNCHANGED <<request, index, position, bytes, wrote, device, detections, signatures,
                     verdict, success, cert>>
      /\ r \in DOMAIN stage /\ r \in DOMAIN status
      /\ Caller(r)' = Caller(r)
  BY DEF Agree, Create, Measure, plan, wipe, check, ended, TInv, TypeOK, Caller
<1>2. stage[r] \in {"ask", "create", "measure"}
  BY DEF Agree, Create, Measure
<1>3. /\ stage[r] # "measure" => passes[r] = <<>>
      /\ index[r] = 1 /\ position[r] = 0 /\ bytes[r] = 0 /\ \A b \in Blocks : wrote[r][b] = 0
      /\ ~success[r] /\ ~cert[r] /\ status[r] = -1
      /\ detections[r] = 0 /\ ~signatures[r] /\ verdict[r] = "none"
  BY <1>2 DEF RInv, Staged, Clean, Early
<1>4. /\ size'[r] \in Nat /\ 1..size'[r] \subseteq Blocks
      /\ passes'[r] \in Seq(WipePass) /\ Len(passes'[r]) \in Nat
  <2>1. Size \in Nat /\ size'[r] \in {0, Size} /\ passes'[r] \in Seq(WipePass)
    BY RunAssumption DEF TInv, TypeOK
  <2> QED
    BY <2>1 DEF Blocks
<1>5. Counted(r)'
  <2>1. bytes'[r] = 0 /\ index'[r] = 1 /\ position'[r] = 0 /\ \A b \in Blocks : wrote'[r][b] = 0
    BY <1>1, <1>3
  <2>2. (index'[r] - 1) * size'[r] + position'[r] = 0
    BY <1>4, <2>1
  <2> QED
    BY <1>4, <2>1, <2>2 DEF Counted
<1>6. Mine(r)'
  <2>1. \A b \in Blocks : device'[b].by # r
    BY <1>1, <1>3 DEF RInv, Mine
  <2> QED
    BY <2>1 DEF Mine
<1>7. /\ stage'[r] \in {"create", "measure", "validate", "write", "ended"}
      /\ stage'[r] = "create" => passes'[r] = <<>>
      /\ stage'[r] # "ended" => status'[r] = -1
      /\ Caller(r) = "expert" /\ status'[r] = 0 => passes'[r] = <<>>
  <2>1. CASE Agree(r)
    BY <1>1, <1>3, <2>1 DEF Agree, Go, ended
  <2>2. CASE Create(r)
    <3>1. CASE CreateRaises(request[r].type, PassesArgument(r))
      BY <1>1, <1>3, <2>2, <3>1 DEF Create, Fail, Exit, Go
    <3>2. CASE ~CreateRaises(request[r].type, PassesArgument(r))
      BY <1>1, <1>3, <2>2, <3>2 DEF Create, Go
    <3> QED
      BY <3>1, <3>2
  <2>3. CASE Measure(r)
    BY <1>1, <1>3, <2>3 DEF Measure, Go, ended
  <2> QED
    BY <2>1, <2>2, <2>3
<1>8. Staged(r)'
  BY <1>1, <1>3, <1>7 DEF Staged, Early
<1>9. Clean(r)'
  BY <1>1, <1>3, <1>7 DEF Clean, Early
<1> QED
  BY <1>5, <1>6, <1>8, <1>9 DEF RInv

\* A block more is written, and counted.
LEMMA Writes ==
  ASSUME TInv, NEW r \in Runs, RInv(r), WriteBlock(r)
  PROVE  RInv(r)'
<1> DEFINE b == position[r] + 1
           new == [holds |-> Pass(r).fill, by |-> r]
<1>1. /\ size[r] \in Nat /\ 1..size[r] \subseteq Blocks
      /\ position[r] \in Nat /\ index[r] \in Nat \ {0} /\ Len(passes[r]) \in Nat
      /\ bytes[r] \in Nat
  BY SizeType DEF TInv, TypeOK
<1>2. /\ stage[r] = "write" /\ ~dry[r] /\ index[r] <= Len(passes[r]) /\ position[r] < size[r]
  BY <1>1 DEF WriteBlock, PassDone
<1>3. b \in 1..size[r] /\ b \in Blocks
  BY <1>1, <1>2
<1>4. /\ UNCHANGED <<request, dry, size, passes, index, detections, signatures, verdict, success, cert>>
      /\ Caller(r)' = Caller(r)
  BY DEF WriteBlock, plan, check, Caller
<1>5. /\ device' = [device EXCEPT ![b] = new]
      /\ wrote' = [wrote EXCEPT ![r][b] = @ + 1]
      /\ position' = [position EXCEPT ![r] = b]
      /\ bytes' = [bytes EXCEPT ![r] = @ + 1]
  BY DEF WriteBlock
<1>6. /\ wrote'[r] = [wrote[r] EXCEPT ![b] = @ + 1]
      /\ position'[r] = b /\ bytes'[r] = bytes[r] + 1
      /\ device'[b] = new /\ \A c \in Blocks : c # b => device'[c] = device[c]
  <2> HIDE DEF b, new
  <2> QED
    BY <1>3, <1>5 DEF TInv, TypeOK
<1>7. /\ wrote'[r][b] = wrote[r][b] + 1
      /\ \A c \in Blocks : c # b => wrote'[r][c] = wrote[r][c]
  <2> HIDE DEF b
  <2>1. wrote[r] \in [Blocks -> Nat]
    BY DEF TInv, TypeOK
  <2> QED
    BY <1>3, <1>6, <2>1
<1>8. /\ bytes[r] = (index[r] - 1) * size[r] + position[r]
      /\ \A c \in 1..size[r] : wrote[r][c] = IF c <= position[r] THEN index[r] ELSE index[r] - 1
  BY <1>2 DEF RInv, Counted
<1>9. wrote'[r][b] = index[r]
  BY <1>1, <1>3, <1>7, <1>8
<1>10. Counted(r)'
  <2>1. bytes'[r] = (index'[r] - 1) * size'[r] + position'[r]
    <3> DEFINE before == (index[r] - 1) * size[r]
    <3>1. before \in Int
      BY <1>1
    <3>2. bytes[r] = before + position[r]
      BY <1>8
    <3> HIDE DEF before
    <3>3. bytes'[r] = before + position'[r]
      BY <1>1, <1>6, <3>1, <3>2
    <3> QED
      BY <1>4, <3>3 DEF before
  <2>2. ASSUME NEW c \in 1..size[r]
        PROVE  wrote'[r][c] = IF c <= position'[r] THEN index[r] ELSE index[r] - 1
    <3>1. CASE c = b
      BY <1>6, <1>9, <3>1, <1>1
    <3>2. CASE c # b
      BY <1>1, <1>6, <1>7, <1>8, <3>2
    <3> QED
      BY <3>1, <3>2
  <2>3. position'[r] <= size[r] /\ index[r] <= Len(passes[r])
    BY <1>1, <1>2, <1>6
  <2> HIDE DEF b, new
  <2> QED
    BY <1>1, <1>4, <2>1, <2>2, <2>3 DEF Counted
<1>11. Mine(r)'
  <2> SUFFICES ASSUME NEW c \in Blocks, device'[c].by = r
               PROVE  /\ wrote'[r][c] \in 1..Len(passes[r])
                      /\ device'[c].holds = passes[r][wrote'[r][c]].fill
    BY <1>4 DEF Mine
  <2>1. CASE c = b
    <3>1. device'[c].holds = passes[r][index[r]].fill
      BY <1>6, <2>1 DEF Pass
    <3> QED
      BY <1>1, <1>2, <1>9, <2>1, <3>1
  <2>2. CASE c # b
    BY <1>6, <1>7, <2>2 DEF RInv, Mine
  <2> QED
    BY <2>1, <2>2
<1>12. /\ stage'[r] \in {"write", "ended"}
       /\ stage'[r] = "write" => status'[r] = status[r]
       /\ Caller(r) = "expert" /\ status'[r] = 0 => status[r] = 0
  <2>1. r \in DOMAIN stage /\ r \in DOMAIN status
    BY DEF TInv, TypeOK
  <2>2. CASE CallbackRaises(r)
    BY <2>1, <2>2 DEF WriteBlock, Fail, Exit, Go
  <2>3. CASE ~CallbackRaises(r)
    BY <1>2, <2>1, <2>3 DEF WriteBlock
  <2> QED
    BY <2>2, <2>3
<1>13. Staged(r)'
  BY <1>2, <1>4, <1>12 DEF RInv, Staged, Early
<1>14. Clean(r)'
  BY <1>2, <1>4, <1>12 DEF RInv, Clean, Early
<1> QED
  BY <1>10, <1>11, <1>13, <1>14 DEF RInv

\* A pass is complete: every block of the device has been written once more.
LEMMA Advances ==
  ASSUME TInv, NEW r \in Runs, RInv(r), NextPass(r)
  PROVE  RInv(r)'
<1>1. /\ size[r] \in Nat /\ 1..size[r] \subseteq Blocks
      /\ position[r] \in Nat /\ index[r] \in Nat \ {0} /\ Len(passes[r]) \in Nat
      /\ bytes[r] \in Nat
  BY SizeType DEF TInv, TypeOK
<1>2. stage[r] = "write" /\ index[r] <= Len(passes[r]) /\ (dry[r] \/ position[r] >= size[r])
  BY DEF NextPass, PassDone
<1>3. /\ UNCHANGED <<request, dry, size, passes, wrote, device, stage, status,
                     detections, signatures, verdict, success, cert>>
      /\ Caller(r)' = Caller(r)
  BY DEF NextPass, plan, check, ended, Caller
<1>4. /\ index'[r] = index[r] + 1 /\ position'[r] = 0
      /\ ~dry[r] => bytes'[r] = bytes[r]
  BY DEF NextPass, TInv, TypeOK
<1>5. Counted(r)'
  <2>1. ASSUME ~dry[r]
        PROVE  /\ bytes'[r] = (index'[r] - 1) * size[r] + position'[r]
               /\ \A b \in 1..size[r] : wrote[r][b] = IF b <= position'[r] THEN index'[r] ELSE index'[r] - 1
    <3>1. position[r] = size[r]
      BY <1>1, <1>2, <2>1 DEF RInv, Counted
    <3>2. bytes[r] = (index[r] - 1) * size[r] + size[r]
      BY <2>1, <3>1 DEF RInv, Counted
    <3>3. (index[r] - 1) * size[r] + size[r] = index[r] * size[r]
      BY <1>1
    <3>4. \A b \in 1..size[r] : wrote[r][b] = index[r]
      BY <1>1, <2>1, <3>1 DEF RInv, Counted
    <3>5. index'[r] - 1 = index[r]
      BY <1>1, <1>4
    <3>6. bytes'[r] = (index'[r] - 1) * size[r] + position'[r]
      BY <1>1, <1>4, <2>1, <3>2, <3>3, <3>5
    <3> QED
      BY <1>1, <1>4, <3>4, <3>5, <3>6
  <2>2. index'[r] <= Len(passes[r]) + 1 /\ position'[r] <= size[r]
    BY <1>1, <1>2, <1>4
  <2> QED
    BY <1>3, <1>4, <2>1, <2>2 DEF Counted
<1>6. Mine(r)'
  BY <1>3 DEF RInv, Mine
<1>7. Staged(r)'
  BY <1>2, <1>3 DEF RInv, Staged, Early
<1>8. Clean(r)'
  BY <1>2, <1>3 DEF RInv, Clean, Early
<1> QED
  BY <1>5, <1>6, <1>7, <1>8 DEF RInv

\* The verifier reads zeros where the run wrote zeros in its last pass.
LEMMA ReadsZeros ==
  ASSUME TInv, NEW r \in Runs, RInv(r), TakeSample(r) \/ Judge(r)
  PROVE  RInv(r)'
<1>1. /\ UNCHANGED <<request, dry, size, passes, index, position, bytes, wrote, device,
                     success, cert, status>>
      /\ r \in DOMAIN stage /\ r \in DOMAIN verdict
      /\ r \in DOMAIN detections /\ r \in DOMAIN signatures
  BY DEF TakeSample, Judge, plan, wipe, check, ended, TInv, TypeOK
<1>2. SamePlan(r) /\ SameWork(r) /\ NotWritten(r) /\ Caller(r)' = Caller(r) /\ Zeroed(r)' = Zeroed(r)
  BY <1>1 DEF SamePlan, SameWork, NotWritten, Caller, Zeroed
<1>3. Counted(r)' /\ Mine(r)'
  BY <1>2, Kept
<1>4. stage[r] = "sample"
  BY DEF TakeSample, Judge
<1>5. /\ size[r] \in Nat /\ 1..size[r] \subseteq Blocks /\ taken[r] \in Nat
      /\ index[r] \in Nat \ {0} /\ Len(passes[r]) \in Nat
  BY SizeType DEF TInv, TypeOK
<1>6. ASSUME Zeroed(r), NEW b \in 1..size[r] PROVE device[b].holds = "zeros"
  <2>1. index[r] = Len(passes[r]) + 1 /\ position[r] = 0 /\ ~dry[r]
    BY <1>4, <1>5 DEF RInv, Staged, Counted
  <2>2. wrote[r][b] = Len(passes[r])
    BY <1>5, <2>1 DEF RInv, Counted
  <2>3. b \in Blocks /\ device[b].by = r
    BY <1>5, <1>6 DEF Zeroed
  <2> QED
    BY <1>6, <2>2, <2>3 DEF RInv, Mine, Zeroed
<1>7. CASE TakeSample(r)
  <2>1. /\ UNCHANGED <<stage, verdict>>
        /\ Zeroed(r) => detections'[r] = 0 /\ ~signatures'[r]
    <3> PICK start \in Starts(size[r], taken[r]) :
          LET held == {device[b].holds : b \in BlocksAt(start, size[r])} IN
          \E found \in ContainsRecoverableData(held), magic \in CheckFileSignatures(held) :
            /\ detections' = [detections EXCEPT ![r] = IF found THEN @ + 1 ELSE @]
            /\ signatures' = [signatures EXCEPT ![r] = @ \/ magic]
      BY <1>7 DEF TakeSample
    <3> DEFINE held == {device[b].holds : b \in BlocksAt(start, size[r])}
    <3>1. Zeroed(r) => held \subseteq {"zeros"}
      <4>1. BlocksAt(start, size[r]) \subseteq 1..size[r]
        BY <1>5, SamplesAreBlocks
      <4> QED
        BY <1>6, <4>1
    <3>2. PICK found \in ContainsRecoverableData(held), magic \in CheckFileSignatures(held) :
            /\ detections' = [detections EXCEPT ![r] = IF found THEN @ + 1 ELSE @]
            /\ signatures' = [signatures EXCEPT ![r] = @ \/ magic]
      OBVIOUS
    <3>3. Zeroed(r) => ~found /\ ~magic
      <4> HIDE DEF held
      <4> QED
        BY <3>1, ZerosAreClean
    <3>4. Zeroed(r) => detections[r] = 0 /\ ~signatures[r]
      BY <1>4 DEF RInv, Clean
    <3>5. Zeroed(r) => detections'[r] = 0
      BY <1>1, <3>2, <3>3, <3>4
    <3>6. Zeroed(r) => ~signatures'[r]
      BY <1>1, <3>2, <3>3, <3>4
    <3>7. UNCHANGED <<stage, verdict>>
      BY <1>7 DEF TakeSample
    <3> QED
      BY <3>5, <3>6, <3>7
  <2>2. Staged(r)'
    BY <1>1, <1>2, <2>1 DEF RInv, Staged
  <2>3. Clean(r)'
    BY <1>2, <1>4, <2>1 DEF RInv, Clean, Early
  <2> QED
    BY <1>3, <2>2, <2>3 DEF RInv
<1>8. CASE Judge(r)
  <2>1. stage'[r] = "report" /\ UNCHANGED <<detections, signatures>>
    BY <1>1, <1>8 DEF Judge, Go, check
  <2>2. verdict'[r] = "failed" => ~Passed(SampleCount(size[r]), detections[r], signatures[r])
    BY <1>1, <1>8 DEF Judge, Samples
  <2>3. Zeroed(r) => Passed(SampleCount(size[r]), detections[r], signatures[r])
    <3>1. Zeroed(r) => detections[r] = 0 /\ ~signatures[r]
      BY <1>4 DEF RInv, Clean
    <3>2. SampleCount(size[r]) \in Nat
      BY <1>5, SampleCountType
    <3>3. 0 * Tolerance = 0
      BY VerificationAssumption
    <3> QED
      BY <3>1, <3>2, <3>3 DEF Passed
  <2>4. Staged(r)'
    BY <1>1, <1>2, <1>4, <2>1 DEF RInv, Staged, Early
  <2>5. Clean(r)'
    BY <1>2, <2>1, <2>2, <2>3 DEF Clean, Early
  <2> QED
    BY <1>3, <2>4, <2>5 DEF RInv
<1> QED
  BY <1>7, <1>8

-----------------------------------------------------------------------------
LEMMA INext == IInv /\ [Next]_vars => IInv'
<1> SUFFICES ASSUME IInv, [Next]_vars PROVE IInv'
  OBVIOUS
<1>1. TInv /\ TInv'
  BY TNext DEF IInv
<1> SUFFICES ASSUME NEW r \in Runs PROVE RInv(r)'
  BY <1>1 DEF IInv
<1>2. RInv(r)
  BY DEF IInv
<1>3. CASE Program(r) \/ Kill(r)
  BY <1>1, <1>2, <1>3, EndsEarly, Talks, Plans, Writes, Advances, ReadsZeros DEF Program
<1>4. ASSUME NEW p \in Runs, p # r, Program(p) \/ Kill(p) PROVE RInv(r)'
  BY <1>1, <1>2, <1>4, OneAtATime, Others
<1>5. CASE Mount \/ Unmount \/ UNCHANGED vars
  <2>1. SamePlan(r) /\ SameWork(r) /\ SameWords(r) /\ NotWritten(r)
    BY <1>5 DEF Mount, Unmount, vars, plan, wipe, check, ended,
                SamePlan, SameWork, SameWords, NotWritten
  <2> QED
    BY <1>1, <1>2, <2>1, Others
<1>6. CASE HostWrite
  <2>1. PICK b \in HostBlocks : device' = [device EXCEPT ![b] = [holds |-> "data", by |-> Host]]
    BY <1>6 DEF HostWrite
  <2>2. b \in Blocks /\ device = [c \in Blocks |-> device[c]] /\ Host # r
    BY <1>1, RunAssumption DEF TInv, TypeOK, Blocks
  <2>3. NotWritten(r)
    BY <2>1, <2>2 DEF NotWritten
  <2>4. SamePlan(r) /\ SameWork(r) /\ SameWords(r)
    BY <1>6 DEF HostWrite, plan, check, ended, SamePlan, SameWork, SameWords
  <2> QED
    BY <1>1, <1>2, <2>3, <2>4, Others
<1> QED
  BY <1>3, <1>4, <1>5, <1>6 DEF Next

LEMMA Inductive == Spec => []IInv
<1>1. Init => IInv
  BY TInit, RInit DEF IInv
<1> QED
  BY <1>1, INext, PTL DEF Spec

(* Type correctness: whatever the runs are asked for, each of them has a   *)
(* sequence of numbered passes and stays within the device                 *)
(* (algorithms.py:471-509, engine.py:185-270).                             *)
THEOREM RunTypes == Spec => []TypeOK
<1>1. IInv => TypeOK
  BY DEF IInv, TInv
<1> QED
  BY <1>1, Inductive, PTL

(* What a run says of its wipe is true, for any number of runs on a device *)
(* of any size, with any number of passes (engine.py:82-152,               *)
(* expert.py:129-204).                                                     *)
THEOREM TrueOutcome == Spec => []OutcomeIsTrue
<1>1. ASSUME IInv PROVE OutcomeIsTrue
  <2> SUFFICES ASSUME NEW r \in Runs
               PROVE  /\ success[r] /\ ~dry[r] => Erased(r)
                      /\ Caller(r) = "expert" /\ status[r] = 0 /\ passes[r] # <<>> => success[r]
                      /\ cert[r] => success[r] /\ ~dry[r] /\ passes[r] # <<>>
    BY DEF OutcomeIsTrue
  <2>1. TInv /\ Counted(r) /\ Staged(r)
    BY <1>1 DEF IInv, RInv
  <2>2. ASSUME success[r], ~dry[r] PROVE Erased(r)
    <3>1. /\ size[r] \in Nat /\ index[r] \in Nat /\ Len(passes[r]) \in Nat
      BY <2>1, SizeType
    <3>2. index[r] = Len(passes[r]) + 1 /\ position[r] = 0
      BY <2>1, <2>2, <3>1 DEF Staged, Counted
    <3>3. \A b \in 1..size[r] : wrote[r][b] = Len(passes[r])
      BY <2>1, <2>2, <3>1, <3>2 DEF Counted
    <3>4. bytes[r] = Len(passes[r]) * size[r]
      <4>1. bytes[r] = (index[r] - 1) * size[r] + position[r]
        BY <2>1, <2>2 DEF Counted
      <4>2. index[r] - 1 = Len(passes[r])
        BY <3>1, <3>2
      <4>3. bytes[r] = Len(passes[r]) * size[r] + 0
        BY <3>2, <4>1, <4>2
      <4> QED
        BY <3>1, <4>3
    <3> QED
      BY <3>3, <3>4 DEF Erased
  <2> QED
    BY <2>1, <2>2 DEF Staged
<1> QED
  BY <1>1, Inductive, PTL

(* Zeros that a run has left everywhere are not taken for data, wherever   *)
(* the samples fall, however many there are and however few may look like  *)
(* data (verification.py:162-215).                                         *)
THEOREM ZerosPass == Spec => []NoFalseAlarm
<1>1. ASSUME IInv PROVE NoFalseAlarm
  <2> SUFFICES ASSUME NEW r \in Runs, verdict[r] = "failed"
               PROVE  \/ \E b \in 1..size[r] : device[b].by # r
                      \/ passes[r] = <<>>
                      \/ passes[r][Len(passes[r])].fill # "zeros"
    BY DEF NoFalseAlarm
  <2>1. ~Zeroed(r)
    BY <1>1 DEF IInv, RInv, Clean
  <2> QED
    BY <2>1 DEF Zeroed
<1> QED
  BY <1>1, Inductive, PTL

-----------------------------------------------------------------------------
(* The progress that is shown.                                              *)

LEMMA NumberedFrom1 ==
  ASSUME NEW s \in Seq(Fills)
  PROVE  /\ Numbered(s) \in Seq(WipePass) /\ Len(Numbered(s)) = Len(s)
         /\ \A i \in 1..Len(s) : Numbered(s)[i].number = i
<1>1. Len(s) \in Nat /\ Numbered(s) = [i \in 1..Len(s) |-> [number |-> i, fill |-> s[i]]]
  BY DEF Numbered
<1> QED
  BY <1>1, NumberedType

LEMMA TimesLen == ASSUME NEW n \in Nat, NEW x \in Fills PROVE Times(n, x) \in Seq(Fills) /\ Len(Times(n, x)) = n
<1>1. Times(n, x) \in [1..n -> Fills] /\ Times(n, x) = [i \in 1..n |-> x]
  BY DEF Times
<1> QED
  BY <1>1

LEMMA Joined ==
  ASSUME NEW s \in Seq(Fills), NEW t \in Seq(Fills)
  PROVE  s \o t \in Seq(Fills) /\ Len(s \o t) = Len(s) + Len(t)
OBVIOUS

\* The passes of every algorithm but three are numbered from 1 to the number
\* that is announced.
Planned(ps, type, layers, overwrite) ==
  \E f \in Seq(Fills) :
    /\ ps = Numbered(f)
    /\ layers \in 1..7 => \A q : GetTotalPasses(type, q, layers, overwrite) = Len(f)

LEMMA Announced ==
  ASSUME NEW type \in AlgorithmType \ Irregular, NEW p, NEW layers \in Int, NEW overwrite
  PROVE  Planned(CreateAlgorithm(type, p, layers, overwrite), type, layers, overwrite)
<1>1. /\ <<"zeros">> \in Seq(Fills) /\ Len(<<"zeros">>) = 1
      /\ <<"random">> \in Seq(Fills) /\ Len(<<"random">>) = 1
      /\ <<"random", "zeros">> \in Seq(Fills) /\ Len(<<"random", "zeros">>) = 2
      /\ <<"zeros", "random">> \in Seq(Fills) /\ Len(<<"zeros", "random">>) = 2
      /\ Purge \in Seq(Fills) /\ Len(Purge) = 3
  BY DEF Fills, Purge
<1>2. /\ Times(3, "random") \in Seq(Fills) /\ Len(Times(3, "random")) = 3
      /\ Times(5, "random") \in Seq(Fills) /\ Len(Times(5, "random")) = 5
  BY TimesLen DEF Fills
<1>3. CASE type \in {"nist-clear", "zeros", "nist-purge", "dod-3pass", "rea-fast"}
  BY <1>1, <1>3 DEF CreateAlgorithm, SetupPasses, GetTotalPasses, Planned
<1>4. CASE type = "dod-7pass"
  <2> DEFINE f == Purge \o Purge \o <<"random">>
  <2>1. f \in Seq(Fills) /\ Len(f) = 7
    <3> DEFINE purge == Purge
               last == <<"random">>
    <3>0. purge \in Seq(Fills) /\ Len(purge) = 3 /\ last \in Seq(Fills) /\ Len(last) = 1
      BY <1>1
    <3> HIDE DEF purge, last
    <3>4. purge \o purge \in Seq(Fills) /\ Len(purge \o purge) = Len(purge) + Len(purge)
      BY <3>0, Joined, Zenon
    <3>1. purge \o purge \in Seq(Fills) /\ Len(purge \o purge) = 6
      BY <3>0, <3>4
    <3> DEFINE twice == purge \o purge
    <3>2. twice \in Seq(Fills) /\ Len(twice) = 6
      BY <3>1
    <3> HIDE DEF twice
    <3>3. twice \o last \in Seq(Fills) /\ Len(twice \o last) = 7
      <4>1. twice \o last \in Seq(Fills) /\ Len(twice \o last) = Len(twice) + Len(last)
        BY <3>0, <3>2, Joined, Zenon
      <4> QED
        BY <3>0, <3>2, <4>1
    <3> QED
      BY <3>3 DEF twice, purge, last
  <2>2. CreateAlgorithm(type, p, layers, overwrite) = Numbered(f)
    BY <1>4 DEF CreateAlgorithm, SetupPasses
  <2> HIDE DEF f
  <2> QED
    BY <1>4, <2>1, <2>2 DEF Planned, GetTotalPasses
<1>5. CASE type \in {"rea-basic", "rea-multichain"}
  <2> DEFINE f == Times(3, "random") \o <<"zeros", "random">>
             g == Times(5, "random") \o Purge
  <2>1. f \in Seq(Fills) /\ Len(f) = 5 /\ g \in Seq(Fills) /\ Len(g) = 8
    <3> DEFINE a == Times(3, "random")
               b == <<"zeros", "random">>
               c == Times(5, "random")
               d == Purge
    <3>1. /\ a \in Seq(Fills) /\ Len(a) = 3 /\ b \in Seq(Fills) /\ Len(b) = 2
          /\ c \in Seq(Fills) /\ Len(c) = 5 /\ d \in Seq(Fills) /\ Len(d) = 3
      BY <1>1, <1>2
    <3> HIDE DEF a, b, c, d
    <3>2. /\ a \o b \in Seq(Fills) /\ Len(a \o b) = 5
          /\ c \o d \in Seq(Fills) /\ Len(c \o d) = 8
      <4>1. /\ a \o b \in Seq(Fills) /\ Len(a \o b) = Len(a) + Len(b)
            /\ c \o d \in Seq(Fills) /\ Len(c \o d) = Len(c) + Len(d)
        BY <3>1, Joined, Zenon
      <4> QED
        BY <3>1, <4>1
    <3> QED
      BY <3>2 DEF a, b, c, d
  <2>2. /\ type = "rea-basic" => CreateAlgorithm(type, p, layers, overwrite) = Numbered(f)
        /\ type = "rea-multichain" => CreateAlgorithm(type, p, layers, overwrite) = Numbered(g)
    BY DEF CreateAlgorithm, SetupPasses
  <2> HIDE DEF f, g
  <2> QED
    BY <1>5, <2>1, <2>2 DEF Planned, GetTotalPasses
<1>6. CASE type = "gutmann"
  <2> DEFINE f == [i \in 1..35 |->
               IF i <= 4 \/ i >= 32 THEN "random"
               ELSE IF i = 10 THEN "zeros" ELSE IF i = 25 THEN "ones" ELSE "fixed"]
  <2>1. f \in [1..35 -> Fills]
    BY DEF Fills
  <2>2. f \in Seq(Fills) /\ Len(f) = 35
    BY <2>1
  <2>3. CreateAlgorithm(type, p, layers, overwrite) = Numbered(f)
    BY <1>6 DEF CreateAlgorithm, SetupPasses, Gutmann
  <2> HIDE DEF f
  <2> QED
    BY <1>6, <2>2, <2>3 DEF Planned, GetTotalPasses
<1>7. CASE type = "rea-custom"
  <2> DEFINE n == Layers(DefaultLayers(layers))
             f == Times(n, "random") \o OverwritePasses(overwrite)
  <2>1. n \in Nat /\ (layers \in 1..7 => n = layers /\ DefaultLayers(layers) = layers)
    BY DEF Layers, DefaultLayers
  <2>2. /\ OverwritePasses(overwrite) \in Seq(Fills)
        /\ Len(OverwritePasses(overwrite)) =
             IF overwrite \in {"nist-purge", "dod-3pass", "random"} THEN 3 ELSE 1
    BY <1>1, <1>2 DEF OverwritePasses
  <2>3. CreateAlgorithm(type, p, layers, overwrite) = Numbered(f)
    BY <1>7 DEF CreateAlgorithm, CustomizeRea
  <2> HIDE DEF n
  <2>4. Times(n, "random") \in Seq(Fills) /\ Len(Times(n, "random")) = n
    BY <2>1, TimesLen DEF Fills
  <2>5. f \in Seq(Fills) /\ Len(f) = n + Len(OverwritePasses(overwrite))
    <3> DEFINE a == Times(n, "random")
               b == OverwritePasses(overwrite)
    <3>1. a \in Seq(Fills) /\ Len(a) = n /\ b \in Seq(Fills)
      BY <2>2, <2>4
    <3> HIDE DEF a, b
    <3>2. a \o b \in Seq(Fills) /\ Len(a \o b) = Len(a) + Len(b)
      BY <3>1, Joined, Zenon
    <3> QED
      BY <3>1, <3>2 DEF a, b
  <2>6. layers \in 1..7 => \A q : GetTotalPasses(type, q, layers, overwrite) = Len(f)
    BY <1>7, <2>1, <2>2, <2>5 DEF GetTotalPasses
  <2> HIDE DEF f
  <2> QED
    BY <2>3, <2>5, <2>6 DEF Planned
<1> QED
  BY <1>3, <1>4, <1>5, <1>6, <1>7 DEF AlgorithmType, Irregular

\* Division by the capacity.
LEMMA Turns ==
  ASSUME NEW n \in Nat \ {0}, NEW k \in Nat, NEW p \in 0..(n - 1)
  PROVE  (k * n + p) % n = p /\ ((p + 1) * n) \div n = p + 1
<1> DEFINE x == k * n + p
           q == x \div n
           m == x % n
<1>1. x \in Nat
  OBVIOUS
<1> HIDE DEF x
<1>2. q \in Int /\ m \in 0..(n - 1) /\ x = n * q + m
  BY <1>1
<1>3. x = n * k + p
  BY DEF x
<1> HIDE DEF q, m
<1>4. n * (q - k) = p - m
  BY <1>2, <1>3
<1>5. q - k = 0
  <2> DEFINE d == q - k
  <2>1. d \in Int /\ n * d < n /\ n * d > 0 - n
    BY <1>2, <1>4
  <2> HIDE DEF d
  <2>2. d >= 1 => n * d >= n
    BY <2>1
  <2>3. d <= -1 => n * d <= 0 - n
    BY <2>1
  <2> QED
    BY <2>1, <2>2, <2>3 DEF d
<1>6. m = p
  BY <1>2, <1>4, <1>5
<1>7. ((p + 1) * n) \div n = p + 1
  OBVIOUS
<1> QED
  BY <1>6, <1>7 DEF m, x

Counts(r) == Caller(r) # "session" \/ request[r].type \notin Irregular
ProgressInv(r) ==
  /\ stage[r] \in {"measure", "validate", "write"} =>
       passes[r] = CreateAlgorithm(request[r].type, PassesArgument(r), request[r].layers,
                                   request[r].overwrite)
  /\ stage[r] \in Early => shown[r] = 0
  /\ stage[r] = "write" /\ ~dry[r] /\ Counts(r) =>
       shown[r] = (index[r] - 1) * size[r] + position[r]

\* What a block adds to the progress.
LEMMA Shown ==
  ASSUME IInv, NEW r \in Runs, ProgressInv(r), WriteBlock(r), ~CallbackRaises(r), Counts(r)
  PROVE  shown'[r] = (index[r] - 1) * size[r] + position[r] + 1
<1> DEFINE k == index[r] - 1
           b == position[r] + 1
<1>1. /\ size[r] \in {0, Size} /\ capacity[r] \in {0, Size} /\ Size \in Nat \ {0}
      /\ k \in Nat /\ position[r] \in Nat /\ shown \in [Runs -> Int]
      /\ request[r] \in Request /\ passes[r] \in Seq(WipePass)
  BY RunAssumption DEF IInv, TInv, TypeOK
<1>2. /\ stage[r] = "write" /\ ~dry[r] /\ index[r] <= Len(passes[r]) /\ position[r] < size[r]
      /\ Display(r, b)
  BY <1>1 DEF WriteBlock, PassDone
<1>3. size[r] = Size /\ position[r] \in 0..(Size - 1)
  BY <1>1, <1>2
<1>4. shown[r] = k * Size + position[r]
  BY <1>2, <1>3 DEF ProgressInv
<1>5. CASE Caller(r) = "session"
  <2>1. request[r].type \in AlgorithmType \ Irregular /\ request[r].layers \in Int
    BY <1>1, <1>5 DEF Counts, Request
  <2>2. PICK f \in Seq(Fills) : passes[r] = Numbered(f)
    BY <1>2, <2>1, Announced DEF ProgressInv, Planned
  <2>3. Pass(r).number = index[r]
    <3>1. Len(Numbered(f)) = Len(f) /\ \A i \in 1..Len(f) : Numbered(f)[i].number = i
      BY NumberedFrom1
    <3>2. index[r] \in 1..Len(f)
      <4>1. index[r] \in Nat \ {0} /\ Len(f) \in Nat
        BY DEF IInv, TInv, TypeOK
      <4> QED
        BY <1>2, <2>2, <3>1, <4>1
    <3> QED
      BY <2>2, <3>1, <3>2 DEF Pass
  <2>4. shown' = [shown EXCEPT ![r] = (Pass(r).number - 1) * size[r] + b]
    BY <1>2, <1>5 DEF Display, CallbackRaises
  <2>5. shown'[r] = (index[r] - 1) * size[r] + b
    BY <1>1, <2>3, <2>4
  <2> DEFINE before == (index[r] - 1) * size[r]
  <2>6. before \in Int /\ shown'[r] = before + b
    BY <1>1, <2>5
  <2> HIDE DEF before
  <2>7. shown'[r] = before + position[r] + 1
    BY <1>1, <2>6
  <2> QED
    BY <2>7 DEF before
<1>6. CASE Caller(r) # "session"
  <2>1. capacity[r] = Size
    BY <1>1, <1>6 DEF CallbackRaises
  <2>2. shown' = [shown EXCEPT ![r] = @ + Most(0, Advance(r, b))]
    BY <1>2, <1>6 DEF Display
  <2>3. Advance(r, b) = 1
    <3>1. (b * Size) \div Size = b /\ shown[r] % Size = position[r]
      <4>1. (k * Size + position[r]) % Size = position[r]
            /\ ((position[r] + 1) * Size) \div Size = position[r] + 1
        BY <1>1, <1>3, Turns
      <4> QED
        BY <1>4, <4>1
    <3> HIDE DEF b
    <3>2. Advance(r, b) = b - position[r]
      BY <1>3, <2>1, <3>1 DEF Advance
    <3> USE DEF b
    <3> QED
      BY <1>1, <3>2
  <2>4. shown'[r] = shown[r] + 1
    BY <1>1, <2>2, <2>3 DEF Most
  <2> QED
    BY <1>1, <1>3, <1>4, <2>4
<1> QED
  BY <1>5, <1>6

LEMMA ProgressWrites == ASSUME IInv, NEW r \in Runs, ProgressInv(r), WriteBlock(r) PROVE ProgressInv(r)'
<1> USE DEF IInv, TInv, TypeOK, ProgressInv, Counts, Caller, PassesArgument, plan
<1>1. CASE CallbackRaises(r)
  BY <1>1 DEF WriteBlock, Fail, Exit, Go, Early
<1>2. CASE ~CallbackRaises(r)
  <2>1. /\ UNCHANGED <<stage, request, dry, size, passes, index>> /\ stage[r] = "write"
        /\ position'[r] = position[r] + 1
    BY <1>2 DEF WriteBlock
  <2>2. position[r] \in Nat
    BY SizeType
  <2>3. Counts(r) => shown'[r] = (index[r] - 1) * size[r] + position[r] + 1
    BY <1>2, Shown
  <2>4. Counts(r) => shown'[r] = (index'[r] - 1) * size'[r] + position'[r]
    <3> DEFINE before == (index[r] - 1) * size[r]
    <3>1. before \in Int
      <4>1. size[r] \in {0, Size} /\ index[r] \in Nat \ {0} /\ Size \in Nat \ {0}
        BY RunAssumption
      <4>2. index[r] - 1 \in Nat /\ size[r] \in Nat
        BY <4>1
      <4> QED
        BY <4>2
    <3>2. Counts(r) => shown'[r] = before + position[r] + 1
      BY <2>3
    <3>3. (index'[r] - 1) * size'[r] = before
      BY <2>1
    <3> HIDE DEF before
    <3> QED
      BY <2>1, <2>2, <3>1, <3>2, <3>3
  <2> QED
    BY <2>1, <2>4 DEF Early
<1> QED
  BY <1>1, <1>2

LEMMA ProgressNext == ASSUME IInv, NEW r \in Runs, ProgressInv(r), NextPass(r) PROVE ProgressInv(r)'
<1>1. /\ UNCHANGED <<stage, request, dry, size, passes, shown>> /\ stage[r] = "write"
      /\ index'[r] = index[r] + 1 /\ position'[r] = 0
      /\ dry[r] \/ position[r] >= size[r]
  BY DEF NextPass, PassDone, plan, IInv, TInv, TypeOK
<1>2. size[r] \in Nat /\ index[r] \in Nat /\ position[r] \in Nat /\ position[r] <= size[r]
  BY SizeType DEF IInv, RInv, Counted
<1>3. ~dry[r] => (index[r] - 1) * size[r] + position[r] = (index'[r] - 1) * size'[r] + position'[r]
  <2>1. (index[r] - 1) * size[r] + size[r] = index[r] * size[r]
    BY <1>2
  <2>2. ~dry[r] => position[r] = size[r]
    BY <1>1, <1>2
  <2> QED
    BY <1>1, <1>2, <2>1, <2>2
<1> QED
  BY <1>1, <1>3 DEF ProgressInv, Counts, Caller, PassesArgument, Early

LEMMA ProgressOthers ==
  ASSUME IInv, NEW r \in Runs, ProgressInv(r),
         UNCHANGED <<stage[r], request[r], dry[r], size[r], passes[r], index[r], position[r], shown[r]>>
  PROVE  ProgressInv(r)'
BY DEF ProgressInv, Counts, Caller, PassesArgument

LEMMA ProgressStep ==
  ASSUME IInv, [Next]_vars, NEW r \in Runs, ProgressInv(r)
  PROVE  ProgressInv(r)'
<1>1. ASSUME NEW p \in Runs, p # r, Program(p) \/ Kill(p) PROVE ProgressInv(r)'
  <2>1. SamePlan(r) /\ SameWork(r) /\ SameWords(r)
    BY <1>1, OneAtATime DEF IInv
  <2>2. shown'[r] = shown[r]
    BY <1>1 DEF Program, Kill, NoDevice, Find, Refuse, Agree, Create, Measure, ValidateRaises, Validate,
            WriteBlock, WriteFails, NextPass, EndPasses, TakeSample, CannotSample, Judge, Report,
            wipe, Display, IInv, TInv, TypeOK
  <2> QED
    BY <2>1, <2>2, ProgressOthers DEF SamePlan, SameWork, SameWords
<1>2. CASE WriteBlock(r) \/ NextPass(r)
  BY <1>2, ProgressWrites, ProgressNext
<1>3. CASE Find(r) \/ Agree(r) \/ Create(r) \/ Measure(r) \/ Validate(r)
  <2> USE DEF IInv, TInv, TypeOK, ProgressInv, Counts, Caller, PassesArgument, plan, wipe, Early, Go
  <2>1. CASE Find(r)
    BY <2>1 DEF Find
  <2>2. CASE Agree(r)
    BY <2>2 DEF Agree
  <2>3. CASE Create(r)
    BY <2>3 DEF Create, Fail, Exit
  <2>4. CASE Measure(r) \/ Validate(r)
    <3>1. /\ UNCHANGED <<request, dry, passes, index, position, shown>>
          /\ stage[r] \in {"measure", "validate"}
          /\ stage'[r] \in {"validate", "write"}
      BY <2>4 DEF Measure, Validate
    <3>2. shown'[r] = 0 /\ index'[r] = 1 /\ position'[r] = 0
      BY <3>1 DEF RInv, Staged
    <3>3. size'[r] \in Int
      BY <2>4, RunAssumption DEF Measure, Validate
    <3>4. shown'[r] = (index'[r] - 1) * size'[r] + position'[r]
      BY <3>2, <3>3
    <3> QED
      BY <3>1, <3>2, <3>4
  <2> QED
    BY <1>3, <2>1, <2>2, <2>3, <2>4
<1>4. CASE EndPasses(r) \/ TakeSample(r) \/ CannotSample(r) \/ Judge(r) \/ Report(r) \/ NoDevice(r)
           \/ Refuse(r) \/ ValidateRaises(r) \/ WriteFails(r) \/ Kill(r)
  <2>1. stage'[r] \in {"sample", "report", "ended"}
    BY <1>4 DEF EndPasses, TakeSample, CannotSample, Judge, Report, NoDevice, Refuse, ValidateRaises,
            WriteFails, Kill, Go, Exit, Fail, IInv, TInv, TypeOK
  <2> QED
    BY <2>1 DEF ProgressInv, Early
<1>5. CASE Mount \/ Unmount \/ HostWrite \/ UNCHANGED vars
  BY <1>5, ProgressOthers DEF Mount, Unmount, HostWrite, vars, plan, wipe
<1> QED
  BY <1>1, <1>2, <1>3, <1>4, <1>5 DEF Next, Program

(* The progress shown is the progress made, for every algorithm, size and   *)
(* number of runs: by the display of the command line however the passes    *)
(* are numbered, and by a session where they are numbered from 1; and a     *)
(* session announces as many passes as its wipe makes (expert.py:88-105,    *)
(* session_manager.py:194-246).                                             *)
THEOREM TrueProgress == Spec => []ProgressIsTrue
<1> DEFINE PInv == IInv /\ \A r \in Runs : ProgressInv(r)
<1>1. Init => \A r \in Runs : ProgressInv(r)
  BY DEF Init, ProgressInv, Early
<1>2. (\A r \in Runs : ProgressInv(r)) /\ IInv /\ [Next]_vars => (\A r \in Runs : ProgressInv(r))'
  BY ProgressStep
<1>3. IInv /\ (\A r \in Runs : ProgressInv(r)) => ProgressIsTrue
  <2> SUFFICES ASSUME IInv, NEW r \in Runs, ProgressInv(r), stage[r] = "write", ~dry[r]
               PROVE  LET q == request[r] IN
                      /\ q.caller # "session" \/ q.type \notin Irregular =>
                           shown[r] = (index[r] - 1) * size[r] + position[r]
                      /\ q.type \notin Irregular /\ q.layers \in 1..7 =>
                           GetTotalPasses(q.type, q.passes, q.layers, q.overwrite) = Len(passes[r])
    BY DEF ProgressIsTrue
  <2>1. request[r] \in Request
    BY DEF IInv, TInv
  <2>2. Counts(r) => shown[r] = (index[r] - 1) * size[r] + position[r]
    BY DEF ProgressInv
  <2>3. ASSUME request[r].type \notin Irregular, request[r].layers \in 1..7
        PROVE  GetTotalPasses(request[r].type, request[r].passes, request[r].layers, request[r].overwrite)
                 = Len(passes[r])
    <3>1. request[r].type \in AlgorithmType \ Irregular /\ request[r].layers \in Int
      BY <2>1, <2>3 DEF Request
    <3>2. PICK f \in Seq(Fills) :
            /\ passes[r] = Numbered(f)
            /\ \A q : GetTotalPasses(request[r].type, q, request[r].layers, request[r].overwrite) = Len(f)
      BY <2>3, <3>1, Announced DEF ProgressInv, Planned
    <3> QED
      BY <3>2, NumberedFrom1
  <2> QED
    BY <2>2, <2>3 DEF Counts, Caller
<1> QED
  BY Inductive, <1>1, <1>2, <1>3, PTL DEF Spec
================================================================================
