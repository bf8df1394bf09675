-------------------------- MODULE CertificatesProofs --------------------------
(***************************************************************************)
(* Proofs about the registry contract, under every sequence of calls, and  *)
(* about the certificates that are anchored in it, under every schedule of *)
(* generators, node and other users: for any set of reports and accounts.  *)
(***************************************************************************)
EXTENDS Certificates, TLAPS

-----------------------------------------------------------------------------
(* The contract by itself.                                                 *)

RegistryInv == RegistryTypeOK /\ Enumerated /\ TextsKept

\* A store function files one record, under a hash that had none.
LEMMA PutEffect ==
  ASSUME RegistryTypeOK, NEW h \in Hashes, NEW r \in Records, r.stored, Put(h, r)
  PROVE  /\ ~reports[h].stored
         /\ reports' \in [Hashes -> Records]
         /\ \A g \in Hashes : reports'[g] = IF g = h THEN r ELSE reports[g]
         /\ reportHashes' \in Seq(Hashes)
         /\ Len(reportHashes') = Len(reportHashes) + 1
         /\ \A i \in 1..Len(reportHashes) : reportHashes'[i] = reportHashes[i]
         /\ reportHashes'[Len(reportHashes) + 1] = h
BY DEF RegistryTypeOK, Put

LEMMA PutEnumerated ==
  ASSUME RegistryTypeOK, Enumerated, NEW h \in Hashes, NEW r \in Records, r.stored, Put(h, r)
  PROVE  Enumerated'
<1> DEFINE n == Len(reportHashes)
<1>1. reportHashes \in Seq(Hashes) /\ n \in Nat
  BY DEF RegistryTypeOK
<1>2. DOMAIN reportHashes = 1..n /\ DOMAIN reportHashes' = 1..(n + 1)
  BY PutEffect, <1>1
<1>3. \A g \in Hashes : verifyReport(g)' <=> g = h \/ verifyReport(g)
  BY PutEffect DEF verifyReport
<1>4. \A i \in 1..n : reportHashes'[i] = reportHashes[i] /\ reportHashes[i] # h
  BY PutEffect, <1>1, <1>2 DEF Enumerated, verifyReport
<1>5. reportHashes'[n + 1] = h
  BY PutEffect
<1>6. ASSUME NEW g \in Hashes
      PROVE  verifyReport(g)' <=> \E i \in DOMAIN reportHashes' : reportHashes'[i] = g
  <2>1. CASE g = h
    BY <2>1, <1>1, <1>2, <1>3, <1>5
  <2>2. CASE g # h
    <3>1. verifyReport(g)' <=> \E i \in 1..n : reportHashes[i] = g
      BY <2>2, <1>2, <1>3 DEF Enumerated
    <3>2. (\E i \in 1..n : reportHashes[i] = g) <=> (\E i \in 1..(n + 1) : reportHashes'[i] = g)
      BY <2>2, <1>1, <1>4, <1>5
    <3> QED BY <3>1, <3>2, <1>2
  <2> QED BY <2>1, <2>2
<1>7. ASSUME NEW i \in 1..(n + 1), NEW k \in 1..(n + 1), reportHashes'[i] = reportHashes'[k]
      PROVE  i = k
  <2>1. i \in 1..n \/ i = n + 1
    BY <1>1
  <2>2. k \in 1..n \/ k = n + 1
    BY <1>1
  <2>3. CASE i \in 1..n /\ k \in 1..n
    BY <2>3, <1>2, <1>4, <1>7 DEF Enumerated
  <2> QED BY <2>1, <2>2, <2>3, <1>4, <1>5, <1>7
<1> QED BY <1>2, <1>6, <1>7 DEF Enumerated

LEMMA RecordType ==
  ASSUME NEW a \in Accounts, NEW b \in BOOLEAN, NEW c \in BOOLEAN
  PROVE  Record(a, b, c) \in Records /\ Record(a, b, c).stored
                /\ Record(a, b, c).storedOnChain = b /\ Record(a, b, c).submitter = {a}
BY DEF Record, Records

LEMMA RegistryInitInv == RegistryInit => RegistryInv
<1> SUFFICES ASSUME RegistryInit PROVE RegistryInv
  OBVIOUS
<1>1. NoRecord \in Records /\ ~NoRecord.stored /\ ~NoRecord.storedOnChain
  BY DEF NoRecord, Records
<1>2. RegistryTypeOK
  BY <1>1 DEF RegistryInit, RegistryTypeOK
<1>3. Enumerated
  BY <1>1 DEF RegistryInit, Enumerated, verifyReport
<1>4. TextsKept
  BY <1>1 DEF RegistryInit, TextsKept, verifyReport, getStoredJson
<1> QED BY <1>2, <1>3, <1>4 DEF RegistryInv

\* What every store function does: it files a record of the caller under a
\* hash that had none, with the text or without.
Files(a, h, r, t) ==
  /\ Put(h, r)
  /\ r \in Records /\ r.stored /\ r.submitter = {a}
  /\ \/ ~r.storedOnChain /\ t = <<>> /\ UNCHANGED storedJsons
     \/ /\ r.storedOnChain
        /\ \E j \in Jsons : h = keccak256[j] /\ t = <<j>>
        /\ storedJsons' = [storedJsons EXCEPT ![h] = t]

LEMMA StoreFiles ==
  ASSUME NEW a \in Accounts, Store(a)
  PROVE  \E h \in Hashes, r \in Records, t \in {<<>>} \cup {<<j>> : j \in Jsons} :
           Files(a, h, r, t)
<1>0. keccak256 \in [Jsons -> Hashes]
  BY HashAssumption
<1>1. ASSUME NEW h \in Hashes, storeReportHash(a, h) \/ storeReportIpfs(a, h)
      PROVE  Files(a, h, Record(a, FALSE, FALSE), <<>>) \/ Files(a, h, Record(a, FALSE, TRUE), <<>>)
  BY <1>1, RecordType DEF Files, storeReportHash, storeReportIpfs
<1>2. ASSUME NEW j \in Jsons, storeReportJSON(a, j)
      PROVE  Files(a, keccak256[j], Record(a, FALSE, FALSE), <<>>)
  BY <1>2, RecordType DEF Files, storeReportJSON
<1>3. ASSUME NEW j \in Jsons, storeReportOnChain(a, j)
      PROVE  Files(a, keccak256[j], Record(a, TRUE, FALSE), <<j>>)
  BY <1>3, RecordType DEF Files, storeReportOnChain
<1>4. CASE \E h \in Hashes : storeReportHash(a, h) \/ storeReportIpfs(a, h)
  BY <1>1, <1>4, RecordType
<1>5. CASE \E j \in Jsons : storeReportJSON(a, j) \/ storeReportOnChain(a, j)
  BY <1>0, <1>2, <1>3, <1>5, RecordType
<1> QED BY <1>4, <1>5 DEF Store

LEMMA FilesInv ==
  ASSUME RegistryInv, NEW a \in Accounts, NEW h \in Hashes, NEW r \in Records,
         NEW t \in {<<>>} \cup {<<j>> : j \in Jsons}, Files(a, h, r, t)
  PROVE  /\ RegistryInv'
         /\ \A g \in Hashes : g # h => reports'[g] = reports[g] /\ storedJsons'[g] = storedJsons[g]
         /\ storedJsons[h] = <<>> /\ storedJsons'[h] = t
         /\ reports'[h] = r
<1> USE DEF RegistryInv
<1>0. Put(h, r) /\ r.stored
  BY DEF Files
<1>1. /\ ~reports[h].stored
      /\ reports' \in [Hashes -> Records]
      /\ \A g \in Hashes : reports'[g] = IF g = h THEN r ELSE reports[g]
      /\ reportHashes' \in Seq(Hashes)
  BY <1>0, PutEffect
<1>2. Enumerated'
  BY <1>0, PutEnumerated
<1>3. storedJsons[h] = <<>>
  BY <1>1 DEF TextsKept, verifyReport, getStoredJson, RegistryTypeOK
<1>4. /\ storedJsons' \in [Hashes -> {<<>>} \cup {<<j>> : j \in Jsons}]
      /\ storedJsons'[h] = t
      /\ \A g \in Hashes : g # h => storedJsons'[g] = storedJsons[g]
  BY <1>3 DEF Files, RegistryTypeOK
<1>5. RegistryTypeOK'
  BY <1>1, <1>4 DEF RegistryTypeOK
<1>6. ASSUME NEW g \in Hashes
      PROVE  /\ reports'[g].storedOnChain <=> storedJsons'[g] # <<>>
             /\ \A j \in Jsons : storedJsons'[g] = <<j>> => keccak256[j] = g /\ reports'[g].stored
  <2>1. CASE g # h
    BY <2>1, <1>1, <1>4 DEF TextsKept, verifyReport, getStoredJson
  <2>0. \A j \in Jsons : <<j>> # <<>>
    OBVIOUS
  <2>2. CASE g = h /\ ~r.storedOnChain
    <3>1. t = <<>>
      BY <2>2 DEF Files
    <3> QED BY <2>0, <2>2, <3>1, <1>1, <1>4
  <2>3. CASE g = h /\ r.storedOnChain
    <3>1. PICK j \in Jsons : h = keccak256[j] /\ t = <<j>>
      BY <2>3 DEF Files
    <3>2. \A k \in Jsons : <<k>> = <<j>> => k = j
      OBVIOUS
    <3> QED BY <2>0, <2>3, <3>1, <3>2, <1>0, <1>1, <1>4
  <2> QED BY <2>1, <2>2, <2>3
<1>7. TextsKept'
  BY <1>6 DEF TextsKept, verifyReport, getStoredJson
<1> QED BY <1>1, <1>2, <1>3, <1>4, <1>5, <1>7

-----------------------------------------------------------------------------
(* Every step of the certificates is one call to the contract, or none.    *)

LEMMA StepRegistry ==
  ASSUME TypeOK, [Next]_vars
  PROVE  UNCHANGED registry \/ \E a \in Accounts : Store(a)
<1> USE DEF vars, chain, files, registry
<1>1. CASE \E id \in Ids : Sign(id) \/ Generate(id) \/ Verify(id)
  BY <1>1 DEF Sign, Generate, Verify, Lookup, Build, Send, RpcRaises, Received, Timeout,
              WritePdf, WriteJson
<1>2. ASSUME NEW tx \in pool, Execute(tx) \/ Drop(tx)
      PROVE  UNCHANGED registry \/ \E a \in Accounts : Store(a)
  <2>1. Text[tx.id] \in Jsons
    BY TextAssumption DEF TypeOK
  <2> QED BY <1>2, <2>1, CertificateAssumption DEF Execute, Drop, Store
<1>3. CASE Foreign
  BY <1>3 DEF Foreign
<1>4. CASE UNCHANGED vars
  BY <1>4
<1> QED BY <1>1, <1>2, <1>3, <1>4 DEF Next

LEMMA StepRegistryInv ==
  ASSUME RegistryInv, TypeOK, [Next]_vars
  PROVE  RegistryInv'
<1>1. CASE UNCHANGED registry
  BY <1>1 DEF registry, RegistryInv, RegistryTypeOK, Enumerated, TextsKept, verifyReport,
              getStoredJson
<1>2. CASE \E a \in Accounts : Store(a)
  BY <1>2, StoreFiles, FilesInv
<1> QED BY <1>1, <1>2, StepRegistry

\* The pool, the generators and their files keep their types.
LEMMA StepType ==
  ASSUME TypeOK, RegistryTypeOK', [Next]_vars
  PROVE  TypeOK'
<1> USE DEF TypeOK, vars, chain, files, registry
<1>0. \A id \in Ids : /\ \A to \in Phases : Goto(id, to) => pc' \in [Ids -> Phases]
                      /\ "wait" \in Phases /\ "send" \in Phases /\ "build" \in Phases
                      /\ "pdf" \in Phases /\ "json" \in Phases /\ "done" \in Phases
                      /\ "anchor" \in Phases
  BY DEF Goto, Phases
<1>00. \A id \in Ids, r \in {"stored", "exists", "failed"} : Answer(id, r) =>
         pc' \in [Ids -> Phases] /\ result' \in [Ids -> {"none", "stored", "exists", "failed"}]
  BY <1>0 DEF Answer
<1>1. ASSUME NEW id \in Ids, Sign(id) PROVE TypeOK'
  BY <1>0, <1>1 DEF Sign
<1>2. ASSUME NEW id \in Ids, Lookup(id) PROVE TypeOK'
  BY <1>0, <1>00, <1>2 DEF Lookup
<1>3. ASSUME NEW id \in Ids, Build(id) PROVE TypeOK'
  BY <1>0, <1>3 DEF Build
<1>4. ASSUME NEW id \in Ids, Send(id) PROVE TypeOK'
  <2>1. pool' \in SUBSET [nonce : Nat, id : Ids]
    BY <1>4 DEF Send, Accept
  <2> QED BY <1>0, <1>00, <1>4, <2>1 DEF Send
<1>5. ASSUME NEW id \in Ids, RpcRaises(id) \/ Received(id) \/ Timeout(id) PROVE TypeOK'
  BY <1>00, <1>5 DEF RpcRaises, Received, Timeout
<1>6. ASSUME NEW id \in Ids, WritePdf(id) \/ WriteJson(id) \/ Verify(id) PROVE TypeOK'
  BY <1>0, <1>6 DEF WritePdf, WriteJson, Verify, says
<1>7. ASSUME NEW tx \in pool, Execute(tx) PROVE TypeOK'
  <2>1. mined' \in Nat /\ pool' \in SUBSET [nonce : Nat, id : Ids]
    BY <1>7 DEF Execute
  <2>2. receipt' \in [Ids -> {"none", "ok", "reverted"}]
    BY <1>7 DEF Execute
  <2> QED BY <1>7, <2>1, <2>2 DEF Execute
<1>8. ASSUME NEW tx \in pool, Drop(tx) PROVE TypeOK'
  BY <1>8 DEF Drop
<1>9. CASE Foreign
  BY <1>9, CertificateAssumption DEF Foreign
<1>10. CASE UNCHANGED vars
  BY <1>10
<1> QED BY <1>1, <1>2, <1>3, <1>4, <1>5, <1>6, <1>7, <1>8, <1>9, <1>10 DEF Next, Generate

LEMMA InitInv == Init => TypeOK /\ RegistryInv
<1> SUFFICES ASSUME Init PROVE TypeOK /\ RegistryInv
  OBVIOUS
<1>1. RegistryInv
  BY RegistryInitInv DEF Init
<1> QED BY <1>1, CertificateAssumption DEF Init, TypeOK, RegistryInv, Phases

(* The variables keep their types: for every set of reports, accounts and   *)
(* hashes.                                                                  *)
THEOREM Types == Spec => []TypeOK
<1>1. Init => TypeOK /\ RegistryInv
  BY InitInv
<1>2. TypeOK /\ RegistryInv /\ [Next]_vars => (TypeOK /\ RegistryInv)'
  BY StepRegistryInv, StepType DEF RegistryInv
<1> QED BY <1>1, <1>2, PTL DEF Spec

(* The contract enumerates exactly what it knows, each hash once, whatever  *)
(* generators, node and other users do.                                     *)
THEOREM RegistryEnumerates == Spec => []Enumerated
<1>1. Init => TypeOK /\ RegistryInv
  BY InitInv
<1>2. TypeOK /\ RegistryInv /\ [Next]_vars => (TypeOK /\ RegistryInv)'
  BY StepRegistryInv, StepType DEF RegistryInv
<1>3. RegistryInv => Enumerated
  BY DEF RegistryInv
<1> QED BY <1>1, <1>2, <1>3, PTL DEF Spec

(* A text is kept exactly where the record says so, under its own hash.     *)
THEOREM RegistryKeepsTexts == Spec => []TextsKept
<1>1. Init => TypeOK /\ RegistryInv
  BY InitInv
<1>2. TypeOK /\ RegistryInv /\ [Next]_vars => (TypeOK /\ RegistryInv)'
  BY StepRegistryInv, StepType DEF RegistryInv
<1>3. RegistryInv => TextsKept
  BY DEF RegistryInv
<1> QED BY <1>1, <1>2, <1>3, PTL DEF Spec

-----------------------------------------------------------------------------
(* The registry is a write-once map.                                       *)

Filed == [h \in Hashes |->
            IF verifyReport(h) THEN <<reports[h], storedJsons[h]>> ELSE <<NoRecord, <<>>>>]
Entry == Records \X ({<<>>} \cup {<<j>> : j \in Jsons})

LEMMA StoreEnters ==
  ASSUME RegistryInv, NEW a \in Accounts, Store(a)
  PROVE  \E h \in Hashes, e \in Entry :
           Filed[h] = <<NoRecord, <<>>>> /\ e # <<NoRecord, <<>>>>
             /\ Filed' = [Filed EXCEPT ![h] = e]
<1>1. PICK h \in Hashes, r \in Records, t \in {<<>>} \cup {<<j>> : j \in Jsons} :
        Files(a, h, r, t)
  BY StoreFiles
<1>2. /\ \A g \in Hashes : g # h => reports'[g] = reports[g] /\ storedJsons'[g] = storedJsons[g]
      /\ storedJsons'[h] = t
      /\ reports'[h] = r
  BY <1>1, FilesInv
<1>3. ~reports[h].stored /\ r.stored
  BY <1>1 DEF Files, Put
<1>4. <<r, t>> \in Entry /\ <<r, t>> # <<NoRecord, <<>>>>
  BY <1>3 DEF NoRecord, Entry
<1>5. Filed[h] = <<NoRecord, <<>>>>
  BY <1>3 DEF Filed, verifyReport
<1>6. \A g \in Hashes : Filed'[g] = IF g = h THEN <<r, t>> ELSE Filed[g]
  BY <1>2, <1>3 DEF Filed, verifyReport
<1>7. Filed' = [Filed EXCEPT ![h] = <<r, t>>]
  BY <1>6 DEF Filed
<1> QED BY <1>4, <1>5, <1>7

(* What the contract answered about a stored hash it answers for ever.      *)
THEOREM RegistryIsWriteOnce == Spec => IsWriteOnce
<1>1. Init => TypeOK /\ RegistryInv
  BY InitInv
<1>2. TypeOK /\ RegistryInv /\ [Next]_vars => (TypeOK /\ RegistryInv)'
  BY StepRegistryInv, StepType DEF RegistryInv
<1>3. Init => Book!Init
  <2> SUFFICES ASSUME Init PROVE Book!Init
    OBVIOUS
  <2>1. \A h \in Hashes : ~verifyReport(h)
    BY DEF Init, RegistryInit, verifyReport, NoRecord
  <2> QED BY <2>1 DEF Book!Init
<1>4. ASSUME TypeOK, RegistryInv, [Next]_vars
      PROVE  [Book!Next]_Filed
  <2>1. CASE UNCHANGED registry
    BY <2>1 DEF registry, Filed, verifyReport
  <2>2. CASE \E a \in Accounts : Store(a)
    BY <1>4, <2>2, StoreEnters DEF Book!Next, Book!Enter, Filed, Entry
  <2> QED BY <1>4, <2>1, <2>2, StepRegistry
<1>5. TypeOK /\ RegistryInv /\ [Next]_vars => [Book!Next]_Filed
  BY <1>4
<1> QED BY <1>1, <1>2, <1>3, <1>5, PTL DEF Spec, IsWriteOnce, Book!Spec, Filed

-----------------------------------------------------------------------------
(* What the certificates say of the chain.  A result is "stored" only after *)
(* a receipt that says ok, and a receipt says ok only if the text is there. *)

Held(id) ==
  /\ reports[Key[id]].stored /\ reports[Key[id]].submitter = {Account}
  /\ storedJsons[Key[id]] = <<Text[id]>>

Evidence(id) ==
  /\ receipt[id] = "ok" => Held(id)
  /\ result[id] = "stored" => Held(id)
  /\ result[id] = "exists" => reports[Key[id]].stored
  /\ qr[id] = "verified" => reports[Key[id]].stored

AnchorInv == \A id \in Ids : Evidence(id)

LEMMA KeyType == \A id \in Ids : Text[id] \in Jsons /\ Key[id] \in Hashes /\ Key[id] = keccak256[Text[id]]
BY TextAssumption, HashAssumption DEF Key

\* A call to the contract takes nothing of this away.
LEMMA StoreKeepsEvidence ==
  ASSUME TypeOK, RegistryInv, NEW a \in Accounts, Store(a), NEW id \in Ids
  PROVE  /\ reports[Key[id]].stored => reports'[Key[id]].stored
         /\ Held(id) => Held(id)'
<1>1. PICK h \in Hashes, r \in Records, t \in {<<>>} \cup {<<j>> : j \in Jsons} :
        Files(a, h, r, t)
  BY StoreFiles
<1>2. \A g \in Hashes : g # h => reports'[g] = reports[g] /\ storedJsons'[g] = storedJsons[g]
  BY <1>1, FilesInv
<1>3. ~reports[h].stored
  BY <1>1 DEF Files, Put
<1> QED BY <1>2, <1>3, KeyType DEF Held

LEMMA AnchorStep ==
  ASSUME TypeOK, RegistryInv, AnchorInv, [Next]_vars
  PROVE  AnchorInv'
<1> USE DEF AnchorInv, Evidence
<1>0. UNCHANGED registry => \A id \in Ids : Held(id)' <=> Held(id)
  BY DEF Held, registry
<1>1. ASSUME NEW id \in Ids, Sign(id) \/ Build(id) \/ Send(id) \/ RpcRaises(id)
                               \/ Timeout(id) \/ WriteJson(id) \/ Verify(id)
      PROVE  AnchorInv'
  BY <1>0, <1>1 DEF Sign, Build, Send, RpcRaises, Timeout, WriteJson, Verify, Answer, TypeOK,
                    chain, files, registry
<1>2. ASSUME NEW id \in Ids, Lookup(id) PROVE AnchorInv'
  BY <1>0, <1>2 DEF Lookup, Answer, verifyReport, TypeOK, chain, files, registry
<1>3. ASSUME NEW id \in Ids, Received(id) PROVE AnchorInv'
  BY <1>0, <1>3 DEF Received, Answer, TypeOK, chain, files, registry
<1>4. ASSUME NEW id \in Ids, WritePdf(id) PROVE AnchorInv'
  <2>1. result[id] \in {"stored", "exists"} => reports[Key[id]].stored
    BY DEF Held
  <2> QED BY <1>0, <1>4, <2>1 DEF WritePdf, says, TypeOK, chain, files, registry
<1>5. ASSUME NEW tx \in pool, Execute(tx) PROVE AnchorInv'
  <2>1. CASE UNCHANGED registry /\ receipt' = [receipt EXCEPT ![tx.id] = "reverted"]
    BY <1>0, <1>5, <2>1 DEF Execute, TypeOK, files, registry
  <2>2. CASE /\ storeReportOnChain(Account, Text[tx.id])
             /\ receipt' = [receipt EXCEPT ![tx.id] = "ok"]
    <3>1. tx.id \in Ids
      BY DEF TypeOK
    <3>2. Store(Account)
      BY <2>2, <3>1, KeyType DEF Store
    <3>3. Held(tx.id)'
      BY <2>2, <3>1, KeyType, CertificateAssumption
         DEF storeReportOnChain, Put, Record, Held, RegistryInv, RegistryTypeOK
    <3>4. \A id \in Ids : /\ reports[Key[id]].stored => reports'[Key[id]].stored
                          /\ Held(id) => Held(id)'
      BY <3>2, StoreKeepsEvidence, CertificateAssumption
    <3> QED BY <1>5, <2>2, <3>1, <3>3, <3>4 DEF Execute, TypeOK, files
  <2> QED BY <1>5, <2>1, <2>2 DEF Execute
<1>6. ASSUME NEW tx \in pool, Drop(tx) PROVE AnchorInv'
  BY <1>0, <1>6 DEF Drop, files, registry
<1>7. CASE Foreign
  <2>1. \A id \in Ids : /\ reports[Key[id]].stored => reports'[Key[id]].stored
                        /\ Held(id) => Held(id)'
    BY <1>7, StoreKeepsEvidence DEF Foreign
  <2> QED BY <1>7, <2>1 DEF Foreign, files
<1>8. CASE UNCHANGED vars
  BY <1>0, <1>8 DEF vars, chain, files, registry
<1> QED BY <1>1, <1>2, <1>3, <1>4, <1>5, <1>6, <1>7, <1>8 DEF Next, Generate

(* A certificate, a QR image and a result that say that the report is on    *)
(* the chain are right, for any number of generators and other users.       *)
THEOREM CertificatesAnchored == Spec => []Anchored
<1>1. Init => TypeOK /\ RegistryInv /\ AnchorInv
  BY InitInv DEF Init, AnchorInv, Evidence
<1>2. TypeOK /\ RegistryInv /\ AnchorInv /\ [Next]_vars => (TypeOK /\ RegistryInv /\ AnchorInv)'
  BY StepRegistryInv, StepType, AnchorStep DEF RegistryInv
<1>3. AnchorInv => Anchored
  BY DEF AnchorInv, Evidence, Anchored, Held, verifyReport, getStoredJson
<1> QED BY <1>1, <1>2, <1>3, PTL DEF Spec

-----------------------------------------------------------------------------
(* What is read back from a JSON certificate.                              *)

\* The hash of a signed report is that of its content, and survives the
\* conversion to the file and back.
LEMMA FileReadBack ==
  ASSUME NEW id \in Ids
  PROVE  LET r == from_dict(File[id]) IN
           /\ r.certificate_hash = <<calculate_report_hash(r)>>
           /\ success_status(r) = File[id].results.success_status
<1> DEFINE c == Content[id]
           h == calculate_report_hash(c)
           s == sign(c)
           r == from_dict(to_dict(s))
<1>1. /\ c = WipeReportOf(c.report_id, c.path, c.algorithm_used, c.total_bytes_written,
                          c.pass_results, c.verification_result)
      /\ c.verification_result \in {<<>>, Verified(TRUE), Verified(FALSE)}
  BY CertificateAssumption
<1>2. File[id] = to_dict(s)
  BY DEF File, Report
<1> HIDE DEF c
<1>3. /\ s.report_id = c.report_id /\ s.serial = c.serial /\ s.algorithm_used = c.algorithm_used
      /\ s.total_bytes_written = c.total_bytes_written /\ s.success = c.success
      /\ s.pass_results = c.pass_results /\ s.verification_result = c.verification_result
      /\ s.certificate_hash = <<h>>
  BY <1>1 DEF sign, WipeReportOf
<1> HIDE DEF s, h
<1>4. /\ r.report_id = s.report_id /\ r.serial = s.serial /\ r.algorithm_used = s.algorithm_used
      /\ r.total_bytes_written = s.total_bytes_written /\ r.success = s.success
      /\ r.pass_results = s.pass_results
  BY DEF from_dict, to_dict
<1>5. r.verification_result = s.verification_result
  <2> DEFINE v == s.verification_result
             vt == to_dict(s).verification.verification_type
             ps == to_dict(s).verification.passed
  <2>1. v \in {<<>>, Verified(TRUE), Verified(FALSE)}
    BY <1>1, <1>3
  <2>2. vt = [i \in DOMAIN v |-> v[i].verification_type]
    BY DEF to_dict
  <2>3. ps = [i \in DOMAIN v |-> v[i].passed]
    BY DEF to_dict
  <2>4. r.verification_result
          = [i \in DOMAIN vt |-> [verification_type |-> vt[i], passed |-> ps[i]]]
    BY DEF from_dict
  <2> HIDE DEF v, vt, ps, r
  <2>5. ASSUME v = <<>> PROVE r.verification_result = v
    BY <2>2, <2>4, <2>5
  <2>6. ASSUME NEW b \in BOOLEAN, v = Verified(b)
        PROVE  r.verification_result = v
    BY <2>2, <2>3, <2>4, <2>6 DEF Verified
  <2> QED BY <2>1, <2>5, <2>6 DEF v
<1>6. r.certificate_hash = <<h>>
  BY <1>3 DEF from_dict, to_dict
<1>7. to_dict(s).results.success_status = success_status(s)
  BY DEF to_dict
<1> HIDE DEF r
<1>8. calculate_report_hash(r) = h
  BY <1>3, <1>4, <1>5 DEF calculate_report_hash, CoreData, h
<1>9. success_status(r) = success_status(s)
  BY <1>4, <1>5 DEF success_status
<1> QED
  BY <1>2, <1>6, <1>7, <1>8, <1>9 DEF r

(* For every report: the hash in a JSON certificate is that of the report   *)
(* which is read back from it, with its verdict, although the file keeps    *)
(* the verification in another form (report.py:176-195, 197-285, 288-390).  *)
THEOREM CertificatesReadBack == Spec => []ReadBack
<1>1. ReadBack
  BY FileReadBack DEF ReadBack
<1> QED
  BY <1>1, PTL
=============================================================================
