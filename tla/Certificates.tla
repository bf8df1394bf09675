---------------------------- MODULE Certificates ----------------------------
(***************************************************************************)
(* CertificateGenerator.generate_certificate, one generator per report:    *)
(* signing, the anchoring on the chain by BlockchainCertificateStore, the  *)
(* QR image, the PDF and the JSON file; and verify_certificate.  The       *)
(* generators are the pool threads of the web service and command lines    *)
(* that run beside it: all of them send from one account, and what they    *)
(* share is the chain.                                                     *)
(*                                                                         *)
(* The node, its pool of transactions and other users of the contract are  *)
(* external, and modelled from what blockchain.py asks of them: a pool     *)
(* holds one transaction per nonce of an account, executes them in the     *)
(* order of their nonces, and may drop one that waits.                     *)
(***************************************************************************)
EXTENDS ReportRegistry, WipeReport

CONSTANTS
  Ids,         \* report ids; a uuid is never used twice
  Content,     \* the report of an id, unsigned
  Account,     \* the account of the configured private key
  MaxForeign   \* bound: calls of other accounts to the contract

ASSUME CertificateAssumption ==
  /\ Account \in Accounts
  /\ MaxForeign \in Nat
  /\ \A id \in Ids : LET c == Content[id] IN
       /\ c = WipeReportOf(c.report_id, c.path, c.algorithm_used, c.total_bytes_written,
                           c.pass_results, c.verification_result)
       /\ c.verification_result \in {<<>>, Verified(TRUE), Verified(FALSE)}

VARIABLES
  pc,        \* what the generator of a report does next
  nonce,     \* the transaction count it read
  pool,      \* transactions that wait: [nonce, id]
  mined,     \* transactions of the account that were executed
  receipt,   \* status of the receipt of its transaction
  result,    \* blockchain_result: "none", or what store_certificate answered
  qr,        \* does the QR image say verified, and is there one?
  json,      \* is there a JSON file?
  verdict,   \* what verify_certificate and the endpoint answered about the file
  foreign    \* calls of others so far

chain == <<pool, mined, receipt, registry, foreign>>
files == <<qr, json, verdict>>
vars  == <<pc, nonce, result, chain, files>>

Phases == {"idle", "anchor", "build", "send", "wait", "pdf", "json", "done"}

-----------------------------------------------------------------------------
(* The signer (certificate/signature.py): what is signed is a payload that  *)
(* holds the data, what is verified is the data.                            *)

payload(data) == [data |-> data, timestamp |-> "now"]
create_timestamped_signature(data) == [over |-> payload(data)]
verify_signature(data, signature) == signature.over = data

\* _sign_report
sign(r) ==
  [r EXCEPT !.digital_signature = <<create_timestamped_signature(calculate_report_hash(r))>>,
            !.certificate_hash = <<calculate_report_hash(r)>>]

\* The signed reports, their compact texts, and the keys of these.
Report == [id \in Ids |-> sign(Content[id])]
Text   == [id \in Ids |-> chain_json(Report[id])]
Key    == [id \in Ids |-> keccak256[Text[id]]]

ASSUME TextAssumption == Text \in [Ids -> Jsons]

-----------------------------------------------------------------------------
TypeOK ==
  /\ RegistryTypeOK
  /\ pc \in [Ids -> Phases]
  /\ nonce \in [Ids -> Nat]
  /\ pool \in SUBSET [nonce : Nat, id : Ids]
  /\ mined \in Nat
  /\ receipt \in [Ids -> {"none", "ok", "reverted"}]
  /\ result \in [Ids -> {"none", "stored", "exists", "failed"}]
  /\ qr \in [Ids -> {"none", "plain", "verified"}]
  /\ json \in [Ids -> BOOLEAN]
  /\ verdict \in [Ids -> {"none", "valid", "invalid"}]
  /\ foreign \in 0..MaxForeign

Init ==
  /\ RegistryInit
  /\ pc = [id \in Ids |-> "idle"]
  /\ nonce = [id \in Ids |-> 0]
  /\ pool = {}
  /\ mined = 0
  /\ receipt = [id \in Ids |-> "none"]
  /\ result = [id \in Ids |-> "none"]
  /\ qr = [id \in Ids |-> "none"]
  /\ json = [id \in Ids |-> FALSE]
  /\ verdict = [id \in Ids |-> "none"]
  /\ foreign = 0

-----------------------------------------------------------------------------
Goto(id, to) == pc' = [pc EXCEPT ![id] = to]

\* The generator has its blockchain_result and goes on to the files.
Answer(id, r) == Goto(id, "pdf") /\ result' = [result EXCEPT ![id] = r]

-----------------------------------------------------------------------------
(* Plausible bugs, each a variant of the definition whose name it extends.  *)

\* That the transaction was sent is taken for success.
TimeoutStored(id) ==
  /\ pc[id] = "wait" /\ receipt[id] = "none"
  /\ Answer(id, "stored")
  /\ UNCHANGED <<nonce, chain, files>>

\* The count is of the last transaction, not of the next one.
BuildLast(id) ==
  /\ pc[id] = "build"
  /\ nonce' = [nonce EXCEPT ![id] = mined - 1]
  /\ Goto(id, "send")
  /\ UNCHANGED <<result, chain, files>>

\* After a timeout the transaction is built and sent again.
TimeoutAgain(id) ==
  /\ pc[id] = "wait"
  /\ Goto(id, "build")
  /\ UNCHANGED <<result, nonce, chain, files>>

-----------------------------------------------------------------------------
(* store_certificate.                                                       *)

\* The report is signed; then the chain is used, or not: no connectivity, not
\* configured, switched off, or the connection raises, which is caught.
Sign(id) ==
  /\ pc[id] = "idle"
  /\ \E to \in {"anchor", "pdf"} : Goto(id, to)
  /\ UNCHANGED <<nonce, result, chain, files>>

\* verifyReport; an error of this call is passed over.
Lookup(id) ==
  /\ pc[id] = "anchor"
  /\ \/ verifyReport(Key[id]) /\ Answer(id, "exists")
     \/ Goto(id, "build") /\ UNCHANGED result
  /\ UNCHANGED <<nonce, chain, files>>

\* get_transaction_count: what was executed, not what waits.
Build(id) ==
  /\ pc[id] = "build"
  /\ nonce' = [nonce EXCEPT ![id] = mined]
  /\ Goto(id, "send")
  /\ UNCHANGED <<result, chain, files>>

\* The pool takes a transaction whose nonce was not executed, in the place of
\* one with the same nonce if it pays more.
Accept(id) ==
  /\ nonce[id] >= mined
  /\ pool' = {tx \in pool : tx.nonce # nonce[id]} \cup {[nonce |-> nonce[id], id |-> id]}

\* send_raw_transaction; its answer may be lost.
Send(id) ==
  /\ pc[id] = "send"
  /\ Accept(id)
  /\ \/ Goto(id, "wait") /\ UNCHANGED result
     \/ Answer(id, "failed")
  /\ UNCHANGED <<nonce, mined, receipt, registry, foreign, files>>

\* A call of the node raises, or it rejects the transaction.
RpcRaises(id) ==
  /\ pc[id] \in {"build", "send"}
  /\ Answer(id, "failed")
  /\ UNCHANGED <<nonce, chain, files>>

\* wait_for_transaction_receipt, with its status.
Received(id) ==
  /\ pc[id] = "wait" /\ receipt[id] # "none"
  /\ Answer(id, IF receipt[id] = "ok" THEN "stored" ELSE "failed")
  /\ UNCHANGED <<nonce, chain, files>>

\* 300 seconds have passed, or the wait raises.
Timeout(id) ==
  /\ pc[id] = "wait"
  /\ Answer(id, "failed")
  /\ UNCHANGED <<nonce, chain, files>>

-----------------------------------------------------------------------------
(* The files.                                                               *)

\* _generate_qr_data, which carries the anchor only of a successful result.
says(id) == IF result[id] \in {"stored", "exists"} THEN "verified" ELSE "plain"

\* The PDF and, on the way, the QR image: either may fail, which is caught, and
\* the image is there even if the PDF is not.
WritePdf(id) ==
  /\ pc[id] = "pdf"
  /\ qr' \in {qr, [qr EXCEPT ![id] = says(id)]}
  /\ Goto(id, "json")
  /\ UNCHANGED <<nonce, result, chain, json, verdict>>

\* What _generate_json_certificate writes.
File == [id \in Ids |-> to_dict(Report[id])]

WriteJson(id) ==
  /\ pc[id] = "json"
  /\ \/ json' = [json EXCEPT ![id] = TRUE]
     \/ UNCHANGED json
  /\ Goto(id, "done")
  /\ UNCHANGED <<nonce, result, chain, qr, verdict>>

\* verify_certificate of a generated file.
Verify(id) ==
  /\ pc[id] = "done" /\ json[id] /\ verdict[id] = "none"
  /\ LET r == from_dict(File[id]) IN
       verdict' = [verdict EXCEPT ![id] =
         IF verify_signature(r.certificate_hash[1], r.digital_signature[1])
         THEN "valid" ELSE "invalid"]
  /\ UNCHANGED <<pc, nonce, result, chain, qr, json>>

-----------------------------------------------------------------------------
(* The chain.                                                               *)

\* The next transaction of the account is executed; it is reverted if the
\* report is stored, and for want of gas, of which it has 500000 at most.
Execute(tx) ==
  /\ tx \in pool /\ tx.nonce = mined
  /\ \/ /\ storeReportOnChain(Account, Text[tx.id])
        /\ receipt' = [receipt EXCEPT ![tx.id] = "ok"]
     \/ /\ receipt' = [receipt EXCEPT ![tx.id] = "reverted"]
        /\ UNCHANGED registry
  /\ mined' = mined + 1
  /\ pool' = pool \ {tx}
  /\ UNCHANGED <<pc, nonce, result, foreign, files>>

Drop(tx) ==
  /\ tx \in pool
  /\ pool' = pool \ {tx}
  /\ UNCHANGED <<pc, nonce, result, mined, receipt, registry, foreign, files>>

\* Somebody else calls the contract, whose functions are public.
Foreign ==
  /\ foreign < MaxForeign
  /\ foreign' = foreign + 1
  /\ \E a \in Accounts \ {Account} : Store(a)
  /\ UNCHANGED <<pc, nonce, result, pool, mined, receipt, files>>

-----------------------------------------------------------------------------
Generate(id) ==
  \/ Lookup(id) \/ Build(id) \/ Send(id) \/ RpcRaises(id) \/ Received(id) \/ Timeout(id)
  \/ WritePdf(id) \/ WriteJson(id)

Next ==
  \/ \E id \in Ids : Sign(id) \/ Generate(id) \/ Verify(id)
  \/ \E tx \in pool : Execute(tx) \/ Drop(tx)
  \/ Foreign

\* A generator goes on, if only because its waiting times out; neither the
\* chain nor anybody else has to do anything.
Spec     == Init /\ [][Next]_vars
FairSpec == Spec /\ \A id \in Ids : WF_vars(Generate(id))

-----------------------------------------------------------------------------
(* Properties.                                                             *)

(* What a certificate says of the chain is so: a result that was a success  *)
(* and a QR image that says verified mean that the contract knows the       *)
(* report, and a report that was stored is there with its text, from our    *)
(* account; although transactions are replaced, dropped, reverted and       *)
(* overtaken by those of other users (blockchain.py:204-275,                *)
(* generator.py:187-195).                                                   *)
Anchored ==
  \A id \in Ids :
    /\ result[id] \in {"stored", "exists"} \/ qr[id] = "verified" => verifyReport(Key[id])
    /\ result[id] = "stored" =>
         getStoredJson(Key[id]) = <<Text[id]>> /\ reports[Key[id]].submitter = {Account}

(* The report that verification reads back from a JSON certificate is the   *)
(* one that was signed: its hash, computed again, is the one in the file    *)
(* (report.py:176-195, 197-285, 288-390).                                   *)
ReadBack ==
  \A id \in Ids : json[id] =>
    LET r == from_dict(File[id]) IN
      /\ r.certificate_hash = <<calculate_report_hash(r)>>
      /\ success_status(r) = File[id].results.success_status

(* Whatever the chain and its node do, a generation that was begun comes to *)
(* its end and the wipe's thread is free again: every wait is bounded.      *)
GenerationEnds == \A id \in Ids : pc[id] = "anchor" ~> pc[id] = "done"

-----------------------------------------------------------------------------
(* What the repository says and the code does not do.                      *)

(* "The digital signature ensures the authenticity and integrity of this    *)
(* certificate." (certificate/generator.py:452): a certificate that was     *)
(* generated verifies.                                                      *)
GenuineVerifies == \A id \in Ids : verdict[id] # "invalid"
=============================================================================
