--------------------------- MODULE ReportRegistry ---------------------------
(***************************************************************************)
(* The contract ReportRegistryWithJson.sol: its storage, and one action    *)
(* for each of its four store functions; a call whose require fails is     *)
(* reverted and changes nothing, so it is no step.  Anyone may call.       *)
(*                                                                         *)
(* bytes32 values and JSON texts are values of two sets; keccak256 maps    *)
(* the one into the other.  block.timestamp is never 0, and all that the   *)
(* contract asks of a timestamp is whether it is: field stored.  The       *)
(* submitter is a set of at most one caller; {} is address(0).             *)
(***************************************************************************)
EXTENDS Naturals, Sequences

CONSTANTS
  Hashes,     \* the bytes32 values in use, none of them zero
  Jsons,      \* the report texts in use, none of them empty
  keccak256,  \* the hash of a text
  Accounts    \* callers

ASSUME HashAssumption == keccak256 \in [Jsons -> Hashes]

VARIABLES
  reports,      \* mapping hash -> ReportRecord
  storedJsons,  \* mapping hash -> the text, as a sequence of at most one
  reportHashes  \* the enumerable list

registry == <<reports, storedJsons, reportHashes>>

Record(a, onChain, cid) ==
  [stored |-> TRUE, submitter |-> {a}, storedOnChain |-> onChain, ipfsCid |-> cid]
NoRecord ==
  [stored |-> FALSE, submitter |-> {}, storedOnChain |-> FALSE, ipfsCid |-> FALSE]
Records ==
  [stored : BOOLEAN, submitter : SUBSET Accounts, storedOnChain : BOOLEAN, ipfsCid : BOOLEAN]

RegistryTypeOK ==
  /\ reports \in [Hashes -> Records]
  /\ storedJsons \in [Hashes -> {<<>>} \cup {<<j>> : j \in Jsons}]
  /\ reportHashes \in Seq(Hashes)

RegistryInit ==
  /\ reports = [h \in Hashes |-> NoRecord]
  /\ storedJsons = [h \in Hashes |-> <<>>]
  /\ reportHashes = <<>>

\* Plausible bugs of Put: a hash may be stored again; or is not enumerated.
PutAgain(h, r) ==
  /\ reports' = [reports EXCEPT ![h] = r]
  /\ reportHashes' = Append(reportHashes, h)
PutUnlisted(h, r) ==
  /\ ~reports[h].stored
  /\ reports' = [reports EXCEPT ![h] = r]
  /\ reportHashes' = IF r.storedOnChain THEN Append(reportHashes, h) ELSE reportHashes

\* require(timestamp == 0, "already stored"); the mapping; the list
Put(h, r) ==
  /\ ~reports[h].stored
  /\ reports' = [reports EXCEPT ![h] = r]
  /\ reportHashes' = Append(reportHashes, h)

storeReportHash(a, h) == Put(h, Record(a, FALSE, FALSE)) /\ UNCHANGED storedJsons
storeReportJSON(a, j) == Put(keccak256[j], Record(a, FALSE, FALSE)) /\ UNCHANGED storedJsons

\* A plausible bug: the text is kept only where there was one.
storeReportTextless(a, j) ==
  /\ Put(keccak256[j], Record(a, TRUE, FALSE))
  /\ UNCHANGED storedJsons

storeReportOnChain(a, j) ==
  /\ Put(keccak256[j], Record(a, TRUE, FALSE))
  /\ storedJsons' = [storedJsons EXCEPT ![keccak256[j]] = <<j>>]

storeReportIpfs(a, h) == Put(h, Record(a, FALSE, TRUE)) /\ UNCHANGED storedJsons

\* The views.
verifyReport(h)  == reports[h].stored
getStoredJson(h) == storedJsons[h]

Store(a) ==
  \/ \E h \in Hashes : storeReportHash(a, h) \/ storeReportIpfs(a, h)
  \/ \E j \in Jsons : storeReportJSON(a, j) \/ storeReportOnChain(a, j)

RegistryNext == \E a \in Accounts : Store(a)
RegistrySpec == RegistryInit /\ [][RegistryNext]_registry

-----------------------------------------------------------------------------
(* getTotalReports and getReportHashByIndex enumerate exactly the hashes    *)
(* that verifyReport knows, each once, whichever of the four functions      *)
(* stored it (ReportRegistryWithJson.sol:47-140).                           *)
Enumerated ==
  /\ \A h \in Hashes : verifyReport(h) <=> \E i \in DOMAIN reportHashes : reportHashes[i] = h
  /\ \A i, k \in DOMAIN reportHashes : reportHashes[i] = reportHashes[k] => i = k

(* A record says that its text is on the chain exactly when the contract    *)
(* keeps one, and the text it keeps is the one whose hash the record is     *)
(* filed under: a later storeReportHash or storeReportJSON of the same      *)
(* hash can neither hide nor replace it (lines 51, 77, 104, 131).           *)
TextsKept ==
  \A h \in Hashes :
    /\ reports[h].storedOnChain <=> getStoredJson(h) # <<>>
    /\ \A j \in Jsons : getStoredJson(h) = <<j>> => keccak256[j] = h /\ verifyReport(h)

\* The contract as a map: what it answers about a hash.
Book == INSTANCE WriteOnce WITH
  Keys <- Hashes,
  Entries <- Records \X ({<<>>} \cup {<<j>> : j \in Jsons}),
  Nothing <- <<NoRecord, <<>>>>,
  book <- [h \in Hashes |->
    IF verifyReport(h) THEN <<reports[h], storedJsons[h]>> ELSE <<NoRecord, <<>>>>]

(* The registry is a write-once map: what it answered about a stored hash   *)
(* it answers for ever, whoever calls what.                                 *)
IsWriteOnce == Book!Spec
=============================================================================
