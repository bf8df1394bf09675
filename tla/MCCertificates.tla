--------------------------- MODULE MCCertificates ---------------------------
(* Certificates for TLC: two reports, of a wipe of the web service and of   *)
(* one of the command line whose verification failed.                       *)
EXTENDS Certificates

CONSTANTS r1, r2

MCContent ==
  [id \in Ids |-> IF id = r1
     THEN WipeReportOf(id, "sda", "NIST", 2, <<>>, <<>>)
     ELSE WipeReportOf(id, "sdb", "DoD", 2,
            <<[pass_number |-> 1, bytes_written |-> 2, success |-> TRUE]>>, Verified(FALSE))]

MCTexts  == {chain_json([MCContent[id] EXCEPT
               !.certificate_hash = <<calculate_report_hash(MCContent[id])>>]) : id \in Ids}
MCKeccak == [j \in MCTexts |-> <<"keccak256", j.report_id>>]
MCHashes == {MCKeccak[j] : j \in MCTexts}
=============================================================================
