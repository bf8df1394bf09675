------------------------------ MODULE WipeReport ------------------------------
(***************************************************************************)
(* The report of a wipe (certificate/report.py) and its conversions: the   *)
(* hash that is signed, the dictionary that a JSON certificate holds, the  *)
(* report that is read back from it, and the compact form that goes to the *)
(* chain (certificate/blockchain.py).  A value that may be None is a       *)
(* sequence of at most one element.  Hashes are the records of what they   *)
(* are the hash of, so that equal hashes mean equal contents.              *)
(***************************************************************************)
EXTENDS Sequences

\* The fields that calculate_report_hash reads, and those that are added when
\* the report is signed.
WipeReportOf(id, path, algorithm, written, passes, verification) ==
  [report_id |-> id, path |-> path, serial |-> <<path>>, algorithm_used |-> algorithm,
   total_bytes_written |-> written, success |-> TRUE, pass_results |-> passes,
   verification_result |-> verification, digital_signature |-> <<>>, certificate_hash |-> <<>>]

Verified(passed) == <<[verification_type |-> "pattern_check", passed |-> passed]>>

CoreData(r) ==
  [report_id |-> r.report_id, serial |-> r.serial, algorithm_used |-> r.algorithm_used,
   total_bytes_written |-> r.total_bytes_written, success |-> r.success,
   pass_results |-> [i \in DOMAIN r.pass_results |->
     [pass_number |-> r.pass_results[i].pass_number,
      bytes_written |-> r.pass_results[i].bytes_written, success |-> r.pass_results[i].success]],
   verification_result |-> r.verification_result]

calculate_report_hash(r) == [sha256 |-> CoreData(r)]

\* success_status: a verification that failed is not told from none.
success_status(r) ==
  IF ~r.success THEN "FAILED"
  ELSE IF r.verification_result # <<>> /\ r.verification_result[1].passed
       THEN "PASSED (Verified)" ELSE "PASSED"

to_dict(r) ==
  [report_metadata |-> [report_id |-> r.report_id],
   device_info |-> [path |-> r.path, serial |-> r.serial],
   wipe_operation |-> [algorithm_used |-> r.algorithm_used],
   results |-> [success |-> r.success, success_status |-> success_status(r),
                total_bytes_written |-> r.total_bytes_written,
                pass_results |-> r.pass_results],
   verification |-> [verification_type |->
                       [i \in DOMAIN r.verification_result |->
                          r.verification_result[i].verification_type],
                     passed |->
                       [i \in DOMAIN r.verification_result |-> r.verification_result[i].passed]],
   security |-> [digital_signature |-> r.digital_signature,
                 certificate_hash |-> IF r.certificate_hash # <<>> THEN r.certificate_hash
                                      ELSE <<calculate_report_hash(r)>>]]

\* A plausible bug: the verdict is not read back.
from_dict_trusting(d) ==
  [report_id |-> d.report_metadata.report_id,
   path |-> d.device_info.path, serial |-> d.device_info.serial,
   algorithm_used |-> d.wipe_operation.algorithm_used,
   total_bytes_written |-> d.results.total_bytes_written, success |-> d.results.success,
   pass_results |-> d.results.pass_results,
   verification_result |-> IF d.verification.verification_type # <<>>
                           THEN Verified(TRUE) ELSE <<>>,
   digital_signature |-> d.security.digital_signature,
   certificate_hash |-> d.security.certificate_hash]

from_dict(d) ==
  [report_id |-> d.report_metadata.report_id,
   path |-> d.device_info.path, serial |-> d.device_info.serial,
   algorithm_used |-> d.wipe_operation.algorithm_used,
   total_bytes_written |-> d.results.total_bytes_written, success |-> d.results.success,
   pass_results |-> d.results.pass_results,
   verification_result |->
     [i \in DOMAIN d.verification.verification_type |->
        [verification_type |-> d.verification.verification_type[i],
         passed |-> d.verification.passed[i]]],
   digital_signature |-> d.security.digital_signature,
   certificate_hash |-> d.security.certificate_hash]

\* _prepare_report_data, serialised with sorted keys.
chain_json(r) ==
  [report_id |-> r.report_id, device_serial |-> r.serial, algorithm |-> r.algorithm_used,
   success |-> r.success, certificate_hash |-> r.certificate_hash]
=============================================================================
