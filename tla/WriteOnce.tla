------------------------------ MODULE WriteOnce ------------------------------
(***************************************************************************)
(* What the registry contract promises: a partial map from keys to         *)
(* entries in which an entry, once made, is there for ever and is never    *)
(* changed, and in which at most one entry is made at a time.              *)
(***************************************************************************)
CONSTANTS Keys, Entries, Nothing

VARIABLE book

Init == book = [k \in Keys |-> Nothing]

Enter(k, e) ==
  /\ book[k] = Nothing
  /\ e # Nothing
  /\ book' = [book EXCEPT ![k] = e]

Next == \E k \in Keys, e \in Entries : Enter(k, e)

Spec == Init /\ [][Next]_book
=============================================================================
