------------------------------ MODULE MCWipeRun -------------------------------
(***************************************************************************)
(* Two programs on one device: r1 with every algorithm its caller offers,  *)
(* and the parameters that matter to it; r2 a plain wipe by hand.          *)
(***************************************************************************)
EXTENDS WipeRun, TLC

Ask(caller, type, n) ==
  [caller |-> caller, type |-> type, passes |-> n, layers |-> 2, overwrite |-> "nist-clear"]
ExpertTypes == {"nist-clear", "nist-purge", "dod-3pass", "dod-7pass", "gutmann",
                "random", "zeros", "custom"}
MenuTypes == {"nist-clear", "nist-purge", "dod-3pass", "dod-7pass", "zeros"}
ReaRequests ==
  {[Ask("session", "rea-custom", Nobody) EXCEPT !.layers = n, !.overwrite = o] :
     n \in {-1, 0, 3, 9}, o \in {"nist-clear", "dod-3pass", "random"}}
MCRequests ==
  ("first" :> ({Ask("expert", t, Nobody) : t \in ExpertTypes}
               \cup {Ask("expert", "random", <<n>>) : n \in {0, 2}}
               \cup {Ask("interactive", t, Nobody) : t \in MenuTypes}
               \cup {Ask("session", t, Nobody) : t \in AlgorithmType}
               \cup {Ask("session", "random", <<2>>)} \cup ReaRequests))
  @@ ("second" :> {Ask("session", "zeros", Nobody)})
===============================================================================
