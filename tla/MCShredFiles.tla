----------------------------- MODULE MCShredFiles -----------------------------
(***************************************************************************)
(* A file with two names, a link to a file inside that nobody asked for, a *)
(* file outside the mount point; one batch is given both names, the other  *)
(* one name, the link and the path outside.                                *)
(***************************************************************************)
EXTENDS ShredFiles, TLC

MCFile(f) == [kind |-> "file", file |-> f]
MCEntry == ("a" :> MCFile("f")) @@ ("b" :> MCFile("f"))
           @@ ("link" :> [kind |-> "link", to |-> "kept"])
           @@ ("kept" :> MCFile("k")) @@ ("out" :> MCFile("o"))
MCLink(n) == [kind |-> "link", to |-> n]
MCBaits == {None, MCFile("k"), MCLink("a"), MCLink("out")}
MCLength == ("f" :> 2) @@ ("k" :> 1) @@ ("o" :> 1)
MCPaths  == ("first" :> <<"a", "b">>) @@ ("second" :> <<"b", "link", "out">>)
MCPasses == ("first" :> 1) @@ ("second" :> 1)
===============================================================================
