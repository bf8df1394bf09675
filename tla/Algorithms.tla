------------------------------ MODULE Algorithms ------------------------------
(***************************************************************************)
(* The wipe algorithms (wipe_engine/algorithms.py): which passes each of   *)
(* them makes, how the passes are numbered, and how many of them the web   *)
(* service announces before it has created the algorithm                   *)
(* (session_manager.py).  Of the pattern of a pass only its kind matters:  *)
(* zeros, ones, random bytes (the "REA" patterns are random too), or one   *)
(* of the fixed patterns of Gutmann's method.                              *)
(***************************************************************************)
EXTENDS Integers, Sequences

AlgorithmType ==
  {"nist-clear", "nist-purge", "dod-3pass", "dod-7pass", "gutmann", "random",
   "zeros", "custom", "rea-basic", "rea-multichain", "rea-extreme",
   "rea-custom", "rea-fast"}
Fills    == {"zeros", "ones", "random", "fixed"}
WipePass == [number : Nat, fill : Fills]
Nobody   == <<>>      \* passes=None; any other number n is <<n>>

Times(n, fill) == [i \in 1..n |-> fill]
\* Passes numbered from 1.
Numbered(fills) == [i \in 1..Len(fills) |-> [number |-> i, fill |-> fills[i]]]

Purge == <<"zeros", "ones", "random">>
Gutmann ==
  Numbered([i \in 1..35 |->
    IF i <= 4 \/ i >= 32 THEN "random"
    ELSE IF i = 10 THEN "zeros" ELSE IF i = 25 THEN "ones" ELSE "fixed"])
\* Seven layers, 21 patterns, and three passes that go on at number 30.
ReaExtreme ==
  [i \in 1..31 |->
    [number |-> IF i <= 28 THEN i ELSE i + 1,
     fill   |-> IF i <= 7 \/ i >= 29 THEN "random"
                ELSE IF i = 13 THEN "zeros" ELSE IF i = 28 THEN "ones" ELSE "fixed"]]

\* WipeAlgorithm.__init__: the passes of a type; 'custom' has none of its own.
SetupPasses(type) ==
  CASE type \in {"nist-clear", "zeros"}     -> Numbered(<<"zeros">>)
    [] type \in {"nist-purge", "dod-3pass"} -> Numbered(Purge)
    [] type = "dod-7pass"      -> Numbered(Purge \o Purge \o <<"random">>)
    [] type = "gutmann"        -> Gutmann
    [] type = "random"         -> Numbered(Times(3, "random"))
    [] type = "rea-basic"      -> Numbered(Times(3, "random") \o <<"zeros", "random">>)
    [] type = "rea-multichain" -> Numbered(Times(5, "random") \o Purge)
    [] type = "rea-extreme"    -> ReaExtreme
    [] type = "rea-custom"     -> Numbered(<<"random", "random", "zeros">>)
    [] type = "rea-fast"       -> Numbered(<<"random", "zeros">>)
    [] type = "custom"         -> <<>>

\* customize_rea_algorithm: between one and seven layers, then the overwrite.
Layers(n) == IF n < 1 THEN 1 ELSE IF n > 7 THEN 7 ELSE n
OverwritePasses(name) ==
  CASE name \in {"nist-purge", "dod-3pass"} -> Purge
    [] name = "random"                      -> Times(3, "random")
    [] OTHER                                -> <<"zeros">>
CustomizeRea(layers, overwrite) ==
  Numbered(Times(Layers(layers), "random") \o OverwritePasses(overwrite))

\* encryption_layers or 2
DefaultLayers(n) == IF n = 0 THEN 2 ELSE n

(* create_algorithm.  The constructor has set up three random passes, to   *)
(* which the random algorithm adds as many as it was asked for, numbered   *)
(* from 1 again; passes=None is no number and raises.                      *)
CreateRaises(type, passes) == type = "random" /\ passes = Nobody
CreateAlgorithm(type, passes, layers, overwrite) ==
  CASE type = "random"     -> SetupPasses("random") \o Numbered(Times(passes[1], "random"))
    [] type = "rea-custom" -> CustomizeRea(DefaultLayers(layers), overwrite)
    [] OTHER               -> SetupPasses(type)

\* _get_total_passes of the web service, which does not ask the algorithm.
GetTotalPasses(type, passes, layers, overwrite) ==
  CASE type \in {"nist-clear", "zeros"}               -> 1
    [] type = "rea-fast"                              -> 2
    [] type \in {"nist-purge", "dod-3pass", "custom"} -> 3
    [] type = "rea-basic"                             -> 5
    [] type = "dod-7pass"                             -> 7
    [] type = "rea-multichain"                        -> 8
    [] type = "rea-extreme"                           -> 32
    [] type = "gutmann"                               -> 35
    [] type = "random"     -> IF passes \in {Nobody, <<0>>} THEN 3 ELSE passes[1]
    [] type = "rea-custom" ->
         DefaultLayers(layers) + (IF overwrite \in {"nist-purge", "dod-3pass", "random"} THEN 3 ELSE 1)
===============================================================================
