----------------------------- MODULE Verification -----------------------------
(***************************************************************************)
(* The check that ends a wipe (wipe_engine/verification.py,                *)
(* `comprehensive', the only depth the engine asks for): where it reads    *)
(* its samples, what it can find in one, and what it concludes.  Sizes and *)
(* positions count blocks of the device; in the code the constants are     *)
(* 1 MB, 100 and 20.                                                       *)
(***************************************************************************)
EXTENDS Integers

CONSTANTS
  SampleSize,   \* blocks of a sample
  MostSamples,  \* a check takes no more samples than that
  Tolerance     \* of so many samples one may look like data

ASSUME VerificationAssumption ==
  /\ SampleSize \in Nat \ {0}
  /\ MostSamples \in Nat \ {0}
  /\ Tolerance \in Nat \ {0}

Contents == {"data", "zeros", "ones", "random", "fixed"}

Least(a, b) == IF a < b THEN a ELSE b
Most(a, b)  == IF a < b THEN b ELSE a
LastStart(size) == Most(0, size - SampleSize)

SampleCount(size) == Most(1, Least(MostSamples, size \div SampleSize))

(* Where sample i, from 0, may start: anywhere if i is even; the others    *)
(* walk the device.                                                        *)
Starts(size, i) ==
  LET half == SampleCount(size) \div 2
  IN  IF i % 2 = 0 \/ half = 0
      THEN 0..LastStart(size)
      ELSE {Least((i \div 2) * (size \div half), LastStart(size))}
BlocksAt(start, size) == (start + 1)..Least(start + SampleSize, size)

\* Plausible bug: bytes that are all the same look like a data structure.
ContainsStructureInUniform(held) ==
  IF held = {"random"} THEN {FALSE} ELSE IF "data" \in held THEN BOOLEAN ELSE {TRUE}

(* What the detectors may report of a sample that holds these contents.    *)
(* Uniform and random bytes have no structure, a repeated pattern has; in  *)
(* data and where two fills meet anything may be found, and in data and in *)
(* random bytes a magic number (some have only two bytes).                 *)
ContainsRecoverableData(held) ==
  CASE \E fill \in {"zeros", "ones", "random"} : held \subseteq {fill} -> {FALSE}
    [] held = {"fixed"} -> {TRUE}
    [] OTHER            -> BOOLEAN
CheckFileSignatures(held) ==
  IF held \cap {"data", "random"} = {} THEN {FALSE} ELSE BOOLEAN

Passed(n, detected, signed) == ~signed /\ detected * Tolerance <= n
===============================================================================
