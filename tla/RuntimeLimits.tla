---------------------------- MODULE RuntimeLimits ----------------------------
(***************************************************************************)
(* applyRuntimeLimits and parseMemoryLimit of environment/runtime.go: what *)
(* a standalone core makes of GOGC, GOMEMLIMIT and GOMAXPROCS, which the   *)
(* Go runtime could not see when it started.  The word size is a           *)
(* parameter: MaxInt stands for math.MaxInt64, MaxInt32 for the 32 bits    *)
(* the two other variables are parsed to.                                  *)
(***************************************************************************)
EXTENDS Integers

CONSTANTS MaxInt, MaxInt32, Unit, Bytes, None

(***************************************************************************)
(* Bytes gives each suffix, the empty one among them, its multiplier.      *)
(***************************************************************************)
ASSUME LimitsAssumption ==
    /\ MaxInt \in Nat /\ MaxInt32 \in Nat
    /\ Bytes \in [Unit -> Nat \ {0}]
    /\ None \notin Int

\* strconv.ParseInt: digits is the number a text stands for, if it is one.
ParseInt(digits, max) ==
    IF digits \in Int /\ -max - 1 <= digits /\ digits <= max THEN digits ELSE None

\* Mutant: the product is looked at after it was taken modulo the word size.
ParseMemoryLimitWraps(digits, unit) ==
    LET n == ParseInt(digits, MaxInt)
        word == 2 * (MaxInt + 1)
        product == IF n = None THEN 0 ELSE (n * Bytes[unit]) % word
    IN  IF n = None \/ n < 0 \/ product > MaxInt THEN None ELSE product

ParseMemoryLimit(digits, unit) ==
    LET n == ParseInt(digits, MaxInt)
    IN  IF n = None \/ n < 0 \/ n > MaxInt \div Bytes[unit] THEN None
        ELSE n * Bytes[unit]

(***************************************************************************)
(* The limit is the number of bytes the text says, however large its unit, *)
(* and is refused only if there is no such number in a word.               *)
(***************************************************************************)
Meant(digits, unit) ==
    IF digits \in Nat /\ digits * Bytes[unit] <= MaxInt
    THEN digits * Bytes[unit] ELSE None
=============================================================================
