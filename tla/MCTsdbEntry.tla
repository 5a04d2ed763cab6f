---------------------------- MODULE MCTsdbEntry -----------------------------
(* Model-checking instance of TsdbEntry: small bucket times and whole-    *)
(* number field values whose float64 encodings differ in exponent and in   *)
(* mantissa.                                                               *)
EXTENDS TsdbEntry, TLC

MCTimes == {1, 2}
\* 0, a power of two and a number with a mantissa bit.
MCValues == {0, 2, 3}
MCValuesWithNull == MCValues \cup {Null}
=============================================================================
