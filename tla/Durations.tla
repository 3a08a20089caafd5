------------------------------ MODULE Durations ------------------------------
(***************************************************************************)
(* time.Duration: a signed 64-bit count of nanoseconds.  A product of such *)
(* numbers keeps its low 64 bits.  DurationLimit is 2^63 in the unit of    *)
(* time of the model.                                                      *)
(***************************************************************************)
EXTENDS Integers

CONSTANT DurationLimit

ASSUME LimitAssumption == DurationLimit \in Nat \ {0}

Duration == -DurationLimit .. DurationLimit - 1

\* The number a product really is.
Wrap(n) == ((n + DurationLimit) % (2 * DurationLimit)) - DurationLimit
=============================================================================
