--------------------------- MODULE DurationsProofs ---------------------------
(***************************************************************************)
(* What Wrap computes, for every limit and every integer.                  *)
(***************************************************************************)
EXTENDS Durations, TLAPS

\* Euclid's remainder.
LEMMA ModRange ==
    ASSUME NEW n \in Int, NEW m \in Nat \ {0}
    PROVE  n % m \in 0 .. m - 1
OBVIOUS

\* A number below the modulus is its own remainder.
LEMMA ModSmall ==
    ASSUME NEW m \in Nat \ {0}, NEW n \in 0 .. m - 1
    PROVE  n % m = n
OBVIOUS

\* The product of two int64s is one again.
LEMMA WrapIsDuration ==
    ASSUME NEW n \in Int
    PROVE  Wrap(n) \in Duration
<1> DEFINE k == n + DurationLimit
           m == 2 * DurationLimit
<1>1. k \in Int /\ m \in Nat \ {0} /\ DurationLimit \in Nat
  BY LimitAssumption
<1>2. Wrap(n) = (k % m) - DurationLimit
  BY DEF Wrap
<1> HIDE DEF k
<1>3. k % m \in 0 .. m - 1
  BY <1>1, ModRange
<1> QED
  BY <1>1, <1>2, <1>3 DEF Duration

\* A product that fits is what it should be.
LEMMA WrapExact ==
    ASSUME NEW n \in Duration
    PROVE  Wrap(n) = n
<1> DEFINE k == n + DurationLimit
           m == 2 * DurationLimit
<1>1. m \in Nat \ {0} /\ k \in 0 .. m - 1
  BY LimitAssumption DEF Duration
<1>2. k % m = k
  BY <1>1, ModSmall
<1>3. Wrap(n) = k - DurationLimit
  BY <1>2 DEF Wrap
<1> QED
  BY <1>3, LimitAssumption DEF Duration
=============================================================================
