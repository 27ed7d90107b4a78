----------------------------- MODULE NumberFacts -----------------------------
(***************************************************************************)
(* What the proofs need of numbers: induction over the naturals by sets    *)
(* instead of predicates, so that it can be cited where a predicate cannot *)
(* be instantiated, and inequalities between products.                     *)
(***************************************************************************)
EXTENDS Integers, WellFoundedInduction, TLAPS

\* The order of the naturals as a relation.
Below == {p \in Nat \X Nat : p[1] < p[2]}

LEMMA BelowIsWellFounded == IsWellFoundedOn(Below, Nat)
BY NatLessThanWellFounded DEF OpToRel, Below

\* A set of naturals that is not empty has a least element.
LEMMA LeastExists ==
    ASSUME NEW S, S \subseteq Nat, S # {}
    PROVE  \E m \in S : \A k \in S : m <= k
<1>1. PICK m \in S : \A k \in S : <<k, m>> \notin Below
    BY BelowIsWellFounded, WFMin
<1>2. \A k \in S : ~(k < m)
    BY <1>1 DEF Below
<1> QED BY <1>2

\* What holds at a and is handed on from n to n + 1 holds from a on.
LEMMA SetInduction ==
    ASSUME NEW a \in Nat, NEW S,
           a \in S,
           \A n \in Nat : a <= n /\ n \in S => n + 1 \in S
    PROVE  \A n \in Nat : a <= n => n \in S
<1> DEFINE Missed == {n \in Nat : a <= n /\ n \notin S}
<1> SUFFICES ASSUME Missed # {} PROVE FALSE
    OBVIOUS
<1>1. PICK m \in Missed : \A k \in Missed : m <= k
    BY LeastExists
<1>2. m - 1 \in Nat /\ a <= m - 1
    BY <1>1
<1>3. m - 1 \notin Missed
    BY <1>1, <1>2
<1>4. (m - 1) + 1 \in S
    BY <1>2, <1>3
<1> QED BY <1>1, <1>4

-----------------------------------------------------------------------------
LEMMA NatProduct ==
    ASSUME NEW a \in Nat, NEW b \in Nat
    PROVE  a * b \in Nat
OBVIOUS

\* A product is monotone in a factor.
LEMMA ProductGrows ==
    ASSUME NEW c \in Nat, NEW a \in Int, NEW b \in Int, a <= b
    PROVE  c * a <= c * b
<1>1. b - a \in Nat
    OBVIOUS
<1>2. c * (b - a) \in Nat
    BY <1>1, NatProduct
<1>3. c * (b - a) = c * b - c * a
    OBVIOUS
<1>4. c * a \in Int /\ c * b \in Int
    OBVIOUS
<1> QED BY <1>2, <1>3, <1>4

\* Both factors of natural numbers grow.
LEMMA ProductsGrow ==
    ASSUME NEW a \in Nat, NEW b \in Nat, NEW c \in Nat, NEW d \in Nat, a <= c, b <= d
    PROVE  a * b <= c * d
<1>1. a * b <= a * d
    BY ProductGrows
<1>2. d * a <= d * c
    BY ProductGrows
<1>3. d * a = a * d /\ d * c = c * d
    OBVIOUS
<1>4. a * b \in Int /\ a * d \in Int /\ c * d \in Int
    OBVIOUS
<1> QED BY <1>1, <1>2, <1>3, <1>4

\* Twice the geometric mean is at most the sum.
LEMMA FourTimes ==
    ASSUME NEW x \in Nat, NEW y \in Nat
    PROVE  4 * (x * y) <= (x + y) * (x + y)
<1>1. (x - y) * (x - y) >= 0
    <2> DEFINE d == x - y
    <2>1. d \in Int
        OBVIOUS
    <2> HIDE DEF d
    <2>2. d * d >= 0
        BY <2>1
    <2> QED BY <2>2 DEF d
<1>2. (x + y) * (x + y) = (x - y) * (x - y) + 4 * (x * y)
    OBVIOUS
<1>3. (x - y) * (x - y) \in Int /\ x * y \in Int
    OBVIOUS
<1> QED BY <1>1, <1>2, <1>3

LEMMA MeanStep ==
    ASSUME NEW D \in Nat \ {0}, NEW N \in 0..D, NEW y \in Nat, NEW d \in Int, 0 - y <= d
    PROVE  D * y + N * d >= 0
<1>1. N \in Nat /\ D - N \in Nat
    OBVIOUS
<1>2. N * (y + d) \in Nat /\ (D - N) * y \in Nat
    BY <1>1, NatProduct
<1>3. D * y + N * d = (D - N) * y + N * (y + d)
    BY <1>1
<1> QED BY <1>2, <1>3

(***************************************************************************)
(* If V is at most the product of the distances x and y of the mean from   *)
(* the bounds, it is so after an update by d, which stays within them.     *)
(***************************************************************************)
LEMMA VarianceStep ==
    ASSUME NEW D \in Nat \ {0}, NEW N \in 0..D, NEW x \in Nat, NEW y \in Nat, NEW V \in Nat,
           V <= x * y, NEW d \in Int, 0 - y <= d, d <= x
    PROVE  (D - N) * (D * V + N * (d * d)) <= (D * x - N * d) * (D * y + N * d)
<1>1. N \in Nat /\ D - N \in Nat /\ x * y \in Nat /\ d * d \in Int /\ D \in Nat
    BY NatProduct
<1>2. D * V <= D * (x * y) /\ D * V \in Int /\ D * (x * y) \in Int /\ N * (d * d) \in Int
    BY <1>1, ProductGrows
<1>3. (D - N) * (D * V + N * (d * d)) <= (D - N) * (D * (x * y) + N * (d * d))
    <2> DEFINE a == D * V + N * (d * d)
               b == D * (x * y) + N * (d * d)
               c == D - N
    <2>1. a \in Int /\ b \in Int /\ a <= b /\ c \in Nat
        BY <1>1, <1>2
    <2> HIDE DEF a, b, c
    <2>2. c * a <= c * b
        BY <2>1, ProductGrows
    <2> QED BY <2>2 DEF a, b, c
<1>4. (D * N) * ((x - d) * (y + d)) \in Nat
    <2>1. x - d \in Nat /\ y + d \in Nat /\ D * N \in Nat
        BY <1>1, NatProduct
    <2> QED BY <2>1, NatProduct
<1>5. (D * x - N * d) * (D * y + N * d)
        = (D - N) * (D * (x * y) + N * (d * d)) + (D * N) * ((x - d) * (y + d))
    BY <1>1
<1>6. /\ (D - N) * (D * V + N * (d * d)) \in Int
      /\ (D - N) * (D * (x * y) + N * (d * d)) \in Int
    BY <1>1, <1>2
<1> DEFINE a == (D - N) * (D * V + N * (d * d))
           b == (D - N) * (D * (x * y) + N * (d * d))
           c == (D * N) * ((x - d) * (y + d))
           e == (D * x - N * d) * (D * y + N * d)
<1>7. a \in Int /\ b \in Int /\ c \in Nat /\ a <= b /\ e = b + c
    BY <1>3, <1>4, <1>5, <1>6
<1> HIDE DEF a, b, c, e
<1>8. a <= e
    BY <1>7
<1> QED BY <1>8 DEF a, e
==============================================================================
