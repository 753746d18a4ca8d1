-------------------------- MODULE ConversionProofs --------------------------
(***************************************************************************)
(* Proofs about the audio that the loading of a file puts out: that of the  *)
(* chunk read last, in the standard format, with each sample where it      *)
(* belongs.  They hold for any rates, any files, any number of blocks and  *)
(* any precision of the floats, and wherever an allocation fails.          *)
(*                                                                         *)
(* First what each step makes of the input, as functions; then what every  *)
(* variable of the conversion points to at every step (Contents); then     *)
(* what was read (Loaded), and from these what comes out, and how much of  *)
(* it (Sized).                                                             *)
(*                                                                         *)
(* Then where the floats put a chunk: how far a product is off the exact   *)
(* one (NearIs), that the code rounds once (PlacesAre, ChunkIs), so where   *)
(* each chunk lies (Placed); from it how a track ends, with what makes a   *)
(* conversion succeed (Full, Worth), and how far a chunk starts from the   *)
(* end of the one before.  All sizes and places are in units there, of     *)
(* 1 / Scale frames of the file.                                           *)
(***************************************************************************)
EXTENDS ChunkStreamProofs, WellFoundedInduction

-----------------------------------------------------------------------------
(* Arithmetic                                                              *)

LEMMA DivNat ==
  ASSUME NEW a \in Nat, NEW b \in Nat \ {0}
  PROVE  a \div b \in Nat /\ a % b \in 0 .. b - 1 /\ b * (a \div b) + (a % b) = a
  OBVIOUS

LEMMA Halves ==
  ASSUME NEW n \in Nat
  PROVE  /\ n \div 2 \in Nat /\ n \in {2 * (n \div 2), 2 * (n \div 2) + 1}
         /\ (2 * n) \div 2 = n /\ (2 * n + 1) \div 2 = n /\ n \div 1 = n
  OBVIOUS

LEMMA FrameAndSide ==
  ASSUME NEW m \in Nat, NEW i \in 1 .. 2 * m
  PROVE  /\ (i - 1) \div 2 \in 0 .. m - 1 /\ (i - 1) % 2 \in 0 .. 1
         /\ 2 * ((i - 1) \div 2) + ((i - 1) % 2) + 1 = i
  OBVIOUS

LEMMA Quarters ==
  ASSUME NEW n \in Nat, NEW t \in 0 .. 3
  PROVE  /\ (8 * n + 2 * t) \div 4 \in {2 * n, 2 * n + 1}
         /\ (8 * n + 2 * t) % 4 \in 0 .. 3
  OBVIOUS

LEMMA ProductNat ==
  ASSUME NEW a \in Nat, NEW b \in Nat
  PROVE  a * b \in Nat
  OBVIOUS

LEMMA DivExact ==
  ASSUME NEW n \in Nat, NEW e \in Nat \ {0}, n % e = 0
  PROVE  n \div e \in Nat /\ (n \div e) * e = n /\ e * (n \div e) = n
  OBVIOUS

LEMMA Regrouped ==
  ASSUME NEW a \in Nat, NEW b \in Nat, NEW c \in Nat
  PROVE  (a * b) * c = b * (c * a) /\ (a * b) * c = (c * a) * b
  OBVIOUS

\* A product is divided by one of its factors.
LEMMA Cancel ==
  ASSUME NEW n \in Nat, NEW e \in Nat \ {0}
  PROVE  (n * e) \div e = n /\ (n * e) % e = 0
  <1>. DEFINE q == (n * e) \div e
              r == (n * e) % e
  <1>1. q \in Nat /\ r \in 0 .. e - 1 /\ e * q + r = n * e
    BY ProductNat, DivNat
  <1>. HIDE DEF q, r
  <1>2. e * (n - q) = r
    BY <1>1
  <1>3. n - q <= 0
    <2>. SUFFICES ASSUME n - q >= 1 PROVE FALSE
      BY <1>1
    <2>1. e * (n - q) >= e
      BY <1>1
    <2>. QED BY <1>1, <1>2, <2>1
  <1>4. n - q >= 0
    <2>. SUFFICES ASSUME q - n >= 1 PROVE FALSE
      BY <1>1
    <2>1. e * (q - n) >= e
      BY <1>1
    <2>2. e * (q - n) = 0 - r
      BY <1>1
    <2>. QED BY <1>1, <2>1, <2>2
  <1>5. q = n /\ r = 0
    BY <1>1, <1>2, <1>3, <1>4
  <1>. QED BY <1>5 DEF q, r

LEMMA Multiples ==
  ASSUME NEW a \in Nat, NEW b \in Nat \ {0}, NEW q \in Nat, a % b = 0
  PROVE  (q * a) % b = 0
  <1>. DEFINE c == a \div b
  <1>1. c \in Nat /\ b * c = a
    BY DivNat
  <1>. HIDE DEF c
  <1>2. q * a = (q * c) * b /\ q * c \in Nat
    BY <1>1, Regrouped
  <1>. QED BY <1>2, Cancel

\* A set of numbers has a least one, which is what Min chooses.
LEMMA MinIsLeast ==
  ASSUME NEW S \in SUBSET Nat, S # {}
  PROVE  Min(S) \in S /\ \A x \in S : Min(S) <= x
  <1>1. PICK x \in S : \A y \in S : <<y, x>> \notin OpToRel(<, Nat)
    BY WFMin, NatLessThanWellFounded
  <1>2. ASSUME NEW y \in S PROVE x <= y
    <2>. SUFFICES ASSUME y < x PROVE FALSE
      OBVIOUS
    <2>1. <<y, x>> \in OpToRel(<, Nat)
      BY DEF OpToRel
    <2>. QED BY <1>1, <2>1
  <1>. QED BY <1>2 DEF Min

LEMMA SpacingsPositive == Spacings \subseteq Nat \ {0} /\ MaxSpacing \in Spacings
  BY SpacingsAssumption

\* Of two powers of two the smaller divides the greater.
LEMMA SpacingsDivide ==
  ASSUME NEW a \in Spacings, NEW b \in Spacings
  PROVE  /\ a <= b => b % a = 0
         /\ a <= 4 * b => (4 * b) % a = 0
         /\ ~(a <= 4 * b) =>
              8 * b <= a /\ b # MaxSpacing /\ 4 * b \in Spacings /\ 8 * b \in Spacings
  <1>1. /\ a \in Nat \ {0} /\ b \in Nat \ {0} /\ MaxSpacing \in Nat
        /\ a <= MaxSpacing /\ b <= MaxSpacing /\ MaxSpacing \in Spacings
    BY SpacingsAssumption
  <1>2. \A s \in Spacings : a <= s => s % a = 0
    BY SpacingsAssumption
  <1>3. ASSUME NEW s \in Spacings, s # MaxSpacing PROVE 2 * s \in Spacings
    BY <1>3, SpacingsAssumption
  <1>4. 2 * (2 * b) = 4 * b /\ 2 * (4 * b) = 8 * b /\ 4 * b \in Nat /\ 2 * b \in Nat
    BY <1>1
  <1>5. ASSUME a <= 4 * b PROVE (4 * b) % a = 0
    <2>1. CASE b = MaxSpacing
      <3>1. b % a = 0
        BY <1>1, <1>2, <2>1
      <3>. QED BY <1>1, <3>1, Multiples
    <2>2. CASE b # MaxSpacing /\ 2 * b = MaxSpacing
      <3>. DEFINE c == 2 * b
      <3>1. c % a = 0 /\ c \in Nat /\ 2 * c = 4 * b
        BY <1>1, <1>2, <1>4, <2>2
      <3>. HIDE DEF c
      <3>2. (2 * c) % a = 0
        BY <1>1, <3>1, Multiples
      <3>. QED BY <3>1, <3>2
    <2>3. CASE b # MaxSpacing /\ 2 * b # MaxSpacing
      <3>1. 4 * b \in Spacings
        BY <1>3, <1>4, <2>3
      <3>. QED BY <1>2, <1>5, <3>1
    <2>. QED BY <2>1, <2>2, <2>3
  <1>6. ASSUME ~(a <= 4 * b)
        PROVE  8 * b <= a /\ b # MaxSpacing /\ 4 * b \in Spacings /\ 8 * b \in Spacings
    <2>1. b # MaxSpacing /\ 2 * b # MaxSpacing /\ 4 * b # MaxSpacing
      BY <1>1, <1>6
    <2>2. 4 * b \in Spacings
      BY <1>3, <1>4, <2>1
    <2>3. 8 * b \in Spacings
      BY <1>3, <1>4, <2>1, <2>2
    <2>. DEFINE c == 4 * b
    <2>4. a % c = 0 /\ c \in Nat \ {0} /\ c < a /\ 2 * c = 8 * b
      BY <1>1, <1>6, <2>2, SpacingsAssumption
    <2>. HIDE DEF c
    <2>. DEFINE k == a \div c
    <2>5. k \in Nat /\ c * k = a
      BY <1>1, <2>4, DivExact
    <2>. HIDE DEF k
    <2>6. k >= 2
      <3>. SUFFICES ASSUME k <= 1 PROVE FALSE
        BY <2>5
      <3>1. c * k <= c
        BY <2>4, <2>5
      <3>. QED BY <1>1, <2>4, <2>5, <3>1
    <2>7. c * k >= 2 * c
      BY <2>4, <2>5, <2>6
    <2>8. 8 * b <= a
      BY <2>4, <2>5, <2>7
    <2>. QED BY <2>1, <2>2, <2>3, <2>8
  <1>. QED BY <1>2, <1>5, <1>6

LEMMA RoundedNat ==
  ASSUME NEW n \in Nat, NEW d \in Nat \ {0}
  PROVE  Rounded(n, d) \in Nat
  BY DivNat DEF Rounded

LEMMA RoundedExact ==
  ASSUME NEW n \in Nat, NEW e \in Nat \ {0}
  PROVE  Rounded(n * e, e) = n
  BY Cancel DEF Rounded

LEMMA RoundedBelow ==
  ASSUME NEW n \in Nat, NEW e \in Nat \ {0}, NEW b \in Nat, n < e * b
  PROVE  Rounded(n, e) <= b
  <1>. DEFINE q == n \div e
  <1>1. q \in Nat /\ e * q <= n
    BY DivNat
  <1>2. Rounded(n, e) <= q + 1
    BY <1>1 DEF Rounded
  <1>. HIDE DEF q
  <1>3. q < b
    <2>. SUFFICES ASSUME q >= b PROVE FALSE
      BY <1>1
    <2>1. e * q >= e * b
      BY <1>1
    <2>. QED BY <1>1, <2>1
  <1>4. Rounded(n, e) \in Nat
    BY RoundedNat
  <1>. QED BY <1>1, <1>2, <1>3, <1>4

\* The distance of the floats around n units.
Spacing(n) == Min({s \in Spacings : n < s * Significands \/ s = MaxSpacing})

LEMMA SpacingIs ==
  ASSUME NEW n \in Nat
  PROVE  /\ Spacing(n) \in Spacings /\ Spacing(n) \in Nat \ {0}
         /\ n < Spacing(n) * Significands \/ Spacing(n) = MaxSpacing
         /\ \A s \in Spacings : n < s * Significands \/ s = MaxSpacing => Spacing(n) <= s
  <1>. DEFINE S == {s \in Spacings : n < s * Significands \/ s = MaxSpacing}
  <1>1. S \in SUBSET Nat /\ S # {} /\ S \subseteq Nat \ {0}
    BY SpacingsPositive
  <1>2. Min(S) \in S /\ \A s \in S : Min(S) <= s
    BY <1>1, MinIsLeast
  <1>3. Spacing(n) = Min(S)
    BY DEF Spacing
  <1>. QED BY <1>1, <1>2, <1>3

LEMMA SingleIs ==
  ASSUME NEW n, NEW d
  PROVE  Single(n, d) = Rounded(n, d * Spacing(n \div d)) * Spacing(n \div d)
  BY DEF Single, Spacing

\* A float that is not negative stays so when it is rounded.
LEMMA SingleNat ==
  ASSUME NEW n \in Nat, NEW d \in Nat \ {0}
  PROVE  Single(n, d) \in Nat
  <1>. DEFINE s == Spacing(n \div d)
  <1>1. n \div d \in Nat
    BY DivNat
  <1>2. s \in Nat \ {0}
    BY <1>1, SpacingIs
  <1>3. Single(n, d) = Rounded(n, d * s) * s
    BY SingleIs
  <1>. HIDE DEF s
  <1>4. d * s \in Nat \ {0}
    BY <1>2
  <1>. QED BY <1>2, <1>3, <1>4, RoundedNat, ProductNat

\* A multiple of the spacing is a float, and is kept.
LEMMA SingleExact ==
  ASSUME NEW n \in Nat, NEW d \in Nat \ {0}, n % Spacing(n) = 0
  PROVE  Single(n * d, d) = n
  <1>. DEFINE s == Spacing(n)
              c == n \div s
  <1>1. s \in Nat \ {0}
    BY SpacingIs
  <1>. HIDE DEF s
  <1>2. c \in Nat /\ s * c = n
    BY <1>1, DivExact DEF s
  <1>. HIDE DEF c
  <1>3. (n * d) \div d = n
    BY Cancel
  <1>4. n * d = c * (d * s) /\ d * s \in Nat \ {0}
    BY <1>1, <1>2, Regrouped
  <1>5. Rounded(n * d, d * s) = c
    BY <1>2, <1>4, RoundedExact
  <1>6. Single(n * d, d) = Rounded(n * d, d * s) * s
    BY <1>3, SingleIs DEF s
  <1>. QED BY <1>1, <1>2, <1>5, <1>6

\* A whole number is rounded to a whole number.
LEMMA SingleWhole ==
  ASSUME NEW n \in Nat, NEW d \in Nat \ {0}, n % Scale = 0
  PROVE  Single(n * d, d) \in Nat /\ Single(n * d, d) % Scale = 0
  <1>. DEFINE s == Spacing(n)
  <1>0. Scale \in Nat \ {0}
    BY ChunkStreamAssumption DEF Scale
  <1>1. s \in Spacings /\ s \in Nat \ {0}
    BY SpacingIs
  <1>2. Single(n * d, d) \in Nat
    BY SingleNat, ProductNat
  <1>3. CASE Scale % s = 0
    <2>. DEFINE c == n \div Scale
    <2>1. n = c * Scale /\ c \in Nat
      BY <1>0, DivExact
    <2>. HIDE DEF s, c
    <2>2. (c * Scale) % s = 0
      <3>. DEFINE a == Scale
      <3>1. a \in Nat /\ a % s = 0
        BY <1>0, <1>3
      <3>. HIDE DEF a
      <3>2. (c * a) % s = 0
        BY <1>1, <2>1, <3>1, Multiples
      <3>. QED BY <3>2 DEF a
    <2>3. n % s = 0
      BY <2>1, <2>2
    <2>. QED BY <1>2, <2>3, SingleExact DEF s
  <1>4. CASE s % Scale = 0
    <2>1. (n * d) \div d = n
      BY Cancel
    <2>. DEFINE q == Rounded(n * d, d * s)
    <2>2. Single(n * d, d) = q * s
      BY <2>1, SingleIs
    <2>. HIDE DEF s
    <2>3. q \in Nat
      BY <1>1, RoundedNat, ProductNat
    <2>. HIDE DEF q
    <2>4. (q * s) % Scale = 0
      <3>. DEFINE e == Scale
      <3>1. e \in Nat \ {0} /\ s % e = 0
        BY <1>0, <1>4
      <3>. HIDE DEF e
      <3>2. (q * s) % e = 0
        BY <1>1, <2>3, <3>1, Multiples
      <3>. QED BY <3>2 DEF e
    <2>. QED BY <1>2, <2>2, <2>4
  <1>5. Scale % s = 0 \/ s % Scale = 0
    BY <1>1, SignificandsAssumption
  <1>. QED BY <1>3, <1>4, <1>5

\* A float is its significand times a spacing.
LEMMA SingleForm ==
  ASSUME NEW n \in Nat, NEW d \in Nat \ {0}
  PROVE  \E s \in Spacings, q \in Nat :
           Single(n, d) = q * s /\ (q <= Significands \/ s = MaxSpacing)
  <1>. DEFINE m == n \div d
              s == Spacing(m)
              q == Rounded(n, d * s)
  <1>1. m \in Nat /\ n < d * (m + 1)
    BY DivNat
  <1>2. Single(n, d) = q * s
    BY SingleIs
  <1>. HIDE DEF m
  <1>3. s \in Spacings /\ s \in Nat \ {0} /\ (m < s * Significands \/ s = MaxSpacing)
    BY <1>1, SpacingIs
  <1>. HIDE DEF s
  <1>4. d * s \in Nat \ {0}
    BY <1>3
  <1>5. q \in Nat
    BY <1>4, RoundedNat
  <1>6. ASSUME m < s * Significands PROVE q <= Significands
    <2>1. Significands \in Nat /\ s * Significands \in Nat
      BY <1>3, ChunkStreamAssumption, ProductNat
    <2>2. d * (m + 1) <= d * (s * Significands)
      BY <1>1, <1>6, <2>1
    <2>3. d * (s * Significands) = (d * s) * Significands
      BY <1>3, <2>1
    <2>4. n < (d * s) * Significands
      BY <1>1, <1>3, <2>1, <2>2, <2>3
    <2>. QED BY <1>4, <2>1, <2>4, RoundedBelow
  <1>. HIDE DEF q
  <1>. QED BY <1>2, <1>3, <1>5, <1>6

\* Four times a float is a multiple of the spacing there.
LEMMA Quadruple ==
  ASSUME NEW s \in Spacings, NEW q \in Nat, q <= Significands \/ s = MaxSpacing
  PROVE  (q * (4 * s)) % Spacing(q * (4 * s)) = 0
  <1>. DEFINE n == q * (4 * s)
              t == Spacing(n)
  <1>1. s \in Nat \ {0} /\ Significands \in Nat \ {0}
    BY SpacingsPositive, ChunkStreamAssumption
  <1>2. n \in Nat
    BY <1>1, ProductNat
  <1>. HIDE DEF n
  <1>3. /\ t \in Spacings /\ t \in Nat \ {0} 
        /\ \A u \in Spacings : n < u * Significands => t <= u
    BY <1>2, SpacingIs, SpacingsPositive
  <1>. HIDE DEF t
  <1>4. CASE t <= 4 * s
    <2>1. (4 * s) % t = 0
      BY <1>3, <1>4, SpacingsDivide
    <2>. QED BY <1>1, <1>3, <2>1, Multiples DEF n, t
  <1>5. CASE ~(t <= 4 * s)
    <2>1. 8 * s <= t
      BY <1>3, <1>5, SpacingsDivide
    <2>2. /\ s # MaxSpacing /\ 4 * s \in Spacings /\ 8 * s \in Spacings
      BY <1>3, <1>5, SpacingsDivide
    <2>3. q <= Significands
      BY <2>2
    <2>4. ~(n < (4 * s) * Significands)
      BY <1>3, <1>5, <2>2
    <2>5. q = Significands
      <3>. SUFFICES ASSUME q < Significands PROVE FALSE
        BY <1>1, <2>3
      <3>1. q * (4 * s) < Significands * (4 * s)
        BY <1>1
      <3>. QED BY <1>1, <2>4, <3>1 DEF n
    <2>. DEFINE h == Significands \div 2
    <2>6. h \in Nat /\ Significands = 2 * h
      BY <1>1, DivNat, SignificandsAssumption
    <2>. HIDE DEF h
    <2>7. n = h * (8 * s)
      BY <1>1, <2>5, <2>6 DEF n
    <2>8. n < (8 * s) * Significands
      <3>1. n = (4 * s) * Significands
        BY <1>1, <2>5 DEF n
      <3>2. (4 * s) * Significands \in Nat \ {0} /\ (8 * s) * Significands = 2 * ((4 * s) * Significands)
        BY <1>1
      <3>. QED BY <3>1, <3>2
    <2>9. (8 * s) % t = 0
      BY <1>3, <2>2, <2>8, SpacingsDivide
    <2>10. (h * (8 * s)) % t = 0
      <3>. DEFINE a == 8 * s
      <3>1. a \in Nat /\ a % t = 0
        BY <1>1, <2>9
      <3>. HIDE DEF a
      <3>2. (h * a) % t = 0
        BY <1>3, <2>6, <3>1, Multiples
      <3>. QED BY <3>2 DEF a
    <2>. QED BY <2>7, <2>10 DEF n, t
  <1>. QED BY <1>4, <1>5

LEMMA ScaleNat == Scale \in Nat \ {0} /\ Scale = 4 * Significands /\ Significands \in Nat \ {0}
  BY ChunkStreamAssumption DEF Scale

\* Whole numbers stay whole when they are converted to floats and multiplied.
LEMMA FromIntWhole ==
  ASSUME NEW n \in Nat
  PROVE  FromInt(n) \in Nat /\ FromInt(n) % Scale = 0
  <1>. DEFINE e == Scale
              m == n * e
  <1>0. e \in Nat \ {0}
    BY ScaleNat
  <1>. HIDE DEF e
  <1>1. m \in Nat /\ m % e = 0 /\ m * 1 = m
    BY <1>0, Cancel
  <1>2. FromInt(n) = Single(m * 1, 1)
    BY <1>1 DEF FromInt, Real, e
  <1>. HIDE DEF m
  <1>. QED BY <1>1, <1>2, SingleWhole DEF e

LEMMA TimesWhole ==
  ASSUME NEW a \in Nat, NEW b \in Nat, a % Scale = 0, b % Scale = 0
  PROVE  /\ Times(a, b) \in Nat /\ Times(a, b) % Scale = 0
         /\ \E n \in Nat : Times(a, b) = Single(n, Scale)
  <1>. DEFINE e == Scale
              c == a \div e
              n == c * b
  <1>1. e \in Nat \ {0} /\ a % e = 0 /\ b % e = 0
    BY ScaleNat
  <1>. HIDE DEF e
  <1>2. c \in Nat /\ c * e = a
    BY <1>1, DivExact
  <1>. HIDE DEF c
  <1>3. n \in Nat /\ n % e = 0
    <2>1. n \in Nat
      BY <1>2, ProductNat
    <2>2. (c * b) % e = 0
      BY <1>1, <1>2, Multiples, Zenon
    <2>. QED BY <2>1, <2>2
  <1>4. n * e = a * b
    <2>1. e * c = a
      BY <1>1, <1>2
    <2>2. n * e = (e * c) * b
      BY <1>1, <1>2, Regrouped
    <2>. QED BY <2>1, <2>2
  <1>. HIDE DEF n
  <1>5. Times(a, b) = Single(n * e, e)
    BY <1>4 DEF Times, e
  <1>6. n * e \in Nat
    BY <1>1, <1>3
  <1>. QED BY <1>1, <1>3, <1>5, <1>6, SingleWhole DEF e

LEMMA FourIs == FromInt(4) = 4 * Scale
  <1>. DEFINE n == 16 * Significands
  <1>1. n \in Nat /\ Real(4) = n * 1 /\ 4 * Scale = n /\ Significands \in Nat \ {0}
    BY ScaleNat DEF Real
  <1>. HIDE DEF n
  <1>2. n % Spacing(n) = 0
    <2>. DEFINE t == Spacing(n)
                h == Significands \div 2
    <2>1. /\ t \in Spacings /\ t \in Nat \ {0}
          /\ \A s \in Spacings : n < s * Significands \/ s = MaxSpacing => t <= s
      BY <1>1, SpacingIs
    <2>. HIDE DEF t
    <2>2. PICK p \in {1, 2, 4, 8, 16, 32} : p \in Spacings /\ (p = 32 \/ p = MaxSpacing)
      <3>1. \A s \in Spacings : s = MaxSpacing \/ 2 * s \in Spacings
        BY SpacingsAssumption
      <3>. QED BY <3>1, SpacingsAssumption
    <2>3. t <= p
      <3>1. n < 32 * Significands
        BY <1>1 DEF n
      <3>. QED BY <2>1, <2>2, <3>1
    <2>4. p % t = 0
      BY <2>1, <2>2, <2>3, SpacingsAssumption
    <2>5. h \in Nat /\ Significands = 2 * h
      BY <1>1, DivNat, SignificandsAssumption
    <2>. HIDE DEF h
    <2>6. PICK k \in Nat : n = k * p
      <3>1. n = 32 * h
        BY <2>5 DEF n
      <3>2. PICK e \in {1, 2, 4, 8, 16, 32} : e * p = 32
        BY <2>2
      <3>3. n = (h * e) * p /\ h * e \in Nat
        BY <2>2, <2>5, <3>1, <3>2
      <3>. QED BY <3>3
    <2>7. (k * p) % t = 0
      BY <2>1, <2>2, <2>4, Multiples
    <2>. QED BY <2>6, <2>7 DEF t
  <1>. QED BY <1>1, <1>2, SingleExact DEF FromInt

\* To multiply by four does not round.
LEMMA TimesFour ==
  ASSUME NEW n \in Nat, NEW p \in Nat, p = Single(n, Scale)
  PROVE  Times(p, FromInt(4)) = 4 * p
  <1>1. PICK s \in Spacings, q \in Nat : p = q * s /\ (q <= Significands \/ s = MaxSpacing)
    BY ScaleNat, SingleForm
  <1>. DEFINE m == q * (4 * s)
              e == Scale
  <1>2. s \in Nat \ {0} /\ e \in Nat \ {0}
    BY SpacingsPositive, ScaleNat
  <1>3. m % Spacing(m) = 0
    BY <1>1, Quadruple
  <1>4. m \in Nat /\ m = 4 * p
    BY <1>1, <1>2
  <1>5. p * (4 * e) = m * e
    BY <1>1, <1>2, <1>4
  <1>6. Times(p, FromInt(4)) = Single(m * e, e)
    BY <1>5, FourIs DEF Times
  <1>. HIDE DEF m, e
  <1>7. Single(m * e, e) = m
    BY <1>2, <1>3, <1>4, SingleExact
  <1>. QED BY <1>4, <1>6, <1>7

\* The sizes and places of the reads are whole numbers of bytes.
Format == header \in [NumChannels : Channels, SampleRate : Rates, BitsPerSample : {16, 32}]

LEMMA SizesNat ==
  ASSUME Format, next_first_frame \in Nat, file.frames \in Nat
  PROVE  /\ SampleSize \in {2, 4} /\ header.NumChannels \in {1, 2} /\ FrameSize \in Nat \ {0}
         /\ BytesToRead \in Nat /\ BufferSize \in Nat /\ Position \in Nat /\ StartFrame \in Nat
         /\ AudiodataSize \in Nat /\ Ceil(SamplesToRead) \in Nat /\ SamplesToRead \in Nat
  <1>1. /\ header.NumChannels \in {1, 2} /\ header.SampleRate \in Nat \ {0}
        /\ header.BitsPerSample \in {16, 32} /\ StdRate \in Nat \ {0}
    BY StdAudFmtAssumption DEF Format, Channels
  <1>2. SampleSize \in {2, 4}
    BY <1>1 DEF SampleSize
  <1>3. FrameSize \in Nat \ {0}
    BY <1>1, <1>2 DEF FrameSize
  <1>4. Scale \in Nat \ {0} /\ FrameCount \in Nat
    BY ChunkStreamAssumption DEF Scale
  <1>5. ASSUME NEW n \in Nat PROVE FromInt(n) \in Nat
    BY <1>4, SingleNat, ProductNat DEF FromInt, Real
  <1>6. ASSUME NEW a \in Nat, NEW b \in Nat PROVE Times(a, b) \in Nat
    BY <1>4, SingleNat, ProductNat DEF Times
  <1>7. ASSUME NEW a \in Nat PROVE Floor(a) \in Nat /\ Ceil(a) \in Nat
    <2>1. Floor(a) \in Nat
      BY <1>4, DivNat DEF Floor
    <2>2. a + Scale - 1 \in Nat
      BY <1>4
    <2>. QED BY <1>4, <2>1, <2>2, DivNat DEF Ceil, Ceiling
  <1>8. FileSamplerateOverStdaud \in Nat
    BY <1>1, <1>4, SingleNat, ProductNat DEF FileSamplerateOverStdaud, Real
  <1>9. SamplesToRead \in Nat
    BY <1>1, <1>4, <1>5, <1>6, <1>8 DEF SamplesToRead
  <1>10. BytesToRead \in Nat /\ BufferSize \in Nat
    BY <1>2, <1>7, <1>9, ProductNat DEF BytesToRead, BufferSize
  <1>11. Position \in Nat
    BY <1>1, <1>2, <1>5, <1>6, <1>7, <1>8 DEF Position
  <1>12. StartFrame \in Nat
    BY <1>5, <1>6, <1>7, <1>8 DEF StartFrame
  <1>13. AudiodataSize \in Nat
    BY <1>3, ProductNat DEF AudiodataSize
  <1>. QED BY <1>1, <1>2, <1>3, <1>7, <1>9, <1>10, <1>11, <1>12, <1>13

\* At the standard rate the chunks of a mono file start at whole samples.
LEMMA PositionWhole ==
  ASSUME Format, next_first_frame \in Nat,
         header.SampleRate = StdRate, header.NumChannels = 1, header.BitsPerSample = 32
  PROVE  Position \in Nat /\ Position % 4 = 0
  <1>. DEFINE ratio == FileSamplerateOverStdaud
              a == Times(FromInt(next_first_frame), ratio)
              p == Times(a, FromInt(1))
              e == Scale
  <1>1. ratio \in Nat /\ ratio % Scale = 0
    <2>1. StdRate \in Nat \ {0} /\ Real(StdRate) = Scale * StdRate /\ Scale \in Nat \ {0}
      BY StdAudFmtAssumption, ScaleNat DEF Real
    <2>2. Scale % Scale = 0
      BY ScaleNat
    <2>3. ratio = Single(Scale * StdRate, StdRate)
      BY <2>1 DEF FileSamplerateOverStdaud
    <2>. QED BY <2>1, <2>2, <2>3, SingleWhole
  <1>. HIDE DEF ratio
  <1>2. a \in Nat /\ a % Scale = 0
    BY <1>1, FromIntWhole, TimesWhole
  <1>. HIDE DEF a
  <1>3. /\ p \in Nat /\ p % Scale = 0 /\ \E n \in Nat : p = Single(n, Scale)
    BY <1>2, FromIntWhole, TimesWhole
  <1>. HIDE DEF p
  <1>4. Position = (4 * p) \div e
    <2>1. SampleSize = 4
      BY DEF SampleSize
    <2>2. Position = Floor(Times(p, FromInt(4)))
      BY <2>1 DEF Position, p, a, ratio
    <2>3. Times(p, FromInt(4)) = 4 * p
      BY <1>3, TimesFour
    <2>. QED BY <2>2, <2>3 DEF Floor
  <1>. DEFINE c == p \div e
  <1>5. e \in Nat \ {0} /\ c \in Nat /\ c * e = p
    BY <1>3, ScaleNat, DivExact
  <1>. HIDE DEF c, e
  <1>6. 4 * p = (4 * c) * e /\ 4 * c \in Nat
    BY <1>5
  <1>7. Position = 4 * c
    BY <1>4, <1>5, <1>6, Cancel
  <1>. QED BY <1>5, <1>7

-----------------------------------------------------------------------------
(* What the steps of the conversion make of the input                      *)

InputTyped == heap[ORIG].data \in Seq(Int) /\ heap[ORIG].tail \in 0 .. 3

Floats == ToF32(heap[ORIG], header.BitsPerSample)
Stereo == IF header.NumChannels = 1 THEN MonoToXChannels(Floats, StdChannels) ELSE Floats

Side(k)      == Split(Stereo, StdChannels, k)
Resampled(k) == ToSamplerateMono(Side(k), header.SampleRate, StdRate)

Standard ==
    IF header.SampleRate = StdRate THEN Stereo ELSE MergeToStereo(Resampled(0), Resampled(1))

\* The frames of the input, and the sample at one side of one of them.
Frames == Len(heap[ORIG].data) \div header.NumChannels
Origin(frame, side) ==
    heap[ORIG].data[frame * header.NumChannels + (IF header.NumChannels = 1 THEN 0 ELSE side) + 1]

\* A float for each sample.
LEMMA FloatsAre ==
  ASSUME Format, InputTyped
  PROVE  /\ Len(Floats.data) = Len(heap[ORIG].data) /\ Len(Floats.data) \in Nat
         /\ DOMAIN Floats.data = 1 .. Len(Floats.data)
         /\ Floats.tail \in 0 .. 3
         /\ \A i \in 1 .. Len(heap[ORIG].data) :
              Floats.data[i] = Sample(heap[ORIG].data[i], heap[ORIG].data[i])
  BY DEF Format, InputTyped, Floats, ToF32, Datapoints

\* Each frame of the input makes one with both channels; half a frame may be left
\* at the end, of silence when the input was mono.
LEMMA StereoIs ==
  ASSUME Format, InputTyped
  PROVE  /\ Frames \in Nat
         /\ Len(Stereo.data) \in {2 * Frames, 2 * Frames + 1} /\ Stereo.tail \in 0 .. 3
         /\ DOMAIN Stereo.data = 1 .. Len(Stereo.data)
         /\ \A frame \in 0 .. Frames - 1, side \in 0 .. 1 :
              Stereo.data[2 * frame + side + 1] = Sample(Origin(frame, side), Origin(frame, side))
         /\ Len(Stereo.data) = 2 * Frames + 1 =>
              \/ Stereo.data[2 * Frames + 1] = Silence
              \/ /\ Len(heap[ORIG].data) = 2 * Frames + 1
                 /\ Stereo.data[2 * Frames + 1] =
                      Sample(heap[ORIG].data[2 * Frames + 1], heap[ORIG].data[2 * Frames + 1])
  <1>. DEFINE n == Len(heap[ORIG].data)
  <1>1. n \in Nat /\ Len(Floats.data) = n /\ Floats.tail \in 0 .. 3 /\ DOMAIN Floats.data = 1 .. n
        /\ \A i \in 1 .. n : Floats.data[i] = Sample(heap[ORIG].data[i], heap[ORIG].data[i])
    BY FloatsAre
  <1>. HIDE DEF n
  <1>2. CASE header.NumChannels = 1
    <2>. DEFINE bytes == Bytes(Floats) * StdChannels
                m     == bytes \div FloatSize
    <2>1. Stereo = Datapoints([i \in 1 .. m |->
                      IF i <= Len(Floats.data) * StdChannels
                      THEN Floats.data[(i - 1) \div StdChannels + 1] ELSE Silence],
                    bytes % FloatSize)
      BY <1>2 DEF Stereo, MonoToXChannels
    <2>2. bytes = 8 * n + 2 * Floats.tail
      BY <1>1 DEF Bytes, FloatSize, StdChannels
    <2>3. m \in {2 * n, 2 * n + 1} /\ bytes % FloatSize \in 0 .. 3
      BY <1>1, <2>2, Quarters DEF FloatSize
    <2>. HIDE DEF bytes, m
    <2>4. Len(Stereo.data) = m /\ Stereo.tail \in 0 .. 3 /\ DOMAIN Stereo.data = 1 .. m
      BY <1>1, <2>1, <2>3 DEF Datapoints
    <2>5. \A i \in 1 .. m : Stereo.data[i] = IF i <= 2 * n THEN Floats.data[(i - 1) \div 2 + 1]
                                             ELSE Silence
      BY <1>1, <2>1 DEF Datapoints, StdChannels
    <2>6. Frames = n
      <3>1. Frames = n \div 1
        BY <1>2 DEF Frames, n
      <3>. QED BY <1>1, <3>1
    <2>7. ASSUME NEW frame \in 0 .. n - 1, NEW side \in 0 .. 1
          PROVE  Stereo.data[2 * frame + side + 1] = Sample(Origin(frame, side), Origin(frame, side))
      <3>1. 2 * frame + side + 1 \in 1 .. m /\ 2 * frame + side + 1 <= 2 * n
            /\ (2 * frame + side + 1 - 1) \div 2 + 1 = frame + 1 /\ frame + 1 \in 1 .. n
        BY <1>1, <2>3
      <3>2. Stereo.data[2 * frame + side + 1] = Floats.data[frame + 1]
        BY <2>5, <3>1
      <3>3. Origin(frame, side) = heap[ORIG].data[frame + 1]
        BY <1>2 DEF Origin
      <3>. QED BY <1>1, <3>1, <3>2, <3>3
    <2>8. m = 2 * n + 1 => Stereo.data[2 * n + 1] = Silence
      BY <1>1, <2>5
    <2>. QED BY <1>1, <2>3, <2>4, <2>6, <2>7, <2>8
  <1>3. CASE header.NumChannels = 2
    <2>1. Stereo = Floats
      BY <1>3 DEF Stereo
    <2>2. Frames = n \div 2 /\ Frames \in Nat /\ n \in {2 * Frames, 2 * Frames + 1}
      <3>1. Frames = n \div 2
        BY <1>3 DEF Frames, n
      <3>. QED BY <1>1, <3>1, Halves
    <2>3. ASSUME NEW frame \in 0 .. Frames - 1, NEW side \in 0 .. 1
          PROVE  Stereo.data[2 * frame + side + 1] = Sample(Origin(frame, side), Origin(frame, side))
      <3>1. 2 * frame + side + 1 \in 1 .. n
        BY <1>1, <2>2
      <3>2. Origin(frame, side) = heap[ORIG].data[2 * frame + side + 1]
        BY <1>3 DEF Origin
      <3>. QED BY <1>1, <2>1, <3>1, <3>2
    <2>4. n = 2 * Frames + 1 => 2 * Frames + 1 \in 1 .. n
      BY <1>1, <2>2
    <2>5. n = Len(heap[ORIG].data)
      BY DEF n
    <2>. QED BY <1>1, <2>1, <2>2, <2>3, <2>4, <2>5
  <1>. QED BY <1>2, <1>3 DEF Format, Channels

\* What is split off is one side of each frame, or nothing.
LEMMA SideIs ==
  ASSUME Format, InputTyped, NEW k \in 0 .. 1
  PROVE  /\ SplitRefused(Stereo, StdChannels) => Side(k) = Nothing
         /\ ~SplitRefused(Stereo, StdChannels) =>
              /\ Side(k).tail = 0 /\ Len(Side(k).data) = Frames
              /\ \A j \in 1 .. Frames :
                   Side(k).data[j] = Sample(Origin(j - 1, k), Origin(j - 1, k))
  <1>1. Frames \in Nat /\ Len(Stereo.data) \in {2 * Frames, 2 * Frames + 1}
        /\ \A frame \in 0 .. Frames - 1 :
             Stereo.data[2 * frame + k + 1] = Sample(Origin(frame, k), Origin(frame, k))
    BY StereoIs
  <1>2. CASE SplitRefused(Stereo, StdChannels)
    BY <1>2 DEF Side, Split
  <1>3. CASE ~SplitRefused(Stereo, StdChannels)
    <2>. DEFINE m == Len(Stereo.data) \div 2
                d == [i \in 1 .. m |-> Stereo.data[(i - 1) * 2 + k + 1]]
    <2>1. Side(k) = Datapoints(d, 0)
      BY <1>3 DEF Side, Split, StdChannels
    <2>2. m = Frames
      BY <1>1, Halves
    <2>. HIDE DEF m
    <2>3. Len(d) = m /\ \A j \in 1 .. m : d[j] = Stereo.data[(j - 1) * 2 + k + 1]
      BY <1>1, <2>2
    <2>. HIDE DEF d
    <2>4. /\ Side(k).tail = 0 /\ Len(Side(k).data) = Frames
          /\ \A j \in 1 .. Frames : Side(k).data[j] = Stereo.data[(j - 1) * 2 + k + 1]
      BY <2>1, <2>2, <2>3 DEF Datapoints
    <2>5. \A j \in 1 .. Frames : Stereo.data[(j - 1) * 2 + k + 1] = Sample(Origin(j - 1, k), Origin(j - 1, k))
      <3>. SUFFICES ASSUME NEW j \in 1 .. Frames
                    PROVE  Stereo.data[(j - 1) * 2 + k + 1] = Sample(Origin(j - 1, k), Origin(j - 1, k))
        OBVIOUS
      <3>1. j - 1 \in 0 .. Frames - 1 /\ (j - 1) * 2 = 2 * (j - 1)
        BY <1>1
      <3>. QED BY <1>1, <3>1
    <2>. QED BY <1>3, <2>4, <2>5
  <1>. QED BY <1>2, <1>3

\* Between which frames of the input a frame of the output lies.
Lower(f) == Clamp((f * (header.SampleRate - 1)) \div (StdRate - 1), Frames - 1)
Upper(f) == Clamp((f * (header.SampleRate - 1) + StdRate - 2) \div (StdRate - 1), Frames - 1)

OutFrames ==
    IF header.SampleRate = StdRate THEN Frames ELSE (Frames * StdRate) \div header.SampleRate

\* The frames are frames of the input.
LEMMA Interpolation ==
  ASSUME Format, Frames \in Nat \ {0}, NEW f \in Nat
  PROVE  /\ Lower(f) \in 0 .. Frames - 1 /\ Upper(f) \in 0 .. Frames - 1
         /\ Ceiling(f * (header.SampleRate - 1), StdRate - 1)
              = (f * (header.SampleRate - 1) + StdRate - 2) \div (StdRate - 1)
  <1>. DEFINE a == f * (header.SampleRate - 1)
              b == StdRate - 1
  <1>1. header.SampleRate - 1 \in Nat \ {0} /\ StdRate \in Nat /\ b \in Nat \ {0}
    BY StdAudFmtAssumption DEF Format
  <1>2. a \in Nat /\ StdRate - 2 = b - 1
    BY <1>1, ProductNat
  <1>3. a + b - 1 = a + StdRate - 2 /\ a + b - 1 \in Nat
    BY <1>1, <1>2
  <1>. HIDE DEF a
  <1>4. a \div b \in Nat /\ (a + b - 1) \div b \in Nat
    BY <1>1, <1>2, <1>3, DivNat
  <1>5. Ceiling(a, b) = (a + StdRate - 2) \div b
    BY <1>3 DEF Ceiling
  <1>6. Lower(f) = Clamp(a \div b, Frames - 1) /\ Upper(f) = Clamp((a + b - 1) \div b, Frames - 1)
    BY <1>3 DEF Lower, Upper, a
  <1>7. \A i \in Nat : Clamp(i, Frames - 1) \in 0 .. Frames - 1
    BY DEF Clamp
  <1>. QED BY <1>4, <1>5, <1>6, <1>7 DEF a

\* Nothing, resampled, is nothing.
LEMMA ResampledNothing ==
  ASSUME Format, NEW d, d = Nothing
  PROVE  LET r == ToSamplerateMono(d, header.SampleRate, StdRate)
         IN  r.tail = 0 /\ Len(r.data) = 0
  <1>. DEFINE r == ToSamplerateMono(d, header.SampleRate, StdRate)
              m == (Len(d.data) * StdRate) \div header.SampleRate
  <1>1. header.SampleRate \in Nat \ {0} /\ StdRate \in Nat
    BY StdAudFmtAssumption DEF Format
  <1>2. Len(d.data) = 0
    BY DEF Nothing
  <1>3. Len(d.data) * StdRate = 0
    BY <1>1, <1>2
  <1>4. m = 0
    BY <1>1, <1>3
  <1>. HIDE DEF m
  <1>. DEFINE e == [k \in 1 .. m |->
         LET floor == Clamp(((k - 1) * (header.SampleRate - 1)) \div (StdRate - 1), Len(d.data) - 1)
             ceil  == Clamp(Ceiling((k - 1) * (header.SampleRate - 1), StdRate - 1), Len(d.data) - 1)
         IN  Sample(d.data[floor + 1].lo, d.data[ceil + 1].hi)]
  <1>5. r = Datapoints(e, 0)
    BY DEF ToSamplerateMono, m
  <1>6. Len(e) = 0
    BY <1>4
  <1>. HIDE DEF e, r
  <1>7. r.tail = 0 /\ Len(r.data) = 0
    BY <1>5, <1>6 DEF Datapoints
  <1>. QED BY <1>7 DEF r

\* One side of the output.
LEMMA ResampledIs ==
  ASSUME Format, InputTyped, header.SampleRate # StdRate, NEW k \in 0 .. 1
  PROVE  /\ Resampled(k).tail = 0
         /\ SplitRefused(Stereo, StdChannels) => Len(Resampled(k).data) = 0
         /\ ~SplitRefused(Stereo, StdChannels) =>
              /\ OutFrames \in Nat /\ Len(Resampled(k).data) = OutFrames
              /\ Frames = 0 => OutFrames = 0
              /\ \A f \in 0 .. OutFrames - 1 :
                   Resampled(k).data[f + 1] = Sample(Origin(Lower(f), k), Origin(Upper(f), k))
  <1>1. CASE SplitRefused(Stereo, StdChannels)
    BY <1>1, SideIs, ResampledNothing DEF Resampled
  <1>2. CASE ~SplitRefused(Stereo, StdChannels)
    <2>. DEFINE rate == header.SampleRate
                d    == Side(k)
                e    == [i \in 1 .. (Len(d.data) * StdRate) \div rate |->
                  LET floor == Clamp(((i - 1) * (rate - 1)) \div (StdRate - 1), Len(d.data) - 1)
                      ceil  == Clamp(Ceiling((i - 1) * (rate - 1), StdRate - 1), Len(d.data) - 1)
                  IN  Sample(d.data[floor + 1].lo, d.data[ceil + 1].hi)]
    <2>1. /\ Len(d.data) = Frames /\ Frames \in Nat
          /\ \A j \in 1 .. Frames : d.data[j] = Sample(Origin(j - 1, k), Origin(j - 1, k))
      BY <1>2, SideIs, StereoIs
    <2>2. Resampled(k) = Datapoints(e, 0)
      BY DEF Resampled, ToSamplerateMono
    <2>. HIDE DEF d
    <2>3. rate \in Nat \ {0} /\ StdRate \in Nat
      BY StdAudFmtAssumption DEF Format
    <2>4. (Len(d.data) * StdRate) \div rate = OutFrames
      BY <2>1 DEF OutFrames
    <2>5. OutFrames \in Nat /\ (Frames = 0 => OutFrames = 0)
      <3>1. Frames * StdRate \in Nat /\ (Frames = 0 => Frames * StdRate = 0)
        BY <2>1, <2>3, ProductNat
      <3>2. OutFrames = (Frames * StdRate) \div rate
        BY <2>1, <2>4
      <3>. HIDE DEF rate
      <3>3. (Frames * StdRate) \div rate \in Nat /\ 0 \div rate = 0
        BY <2>3, <3>1, DivNat
      <3>. QED BY <3>1, <3>2, <3>3
    <2>6. ASSUME NEW f \in 0 .. OutFrames - 1
          PROVE  e[f + 1] = Sample(Origin(Lower(f), k), Origin(Upper(f), k))
      <3>1. f \in Nat /\ f + 1 \in 1 .. OutFrames /\ (f + 1) - 1 = f /\ Frames \in Nat \ {0}
        BY <2>1, <2>5
      <3>2. e[f + 1] = Sample(d.data[Lower(f) + 1].lo, d.data[Upper(f) + 1].hi)
        <4>1. e[f + 1] =
                LET floor == Clamp((f * (rate - 1)) \div (StdRate - 1), Len(d.data) - 1)
                    ceil  == Clamp(Ceiling(f * (rate - 1), StdRate - 1), Len(d.data) - 1)
                IN  Sample(d.data[floor + 1].lo, d.data[ceil + 1].hi)
          BY <2>4, <3>1
        <4>. QED BY <2>1, <3>1, <4>1, Interpolation DEF Lower, Upper
      <3>3. Lower(f) \in 0 .. Frames - 1 /\ Upper(f) \in 0 .. Frames - 1
        BY <3>1, Interpolation
      <3>4. /\ d.data[Lower(f) + 1] = Sample(Origin(Lower(f), k), Origin(Lower(f), k))
            /\ d.data[Upper(f) + 1] = Sample(Origin(Upper(f), k), Origin(Upper(f), k))
        <4>1. \A j \in 0 .. Frames - 1 : j + 1 \in 1 .. Frames /\ (j + 1) - 1 = j
          BY <2>1
        <4>. QED BY <2>1, <3>3, <4>1
      <3>. QED BY <3>2, <3>4 DEF Sample
    <2>7. Len(e) = OutFrames
      BY <2>4, <2>5
    <2>. HIDE DEF e
    <2>. QED BY <1>2, <2>2, <2>5, <2>6, <2>7 DEF Datapoints
  <1>. QED BY <1>1, <1>2

\* The standard format of the input: whole frames, each from the right frames of
\* the input and with its sides where they belong, and maybe half a frame.
LEMMA StandardIs ==
  ASSUME Format, InputTyped, Bytes(Standard) # 0
  PROVE  /\ OutFrames \in Nat /\ Len(Standard.data) \in {2 * OutFrames, 2 * OutFrames + 1}
         /\ DOMAIN Standard.data = 1 .. Len(Standard.data)
         /\ Frames = 0 => OutFrames = 0
         /\ header.SampleRate # StdRate => Len(Standard.data) = 2 * OutFrames
         /\ \A f \in 0 .. OutFrames - 1, side \in 0 .. 1 :
              Standard.data[2 * f + side + 1] =
                IF header.SampleRate = StdRate THEN Sample(Origin(f, side), Origin(f, side))
                ELSE Sample(Origin(Lower(f), side), Origin(Upper(f), side))
  <1>1. CASE header.SampleRate = StdRate
    BY <1>1, StereoIs DEF Standard, OutFrames
  <1>2. CASE header.SampleRate # StdRate
    <2>. DEFINE l == Resampled(0)
                r == Resampled(1)
                e == [i \in 1 .. 2 * Len(r.data) |->
                        IF i % 2 = 1 THEN l.data[(i + 1) \div 2] ELSE r.data[i \div 2]]
    <2>1. 0 \in 0 .. 1 /\ 1 \in 0 .. 1
      OBVIOUS
    <2>2. Standard = IF Bytes(l) # Bytes(r) THEN Nothing ELSE Datapoints(e, 0)
      BY <1>2 DEF Standard, MergeToStereo
    <2>3. ASSUME NEW n \in Nat, Len(l.data) = n, Len(r.data) = n
          PROVE  Standard = Datapoints(e, 0) /\ Len(e) = 2 * n
      <3>1. l.tail = 0 /\ r.tail = 0
        BY <1>2, <2>1, ResampledIs
      <3>2. Bytes(l) = Bytes(r)
        BY <2>3, <3>1 DEF Bytes
      <3>. HIDE DEF l, r
      <3>. QED BY <2>2, <2>3, <3>2
    <2>4. ~SplitRefused(Stereo, StdChannels)
      <3>. SUFFICES ASSUME SplitRefused(Stereo, StdChannels) PROVE Bytes(Standard) = 0
        OBVIOUS
      <3>1. Len(l.data) = 0 /\ Len(r.data) = 0
        BY <1>2, <2>1, ResampledIs
      <3>2. Standard = Datapoints(e, 0) /\ Len(e) = 0
        BY <2>3, <3>1
      <3>. HIDE DEF e
      <3>. QED BY <3>2 DEF Bytes, Datapoints, FloatSize
    <2>5. /\ OutFrames \in Nat /\ Len(l.data) = OutFrames /\ Len(r.data) = OutFrames
          /\ Frames = 0 => OutFrames = 0
          /\ \A f \in 0 .. OutFrames - 1 :
               /\ l.data[f + 1] = Sample(Origin(Lower(f), 0), Origin(Upper(f), 0))
               /\ r.data[f + 1] = Sample(Origin(Lower(f), 1), Origin(Upper(f), 1))
      BY <1>2, <2>1, <2>4, ResampledIs
    <2>6. Standard = Datapoints(e, 0) /\ Len(e) = 2 * OutFrames /\ DOMAIN e = 1 .. 2 * OutFrames
      BY <2>3, <2>5
    <2>. HIDE DEF l, r
    <2>7. ASSUME NEW f \in 0 .. OutFrames - 1
          PROVE  e[2 * f + 1] = l.data[f + 1] /\ e[2 * f + 2] = r.data[f + 1]
      <3>1. /\ 2 * f + 1 \in 1 .. 2 * OutFrames /\ 2 * f + 2 \in 1 .. 2 * OutFrames
            /\ (2 * f + 1) % 2 = 1 /\ (2 * f + 2) % 2 = 0
            /\ ((2 * f + 1) + 1) \div 2 = f + 1 /\ (2 * f + 2) \div 2 = f + 1
        BY <2>5
      <3>. QED BY <2>5, <3>1
    <2>. HIDE DEF e
    <2>8. ASSUME NEW f \in 0 .. OutFrames - 1, NEW side \in 0 .. 1
          PROVE  Standard.data[2 * f + side + 1] = Sample(Origin(Lower(f), side), Origin(Upper(f), side))
      <3>1. side = 0 \/ side = 1
        OBVIOUS
      <3>2. f \in Nat /\ 2 * f + 0 + 1 = 2 * f + 1 /\ 2 * f + 1 + 1 = 2 * f + 2
        BY <2>5
      <3>. QED BY <2>5, <2>6, <2>7, <3>1, <3>2 DEF Datapoints
    <2>9. Len(Standard.data) = 2 * OutFrames /\ DOMAIN Standard.data = 1 .. 2 * OutFrames
      BY <2>6 DEF Datapoints
    <2>. QED BY <1>2, <2>5, <2>8, <2>9
  <1>. QED BY <1>1, <1>2

-----------------------------------------------------------------------------
(* What memory contains                                                    *)

\* What each variable holds, if anything.
Value(label, v) ==
    CASE v = "current" -> IF label = "toStereo" THEN Floats
                          ELSE IF label = "toRate" THEN Stereo ELSE Standard
      [] v = "prev"    -> Stereo
      [] v = "orig_l"  -> Side(0)
      [] v = "orig_r"  -> Side(1)
      [] v = "dest_l"  -> Resampled(0)
      [] v = "dest_r"  -> Resampled(1)

\* Before and after the resampling prev holds what the last step started from.
Known(label) == IF label \in Resampling THEN Holders(label) ELSE Holders(label) \ {"prev"}

\* The inductive invariant, on top of Ownership.
Contents ==
    /\ DOMAIN heap = Block \cup {ORIG}
    /\ Format
    /\ pc \in Resampling => header.SampleRate # StdRate
    /\ \A v \in Known(pc) :
         var[v] # NULL => heap[var[v]] = Value(pc, v) /\ Bytes(heap[var[v]]) # 0

\* An allocation leaves what is pointed to as it is.
LEMMA NewKeeps ==
  ASSUME NEW v \in Local, NEW d, NEW mid \in [Local -> Pointer], NEW H \in SUBSET Local,
         v \notin H, Owned(H, mid, live), DOMAIN heap = Block \cup {ORIG}, New(v, d, mid)
  PROVE  /\ DOMAIN heap' = Block \cup {ORIG} /\ heap'[ORIG] = heap[ORIG]
         /\ \A u \in H : mid[u] # NULL => var'[u] = mid[u] /\ heap'[var'[u]] = heap[mid[u]]
         /\ var'[v] # NULL => heap'[var'[v]] = d /\ Bytes(d) # 0
  <1>0. NULL \notin Block /\ ORIG \notin Block
    BY StdAudFmtAssumption
  <1>1. ASSUME NEW b \in Block, b \notin live, Bytes(d) # 0,
               heap' = [heap EXCEPT ![b] = d], var' = [mid EXCEPT ![v] = b]
        PROVE  /\ DOMAIN heap' = Block \cup {ORIG} /\ heap'[ORIG] = heap[ORIG]
               /\ \A u \in H : mid[u] # NULL => var'[u] = mid[u] /\ heap'[var'[u]] = heap[mid[u]]
               /\ heap'[var'[v]] = d
    <2>1. DOMAIN heap' = Block \cup {ORIG} /\ heap'[ORIG] = heap[ORIG] /\ heap'[b] = d
      BY <1>0, <1>1
    <2>2. var'[v] = b /\ \A u \in H : var'[u] = mid[u]
      BY <1>1
    <2>3. \A u \in H : mid[u] # b
      BY <1>1 DEF Owned
    <2>4. \A u \in H : mid[u] # NULL => mid[u] \in Block \cup {ORIG}
      BY DEF Pointer
    <2>. QED BY <1>1, <2>1, <2>2, <2>3, <2>4
  <1>2. ASSUME heap' = heap, var' = [mid EXCEPT ![v] = NULL]
        PROVE  /\ heap'[ORIG] = heap[ORIG] /\ var'[v] = NULL
               /\ \A u \in H : var'[u] = mid[u] /\ heap'[var'[u]] = heap[mid[u]]
    BY <1>2
  <1>. QED BY <1>1, <1>2 DEF New

\* So does a free, but for what is freed.
LEMMA FreeKeeps ==
  ASSUME var \in [Local -> Pointer], NEW H \in SUBSET Local, NEW vs \in SUBSET H,
         Owned(H, var, live), \A v \in vs : var[v] # ORIG,
         DOMAIN heap = Block \cup {ORIG}, FreeMemory(vs)
  PROVE  /\ DOMAIN heap' = Block \cup {ORIG} /\ heap'[ORIG] = heap[ORIG]
         /\ \A u \in H \ vs : var[u] # NULL => heap'[var[u]] = heap[var[u]]
  <1>0. NULL \notin Block /\ ORIG \notin Block
    BY StdAudFmtAssumption
  <1>1. heap' = [b \in Block \cup {ORIG} |-> IF b \in Pointers(vs) THEN Nothing ELSE heap[b]]
    BY DEF FreeMemory
  <1>2. ORIG \notin Pointers(vs)
    BY DEF Pointers
  <1>3. ASSUME NEW u \in H \ vs, var[u] # NULL
        PROVE  var[u] \in Block \cup {ORIG} /\ var[u] \notin Pointers(vs)
    <2>1. var[u] \in Block \cup {ORIG}
      BY <1>3 DEF Pointer
    <2>2. \A v \in vs : v # u /\ v \in H
      BY <1>3
    <2>3. var[u] \in Block => \A v \in vs : var[v] # var[u]
      BY <2>2, <1>3 DEF Owned
    <2>. QED BY <1>2, <2>1, <2>3 DEF Pointers
  <1>. QED BY <1>1, <1>2, <1>3

\* While the header and the input stay, so does what the steps make of them.
LEMMA SameValues ==
  ASSUME header' = header, heap'[ORIG] = heap[ORIG]
  PROVE  /\ Format' = Format /\ Floats' = Floats /\ Stereo' = Stereo /\ Standard' = Standard
         /\ Side(0)' = Side(0) /\ Side(1)' = Side(1)
         /\ Resampled(0)' = Resampled(0) /\ Resampled(1)' = Resampled(1)
  <1>1. Format' = Format
    BY DEF Format
  <1>2. Floats' = Floats
    BY DEF Floats
  <1>3. Stereo' = Stereo
    BY <1>2 DEF Stereo
  <1>4. Side(0)' = Side(0) /\ Side(1)' = Side(1)
    BY <1>3 DEF Side
  <1>5. Resampled(0)' = Resampled(0) /\ Resampled(1)' = Resampled(1)
    BY <1>4 DEF Resampled
  <1>6. Standard' = Standard
    BY <1>3, <1>5 DEF Standard
  <1>. QED BY <1>1, <1>2, <1>3, <1>4, <1>5, <1>6

LEMMA ContentsInit == Init => Contents
  BY DEF Init, ConversionInit, Contents, Format, Known, Holders, Resampling

\* Within the resampling the values do not depend on the step.
LEMMA ResamplingValues ==
  ASSUME header' = header, heap'[ORIG] = heap[ORIG], pc \in Resampling,
         pc' \in Resampling \cup {"freePrev", "freeFailed"}, NEW v \in Local \ {"orig"}
  PROVE  Value(pc, v)' = Value(pc, v)
  <1>1. v \in {"prev", "orig_l", "orig_r", "dest_l", "dest_r", "current"}
    BY DEF Local
  <1>2. pc \notin {"toStereo", "toRate"} /\ pc' \notin {"toStereo", "toRate"}
    BY DEF Resampling
  <1>. QED BY <1>1, <1>2, SameValues DEF Value


\* The conversion leaves the input alone.
KeepsInput == heap'[ORIG] = heap[ORIG] /\ header' = header

\* An allocation within the resampling, of the right value.
LEMMA ContentsAllocates ==
  ASSUME Ownership, Contents, pc \in Resampling, NEW v \in Local \ {"orig", "prev"}, NEW d,
         v \notin Holders(pc), New(v, d, var), pc' \in Resampling,
         Holders(pc') = Holders(pc) \cup {v}, header' = header,
         Bytes(d) # 0 => d = Value(pc, v)
  PROVE  Contents' /\ KeepsInput
  <1>1. /\ var \in [Local -> Pointer] /\ Owned(Holders(pc), var, live)
        /\ DOMAIN heap = Block \cup {ORIG} /\ Holders(pc) \in SUBSET (Local \ {"orig"})
    BY DEF Ownership, Aliasing, Contents, Holders, Local, Resampling
  <1>2. /\ DOMAIN heap' = Block \cup {ORIG} /\ heap'[ORIG] = heap[ORIG]
        /\ \A u \in Holders(pc) : var[u] # NULL => var'[u] = var[u] /\ heap'[var'[u]] = heap[var[u]]
        /\ var'[v] # NULL => heap'[var'[v]] = d /\ Bytes(d) # 0
    BY <1>1, NewKeeps
  <1>3. \A u \in Local : u # v => var'[u] = var[u]
    BY <1>1, NewOwned
  <1>4. Format' /\ header'.SampleRate # StdRate
    BY <1>2, SameValues DEF Contents
  <1>5. Known(pc)' = Holders(pc) \cup {v} /\ Known(pc) = Holders(pc)
    BY DEF Known
  <1>6. ASSUME NEW u \in Holders(pc), var'[u] # NULL
        PROVE  heap'[var'[u]] = Value(pc, u)' /\ Bytes(heap'[var'[u]]) # 0
    <2>1. var'[u] = var[u] /\ u \in Local \ {"orig"}
      BY <1>1, <1>3, <1>6
    <2>2. heap'[var'[u]] = Value(pc, u) /\ Bytes(heap[var[u]]) # 0 /\ heap'[var'[u]] = heap[var[u]]
      BY <1>2, <1>5, <1>6, <2>1 DEF Contents
    <2>3. Value(pc, u)' = Value(pc, u)
      BY <1>2, <2>1, ResamplingValues
    <2>. QED BY <2>2, <2>3
  <1>7. var'[v] # NULL => heap'[var'[v]] = Value(pc, v)' /\ Bytes(heap'[var'[v]]) # 0
    <2>1. Value(pc, v)' = Value(pc, v)
      BY <1>2, ResamplingValues
    <2>. QED BY <1>2, <2>1
  <1>. QED BY <1>2, <1>4, <1>5, <1>6, <1>7 DEF Contents, KeepsInput

\* Frees within the resampling.
LEMMA ContentsFrees ==
  ASSUME Ownership, Contents, pc \in Resampling, NEW vs \in SUBSET (Holders(pc) \ {"prev"}),
         Free(vs), Known(pc)' \subseteq Holders(pc), header' = header,
         pc' \in Resampling \cup {"freePrev", "freeFailed"}
  PROVE  Contents' /\ KeepsInput
  <1>1. /\ var \in [Local -> Pointer] /\ Owned(Holders(pc), var, live)
        /\ DOMAIN heap = Block \cup {ORIG} /\ Holders(pc) \in SUBSET (Local \ {"orig"})
        /\ \A u \in vs : var[u] # ORIG
    BY DEF Ownership, Aliasing, Contents, Holders, Local, Resampling
  <1>2. /\ DOMAIN heap' = Block \cup {ORIG} /\ heap'[ORIG] = heap[ORIG]
        /\ \A u \in Holders(pc) \ vs : var[u] # NULL => heap'[var[u]] = heap[var[u]]
    BY <1>1, FreeKeeps DEF Free
  <1>3. \A u \in Local : var'[u] = IF u \in vs THEN NULL ELSE var[u]
    BY DEF Free, Nulled
  <1>4. Format' /\ header'.SampleRate # StdRate
    BY <1>2, SameValues DEF Contents
  <1>5. ASSUME NEW u \in Known(pc)', var'[u] # NULL
        PROVE  heap'[var'[u]] = Value(pc, u)' /\ Bytes(heap'[var'[u]]) # 0
    <2>1. u \in Holders(pc) /\ u \in Local \ {"orig"} /\ u \notin vs /\ var'[u] = var[u]
          /\ u \in Known(pc)
      BY <1>1, <1>3, <1>5 DEF Known
    <2>2. heap'[var'[u]] = Value(pc, u) /\ Bytes(heap[var[u]]) # 0 /\ heap'[var'[u]] = heap[var[u]]
      BY <1>2, <1>5, <2>1 DEF Contents
    <2>3. Value(pc, u)' = Value(pc, u)
      BY <1>2, <2>1, ResamplingValues
    <2>. QED BY <2>2, <2>3
  <1>. QED BY <1>2, <1>4, <1>5 DEF Contents, KeepsInput

\* Merging gives something only when both sides are there.
LEMMA MergeNeedsBoth ==
  ASSUME NEW l, NEW r, Bytes(MergeToStereo(l, r)) # 0
  PROVE  r # Nothing /\ Bytes(l) = Bytes(r)
  <1>. DEFINE e == [i \in 1 .. 2 * Len(r.data) |->
                      IF i % 2 = 1 THEN l.data[(i + 1) \div 2] ELSE r.data[i \div 2]]
  <1>1. Bytes(Nothing) = 0
    BY DEF Bytes, Nothing, FloatSize
  <1>2. Bytes(l) = Bytes(r) /\ MergeToStereo(l, r) = Datapoints(e, 0)
    BY <1>1 DEF MergeToStereo
  <1>3. ASSUME r = Nothing PROVE FALSE
    <2>1. Len(r.data) = 0
      BY <1>3 DEF Nothing
    <2>2. Len(e) = 0
      BY <2>1
    <2>. HIDE DEF e
    <2>3. Bytes(Datapoints(e, 0)) = 0
      BY <2>2 DEF Bytes, Datapoints, FloatSize
    <2>. QED BY <1>2, <2>3
  <1>. QED BY <1>2, <1>3

\* The two channels and their merging.
LEMMA ContentsResampling ==
  ASSUME Ownership, Contents, LeftChannel \/ RightChannel \/ Merge \/ DropBoth
  PROVE  Contents' /\ KeepsInput
  <1>0. Bytes(Nothing) = 0
    BY DEF Bytes, Nothing, FloatSize
  <1>1. ASSUME NEW label, NEW orig \in {"orig_l", "orig_r"}, NEW k \in 0 .. 1, NEW next,
               SplitChannel(label, orig, k, next), label \in Resampling, next \in Resampling,
               orig \notin Holders(label), "prev" \in Holders(label),
               Holders(next) = Holders(label) \cup {orig}, Value(label, orig) = Side(k)
        PROVE  Contents' /\ KeepsInput
    <2>. DEFINE d == Split(Content("prev"), StdChannels, k)
    <2>1. pc = label /\ pc' = next /\ header' = header /\ New(orig, d, var)
      BY <1>1 DEF SplitChannel, Goto
    <2>2. var["prev"] # NULL
      BY <1>1, <2>1, StdAudFmtAssumption DEF Ownership, Aliasing
    <2>3. Content("prev") = Stereo
      BY <1>1, <2>1, <2>2 DEF Content, Contents, Known, Value
    <2>4. d = Value(pc, orig)
      BY <1>1, <2>1, <2>3 DEF Side
    <2>5. orig \in Local \ {"orig", "prev"}
      BY DEF Local
    <2>. HIDE DEF d
    <2>. QED BY <1>1, <2>1, <2>4, <2>5, ContentsAllocates
  <1>2. ASSUME NEW label, NEW orig \in {"orig_l", "orig_r"}, NEW dest \in {"dest_l", "dest_r"},
               NEW k \in 0 .. 1, NEW next,
               ResampleChannel(label, orig, dest, next), label \in Resampling, next \in Resampling,
               dest \notin Holders(label), orig \in Holders(label),
               Holders(next) = Holders(label) \cup {dest}, Value(label, orig) = Side(k),
               Value(label, dest) = Resampled(k)
        PROVE  Contents' /\ KeepsInput
    <2>. DEFINE d == ToSamplerateMono(Content(orig), header.SampleRate, StdRate)
    <2>1. pc = label /\ pc' = next /\ header' = header /\ New(dest, d, var)
      BY <1>2 DEF ResampleChannel, Goto
    <2>2. ASSUME var[orig] = NULL PROVE Bytes(d) = 0
      <3>1. Content(orig) = Nothing /\ Format
        BY <2>2 DEF Content, Contents
      <3>2. d.tail = 0 /\ Len(d.data) = 0
        BY <3>1, ResampledNothing
      <3>. QED BY <3>2 DEF Bytes, FloatSize
    <2>3. ASSUME var[orig] # NULL PROVE d = Value(pc, dest)
      <3>1. Content(orig) = Side(k)
        BY <1>2, <2>1, <2>3 DEF Content, Contents, Known
      <3>. QED BY <1>2, <2>1, <3>1 DEF Resampled
    <2>4. Bytes(d) # 0 => d = Value(pc, dest)
      BY <1>2, <2>1, <2>2, <2>3
    <2>5. dest \in Local \ {"orig", "prev"}
      BY DEF Local
    <2>. HIDE DEF d
    <2>. QED BY <1>2, <2>1, <2>4, <2>5, ContentsAllocates
  <1>3. ASSUME NEW label, NEW orig, NEW dest, NEW others, NEW next,
               DropChannel(label, orig, dest, others, next), label \in Resampling, next \in Resampling,
               {orig, dest} \cup others \subseteq Holders(label) \ {"prev"},
               Holders(next) \subseteq Holders(label)
        PROVE  Contents' /\ KeepsInput
    <2>. DEFINE vs == IF var[orig] = NULL \/ var[dest] = NULL
                      THEN {orig, dest} \cup others ELSE {orig}
    <2>1. pc = label /\ pc' = next /\ header' = header /\ Free(vs)
      BY <1>3 DEF DropChannel, Goto
    <2>2. vs \in SUBSET (Holders(pc) \ {"prev"})
      BY <1>3, <2>1
    <2>3. Known(pc)' \subseteq Holders(pc)
      BY <1>3, <2>1 DEF Known
    <2>. HIDE DEF vs
    <2>. QED BY <1>3, <2>1, <2>2, <2>3, ContentsFrees
  <1>4. CASE LeftChannel
    <2>. USE DEF Resampling, Holders, Value
    <2>1. CASE SplitChannel("splitLeft", "orig_l", 0, "resampleLeft")
      BY <1>1, <2>1
    <2>2. CASE ResampleChannel("resampleLeft", "orig_l", "dest_l", "dropLeft")
      BY <1>2, <2>2
    <2>3. CASE DropChannel("dropLeft", "orig_l", "dest_l", {}, "splitRight")
      BY <1>3, <2>3
    <2>. QED BY <1>4, <2>1, <2>2, <2>3 DEF LeftChannel
  <1>5. CASE RightChannel
    <2>. USE DEF Resampling, Holders, Value
    <2>1. CASE SplitChannel("splitRight", "orig_r", 1, "resampleRight")
      BY <1>1, <2>1
    <2>2. CASE ResampleChannel("resampleRight", "orig_r", "dest_r", "dropRight")
      BY <1>2, <2>2
    <2>3. CASE DropChannel("dropRight", "orig_r", "dest_r", {"dest_l"}, "merge")
      BY <1>3, <2>3
    <2>. QED BY <1>5, <2>1, <2>2, <2>3 DEF RightChannel
  <1>6. CASE Merge
    <2>. DEFINE l == Content("dest_l")
                r == Content("dest_r")
                d == MergeToStereo(l, r)
    <2>1. /\ pc = "merge" /\ pc' = "dropBoth" /\ header' = header /\ New("current", d, var)
          /\ header.SampleRate # StdRate
      BY <1>6 DEF Merge, Goto, Contents, Resampling
    <2>2. /\ var["dest_l"] # NULL => l = Resampled(0)
          /\ var["dest_r"] # NULL => r = Resampled(1) /\ Bytes(r) # 0
      BY <2>1 DEF Content, Contents, Known, Value, Resampling, Holders
    <2>3. /\ var["dest_l"] = NULL => l = Nothing
          /\ var["dest_r"] = NULL => r = Nothing
      BY DEF Content
    <2>. HIDE DEF l, r
    <2>4. Bytes(d) # 0 => l = Resampled(0) /\ r = Resampled(1)
      BY <1>0, <2>2, <2>3, MergeNeedsBoth
    <2>5. Bytes(d) # 0 => d = Value(pc, "current")
      BY <2>1, <2>4 DEF Value, Standard
    <2>. HIDE DEF d
    <2>6. pc \in Resampling /\ pc' \in Resampling /\ "current" \in Local \ {"orig", "prev"}
          /\ "current" \notin Holders(pc) /\ Holders(pc') = Holders(pc) \cup {"current"}
      BY <2>1 DEF Resampling, Holders, Local
    <2>. QED BY <2>1, <2>5, <2>6, ContentsAllocates
  <1>7. CASE DropBoth
    <2>1. /\ pc = "dropBoth" /\ Free({"dest_l", "dest_r"}) /\ header' = header
          /\ pc' \in {"freePrev", "freeFailed"}
      BY <1>7 DEF DropBoth, Goto
    <2>2. /\ pc \in Resampling /\ {"dest_l", "dest_r"} \in SUBSET (Holders(pc) \ {"prev"})
          /\ Known(pc)' \subseteq Holders(pc)
      BY <2>1 DEF Resampling, Holders, Known
    <2>. QED BY <2>1, <2>2, ContentsFrees
  <1>. QED BY <1>4, <1>5, <1>6, <1>7

\* What comes before the resampling, and its end.
LEMMA ContentsOther ==
  ASSUME Ownership, Contents, ToFloat \/ ToStereo \/ IsStereo \/ IsStdRate \/ ToRate \/ FreePrev
  PROVE  Contents' /\ KeepsInput
  <1>0. /\ NULL \notin Block /\ ORIG \notin Block /\ NULL # ORIG
        /\ {"orig", "prev", "current"} \subseteq Local
    BY StdAudFmtAssumption DEF Local
  <1>1. /\ var \in [Local -> Pointer] /\ Owned(Holders(pc), var, live)
        /\ pc # "idle" => var["orig"] = ORIG
        /\ DOMAIN heap = Block \cup {ORIG} /\ Format
    BY DEF Ownership, Aliasing, Contents
  <1>. DEFINE Only(v, value) == var'[v] # NULL => heap'[var'[v]] = value /\ Bytes(heap'[var'[v]]) # 0
  <1>2. ASSUME NEW d, NEW mid \in [Local -> Pointer], Owned({"prev"}, mid, live), New("current", d, mid)
        PROVE  /\ DOMAIN heap' = Block \cup {ORIG} /\ heap'[ORIG] = heap[ORIG]
               /\ Only("current", d)
    <2>. DEFINE H == {"prev"}
    <2>1. H \in SUBSET Local /\ "current" \in Local /\ "current" \notin H /\ Owned(H, mid, live)
      BY <1>0, <1>2
    <2>. HIDE DEF H
    <2>. QED BY <1>1, <1>2, <2>1, NewKeeps
  <1>3. CASE ToFloat
    <2>. DEFINE d == Floats
    <2>1. pc = "toFloat" /\ header' = header
          /\ New("current", ToF32(Content("orig"), header.BitsPerSample), var)
          /\ pc' = IF var'["current"] = NULL THEN "failed" ELSE "toStereo"
      BY <1>3 DEF ToFloat, Goto
    <2>2. Content("orig") = heap[ORIG]
      BY <1>0, <1>1, <2>1 DEF Content
    <2>3. New("current", Floats, var)
      BY <2>1, <2>2 DEF Floats
    <2>4. Owned({"prev"}, var, live)
      BY <1>1, <2>1 DEF Holders
    <2>5. DOMAIN heap' = Block \cup {ORIG} /\ heap'[ORIG] = heap[ORIG] /\ Only("current", Floats)
      BY <1>1, <1>2, <2>3, <2>4
    <2>6. Format' /\ Floats' = Floats
      BY <1>1, <2>1, <2>5, SameValues
    <2>7. CASE pc' = "failed"
      BY <2>1, <2>5, <2>6, <2>7 DEF Contents, KeepsInput, Known, Holders, Resampling
    <2>8. CASE pc' = "toStereo"
      <3>1. Known(pc)' = {"current"} /\ Value(pc, "current")' = Floats'
        BY <2>8 DEF Known, Holders, Resampling, Value
      <3>. QED BY <2>1, <2>5, <2>6, <2>8, <3>1 DEF Contents, KeepsInput, Resampling
    <2>. QED BY <2>1, <2>7, <2>8
  <1>4. CASE ToStereo
    <2>. DEFINE mid == [var EXCEPT !["prev"] = var["current"]]
    <2>1. pc = "toStereo" /\ header' = header /\ header.NumChannels = 1
          /\ New("current", MonoToXChannels(Content("current"), StdChannels), mid)
          /\ pc' = IF var'["current"] = NULL THEN "freeFailed" ELSE "toRate"
      BY <1>4 DEF ToStereo, Goto
    <2>2. var["current"] \in Block
      BY <2>1 DEF Ownership, Aliasing
    <2>3. Content("current") = Floats
      <3>1. "current" \in Known(pc) /\ Value(pc, "current") = Floats
        BY <2>1 DEF Known, Holders, Resampling, Value
      <3>. QED BY <1>0, <2>2, <3>1 DEF Content, Contents
    <2>4. New("current", Stereo, mid)
      BY <2>1, <2>3 DEF Stereo
    <2>5. mid \in [Local -> Pointer] /\ mid["prev"] = var["current"]
      BY <1>0, <1>1
    <2>6. Owned({"prev", "current"}, var, live)
      BY <1>1, <2>1 DEF Holders
    <2>7. Owned({"prev"}, mid, live)
      <3>1. var["prev"] = ORIG
        BY <2>1 DEF Ownership, Aliasing
      <3>. HIDE DEF mid
      <3>. QED BY <1>0, <2>2, <2>5, <2>6, <3>1 DEF Owned
    <2>. HIDE DEF mid
    <2>8. DOMAIN heap' = Block \cup {ORIG} /\ heap'[ORIG] = heap[ORIG] /\ Only("current", Stereo)
      BY <1>2, <2>4, <2>5, <2>7
    <2>9. Format' /\ Stereo' = Stereo
      BY <1>1, <2>1, <2>8, SameValues
    <2>10. CASE pc' = "freeFailed"
      <3>1. Known(pc)' = {"current"} /\ var'["current"] = NULL
        BY <2>1, <2>10 DEF Known, Holders, Resampling
      <3>. QED BY <2>1, <2>8, <2>9, <2>10, <3>1 DEF Contents, KeepsInput, Resampling
    <2>11. CASE pc' = "toRate"
      <3>1. Known(pc)' = {"current"} /\ Value(pc, "current")' = Stereo'
        BY <2>11 DEF Known, Holders, Resampling, Value
      <3>. QED BY <2>1, <2>8, <2>9, <2>11, <3>1 DEF Contents, KeepsInput, Resampling
    <2>. QED BY <2>1, <2>10, <2>11
  <1>5. ASSUME pc \in {"toStereo", "toRate"}, pc' \in {"toRate", "freePrev"},
               UNCHANGED <<header, var, heap>>,
               Value(pc', "current") = Value(pc, "current")
        PROVE  Contents' /\ KeepsInput
    <2>1. Known(pc) = {"current"} /\ Known(pc)' = {"current"}
      BY <1>5 DEF Known, Holders, Resampling
    <2>2. Value(pc, "current")' = Value(pc', "current")
      BY <1>5, SameValues DEF Value
    <2>3. Only("current", Value(pc, "current"))
      BY <1>5, <2>1 DEF Contents
    <2>4. Format'
      BY <1>1, <1>5, SameValues
    <2>. QED BY <1>1, <1>5, <2>1, <2>2, <2>3, <2>4 DEF Contents, KeepsInput, Resampling
  <1>6. CASE IsStereo
    <2>1. pc = "toStereo" /\ pc' = "toRate" /\ Floats = Stereo
      BY <1>6 DEF IsStereo, Goto, Stereo
    <2>. QED BY <1>5, <1>6, <2>1 DEF IsStereo, Value
  <1>7. CASE IsStdRate
    <2>1. pc = "toRate" /\ pc' = "freePrev" /\ Standard = Stereo
      BY <1>7 DEF IsStdRate, Goto, Standard
    <2>. QED BY <1>5, <1>7, <2>1 DEF IsStdRate, Value
  <1>8. ASSUME pc \in {"toRate", "freePrev", "freeFailed"}, FreeMemory(PrevIfOurs), header' = header
        PROVE  /\ DOMAIN heap' = Block \cup {ORIG} /\ heap'[ORIG] = heap[ORIG]
               /\ var["current"] # NULL =>
                    /\ heap'[var["current"]] = Value(pc, "current")
                    /\ Bytes(heap'[var["current"]]) # 0
    <2>1. Owned({"prev", "current"}, var, live) /\ var["orig"] = ORIG
      BY <1>1, <1>8 DEF Holders
    <2>2. "current" \in Known(pc)
      BY <1>8 DEF Known, Holders, Resampling
    <2>. DEFINE H == {"prev", "current"}
    <2>3. H \in SUBSET Local /\ PrevIfOurs \in SUBSET H /\ (\A v \in PrevIfOurs : var[v] # ORIG)
          /\ "current" \in H \ PrevIfOurs /\ Owned(H, var, live)
      BY <1>0, <2>1 DEF PrevIfOurs
    <2>. HIDE DEF H
    <2>4. /\ DOMAIN heap' = Block \cup {ORIG} /\ heap'[ORIG] = heap[ORIG]
          /\ var["current"] # NULL => heap'[var["current"]] = heap[var["current"]]
      BY <1>1, <1>8, <2>3, FreeKeeps
    <2>. QED BY <2>2, <2>4 DEF Contents, KeepsInput
  <1>9. CASE ToRate
    <2>1. pc = "toRate" /\ pc' = "splitLeft" /\ FreeMemory(PrevIfOurs) /\ header' = header
          /\ var' = [var EXCEPT !["prev"] = var["current"]] /\ header.SampleRate # StdRate
      BY <1>9 DEF ToRate, Goto
    <2>2. var'["prev"] = var["current"]
      BY <1>0, <1>1, <2>1
    <2>3. Known(pc)' = {"prev"} /\ Value(pc, "prev")' = Stereo' /\ Value(pc, "current") = Stereo
      BY <2>1 DEF Known, Holders, Resampling, Value
    <2>4. /\ DOMAIN heap' = Block \cup {ORIG} /\ heap'[ORIG] = heap[ORIG] /\ Only("prev", Stereo)
      BY <1>8, <2>1, <2>2, <2>3
    <2>5. Format' /\ Stereo' = Stereo
      BY <1>1, <2>1, <2>4, SameValues
    <2>. QED BY <2>1, <2>3, <2>4, <2>5 DEF Contents, KeepsInput
  <1>10. CASE FreePrev
    <2>1. pc \in {"freePrev", "freeFailed"} /\ FreeMemory(PrevIfOurs) /\ var' = Nulled(PrevIfOurs)
          /\ header' = header /\ pc' = IF pc = "freePrev" THEN "ok" ELSE "failed"
      BY <1>10 DEF FreePrev, Free, Goto
    <2>2. var'["current"] = var["current"]
      BY <1>0, <1>1, <2>1 DEF Nulled, PrevIfOurs
    <2>3. DOMAIN heap' = Block \cup {ORIG} /\ heap'[ORIG] = heap[ORIG]
      BY <1>8, <2>1
    <2>4. Format' /\ Standard' = Standard
      BY <1>1, <2>1, <2>3, SameValues
    <2>5. CASE pc' = "failed"
      BY <2>1, <2>3, <2>4, <2>5 DEF Contents, KeepsInput, Known, Holders, Resampling
    <2>6. CASE pc' = "ok"
      <3>1. Known(pc)' = {"current"} /\ Value(pc, "current")' = Standard'
            /\ Value(pc, "current") = Standard
        BY <2>1, <2>6 DEF Known, Holders, Resampling, Value
      <3>2. Only("current", Standard)
        BY <1>8, <2>1, <2>2, <3>1
      <3>. QED BY <2>1, <2>3, <2>4, <2>6, <3>1, <3>2 DEF Contents, KeepsInput, Resampling
    <2>. QED BY <2>1, <2>5, <2>6
  <1>. QED BY <1>3, <1>4, <1>6, <1>7, <1>9, <1>10

\* The caller: nothing is known of the memory of a conversion that has not begun.
LEMMA ContentsCaller ==
  ASSUME Ownership, Contents,
         \/ WAV_EOF \/ WAV_UnequalRead \/ WAV_Read \/ FLAC_EOF \/ FLAC_Read
         \/ Deliver \/ ConversionError
  PROVE  Contents'
  <1>0. {"orig", "prev", "current"} \subseteq Local
    BY DEF Local
  <1>1. ASSUME UNCHANGED conversionVars PROVE Contents'
    BY <1>1, SameValues DEF conversionVars, Contents, Value
  <1>2. CASE WAV_EOF \/ WAV_UnequalRead \/ FLAC_EOF
    BY <1>1, <1>2 DEF WAV_EOF, WAV_UnequalRead, FLAC_EOF, GiveUp
  <1>3. ASSUME NEW input, Convert(input) PROVE Contents'
    <2>1. pc' = "toFloat" /\ header' = header /\ heap' = [heap EXCEPT ![ORIG] = input]
      BY <1>3 DEF Convert, Goto
    <2>2. DOMAIN heap' = Block \cup {ORIG} /\ Format'
      BY <2>1 DEF Contents, Format
    <2>. QED BY <2>1, <2>2 DEF Contents, Known, Holders, Resampling
  <1>4. CASE WAV_Read \/ FLAC_Read
    BY <1>3, <1>4 DEF WAV_Read, FLAC_Read, HaveRead
  <1>5. CASE Deliver
    <2>1. pc' = "idle" /\ header' = header /\ FreeMemory({"current"})
      BY <1>5 DEF Deliver, Goto, Free
    <2>2. DOMAIN heap' = Block \cup {ORIG} /\ Format'
      BY <2>1 DEF Contents, Format, FreeMemory
    <2>. QED BY <2>1, <2>2 DEF Contents, Known, Holders, Resampling
  <1>6. CASE ConversionError
    <2>1. pc' = "idle" /\ UNCHANGED <<header, heap>>
      BY <1>6 DEF ConversionError, Goto
    <2>. QED BY <2>1 DEF Contents, Format, Known, Holders, Resampling
  <1>. QED BY <1>2, <1>4, <1>5, <1>6

LEMMA ContentsNext == Ownership /\ Contents /\ [Next]_vars => Contents'
  <1>. SUFFICES ASSUME Ownership, Contents, [Next]_vars PROVE Contents'
    OBVIOUS
  <1>1. CASE UNCHANGED vars
    BY <1>1, SameValues DEF vars, conversionVars, Contents, Value
  <1>2. CASE Convey
    BY <1>2, ContentsResampling, ContentsOther DEF Convey, Conversion
  <1>. QED BY <1>1, <1>2, ContentsCaller DEF Next, Retired

-----------------------------------------------------------------------------
(* What is read                                                            *)

\* The samples of a chunk lie within it.
LEMMA InputIs ==
  ASSUME Format, NEW start \in Nat, NEW n \in Nat
  PROVE  /\ Input(start, n).data \in Seq(Int) /\ Input(start, n).tail \in 0 .. 3
         /\ \A i \in 1 .. Len(Input(start, n).data) :
              /\ start <= Input(start, n).data[i]
              /\ Input(start, n).data[i] + SampleSize <= start + n
  <1>. DEFINE s == SampleSize
              m == n \div s
              d == [i \in 1 .. m |-> start + s * (i - 1)]
  <1>1. s \in {2, 4}
    BY DEF SampleSize, Format
  <1>. HIDE DEF s
  <1>2. m \in Nat /\ n % s \in 0 .. 3 /\ s * m <= n
    BY <1>1, DivNat
  <1>. HIDE DEF m
  <1>3. d \in Seq(Int) /\ Len(d) = m
    BY <1>1, <1>2
  <1>4. ASSUME NEW i \in 1 .. m
        PROVE  start <= start + s * (i - 1) /\ start + s * (i - 1) + s <= start + n
    <2>1. s * (i - 1) >= 0 /\ s * (i - 1) + s <= s * m
      BY <1>1, <1>2
    <2>. QED BY <1>1, <1>2, <2>1
  <1>5. Input(start, n) = Datapoints(d, n % s)
    BY DEF Input, m, s
  <1>. QED BY <1>2, <1>3, <1>4, <1>5 DEF Datapoints, s

\* The file and the places in it; what is being converted is the chunk read last.
Loaded ==
    /\ next_first_frame \in Nat /\ file.frames \in Nat
    /\ chunk.start \in Nat /\ chunk.end \in Nat /\ chunk.start <= chunk.end
    /\ pc # "idle" =>
         /\ load_err = "OK" /\ datapoints = ZeroFilled
         /\ heap[ORIG] = Input(chunk.start, chunk.end - chunk.start)

LEMMA LoadedInput ==
  ASSUME Format, Loaded, pc # "idle"
  PROVE  /\ InputTyped
         /\ \A i \in 1 .. Len(heap[ORIG].data) :
              /\ chunk.start <= heap[ORIG].data[i]
              /\ heap[ORIG].data[i] + SampleSize <= chunk.end
  <1>1. chunk.start \in Nat /\ chunk.end - chunk.start \in Nat
        /\ chunk.start + (chunk.end - chunk.start) = chunk.end
    BY DEF Loaded
  <1>2. heap[ORIG] = Input(chunk.start, chunk.end - chunk.start)
    BY DEF Loaded
  <1>. QED BY <1>1, <1>2, InputIs DEF InputTyped

LEMMA LoadedInit == Init => Loaded
  <1>. SUFFICES ASSUME Init PROVE Loaded
    OBVIOUS
  <1>1. file.frames \in Nat
    BY ChunkStreamAssumption DEF Init
  <1>2. pc = "idle"
    BY DEF Init, ConversionInit
  <1>3. next_first_frame = 0 /\ chunk = [start |-> 0, end |-> 0]
    BY DEF Init
  <1>. QED BY <1>1, <1>2, <1>3 DEF Loaded

\* What a WAV chunk is read as: from the start as far as it goes.
LEMMA WavChunk ==
  ASSUME Format, Loaded
  PROVE  WavStart \in Nat /\ WavBytes \in Nat
  BY SizesNat DEF Loaded, WavStart, WavBytes, Clamp

LEMMA LoadedNext == Ownership /\ Contents /\ Loaded /\ [Next]_vars => Loaded'
  <1>. SUFFICES ASSUME Ownership, Contents, Loaded, [Next]_vars PROVE Loaded'
    OBVIOUS
  <1>1. Format
    BY DEF Contents
  <1>2. CASE UNCHANGED vars \/ Retired
    BY <1>2 DEF vars, conversionVars, Retired, Loaded, Input, SampleSize, ZeroFilled
  <1>3. CASE WAV_EOF \/ WAV_UnequalRead \/ FLAC_EOF
    <2>1. pc' = "idle" /\ UNCHANGED <<file, next_first_frame, chunk>>
      BY <1>3 DEF WAV_EOF, WAV_UnequalRead, FLAC_EOF, GiveUp, Loading, conversionVars
    <2>. QED BY <2>1 DEF Loaded
  <1>4. ASSUME NEW start \in Nat, NEW n \in Nat, HaveRead(start, n), load_err = "OK"
        PROVE  Loaded'
    <2>1. /\ datapoints' = ZeroFilled /\ next_first_frame' = next_first_frame + FrameCount
          /\ chunk' = [start |-> start, end |-> start + n] /\ UNCHANGED <<file, load_err>>
          /\ heap' = [heap EXCEPT ![ORIG] = Input(start, n)] /\ header' = header
      BY <1>4 DEF HaveRead, Convert
    <2>2. heap'[ORIG] = Input(start, n)
      BY <2>1 DEF Contents
    <2>3. /\ chunk'.start = start /\ chunk'.end = start + n /\ chunk'.end - chunk'.start = n
          /\ chunk'.start <= chunk'.end /\ chunk'.end \in Nat
      BY <2>1
    <2>4. Input(start, n)' = Input(start, n) /\ ZeroFilled' = ZeroFilled
      BY <2>1 DEF Input, SampleSize, ZeroFilled
    <2>5. next_first_frame' \in Nat /\ file'.frames \in Nat
      BY <2>1, ChunkStreamAssumption DEF Loaded
    <2>6. heap'[ORIG] = Input(chunk.start, chunk.end - chunk.start)'
      BY <2>1, <2>2, <2>3 DEF Input, SampleSize
    <2>. QED BY <1>4, <2>1, <2>3, <2>4, <2>5, <2>6 DEF Loaded
  <1>5. CASE WAV_Read
    BY <1>1, <1>4, <1>5, WavChunk DEF WAV_Read, Loading
  <1>6. CASE FLAC_Read
    <2>1. StartFrame * FrameSize \in Nat /\ BufferSize \in Nat
      BY <1>1, SizesNat, ProductNat DEF Loaded
    <2>. QED BY <1>4, <1>6, <2>1 DEF FLAC_Read, Loading
  <1>7. CASE Convey
    <2>1. heap'[ORIG] = heap[ORIG] /\ header' = header
      BY <1>7, ContentsResampling, ContentsOther DEF Convey, Conversion, KeepsInput
    <2>2. UNCHANGED <<file, next_first_frame, datapoints, load_err, chunk>> /\ pc # "idle"
      BY <1>7 DEF Convey, Conversion, ToFloat, ToStereo, IsStereo, IsStdRate, ToRate, LeftChannel,
                  RightChannel, SplitChannel, ResampleChannel, DropChannel, Merge, DropBoth, FreePrev
    <2>3. Input(chunk.start, chunk.end - chunk.start)' = Input(chunk.start, chunk.end - chunk.start)
      BY <2>1, <2>2 DEF Input, SampleSize
    <2>. QED BY <2>1, <2>2, <2>3 DEF Loaded, ZeroFilled
  <1>8. CASE Deliver \/ ConversionError
    <2>1. pc' = "idle" /\ UNCHANGED <<file, next_first_frame, chunk>>
      BY <1>8 DEF Deliver, ConversionError, Goto
    <2>. QED BY <2>1 DEF Loaded
  <1>. QED BY <1>2, <1>3, <1>5, <1>6, <1>7, <1>8 DEF Next

-----------------------------------------------------------------------------
(* What comes out                                                          *)

\* Every datapoint of the standard format is silence, which only the last one may
\* be, or lies between two samples of the input.
LEMMA StandardDrawn ==
  ASSUME Format, InputTyped, Bytes(Standard) # 0, NEW i \in DOMAIN Standard.data
  PROVE  \/ Standard.data[i] = Silence
         \/ \E a, b \in 1 .. Len(heap[ORIG].data) :
              Standard.data[i] = Sample(heap[ORIG].data[a], heap[ORIG].data[b])
  <1>. DEFINE n == Len(heap[ORIG].data)
  <1>1. /\ OutFrames \in Nat /\ Len(Standard.data) \in {2 * OutFrames, 2 * OutFrames + 1}
        /\ header.SampleRate # StdRate => Len(Standard.data) = 2 * OutFrames
        /\ i \in 1 .. Len(Standard.data)
        /\ Frames = 0 => OutFrames = 0
        /\ \A f \in 0 .. OutFrames - 1, side \in 0 .. 1 :
              Standard.data[2 * f + side + 1] =
                IF header.SampleRate = StdRate THEN Sample(Origin(f, side), Origin(f, side))
                ELSE Sample(Origin(Lower(f), side), Origin(Upper(f), side))
    BY StandardIs
  <1>2. Frames \in Nat /\ n \in Nat
    BY StereoIs, FloatsAre
  <1>3. ASSUME NEW frame \in 0 .. Frames - 1, NEW side \in 0 .. 1
        PROVE  \E a \in 1 .. n : Origin(frame, side) = heap[ORIG].data[a]
    <2>1. CASE header.NumChannels = 1
      <3>1. Frames = n \div 1 /\ Origin(frame, side) = heap[ORIG].data[frame * 1 + 0 + 1]
        BY <2>1 DEF Frames, Origin
      <3>2. Frames = n
        BY <1>2, <3>1, Halves
      <3>3. frame * 1 + 0 + 1 \in 1 .. n
        BY <1>2, <3>2
      <3>. QED BY <3>1, <3>3
    <2>2. CASE header.NumChannels = 2
      <3>1. Frames = n \div 2 /\ Origin(frame, side) = heap[ORIG].data[frame * 2 + side + 1]
        BY <2>2 DEF Frames, Origin
      <3>2. n \in {2 * Frames, 2 * Frames + 1}
        BY <1>2, <3>1, Halves
      <3>3. frame * 2 + side + 1 \in 1 .. n
        BY <1>2, <3>2
      <3>. QED BY <3>1, <3>3
    <2>. QED BY <2>1, <2>2 DEF Format, Channels
  <1>4. CASE i <= 2 * OutFrames
    <2>. DEFINE f    == (i - 1) \div 2
                side == (i - 1) % 2
    <2>1. f \in 0 .. OutFrames - 1 /\ side \in 0 .. 1 /\ 2 * f + side + 1 = i
      <3>1. OutFrames \in Nat /\ i \in 1 .. 2 * OutFrames
        BY <1>1, <1>4
      <3>. QED BY <3>1, FrameAndSide
    <2>. HIDE DEF f, side
    <2>2. Frames \in Nat \ {0} /\ f \in Nat
      BY <1>1, <1>2, <2>1
    <2>3. PICK lo, hi \in 0 .. Frames - 1 : Standard.data[i] = Sample(Origin(lo, side), Origin(hi, side))
      <3>1. CASE header.SampleRate = StdRate
        <4>1. f \in 0 .. Frames - 1
          BY <2>1, <3>1 DEF OutFrames
        <4>. QED BY <1>1, <2>1, <3>1, <4>1
      <3>2. CASE header.SampleRate # StdRate
        BY <1>1, <2>1, <2>2, <3>2, Interpolation
      <3>. QED BY <3>1, <3>2
    <2>. QED BY <1>3, <2>1, <2>3
  <1>5. CASE i > 2 * OutFrames
    <2>1. header.SampleRate = StdRate /\ Len(Standard.data) = 2 * OutFrames + 1 /\ i = 2 * OutFrames + 1
      BY <1>1, <1>5
    <2>2. Standard = Stereo /\ OutFrames = Frames
      BY <2>1 DEF Standard, OutFrames
    <2>3. \/ Standard.data[i] = Silence
          \/ n = i /\ Standard.data[i] = Sample(heap[ORIG].data[i], heap[ORIG].data[i])
      BY <2>1, <2>2, StereoIs
    <2>4. n = i => i \in 1 .. n
      BY <1>1, <1>2
    <2>. QED BY <2>3, <2>4
  <1>. QED BY <1>1, <1>4, <1>5

\* The conversion makes of the chunk what is stated without its steps.
LEMMA ContentsFaithful ==
  ASSUME Ownership, Contents, Loaded
  PROVE  ConvertsFaithfully
  <1>. SUFFICES ASSUME pc = "ok" PROVE ConvertsFaithfully
    BY DEF ConvertsFaithfully
  <1>. DEFINE input  == heap[ORIG].data
              out    == heap[var["current"]].data
              frames == Len(out) \div StdChannels
              rate   == header.SampleRate
              From(frame, side) == input[frame * header.NumChannels
                                         + (IF header.NumChannels = 1 THEN 0 ELSE side) + 1]
  <1>1. Format /\ InputTyped
    BY LoadedInput DEF Contents
  <1>2. heap[var["current"]] = Standard /\ Bytes(Standard) # 0
    <2>1. var["current"] # NULL
      BY StdAudFmtAssumption DEF Ownership, Aliasing
    <2>2. "current" \in Known(pc) /\ Value(pc, "current") = Standard
      BY DEF Known, Holders, Resampling, Value
    <2>. QED BY <2>1, <2>2 DEF Contents
  <1>3. /\ OutFrames \in Nat /\ Len(Standard.data) \in {2 * OutFrames, 2 * OutFrames + 1}
        /\ Frames = 0 => OutFrames = 0
        /\ \A f \in 0 .. OutFrames - 1, side \in 0 .. 1 :
              Standard.data[2 * f + side + 1] =
                IF rate = StdRate THEN Sample(Origin(f, side), Origin(f, side))
                ELSE Sample(Origin(Lower(f), side), Origin(Upper(f), side))
    BY <1>1, <1>2, StandardIs
  <1>4. frames = OutFrames
    BY <1>2, <1>3, Halves DEF StdChannels
  <1>5. DOMAIN Reference = 0 .. OutFrames - 1
    BY DEF Reference, OutFrames, Frames
  <1>6. ASSUME NEW f \in 0 .. OutFrames - 1
        PROVE  Reference[f] = IF rate = StdRate THEN <<f, f>> ELSE <<Lower(f), Upper(f)>>
    BY <1>6 DEF Reference, OutFrames, Frames, Lower, Upper, Clamp
  <1>7. ASSUME NEW f \in 0 .. OutFrames - 1, NEW side \in 0 .. 1
        PROVE  out[f * StdChannels + side + 1] =
                 Sample(From(Reference[f][1], side), From(Reference[f][2], side))
    <2>1. f * StdChannels + side + 1 = 2 * f + side + 1
      BY <1>3 DEF StdChannels
    <2>2. out[f * StdChannels + side + 1] = Standard.data[2 * f + side + 1]
      BY <1>2, <2>1
    <2>3. \A frame : From(frame, side) = Origin(frame, side)
      BY DEF Origin
    <2>4. Standard.data[2 * f + side + 1] =
            IF rate = StdRate THEN Sample(Origin(f, side), Origin(f, side))
            ELSE Sample(Origin(Lower(f), side), Origin(Upper(f), side))
      BY <1>3
    <2>. HIDE DEF From, out
    <2>5. CASE rate = StdRate
      <3>1. Reference[f][1] = f /\ Reference[f][2] = f
        BY <1>6, <2>5
      <3>. QED BY <2>2, <2>3, <2>4, <2>5, <3>1
    <2>6. CASE rate # StdRate
      <3>1. Reference[f][1] = Lower(f) /\ Reference[f][2] = Upper(f)
        BY <1>6, <2>6
      <3>. QED BY <2>2, <2>3, <2>4, <2>6, <3>1
    <2>. QED BY <2>5, <2>6
  <1>. QED BY <1>4, <1>5, <1>7 DEF ConvertsFaithfully

\* Of the datapoints that are delivered, those that are not silent come from the
\* chunk; all others were silent before.
LEMMA PlaysNext ==
  ASSUME Ownership, Contents, Loaded, PlaysOnlyTheChunk, [Next]_vars
  PROVE  PlaysOnlyTheChunk'
  <1>1. CASE UNCHANGED vars \/ Retired
    BY <1>1 DEF vars, conversionVars, Retired, PlaysOnlyTheChunk, SampleSize
  <1>2. CASE WAV_EOF \/ WAV_UnequalRead \/ FLAC_EOF
    <2>1. datapoints' = ZeroFilled
      BY <1>2 DEF WAV_EOF, WAV_UnequalRead, FLAC_EOF, GiveUp
    <2>. QED BY <2>1 DEF PlaysOnlyTheChunk, ZeroFilled
  <1>3. CASE WAV_Read \/ FLAC_Read
    BY <1>3 DEF WAV_Read, FLAC_Read, HaveRead, Convert, Goto, PlaysOnlyTheChunk
  <1>4. CASE Convey
    <2>1. pc' # "idle"
      BY <1>4 DEF Convey, Conversion, ToFloat, ToStereo, IsStereo, IsStdRate, ToRate, LeftChannel,
                  RightChannel, SplitChannel, ResampleChannel, DropChannel, Merge, DropBoth,
                  FreePrev, Goto
    <2>. QED BY <2>1 DEF PlaysOnlyTheChunk
  <1>5. CASE Deliver
    <2>1. /\ pc = "ok" /\ datapoints' = Copied(Content("current").data)
          /\ UNCHANGED <<header, load_err, chunk>>
      BY <1>5 DEF Deliver
    <2>2. Format /\ InputTyped /\ load_err = "OK" /\ datapoints = ZeroFilled
      BY <2>1, LoadedInput DEF Contents, Loaded
    <2>3. Content("current") = Standard /\ Bytes(Standard) # 0
      <3>1. var["current"] # NULL
        BY <2>1, StdAudFmtAssumption DEF Ownership, Aliasing
      <3>2. "current" \in Known(pc) /\ Value(pc, "current") = Standard
        BY <2>1 DEF Known, Holders, Resampling, Value
      <3>. QED BY <3>1, <3>2 DEF Contents, Content
    <2>. DEFINE result == Standard.data
    <2>4. /\ DOMAIN result = 1 .. Len(result) /\ Len(result) \in Nat
      BY <2>2, <2>3, StandardIs
    <2>5. Len(ZeroFilled) \in Nat /\ \A i \in 1 .. Len(ZeroFilled) : ZeroFilled[i] = Silence
      <3>. DEFINE m == FrameCount * StdChannels
      <3>1. m \in Nat
        BY ChunkStreamAssumption DEF StdChannels
      <3>. HIDE DEF m
      <3>2. ZeroFilled = [i \in 1 .. m |-> Silence]
        BY DEF ZeroFilled, m
      <3>. QED BY <3>1, <3>2
    <2>6. ASSUME NEW i \in DOMAIN datapoints', datapoints'[i] # Silence
          PROVE  i \in DOMAIN result /\ datapoints'[i] = result[i]
      <3>. HIDE DEF result
      <3>1. datapoints' = Copied(result)
        BY <2>1, <2>3 DEF result
      <3>2. i \in 1 .. (IF Len(result) > Len(datapoints) THEN Len(result) ELSE Len(datapoints))
            /\ datapoints'[i] = IF i <= Len(result) THEN result[i] ELSE datapoints[i]
        BY <2>6, <3>1 DEF Copied
      <3>. QED BY <2>2, <2>4, <2>5, <2>6, <3>2
    <2>7. ASSUME NEW i \in DOMAIN datapoints', datapoints'[i] # Silence
          PROVE  chunk.start <= datapoints'[i].lo /\ datapoints'[i].hi + SampleSize <= chunk.end
      <3>1. PICK a, b \in 1 .. Len(heap[ORIG].data) :
              datapoints'[i] = Sample(heap[ORIG].data[a], heap[ORIG].data[b])
        BY <2>2, <2>3, <2>6, <2>7, StandardDrawn
      <3>2. /\ chunk.start <= heap[ORIG].data[a]
            /\ heap[ORIG].data[b] + SampleSize <= chunk.end
        BY <2>1, <2>2, LoadedInput
      <3>. QED BY <3>1, <3>2 DEF Sample
    <2>8. chunk' = chunk /\ SampleSize' = SampleSize /\ load_err' = "OK"
      BY <2>1, <2>2 DEF SampleSize
    <2>. QED BY <2>7, <2>8 DEF PlaysOnlyTheChunk
  <1>6. CASE ConversionError
    BY <1>6 DEF ConversionError, PlaysOnlyTheChunk
  <1>. QED BY <1>1, <1>2, <1>3, <1>4, <1>5, <1>6 DEF Next

LEMMA PlaysInit == Init => PlaysOnlyTheChunk
  BY DEF Init, PlaysOnlyTheChunk

\* The buffer of the decoder is filled up with whole frames.
LEMMA FillFits ==
  ASSUME Format, Loaded
  PROVE  /\ FramesToFill \in Nat /\ FramesAhead \in Nat
         /\ FramesToFill * FrameSize < BufferSize + FrameSize
         /\ header.NumChannels = 1 => FramesToFill * FrameSize <= BufferSize
  <1>1. /\ SampleSize \in {2, 4} /\ header.NumChannels \in {1, 2} /\ FrameSize \in Nat \ {0}
        /\ BufferSize \in Nat /\ StartFrame \in Nat
    BY SizesNat DEF Loaded
  <1>2. FramesAhead \in Nat
    BY <1>1 DEF FramesAhead, Loaded
  <1>3. FramesToFill = (BufferSize + FrameSize - 1) \div FrameSize
    BY DEF FramesToFill, Ceiling
  <1>4. FramesToFill \in Nat /\ FrameSize * FramesToFill <= BufferSize + FrameSize - 1
    <2>1. BufferSize + FrameSize - 1 \in Nat
      BY <1>1
    <2>. HIDE DEF FramesToFill, BufferSize, FrameSize
    <2>2. \A n \in Nat : n \div FrameSize \in Nat /\ FrameSize * (n \div FrameSize) <= n
      BY <1>1, DivNat
    <2>. QED BY <1>3, <2>1, <2>2
  <1>5. FramesToFill * FrameSize < BufferSize + FrameSize
    BY <1>1, <1>4
  <1>6. ASSUME header.NumChannels = 1
        PROVE  FramesToFill * FrameSize <= BufferSize
    <2>1. FrameSize = SampleSize
      BY <1>1, <1>6 DEF FrameSize
    <2>. DEFINE c == Ceil(SamplesToRead)
    <2>2. c \in Nat /\ BufferSize = c * SampleSize
      BY SizesNat DEF BufferSize, Loaded
    <2>. HIDE DEF c
    <2>. QED BY <1>1, <1>4, <2>1, <2>2
  <1>. QED BY <1>2, <1>4, <1>5, <1>6

\* The size of the buffer is that of the header, which no step changes.
LEMMA FitsNext ==
  ASSUME Contents, Loaded, ReadBytesFit, bytes_in_buffer \in Nat, [Next]_vars
  PROVE  ReadBytesFit' /\ bytes_in_buffer' \in Nat
  <1>1. Format
    BY DEF Contents
  <1>2. header' = header
    BY DEF Next, vars, conversionVars, Retired, WAV_EOF, WAV_UnequalRead, FLAC_EOF, GiveUp,
           WAV_Read, FLAC_Read, HaveRead, Convert, Deliver, ConversionError, Convey, Conversion,
           ToFloat, ToStereo, IsStereo, IsStdRate, ToRate, LeftChannel, RightChannel,
           SplitChannel, ResampleChannel, DropChannel, Merge, DropBoth, FreePrev
  <1>3. BufferSize' = BufferSize /\ FrameSize' = FrameSize
    BY <1>2 DEF BufferSize, SamplesToRead, FileSamplerateOverStdaud, FrameSize, SampleSize
  <1>4. /\ FrameSize \in Nat \ {0} /\ BufferSize \in Nat
        /\ FramesToFill \in Nat /\ FramesAhead \in Nat
        /\ FramesToFill * FrameSize < BufferSize + FrameSize
        /\ header.NumChannels = 1 => FramesToFill * FrameSize <= BufferSize
    BY <1>1, SizesNat, FillFits DEF Loaded
  <1>5. \/ bytes_in_buffer' \in {bytes_in_buffer, 0, FramesToFill * FrameSize}
        \/ FramesAhead < FramesToFill /\ bytes_in_buffer' = FramesAhead * FrameSize
    BY DEF Next, vars, Retired, WAV_EOF, WAV_UnequalRead, FLAC_EOF,
           WAV_Read, FLAC_Read, Deliver, ConversionError, Convey
  <1>6. ASSUME FramesAhead < FramesToFill
        PROVE  FramesAhead * FrameSize \in Nat /\ FramesAhead * FrameSize <= FramesToFill * FrameSize
    BY <1>4, <1>6
  <1>. HIDE DEF FrameSize, BufferSize, FramesToFill, FramesAhead
  <1>7. FramesToFill * FrameSize \in Nat
    BY <1>4, ProductNat
  <1>. QED BY <1>2, <1>3, <1>4, <1>5, <1>6, <1>7 DEF ReadBytesFit

LEMMA FitsInit == Init => ReadBytesFit /\ bytes_in_buffer \in Nat
  <1>. SUFFICES ASSUME Init PROVE ReadBytesFit /\ bytes_in_buffer \in Nat
    OBVIOUS
  <1>1. Format /\ bytes_in_buffer = 0
    BY DEF Init, ConversionInit, Format
  <1>2. FrameSize \in Nat \ {0} /\ BufferSize \in Nat
    BY <1>1, LoadedInit, SizesNat DEF Loaded
  <1>. QED BY <1>1, <1>2 DEF ReadBytesFit

\* What is read of a mono file at the standard rate is whole samples.
MonoWhole ==
    (header.SampleRate = StdRate /\ header.NumChannels = 1 /\ header.BitsPerSample = 32) =>
      /\ file.kind = "wav"
      /\ pc # "idle" => heap[ORIG].tail = 0

LEMMA MonoWholeInit == Init => MonoWhole
  <1>. SUFFICES ASSUME Init PROVE MonoWhole
    OBVIOUS
  <1>1. pc = "idle"
    BY DEF Init, ConversionInit
  <1>2. file.kind \in Sources /\ (file.kind = "flac" => header.BitsPerSample = 16)
    BY DEF Init
  <1>. QED BY <1>1, <1>2 DEF MonoWhole, Sources

\* The last chunk included: the file is of whole samples as well.
LEMMA WavBytesWhole ==
  ASSUME Format, Loaded,
         header.SampleRate = StdRate, header.NumChannels = 1, header.BitsPerSample = 32
  PROVE  Input(WavStart, WavBytes).tail = 0
  <1>. DEFINE c == Floor(SamplesToRead)
              b == BytesToRead
              p == Position
              f == file.frames
              z == AudiodataSize
  <1>1. SampleSize = 4 /\ FrameSize = 4
    BY DEF SampleSize, FrameSize
  <1>2. p \in Nat /\ p % 4 = 0
    BY PositionWhole DEF Loaded
  <1>3. b \in Nat /\ b % 4 = 0
    <2>1. b \in Nat
      BY SizesNat DEF Loaded
    <2>2. b = c * 4 /\ c \in Int
      <3>1. SamplesToRead \in Nat
        BY SizesNat DEF Loaded
      <3>2. c \in Nat
        BY <3>1, ScaleNat, DivNat DEF Floor
      <3>. QED BY <1>1, <3>2 DEF BytesToRead
    <2>. HIDE DEF b, c
    <2>. QED BY <2>1, <2>2
  <1>4. z = 4 * f /\ f \in Nat
    BY <1>1 DEF AudiodataSize, Loaded
  <1>5. WavStart = (IF p > z THEN z ELSE p)
    BY DEF WavStart, Clamp
  <1>6. WavBytes = (IF b > z - WavStart THEN z - WavStart ELSE b)
    BY DEF WavBytes, Clamp
  <1>7. Input(WavStart, WavBytes).tail = WavBytes % 4
    BY <1>1 DEF Input, Datapoints
  <1>. HIDE DEF b, p, z, f
  <1>8. WavBytes \in Nat /\ WavBytes % 4 = 0
    BY <1>2, <1>3, <1>4, <1>5, <1>6
  <1>. QED BY <1>7, <1>8

LEMMA MonoWholeNext ==
  ASSUME Ownership, Contents, Loaded, MonoWhole, [Next]_vars
  PROVE  MonoWhole'
  <1>1. header' = header /\ file' = file
    BY DEF Next, vars, conversionVars, Retired, WAV_EOF, WAV_UnequalRead, FLAC_EOF, GiveUp,
           WAV_Read, FLAC_Read, HaveRead, Convert, Deliver, ConversionError, Convey, Conversion,
           ToFloat, ToStereo, IsStereo, IsStdRate, ToRate, LeftChannel, RightChannel,
           SplitChannel, ResampleChannel, DropChannel, Merge, DropBoth, FreePrev
  <1>2. CASE WAV_Read
    <2>1. heap'[ORIG] = Input(WavStart, WavBytes)
      BY <1>2 DEF WAV_Read, HaveRead, Convert, Contents
    <2>. QED BY <1>1, <2>1, WavBytesWhole DEF MonoWhole, Contents
  <1>3. CASE FLAC_Read
    BY <1>1, <1>3 DEF FLAC_Read, Loading, MonoWhole
  <1>4. CASE Convey
    <2>1. heap'[ORIG] = heap[ORIG]
      BY <1>4, ContentsResampling, ContentsOther DEF Convey, Conversion, KeepsInput
    <2>2. pc # "idle"
      BY <1>4 DEF Convey, Conversion, ToFloat, ToStereo, IsStereo, IsStdRate, ToRate, LeftChannel,
                  RightChannel, SplitChannel, ResampleChannel, DropChannel, Merge, DropBoth, FreePrev
    <2>. QED BY <1>1, <2>1, <2>2 DEF MonoWhole
  <1>5. CASE UNCHANGED vars \/ Retired
    BY <1>1, <1>5 DEF vars, conversionVars, Retired, MonoWhole
  <1>6. CASE WAV_EOF \/ WAV_UnequalRead \/ FLAC_EOF \/ Deliver \/ ConversionError
    <2>1. pc' = "idle"
      BY <1>6 DEF WAV_EOF, WAV_UnequalRead, FLAC_EOF, GiveUp, Loading, conversionVars, Deliver,
                  ConversionError, Goto
    <2>. QED BY <1>1, <2>1 DEF MonoWhole
  <1>. QED BY <1>2, <1>3, <1>4, <1>5, <1>6 DEF Next

\* Whole samples of a mono file become whole frames; resampled frames are whole.
LEMMA WholeFramesLeft ==
  ASSUME Ownership, Contents, Loaded, MonoWhole
  PROVE  LeavesNoHalfFrame
  <1>. SUFFICES ASSUME pc = "ok", Len(heap[var["current"]].data) % StdChannels # 0
                PROVE  /\ header.NumChannels = 2 /\ header.SampleRate = StdRate
                       /\ Len(heap[ORIG].data) % 2 = 1
    BY DEF LeavesNoHalfFrame
  <1>1. Format /\ InputTyped
    BY LoadedInput DEF Contents
  <1>2. heap[var["current"]] = Standard /\ Bytes(Standard) # 0
    <2>1. var["current"] # NULL
      BY StdAudFmtAssumption DEF Ownership, Aliasing
    <2>2. "current" \in Known(pc) /\ Value(pc, "current") = Standard
      BY DEF Known, Holders, Resampling, Value
    <2>. QED BY <2>1, <2>2 DEF Contents
  <1>. DEFINE n == Len(heap[ORIG].data)
              m == Len(Standard.data)
  <1>3. n \in Nat /\ OutFrames \in Nat /\ m \in Nat /\ m % 2 # 0
        /\ Len(Floats.data) = n /\ Floats.tail \in 0 .. 3
        /\ (header.SampleRate # StdRate => m = 2 * OutFrames)
    <2>1. n \in Nat /\ Len(Floats.data) = n /\ Floats.tail \in 0 .. 3
      BY <1>1, FloatsAre
    <2>2. /\ OutFrames \in Nat /\ Len(Standard.data) \in {2 * OutFrames, 2 * OutFrames + 1}
          /\ (header.SampleRate # StdRate => Len(Standard.data) = 2 * OutFrames)
      BY <1>1, <1>2, StandardIs
    <2>3. Len(Standard.data) % 2 # 0
      BY <1>2 DEF StdChannels
    <2>. HIDE DEF n, m
    <2>4. m \in Nat
      BY <2>2 DEF m
    <2>5. m % 2 # 0 /\ (header.SampleRate # StdRate => m = 2 * OutFrames)
      BY <2>2, <2>3 DEF m
    <2>. QED BY <2>1, <2>2, <2>4, <2>5, Zenon
  <1>4. header.SampleRate = StdRate
    <2>. SUFFICES ASSUME header.SampleRate # StdRate PROVE FALSE
      OBVIOUS
    <2>1. m = 2 * OutFrames
      BY <1>3
    <2>. HIDE DEF m
    <2>. QED BY <1>3, <2>1
  <1>5. Standard = Stereo
    BY <1>4 DEF Standard
  <1>6. header.NumChannels = 2
    <2>. SUFFICES ASSUME header.NumChannels = 1 PROVE FALSE
      BY <1>1 DEF Format, Channels
    <2>1. Floats.tail = 0
      BY <1>1, <1>4 DEF MonoWhole, Floats, ToF32, Datapoints, Format
    <2>. DEFINE k == (Bytes(Floats) * StdChannels) \div FloatSize
    <2>2. Bytes(Floats) * StdChannels = (2 * n) * 4
      BY <1>3, <2>1 DEF Bytes, StdChannels, FloatSize
    <2>3. k = 2 * n
      BY <1>3, <2>2, Cancel DEF FloatSize
    <2>. HIDE DEF k
    <2>4. m = k
      <3>1. Stereo = Datapoints([i \in 1 .. k |->
                        IF i <= Len(Floats.data) * StdChannels
                        THEN Floats.data[(i - 1) \div StdChannels + 1] ELSE Silence],
                      (Bytes(Floats) * StdChannels) % FloatSize)
        BY DEF Stereo, MonoToXChannels, k
      <3>. QED BY <1>3, <1>5, <2>3, <3>1 DEF Datapoints
    <2>. HIDE DEF m, n
    <2>. QED BY <1>3, <2>3, <2>4
  <1>7. m = n
    <2>1. Stereo = Floats
      BY <1>6 DEF Stereo
    <2>. QED BY <1>3, <1>5, <2>1
  <1>. HIDE DEF n, m
  <1>8. n % 2 = 1
    BY <1>3, <1>7
  <1>. QED BY <1>4, <1>6, <1>8 DEF n

-----------------------------------------------------------------------------
(* How much comes out                                                      *)

\* The samples of a chunk at the standard rate, times that rate.
Needed == header.SampleRate * FrameCount * header.NumChannels
\* How much more than these are read.
Slack == IF file.kind = "flac" THEN StdRate - 1 ELSE 0

\* As RoundsWell has it for this file.
LEMMA SizeBound ==
  ASSUME Format, Loaded, RoundsWell
  PROVE  /\ Needed \in Nat /\ StdRate \in Nat \ {0} /\ FrameCount \in Nat
         /\ Floor(SamplesToRead) * StdRate <= Needed
         /\ Ceil(SamplesToRead) * StdRate <= Needed + (StdRate - 1)
  <1>. DEFINE n == Needed
              c == Ceil(SamplesToRead)
  <1>1. /\ header.SampleRate \in Rates /\ header.NumChannels \in Channels
        /\ header.SampleRate \in Nat \ {0} /\ header.NumChannels \in {1, 2}
        /\ StdRate \in Nat \ {0} /\ FrameCount \in Nat
    BY StdAudFmtAssumption, ChunkStreamAssumption DEF Format, Channels
  <1>2. n \in Nat
    BY <1>1 DEF Needed
  <1>3. Floor(SamplesToRead) * StdRate <= n /\ c <= Ceiling(n, StdRate)
    BY <1>1 DEF RoundsWell, SamplesToRead, FileSamplerateOverStdaud, Needed
  <1>4. c \in Int
    BY SizesNat DEF Loaded
  <1>. HIDE DEF n, c
  <1>5. c * StdRate <= n + (StdRate - 1)
    <2>. DEFINE q == Ceiling(n, StdRate)
    <2>1. n + StdRate - 1 \in Nat
      BY <1>1, <1>2
    <2>2. q = (n + StdRate - 1) \div StdRate
      BY DEF Ceiling
    <2>3. q \in Nat /\ StdRate * q <= n + StdRate - 1
      <3>. DEFINE k == n + StdRate - 1
      <3>1. q = k \div StdRate /\ k \in Nat
        BY <2>1, <2>2
      <3>. HIDE DEF k, q
      <3>2. StdRate * q <= k
        BY <1>1, <3>1, DivNat
      <3>3. q \in Nat
        BY <1>1, <3>1, DivNat
      <3>. QED BY <3>2, <3>3 DEF k
    <2>. HIDE DEF q
    <2>4. c <= q
      BY <1>3 DEF q
    <2>5. c * StdRate <= q * StdRate
      BY <1>1, <1>4, <2>3, <2>4
    <2>. QED BY <1>1, <1>2, <1>4, <2>3, <2>5
  <1>. QED BY <1>1, <1>2, <1>3, <1>5 DEF n, c

\* What is read is no more than a chunk of the standard format is made of.
Sized ==
    pc # "idle" => Len(heap[ORIG].data) * StdRate <= Needed + Slack

LEMMA InputSized ==
  ASSUME NEW s \in Nat \ {0}, NEW c \in Nat, NEW n \in Nat, n <= c * s
  PROVE  n \div s <= c
  <1>. DEFINE q == n \div s
  <1>1. q \in Nat /\ s * q <= n
    BY DivNat
  <1>. HIDE DEF q
  <1>2. ~(q >= c + 1)
    <2>. SUFFICES ASSUME q >= c + 1 PROVE FALSE
      OBVIOUS
    <2>1. s * q >= s * (c + 1)
      BY <1>1
    <2>2. s * (c + 1) = c * s + s
      OBVIOUS
    <2>. QED BY <1>1, <2>1, <2>2
  <1>. QED BY <1>1, <1>2 DEF q

LEMMA ReadSized ==
  ASSUME Format, NEW start \in Nat, NEW n \in Nat, NEW c \in Nat, n <= c * SampleSize
  PROVE  Len(Input(start, n).data) \in Nat /\ Len(Input(start, n).data) <= c
  <1>. DEFINE s == SampleSize
              m == n \div s
  <1>1. s \in {2, 4}
    BY DEF SampleSize, Format
  <1>2. Input(start, n).data = [i \in 1 .. m |-> start + s * (i - 1)]
    BY DEF Input, Datapoints
  <1>. HIDE DEF s
  <1>3. m \in Nat /\ m <= c
    BY <1>1, DivNat, InputSized DEF s
  <1>. HIDE DEF m
  <1>4. Len(Input(start, n).data) = m
    BY <1>2, <1>3
  <1>. QED BY <1>3, <1>4

\* The frames of the result, and by how many they exceed those of a chunk.
LEMMA FramesFit ==
  ASSUME NEW frames \in Nat, NEW out \in Nat, NEW rate \in Nat \ {0}, NEW channels \in {1, 2},
         NEW std \in Nat \ {0}, NEW count \in Nat, NEW n \in Nat, NEW slack \in 0 .. std - 1,
         frames * channels <= n, n * std <= rate * count * channels + slack,
         out * rate <= frames * std
  PROVE  /\ slack = 0 => out <= count
         /\ (out - count) * rate < std
  <1>. DEFINE k == out - count
  <1>1. (frames * channels) * std <= n * std
    BY ProductNat
  <1>2. (out * rate) * channels <= (frames * std) * channels
    BY ProductNat
  <1>3. (frames * std) * channels = (frames * channels) * std
    BY Regrouped
  <1>4. (out * rate) * channels <= rate * count * channels + slack
    BY <1>1, <1>2, <1>3
  <1>5. (k * rate) * channels <= slack
    <2>1. (k * rate) * channels = (out * rate) * channels - rate * count * channels
      OBVIOUS
    <2>. QED BY <1>4, <2>1
  <1>6. k * rate \in Int /\ k \in Int
    OBVIOUS
  <1>7. k * rate <= slack
    <2>1. CASE channels = 1
      BY <1>5, <1>6, <2>1
    <2>2. CASE channels = 2
      BY <1>5, <1>6, <2>2
    <2>. QED BY <2>1, <2>2
  <1>8. slack = 0 => k <= 0
    BY <1>6, <1>7
  <1>. QED BY <1>6, <1>7, <1>8

LEMMA SizedNext ==
  ASSUME RoundsWell, Ownership, Contents, Loaded, Sized, [Next]_vars
  PROVE  Sized'
  <1>1. header' = header /\ file' = file
    BY DEF Next, vars, conversionVars, Retired, WAV_EOF, WAV_UnequalRead, FLAC_EOF, GiveUp,
           WAV_Read, FLAC_Read, HaveRead, Convert, Deliver, ConversionError, Convey, Conversion,
           ToFloat, ToStereo, IsStereo, IsStdRate, ToRate, LeftChannel, RightChannel,
           SplitChannel, ResampleChannel, DropChannel, Merge, DropBoth, FreePrev
  <1>2. Needed' = Needed /\ Slack' = Slack
    BY <1>1 DEF Needed, Slack
  <1>3. /\ Needed \in Nat /\ StdRate \in Nat \ {0}
        /\ Floor(SamplesToRead) * StdRate <= Needed
        /\ Ceil(SamplesToRead) * StdRate <= Needed + (StdRate - 1)
        /\ Format
    BY SizeBound DEF Contents
  <1>4. /\ Floor(SamplesToRead) \in Nat /\ Ceil(SamplesToRead) \in Nat
        /\ BufferSize \in Nat /\ StartFrame * FrameSize \in Nat
    <2>1. SamplesToRead \in Nat /\ Ceil(SamplesToRead) \in Nat /\ BufferSize \in Nat
          /\ StartFrame \in Nat /\ FrameSize \in Nat \ {0}
      BY <1>3, SizesNat DEF Loaded
    <2>. QED BY <2>1, ScaleNat, DivNat, ProductNat DEF Floor
  <1>5. ASSUME NEW start \in Nat, NEW n \in Nat, NEW c \in Nat, n <= c * SampleSize,
               c * StdRate <= Needed + Slack, HaveRead(start, n)
        PROVE  Sized'
    <2>1. heap'[ORIG] = Input(start, n)
      BY <1>5 DEF HaveRead, Convert, Contents
    <2>. DEFINE m == Len(Input(start, n).data)
    <2>2. m \in Nat /\ m <= c
      BY <1>3, <1>5, ReadSized
    <2>. HIDE DEF m
    <2>3. m * StdRate <= c * StdRate
      BY <1>3, <2>2
    <2>4. Slack \in Int
      BY <1>3 DEF Slack
    <2>5. m * StdRate <= Needed + Slack
      BY <1>3, <1>5, <2>2, <2>3, <2>4
    <2>. QED BY <1>2, <2>1, <2>5 DEF Sized, m
  <1>6. CASE WAV_Read
    <2>1. WavStart \in Nat /\ WavBytes \in Nat
      BY <1>3, WavChunk
    <2>. DEFINE c == Floor(SamplesToRead)
    <2>2. WavBytes <= c * SampleSize
      <3>1. WavBytes <= BytesToRead
        <4>1. BytesToRead \in Nat
          BY <1>3, SizesNat DEF Loaded
        <4>. QED BY <2>1, <4>1 DEF WavBytes, Clamp
      <3>. QED BY <3>1 DEF BytesToRead
    <2>3. Slack = 0
      BY <1>6 DEF WAV_Read, Loading, Slack
    <2>. HIDE DEF c
    <2>4. c \in Nat /\ c * StdRate <= Needed + Slack
      BY <1>3, <1>4, <2>3 DEF c
    <2>. QED BY <1>5, <1>6, <2>1, <2>2, <2>4 DEF WAV_Read
  <1>7. CASE FLAC_Read
    <2>. DEFINE c == Ceil(SamplesToRead)
    <2>1. BufferSize <= c * SampleSize
      BY <1>4 DEF BufferSize
    <2>2. Slack = StdRate - 1
      BY <1>7 DEF FLAC_Read, Loading, Slack
    <2>. HIDE DEF c
    <2>3. c \in Nat /\ c * StdRate <= Needed + Slack
      BY <1>3, <1>4, <2>2 DEF c
    <2>. QED BY <1>4, <1>5, <1>7, <2>1, <2>3 DEF FLAC_Read
  <1>8. CASE Convey
    <2>1. heap'[ORIG] = heap[ORIG]
      BY <1>8, ContentsResampling, ContentsOther DEF Convey, Conversion, KeepsInput
    <2>2. pc # "idle"
      BY <1>8 DEF Convey, Conversion, ToFloat, ToStereo, IsStereo, IsStdRate, ToRate, LeftChannel,
                  RightChannel, SplitChannel, ResampleChannel, DropChannel, Merge, DropBoth, FreePrev
    <2>. QED BY <1>2, <2>1, <2>2 DEF Sized
  <1>9. CASE UNCHANGED vars \/ Retired
    BY <1>2, <1>9 DEF vars, conversionVars, Retired, Sized
  <1>10. CASE WAV_EOF \/ WAV_UnequalRead \/ FLAC_EOF \/ Deliver \/ ConversionError
    <2>1. pc' = "idle"
      BY <1>10 DEF WAV_EOF, WAV_UnequalRead, FLAC_EOF, GiveUp, Loading, conversionVars, Deliver,
                  ConversionError, Goto
    <2>. QED BY <1>2, <2>1 DEF Sized
  <1>. QED BY <1>6, <1>7, <1>8, <1>9, <1>10 DEF Next

\* The standard format of what was read.
LEMMA StandardFits ==
  ASSUME RoundsWell, Ownership, Contents, Loaded, Sized, pc = "ok", NEW m \in Nat,
         m = Len(heap[var["current"]].data)
  PROVE  /\ file.kind # "flac" => m \div 2 <= FrameCount
         /\ (m \div 2 - FrameCount) * header.SampleRate < StdRate
  <1>1. Format /\ InputTyped
    BY LoadedInput DEF Contents
  <1>2. /\ header.SampleRate \in Nat \ {0} /\ header.NumChannels \in {1, 2}
        /\ StdRate \in Nat \ {0} /\ FrameCount \in Nat
    BY <1>1, StdAudFmtAssumption, ChunkStreamAssumption DEF Format, Channels
  <1>3. heap[var["current"]] = Standard /\ Bytes(Standard) # 0
    <2>1. var["current"] # NULL
      BY StdAudFmtAssumption DEF Ownership, Aliasing
    <2>2. "current" \in Known(pc) /\ Value(pc, "current") = Standard
      BY DEF Known, Holders, Resampling, Value
    <2>. QED BY <2>1, <2>2 DEF Contents
  <1>. DEFINE n    == Len(heap[ORIG].data)
              f    == Frames
              out  == OutFrames
              rate == header.SampleRate
              ch   == header.NumChannels
              std  == StdRate
  <1>4. n \in Nat /\ f \in Nat
    BY <1>1, FloatsAre, StereoIs
  <1>5. out \in Nat /\ m \in {2 * out, 2 * out + 1}
    BY <1>1, <1>3, StandardIs
  <1>6. f * ch <= n
    <2>1. f = n \div ch
      BY DEF Frames
    <2>. HIDE DEF n, f, ch
    <2>2. ch \in Nat \ {0}
      BY <1>2 DEF ch
    <2>3. ch * f <= n
      BY <1>4, <2>1, <2>2, DivNat
    <2>. QED BY <1>4, <2>2, <2>3
  <1>7. out * rate <= f * std
    <2>1. CASE rate = std
      <3>1. out = f
        BY <2>1 DEF OutFrames
      <3>. QED BY <1>2, <1>4, <2>1, <3>1
    <2>2. CASE rate # std
      <3>. DEFINE a == f * std
      <3>1. out = a \div rate
        BY <2>2 DEF OutFrames
      <3>2. a \in Nat
        BY <1>2, <1>4, ProductNat
      <3>. HIDE DEF a, out, rate
      <3>3. rate \in Nat \ {0}
        BY <1>2 DEF rate
      <3>4. rate * out <= a
        BY <3>1, <3>2, <3>3, DivNat
      <3>. QED BY <1>5, <3>3, <3>4 DEF a
    <2>. QED BY <2>1, <2>2
  <1>8. n * std <= rate * FrameCount * ch + Slack
    BY DEF Sized, Needed
  <1>9. Slack \in 0 .. std - 1 /\ (file.kind # "flac" => Slack = 0)
    BY <1>2 DEF Slack
  <1>10. out = m \div 2
    BY <1>5, Halves
  <1>. HIDE DEF n, f, out, rate, ch, std
  <1>11. rate \in Nat \ {0} /\ ch \in {1, 2} /\ std \in Nat \ {0}
    BY <1>2 DEF rate, ch, std
  <1>12. /\ Slack = 0 => out <= FrameCount
         /\ (out - FrameCount) * rate < std
    BY <1>2, <1>4, <1>5, <1>6, <1>7, <1>8, <1>9, <1>11, FramesFit
  <1>. QED BY <1>9, <1>10, <1>12 DEF rate, std

\* The datapoints grow with a result that is longer than they are only.
LEMMA DeliveredFits ==
  ASSUME RoundsWell, Ownership, Contents, Loaded, Sized, Fits, [Next]_vars
  PROVE  Fits'
  <1>1. header' = header /\ file' = file
    BY DEF Next, vars, conversionVars, Retired, WAV_EOF, WAV_UnequalRead, FLAC_EOF, GiveUp,
           WAV_Read, FLAC_Read, HaveRead, Convert, Deliver, ConversionError, Convey, Conversion,
           ToFloat, ToStereo, IsStereo, IsStdRate, ToRate, LeftChannel, RightChannel,
           SplitChannel, ResampleChannel, DropChannel, Merge, DropBoth, FreePrev
  <1>2. Len(ZeroFilled) = 2 * FrameCount /\ FrameCount \in Nat
    <2>. DEFINE m == FrameCount * StdChannels
    <2>1. m \in Nat /\ m = 2 * FrameCount /\ FrameCount \in Nat
      BY ChunkStreamAssumption DEF StdChannels
    <2>. HIDE DEF m
    <2>2. ZeroFilled = [i \in 1 .. m |-> Silence]
      BY DEF ZeroFilled, m
    <2>. QED BY <2>1, <2>2
  <1>3. CASE datapoints' = ZeroFilled
    <2>1. Len(datapoints') \div StdChannels - FrameCount = 0
      BY <1>2, <1>3, Halves DEF StdChannels
    <2>. QED BY <2>1 DEF Fits
  <1>4. CASE datapoints' = datapoints
    BY <1>1, <1>4 DEF Fits
  <1>5. CASE Deliver
    <2>. DEFINE result == Content("current").data
                m      == Len(result)
    <2>1. pc = "ok" /\ datapoints' = Copied(result)
      BY <1>5 DEF Deliver
    <2>2. datapoints = ZeroFilled
      BY <2>1 DEF Loaded
    <2>3. m \in Nat /\ m = Len(heap[var["current"]].data)
      <3>1. var["current"] # NULL
        BY <2>1, StdAudFmtAssumption DEF Ownership, Aliasing
      <3>2. "current" \in Known(pc) /\ Value(pc, "current") = Standard
        BY <2>1 DEF Known, Holders, Resampling, Value
      <3>3. heap[var["current"]] = Standard /\ Bytes(Standard) # 0
        BY <3>1, <3>2 DEF Contents
      <3>4. Format /\ InputTyped
        BY <2>1, LoadedInput DEF Contents
      <3>5. Len(Standard.data) \in Nat
        BY <3>3, <3>4, StandardIs
      <3>. QED BY <3>1, <3>3, <3>5 DEF Content
    <2>. HIDE DEF m
    <2>4. /\ file.kind # "flac" => m \div 2 <= FrameCount
          /\ (m \div 2 - FrameCount) * header.SampleRate < StdRate
      BY <2>1, <2>3, StandardFits
    <2>. DEFINE w == IF m > 2 * FrameCount THEN m ELSE 2 * FrameCount
    <2>5. Len(datapoints') = w
      <3>1. datapoints' = [i \in 1 .. w |-> IF i <= m THEN result[i] ELSE datapoints[i]]
        BY <1>2, <2>1, <2>2 DEF Copied, m
      <3>2. w \in Nat
        BY <1>2, <2>3
      <3>. HIDE DEF w
      <3>. QED BY <3>1, <3>2
    <2>6. CASE m > 2 * FrameCount
      <3>. DEFINE q == m \div 2
      <3>1. q \in Nat /\ Len(datapoints') \div StdChannels = q
        BY <2>3, <2>5, <2>6, Halves DEF StdChannels
      <3>2. /\ file.kind # "flac" => q <= FrameCount
            /\ (q - FrameCount) * header.SampleRate < StdRate
        BY <2>4
      <3>. HIDE DEF q
      <3>3. q - FrameCount > 0 => file.kind = "flac" /\ (q - FrameCount) * header.SampleRate < StdRate
        BY <1>2, <3>1, <3>2
      <3>. QED BY <1>1, <3>1, <3>3 DEF Fits
    <2>7. CASE ~(m > 2 * FrameCount)
      <3>1. Len(datapoints') \div StdChannels - FrameCount = 0
        BY <1>2, <2>5, <2>7, Halves DEF StdChannels
      <3>. QED BY <3>1 DEF Fits
    <2>. QED BY <2>6, <2>7
  <1>6. datapoints' \in {datapoints, ZeroFilled} \/ Deliver
    BY DEF Next, vars, Retired, WAV_EOF, WAV_UnequalRead, FLAC_EOF, GiveUp, WAV_Read, FLAC_Read,
           HaveRead, ConversionError, Convey
  <1>. QED BY <1>3, <1>4, <1>5, <1>6

-----------------------------------------------------------------------------
(* How far rounding is off                                                 *)

\* a is a number of times g.
Multiple(a, g) == \E i \in Int : a = i * g

\* Of two multiples of g the one is not greater that is less than g greater.
LEMMA MultipleStep ==
  ASSUME NEW a \in Int, NEW b \in Int, NEW g \in Nat \ {0},
         Multiple(a, g), Multiple(b, g), a < b + g
  PROVE  a <= b
  <1>1. PICK i \in Int : a = i * g
    BY DEF Multiple
  <1>2. PICK j \in Int : b = j * g
    BY DEF Multiple
  <1>3. i <= j
    <2>. SUFFICES ASSUME i >= j + 1 PROVE FALSE
      BY <1>1, <1>2
    <2>1. i * g >= (j + 1) * g /\ (j + 1) * g = j * g + g
      BY <1>1, <1>2
    <2>. QED BY <1>1, <1>2, <2>1
  <1>4. i * g <= j * g
    BY <1>1, <1>2, <1>3
  <1>. QED BY <1>1, <1>2, <1>4

\* Sums and differences of multiples are multiples.
LEMMA MultipleSum ==
  ASSUME NEW a \in Int, NEW b \in Int, NEW g \in Nat \ {0},
         Multiple(a, g), Multiple(b, g)
  PROVE  Multiple(a + b, g) /\ Multiple(a - b, g)
  <1>1. PICK i \in Int : a = i * g
    BY DEF Multiple
  <1>2. PICK j \in Int : b = j * g
    BY DEF Multiple
  <1>3. a + b = (i + j) * g /\ a - b = (i - j) * g /\ i + j \in Int /\ i - j \in Int
    BY <1>1, <1>2
  <1>. QED BY <1>3 DEF Multiple

LEMMA MultipleOf ==
  ASSUME NEW a \in Int, NEW h \in Nat \ {0}, NEW g \in Nat \ {0},
         Multiple(a, h), h % g = 0
  PROVE  Multiple(a, g)
  <1>1. PICK i \in Int : a = i * h
    BY DEF Multiple
  <1>. DEFINE k == h \div g
  <1>2. k \in Nat /\ k * g = h
    BY DivExact
  <1>. HIDE DEF k
  <1>3. a = (i * k) * g /\ i * k \in Int
    BY <1>1, <1>2
  <1>. QED BY <1>3 DEF Multiple

\* The numbers that divide the whole into frames, samples and bytes.
Grains == {Scale, Scale \div 2, Scale \div 4, Scale \div 8}

LEMMA GrainsAre ==
  /\ Grains \subseteq Nat \ {0}
  /\ 2 * (Scale \div 2) = Scale /\ 4 * (Scale \div 4) = Scale /\ 8 * (Scale \div 8) = Scale
  /\ Significands \in Nat \ {0} /\ Significands % 2 = 0
  <1>. DEFINE h == Significands \div 2
  <1>1. Significands \in Nat \ {0} /\ Significands % 2 = 0
    BY ScaleNat, SignificandsAssumption
  <1>2. h \in Nat \ {0} /\ Significands = 2 * h
    BY <1>1
  <1>. HIDE DEF h
  <1>3. Scale = 8 * h
    BY <1>2, ScaleNat
  <1>. QED BY <1>1, <1>2, <1>3 DEF Grains

\* A spacing up to a grain divides it, and a greater one is twice as great at least.
LEMMA GrainOrSpacing ==
  ASSUME NEW w \in Grains, NEW s \in Spacings
  PROVE  /\ s <= w => w % s = 0
         /\ s >= w => s % w = 0
         /\ s > w => s >= 2 * w
  <1>1. w \in Nat \ {0} /\ s \in Nat \ {0}
    BY GrainsAre, SpacingsPositive
  <1>2. w % s = 0 \/ s % w = 0
    BY SignificandsAssumption DEF Grains
  <1>3. ASSUME NEW a \in Nat \ {0}, NEW b \in Nat \ {0}, b % a = 0
        PROVE  b = a \/ b >= 2 * a
    <2>. DEFINE k == b \div a
    <2>1. k \in Nat /\ a * k = b
      BY <1>3, DivExact
    <2>. HIDE DEF k
    <2>2. CASE k = 0
      BY <2>1, <2>2
    <2>3. CASE k = 1
      BY <2>1, <2>3
    <2>4. CASE k >= 2
      <3>1. a * k >= a * 2
        BY <2>1, <2>4
      <3>. QED BY <2>1, <3>1
    <2>. QED BY <2>1, <2>2, <2>3, <2>4
  <1>4. w % w = 0 /\ s % s = 0
    BY <1>1
  <1>. QED BY <1>1, <1>2, <1>3, <1>4

\* Rounding a number of units, and how far it is off.
Near(n) == Single(n * Scale, Scale)

LEMMA NearIs ==
  ASSUME NEW n \in Nat
  PROVE  /\ Near(n) \in Nat
         /\ Multiple(Near(n), Spacing(n))
         /\ 2 * Near(n) <= 2 * n + Spacing(n)
         /\ 2 * n <= 2 * Near(n) + Spacing(n)
         /\ n = 0 => Near(n) = 0
  <1>. DEFINE e == Scale
              s == Spacing(n)
              d == e * s
              q == (n * e) \div d
              r == (n * e) % d
              c == Rounded(n * e, d)
  <1>1. e \in Nat \ {0} /\ s \in Nat \ {0}
    BY ScaleNat, SpacingIs
  <1>2. (n * e) \div e = n
    <2>. HIDE DEF e
    <2>. QED BY <1>1, Cancel
  <1>3. Near(n) = c * s
    BY <1>2, SingleIs DEF Near
  <1>. HIDE DEF e, s
  <1>4. d \in Nat \ {0} /\ n * e \in Nat
    BY <1>1, ProductNat
  <1>5. q \in Nat /\ r \in 0 .. d - 1 /\ d * q + r = n * e
    <2>. HIDE DEF d
    <2>. QED BY <1>4, DivNat
  <1>6. \/ c = q /\ 2 * r <= d
        \/ c = q + 1 /\ 2 * r >= d
    <2>1. c = IF 2 * r > d \/ (2 * r = d /\ q % 2 = 1) THEN q + 1 ELSE q
      BY DEF Rounded
    <2>. HIDE DEF c, q, r, d
    <2>. QED BY <1>4, <1>5, <2>1
  <1>. HIDE DEF c, q, r
  <1>7. c \in Nat
    BY <1>5, <1>6
  <1>8. e * (2 * (c * s)) <= e * (2 * n + s) /\ e * (2 * n) <= e * (2 * (c * s) + s)
    <2>1. e * (2 * (c * s)) = 2 * (d * c) /\ e * (2 * n + s) = 2 * (n * e) + d
          /\ e * (2 * n) = 2 * (n * e) /\ e * (2 * (c * s) + s) = 2 * (d * c) + d
      BY <1>1, <1>7
    <2>2. d * (q + 1) = d * q + d
      BY <1>4, <1>5
    <2>. HIDE DEF d
    <2>3. 2 * (d * c) <= 2 * (n * e) + d /\ 2 * (n * e) <= 2 * (d * c) + d
      BY <1>4, <1>5, <1>6, <2>2
    <2>. QED BY <2>1, <2>3
  <1>9. c * s \in Nat
    BY <1>1, <1>7
  <1>10. ASSUME NEW a \in Int, NEW b \in Int, e * a <= e * b PROVE a <= b
    <2>. SUFFICES ASSUME a >= b + 1 PROVE FALSE
      OBVIOUS
    <2>1. e * a >= e * (b + 1) /\ e * (b + 1) = e * b + e
      BY <1>1
    <2>. QED BY <1>1, <1>10, <2>1
  <1>11. 2 * (c * s) <= 2 * n + s /\ 2 * n <= 2 * (c * s) + s
    BY <1>1, <1>8, <1>9, <1>10
  <1>12. n = 0 => c = 0
    BY <1>1, <1>4, <1>5, <1>6
  <1>13. c = 0 => c * s = 0
    BY <1>1
  <1>14. Multiple(c * s, s)
    BY <1>7 DEF Multiple
  <1>. QED BY <1>3, <1>9, <1>11, <1>12, <1>13, <1>14 DEF s

\* Greater numbers have greater spacings, and numbers up to twice as great have
\* spacings up to twice as great.
LEMMA SpacingGrows ==
  ASSUME NEW n \in Nat, NEW m \in Nat, n <= m
  PROVE  /\ Spacing(n) <= Spacing(m)
         /\ m <= 2 * n => Spacing(m) \in {Spacing(n), 2 * Spacing(n)}
  <1>. DEFINE s == Spacing(n)
              t == Spacing(m)
              S == Significands
  <1>1. /\ s \in Spacings /\ s \in Nat \ {0} /\ (n < s * S \/ s = MaxSpacing)
        /\ \A r \in Spacings : n < r * S \/ r = MaxSpacing => s <= r
    BY SpacingIs
  <1>2. /\ t \in Spacings /\ t \in Nat \ {0} /\ (m < t * S \/ t = MaxSpacing)
        /\ \A r \in Spacings : m < r * S \/ r = MaxSpacing => t <= r
    BY SpacingIs
  <1>3. S \in Nat \ {0}
    BY GrainsAre
  <1>. HIDE DEF s, t, S
  <1>4. s <= t
    <2>1. t * S \in Nat
      BY <1>2, <1>3
    <2>. QED BY <1>1, <1>2, <2>1
  <1>5. ASSUME m <= 2 * n PROVE t <= 2 * s
    <2>1. CASE s = MaxSpacing
      <3>1. t <= s
        BY <1>2, <1>1, <2>1
      <3>. QED BY <1>1, <1>2, <3>1
    <2>2. CASE s # MaxSpacing
      <3>1. 2 * s \in Spacings
        BY <1>1, <2>2, SpacingsAssumption
      <3>2. (2 * s) * S = 2 * (s * S) /\ s * S \in Nat
        BY <1>1, <1>3
      <3>3. m < (2 * s) * S
        BY <1>1, <1>5, <2>2, <3>2
      <3>. QED BY <1>2, <3>1, <3>3
    <2>. QED BY <2>1, <2>2
  <1>6. ASSUME s <= t, t <= 2 * s PROVE t \in {s, 2 * s}
    <2>. DEFINE k == t \div s
    <2>1. k \in Nat /\ s * k = t
      BY <1>1, <1>2, <1>6, DivExact, SpacingsAssumption
    <2>. HIDE DEF k
    <2>2. k = 0 => s * k = 0
      BY <1>1
    <2>3. k = 1 => s * k = s
      BY <1>1
    <2>4. k = 2 => s * k = 2 * s
      BY <1>1
    <2>5. k >= 3 => s * k >= 3 * s
      BY <1>1, <2>1
    <2>. QED BY <1>1, <1>2, <1>6, <2>1, <2>2, <2>3, <2>4, <2>5
  <1>. QED BY <1>4, <1>5, <1>6 DEF s, t

\* Below Significands grains the floats are at most a grain apart.
LEMMA SpacingBelow ==
  ASSUME NEW n \in Nat, NEW w \in Grains, n < w * Significands
  PROVE  Spacing(n) <= w
  <1>. DEFINE s == Spacing(n)
              h == s \div 2
              S == Significands
  <1>1. /\ s \in Spacings /\ s \in Nat \ {0}
        /\ \A r \in Spacings : n < r * S \/ r = MaxSpacing => s <= r
    BY SpacingIs
  <1>2. S \in Nat \ {0} /\ w \in Nat \ {0}
    BY GrainsAre
  <1>. HIDE DEF s
  <1>3. SUFFICES ASSUME s > w PROVE FALSE
    BY <1>1, <1>2 DEF s
  <1>4. s >= 2 * w /\ s # 1
    BY <1>1, <1>2, <1>3, GrainOrSpacing
  <1>5. s % 2 = 0 /\ h \in Spacings
    BY <1>1, <1>4, SpacingsAssumption
  <1>6. s = 2 * h /\ h \in Nat
    BY <1>1, <1>5
  <1>. HIDE DEF h, S
  <1>7. h >= w
    BY <1>2, <1>4, <1>6
  <1>8. w * S <= h * S /\ w * S \in Nat /\ h * S \in Nat
    BY <1>2, <1>6, <1>7
  <1>9. n < h * S
    BY <1>8 DEF S
  <1>. QED BY <1>1, <1>4, <1>5, <1>6, <1>9

\* A float below Significands grains is that of a number below them.
LEMMA NearBelow ==
  ASSUME NEW n \in Nat, NEW w \in Grains, Near(n) < w * Significands
  PROVE  n < w * Significands
  <1>. DEFINE s == Spacing(n)
              h == s \div 2
              S == Significands
              T == Near(n)
              H == S \div 2
  <1>1. /\ s \in Spacings /\ s \in Nat \ {0}
        /\ \A r \in Spacings : n < r * S \/ r = MaxSpacing => s <= r
    BY SpacingIs
  <1>2. S \in Nat \ {0} /\ w \in Nat \ {0} /\ H \in Nat /\ S = 2 * H
    BY GrainsAre
  <1>3. T \in Nat /\ Multiple(T, s) /\ 2 * n <= 2 * T + s
    BY NearIs
  <1>. HIDE DEF s, T, H
  <1>4. SUFFICES ASSUME n >= w * S PROVE FALSE
    <2>1. w * S \in Nat
      BY <1>2
    <2>. QED BY <2>1
  <1>. HIDE DEF S
  <1>5. T < w * S /\ w * S \in Nat
    BY <1>2 DEF T, S
  <1>6. CASE s <= w
    <2>1. w % s = 0
      BY <1>1, <1>6, GrainOrSpacing
    <2>2. Multiple(w * S, w)
      <3>1. w * S = S * w /\ S \in Int
        BY <1>2
      <3>. QED BY <3>1 DEF Multiple
    <2>. DEFINE a == w * S
    <2>4. Multiple(a, s)
      <3>1. a \in Int /\ Multiple(a, w) /\ w \in Nat \ {0} /\ s \in Nat \ {0}
        BY <1>1, <1>2, <1>5, <2>2
      <3>. HIDE DEF a
      <3>. QED BY <2>1, <3>1, MultipleOf
    <2>3. w * S < T + s
      BY <1>1, <1>3, <1>4, <1>5
    <2>5. a \in Int /\ a < T + s /\ T < a
      BY <1>5, <2>3
    <2>. HIDE DEF a
    <2>. QED BY <1>1, <1>3, <2>4, <2>5, MultipleStep
  <1>7. CASE s > w
    <2>1. s >= 2 * w /\ s # 1
      BY <1>1, <1>2, <1>7, GrainOrSpacing
    <2>2. s % 2 = 0 /\ h \in Spacings
      BY <1>1, <2>1, SpacingsAssumption
    <2>3. s = 2 * h /\ h \in Nat
      BY <1>1, <2>2
    <2>. HIDE DEF h
    <2>4. h >= w /\ ~(s <= h)
      BY <1>1, <1>2, <2>1, <2>3
    <2>5. n >= h * S
      <3>1. h * S \in Nat
        BY <1>2, <2>3
      <3>2. ~(n < h * S)
        BY <1>1, <2>2, <2>4, Zenon
      <3>. QED BY <3>1, <3>2
    <2>6. h * S = H * s /\ H * s \in Int
      BY <1>1, <1>2, <2>3
    <2>7. h * S < T + s
      BY <1>1, <1>3, <2>5, <2>6
    <2>8. h * S <= T
      <3>. DEFINE a == h * S
      <3>1. Multiple(a, s)
        BY <1>2, <2>6 DEF Multiple
      <3>2. a \in Int /\ a < T + s
        BY <2>6, <2>7
      <3>. HIDE DEF a
      <3>3. a <= T
        BY <1>1, <1>3, <3>1, <3>2, MultipleStep
      <3>. QED BY <3>3 DEF a
    <2>9. w * S <= h * S
      BY <1>2, <2>3, <2>4
    <2>. QED BY <1>3, <1>5, <2>6, <2>8, <2>9
  <1>. QED BY <1>1, <1>2, <1>6, <1>7

\* A quotient is a multiple at most its divisor away.
LEMMA DivMultiple ==
  ASSUME NEW t \in Nat, NEW u \in Nat \ {0}
  PROVE  LET a == (t \div u) * u
         IN  t \div u \in Nat /\ a \in Nat /\ a <= t /\ t < a + u /\ Multiple(a, u)
  <1>. DEFINE p == t \div u
              r == t % u
  <1>1. p \in Nat /\ r \in 0 .. u - 1 /\ u * p + r = t
    BY DivNat
  <1>. HIDE DEF p, r
  <1>2. p * u = u * p /\ p * u \in Nat
    BY <1>1
  <1>3. Multiple(p * u, u)
    BY <1>1 DEF Multiple
  <1>. QED BY <1>1, <1>2, <1>3 DEF p

\* The coarser of a grain and the spacing.
Coarser(u, s) == IF s >= u THEN s ELSE u

\* Down from a float to a multiple of a grain.
LEMMA FloorGrain ==
  ASSUME NEW n \in Nat, NEW u \in Grains
  PROVE  LET t == Near(n)
             s == Spacing(n)
             g == Coarser(u, s)
             a == (t \div u) * u
         IN  /\ t \div u \in Nat /\ a \in Nat /\ a <= t /\ t < a + u /\ t <= a + g - s
             /\ Multiple(a, g) /\ Multiple(a, u)
  <1>. DEFINE t == Near(n)
              s == Spacing(n)
              g == Coarser(u, s)
              a == (t \div u) * u
  <1>1. t \in Nat /\ Multiple(t, s) /\ s \in Nat \ {0} /\ s \in Spacings
    BY NearIs, SpacingIs
  <1>2. u \in Nat \ {0}
    BY GrainsAre
  <1>. HIDE DEF s, t
  <1>3. t \div u \in Nat /\ a \in Nat /\ a <= t /\ t < a + u /\ Multiple(a, u)
    BY <1>1, <1>2, DivMultiple
  <1>. HIDE DEF a
  <1>4. CASE s >= u
    <2>1. s % u = 0
      BY <1>1, <1>4, GrainOrSpacing
    <2>2. Multiple(t, u)
      BY <1>1, <1>2, <2>1, MultipleOf
    <2>3. t <= a
      BY <1>1, <1>2, <1>3, <2>2, MultipleStep
    <2>4. t = a
      BY <1>1, <1>3, <2>3
    <2>5. g = s
      BY <1>4 DEF Coarser
    <2>. QED BY <1>1, <1>3, <2>4, <2>5 DEF a, s, t
  <1>5. CASE s < u
    <2>1. u % s = 0
      BY <1>1, <1>2, <1>5, GrainOrSpacing
    <2>2. Multiple(a, s) /\ Multiple(u, s)
      <3>1. Multiple(a, s)
        BY <1>1, <1>2, <1>3, <2>1, MultipleOf
      <3>2. Multiple(u, u)
        <4>1. u = 1 * u
          BY <1>2
        <4>. QED BY <4>1 DEF Multiple
      <3>3. Multiple(u, s)
        BY <1>1, <1>2, <2>1, <3>2, MultipleOf
      <3>. QED BY <3>1, <3>3
    <2>. DEFINE b == a + u
                c == t + s
    <2>3. Multiple(b, s)
      BY <1>1, <1>2, <1>3, <2>2, MultipleSum
    <2>4. Multiple(c, s)
      <3>1. Multiple(s, s)
        <4>1. s = 1 * s
          BY <1>1
        <4>. QED BY <4>1 DEF Multiple
      <3>. QED BY <1>1, <3>1, MultipleSum
    <2>5. b \in Int /\ c \in Int /\ c < b + s
      BY <1>1, <1>2, <1>3
    <2>. HIDE DEF b, c
    <2>6. c <= b
      BY <1>1, <2>3, <2>4, <2>5, MultipleStep
    <2>7. t <= a + u - s
      BY <1>1, <1>2, <1>3, <2>6 DEF b, c
    <2>8. g = u
      BY <1>1, <1>2, <1>5 DEF Coarser
    <2>. QED BY <1>3, <2>7, <2>8 DEF a, s, t
  <1>. QED BY <1>1, <1>2, <1>4, <1>5

\* A size in floats, cut down to whole samples, falls short by less than one, and
\* rounded up to whole samples by at most half of one.
LEMMA SizeNear ==
  ASSUME NEW z \in Nat, NEW w \in Grains, z < w * Significands
  PROVE  /\ z < (Near(z) \div w) * w + w
         /\ 2 * z <= 2 * (Ceiling(Near(z), w) * w) + w
         /\ Ceiling(Near(z), w) \in Nat /\ Near(z) <= Ceiling(Near(z), w) * w
  <1>. DEFINE x == Near(z)
              s == Spacing(z)
              a == (x \div w) * w
              c == Ceiling(x, w)
              b == c * w
  <1>1. /\ x \in Nat /\ Multiple(x, s) /\ s \in Nat \ {0} /\ s \in Spacings
        /\ 2 * z <= 2 * x + s
    BY NearIs, SpacingIs
  <1>2. s <= w /\ w \in Nat \ {0}
    BY SpacingBelow, GrainsAre
  <1>3. a \in Nat /\ x < a + w /\ x <= a + Coarser(w, s) - s
    BY FloorGrain
  <1>4. Coarser(w, s) = w
    BY <1>1, <1>2 DEF Coarser
  <1>. HIDE DEF x, s, a
  <1>5. z < a + w
    BY <1>1, <1>2, <1>3, <1>4
  <1>6. c \in Nat /\ b \in Nat /\ x <= b
    <2>. DEFINE y == x + w - 1
    <2>1. y \in Nat /\ c = y \div w
      BY <1>1, <1>2 DEF Ceiling
    <2>. HIDE DEF y, c
    <2>2. c \in Nat /\ b \in Nat /\ y < b + w
      BY <1>2, <2>1, DivMultiple
    <2>. HIDE DEF b
    <2>. QED BY <1>1, <1>2, <2>1, <2>2 DEF y
  <1>7. 2 * z <= 2 * b + w
    <2>. HIDE DEF b
    <2>. QED BY <1>1, <1>2, <1>6
  <1>. QED BY <1>5, <1>6, <1>7 DEF a, x

\* Where the next WAV chunk starts, at most one frame is left out: a chunk of a size
\* z starts at the place y, the next one at y + z, both in units; u is a byte, w a
\* sample.
LEMMA WavGap ==
  ASSUME NEW w \in {Scale, Scale \div 2}, NEW u \in Grains, w % u = 0,
         NEW y \in Nat, NEW z \in Nat, y = 0 \/ z <= y,
         y + z < w * Significands,
         w = Scale => 4 * z < 4 * ((Near(z) \div w) * w) + 3 * w
  PROVE  (Near(y + z) \div u) * u <= (Near(y) \div u) * u + (Near(z) \div w) * w + Scale
  <1>. DEFINE n == y + z
              s == Spacing(y)
              r == Spacing(n)
              t == Near(y)
              p == (t \div u) * u
              v == (Near(n) \div u) * u
              f == (Near(z) \div w) * w
              e == Scale
  <1>0. /\ w \in Grains /\ w \in Nat \ {0} /\ u \in Nat \ {0} /\ e \in Nat \ {0}
        /\ (w = e \/ 2 * w = e) /\ n \in Nat /\ y <= n /\ z <= n
        /\ Significands \in Nat /\ w * Significands \in Nat
    BY GrainsAre DEF Grains
  <1>1. /\ r <= w /\ r \in Nat \ {0} /\ s \in Nat \ {0} /\ s \in Spacings /\ r \in Spacings /\ s <= r
        /\ (n <= 2 * y => r \in {s, 2 * s})
    <2>1. r <= w /\ s <= r /\ (n <= 2 * y => r \in {s, 2 * s})
      BY <1>0, SpacingBelow, SpacingGrows
    <2>. QED BY <1>0, <2>1, SpacingIs
  <1>2. t \in Nat /\ 2 * y <= 2 * t + s /\ (y = 0 => t = 0)
    BY NearIs
  <1>3. Near(n) \in Nat /\ 2 * Near(n) <= 2 * n + r
    BY <1>0, NearIs
  <1>4. /\ p \in Nat /\ t <= p + Coarser(u, s) - s /\ Multiple(p, Coarser(u, s)) /\ p <= t
    BY FloorGrain
  <1>5. v \in Nat /\ v <= Near(n) /\ Multiple(v, Coarser(u, r))
    BY <1>0, FloorGrain
  <1>6. f \in Nat /\ z < f + w /\ Multiple(f, w) /\ f <= Near(z) /\ Near(z) < f + w
    <2>1. z < w * Significands
      BY <1>0
    <2>2. Near(z) \in Nat
      BY NearIs
    <2>. QED BY <1>0, <2>1, <2>2, SizeNear, DivMultiple
  <1>7. w = e => 4 * z < 4 * f + 3 * w
    OBVIOUS
  <1>8. v <= p + f + e
    <2>1. CASE y = 0
      <3>1. n = z
        BY <2>1
      <3>2. Near(n) < f + w
        BY <1>6, <3>1, Zenon
      <3>3. v <= Near(n) /\ Near(n) \in Nat
        BY <1>3, <1>5
      <3>. HIDE DEF e, p, v, f, t, n
      <3>. QED BY <1>0, <1>4, <1>5, <1>6, <3>2, <3>3
    <2>2. CASE z <= y
      <3>. DEFINE g == Coarser(u, s)
                  h == Coarser(u, r)
      <3>1. r = s \/ r = 2 * s
        BY <1>0, <1>1, <2>2
      <3>2. /\ g \in Nat \ {0} /\ h \in Nat \ {0} /\ h % g = 0 /\ w % g = 0 /\ g >= s
        <4>1. CASE s >= u
          <5>1. r >= u /\ r % s = 0 /\ w % s = 0
            BY <1>0, <1>1, <4>1, SpacingsAssumption, GrainOrSpacing
          <5>. QED BY <1>1, <4>1, <5>1 DEF Coarser
        <4>2. CASE s < u
          <5>1. r >= u => r % u = 0
            BY <1>1, GrainOrSpacing
          <5>2. u % u = 0
            BY <1>0
          <5>. QED BY <1>0, <1>1, <4>2, <5>1, <5>2 DEF Coarser
        <4>. QED BY <1>0, <1>1, <4>1, <4>2
      <3>. HIDE DEF e, p, v, f, t, n, g, h, s, r
      <3>3. Multiple(v, g) /\ Multiple(f, g) /\ Multiple(p, g)
        <4>1. Multiple(v, h) /\ Multiple(p, g)
          BY <1>4, <1>5 DEF g, h
        <4>2. Multiple(v, g)
          BY <1>5, <3>2, <4>1, MultipleOf
        <4>3. Multiple(f, g)
          BY <1>0, <1>6, <3>2, MultipleOf
        <4>. QED BY <4>1, <4>2, <4>3
      <3>4. Multiple(e, g)
        <4>1. Multiple(e, w)
          <5>1. e = 1 * w \/ e = 2 * w
            BY <1>0
          <5>. QED BY <5>1 DEF Multiple
        <4>. QED BY <1>0, <3>2, <4>1, MultipleOf
      <3>5. 2 * v <= 2 * p + 2 * z + s + r + 2 * g - 2 * s
        <4>1. 2 * v <= 2 * n + r /\ n = y + z
          BY <1>0, <1>1, <1>3, <1>5 DEF n
        <4>2. 2 * y <= 2 * p + 2 * g - 2 * s + s
          BY <1>1, <1>2, <1>4, <3>2 DEF g
        <4>. QED BY <1>0, <1>1, <1>4, <1>5, <3>2, <4>1, <4>2
      <3>6. 2 * z + r - s < 2 * f + 2 * e
        BY <1>0, <1>1, <1>6, <1>7, <3>1 DEF e
      <3>7. v < p + f + e + g
        BY <1>0, <1>1, <1>4, <1>5, <1>6, <3>2, <3>5, <3>6
      <3>. DEFINE k == p + f + e
      <3>8. Multiple(k, g)
        <4>1. Multiple(p + f, g)
          BY <1>4, <1>6, <3>2, <3>3, MultipleSum
        <4>2. p + f \in Int
          BY <1>4, <1>6
        <4>. QED BY <1>0, <3>2, <3>4, <4>1, <4>2, MultipleSum
      <3>9. k \in Int /\ v \in Int /\ v < k + g
        BY <1>0, <1>4, <1>5, <1>6, <3>7
      <3>. HIDE DEF k
      <3>10. v <= k
        BY <3>2, <3>3, <3>8, <3>9, MultipleStep
      <3>. QED BY <3>10 DEF k
    <2>. QED BY <2>1, <2>2
  <1>. QED BY <1>8

LEMMA MultipleItself ==
  ASSUME NEW g \in Nat \ {0}, NEW k \in Int
  PROVE  Multiple(g, g) /\ Multiple(k * g, g)
  <1>1. g = 1 * g
    OBVIOUS
  <1>2. Multiple(g, g)
    BY <1>1 DEF Multiple
  <1>3. Multiple(k * g, g)
    BY DEF Multiple
  <1>. QED BY <1>2, <1>3

\* Where floats do not tell the samples apart any more, for a file that ends before.
LEMMA BeforeTheLimit ==
  ASSUME NEW w \in {Scale, Scale \div 2}, NEW u \in Grains, Scale % u = 0, NEW y \in Nat,
         NEW b \in Nat, Multiple(b, Scale), b < w * Significands, (Near(y) \div u) * u < b
  PROVE  y < w * Significands /\ b + Scale <= w * Significands
  <1>. DEFINE t == Near(y)
              p == (t \div u) * u
              e == Scale
              m == w * Significands
  <1>0. /\ w \in Grains /\ w \in Nat \ {0} /\ u \in Nat \ {0} /\ e \in Nat \ {0}
        /\ (w = e \/ 2 * w = e) /\ Significands \in Nat /\ Significands % 2 = 0 /\ m \in Nat
    BY GrainsAre DEF Grains
  <1>1. t \in Nat /\ p \in Nat /\ t < p + u /\ Multiple(p, u)
    BY NearIs, FloorGrain
  <1>2. Multiple(m, e)
    <2>1. CASE w = e
      <3>1. m = Significands * e
        BY <1>0, <2>1
      <3>2. Multiple(Significands * e, e) /\ Significands \in Int
        BY <1>0, MultipleItself
      <3>. QED BY <3>1, <3>2, Zenon
    <2>2. CASE 2 * w = e
      <3>. DEFINE h == Significands \div 2
      <3>1. h \in Nat /\ Significands = 2 * h
        BY <1>0
      <3>. HIDE DEF h, e
      <3>2. m = h * e
        BY <1>0, <2>2, <3>1
      <3>. QED BY <3>1, <3>2 DEF Multiple
    <2>. QED BY <1>0, <2>1, <2>2
  <1>3. Multiple(e, u)
    <2>1. Multiple(e, e)
      BY <1>0, MultipleItself
    <2>. QED BY <1>0, <2>1, MultipleOf
  <1>. HIDE DEF t, p, e, m
  <1>4. Multiple(b, u)
    <2>1. PICK i \in Int : b = i * e
      BY DEF Multiple, e
    <2>2. PICK j \in Int : e = j * u
      BY <1>3 DEF Multiple
    <2>3. b = (i * j) * u /\ i * j \in Int
      BY <1>0, <2>1, <2>2
    <2>. QED BY <2>3 DEF Multiple
  <1>5. t < b
    <2>. DEFINE a == p + u
    <2>1. Multiple(a, u)
      BY <1>0, <1>1, MultipleItself, MultipleSum
    <2>2. a \in Int /\ a < b + u
      BY <1>0, <1>1 DEF p, t
    <2>. HIDE DEF a
    <2>3. a <= b
      BY <1>0, <1>4, <2>1, <2>2, MultipleStep
    <2>. QED BY <1>0, <1>1, <2>3 DEF a
  <1>6. y < m
    <2>1. t < m
      BY <1>0, <1>1, <1>5 DEF m
    <2>. QED BY <1>0, <2>1, NearBelow DEF m, t
  <1>7. b + e <= m
    <2>. DEFINE a == b + e
    <2>1. Multiple(a, e)
      <3>1. Multiple(b, e) /\ Multiple(e, e) /\ b \in Int /\ e \in Int
        BY <1>0, MultipleItself DEF e
      <3>. QED BY <1>0, <3>1, MultipleSum
    <2>2. a \in Int /\ a < m + e
      BY <1>0 DEF m
    <2>. HIDE DEF a
    <2>3. a <= m
      BY <1>0, <1>2, <2>1, <2>2, MultipleStep
    <2>. QED BY <2>3 DEF a
  <1>. QED BY <1>6, <1>7 DEF m, e

\* At the end of a WAV file, b, at most one frame is unplayed.
LEMMA WavEnd ==
  ASSUME NEW w \in {Scale, Scale \div 2}, NEW u \in Grains, w % u = 0,
         NEW y \in Nat, NEW z \in Nat, y = 0 \/ z <= y,
         w = Scale => 4 * z < 4 * ((Near(z) \div w) * w) + 3 * w,
         NEW b \in Nat, Multiple(b, Scale), b < w * Significands,
         (Near(y) \div u) * u < b, b <= (Near(y + z) \div u) * u
  PROVE  b <= (Near(y) \div u) * u + (Near(z) \div w) * w + Scale
  <1>. DEFINE n == y + z
              s == Spacing(y)
              t == Near(y)
              p == (t \div u) * u
              v == (Near(n) \div u) * u
              f == (Near(z) \div w) * w
              e == Scale
              m == w * Significands
  <1>0. /\ w \in Grains /\ w \in Nat \ {0} /\ u \in Nat \ {0} /\ e \in Nat \ {0}
        /\ (w = e \/ 2 * w = e) /\ n \in Nat
        /\ Significands \in Nat /\ m \in Nat
    BY GrainsAre DEF Grains
  <1>1. y < m /\ b + e <= m
    <2>1. e % u = 0
      <3>1. w = e => e % u = 0
        OBVIOUS
      <3>2. w \in Nat /\ w % u = 0 /\ u \in Nat \ {0}
        BY <1>0
      <3>. HIDE DEF e
      <3>3. (2 * w) % u = 0
        BY <3>2, Multiples
      <3>. QED BY <1>0, <3>1, <3>3
    <2>. QED BY <2>1, BeforeTheLimit
  <1>2. CASE n < m
    <2>1. v <= p + f + e
      BY <1>2, WavGap
    <2>2. v \in Nat /\ p \in Nat /\ f \in Nat
      BY <1>0, FloorGrain
    <2>. QED BY <1>0, <2>1, <2>2
  <1>3. CASE y = 0
    <2>1. n = z
      BY <1>3
    <2>2. v \in Nat /\ v <= Near(n) /\ Near(n) \in Nat /\ p \in Nat /\ f \in Nat
      BY <1>0, FloorGrain, NearIs
    <2>3. Near(z) < f + w
      BY <1>0, FloorGrain
    <2>4. Near(n) < f + w
      BY <2>1, <2>3, Zenon
    <2>. HIDE DEF n, v, f, p, e
    <2>. QED BY <1>0, <2>2, <2>4 DEF v, f, p, e, n
  <1>4. CASE ~(n < m) /\ z <= y
    <2>1. z < m
      BY <1>0, <1>1, <1>4
    <2>2. z < f + w /\ f \in Nat
      BY <1>0, <2>1, SizeNear, FloorGrain
    <2>3. t \in Nat /\ 2 * y <= 2 * t + s /\ s \in Nat \ {0} /\ s <= w
      BY <1>0, <1>1, NearIs, SpacingIs, SpacingBelow
    <2>4. p \in Nat /\ t <= p + Coarser(u, s) - s
      BY FloorGrain
    <2>5. Coarser(u, s) <= w /\ Coarser(u, s) \in Nat
      <3>1. u <= w
        <4>. DEFINE k == w \div u
        <4>1. k \in Nat /\ u * k = w
          BY <1>0, DivExact
        <4>. HIDE DEF k
        <4>2. k # 0
          BY <1>0, <4>1
        <4>3. u * k >= u * 1
          BY <1>0, <4>1, <4>2
        <4>. QED BY <1>0, <4>1, <4>3
      <3>. QED BY <1>0, <2>3, <3>1 DEF Coarser
    <2>6. b + e <= n
      BY <1>0, <1>1, <1>4
    <2>. HIDE DEF t, s, p, f, e, m
    <2>. QED BY <1>0, <2>2, <2>3, <2>4, <2>5, <2>6 DEF p, t, f, e
  <1>. QED BY <1>2, <1>3, <1>4

\* Where the next FLAC chunk starts, in whole frames: a chunk is c samples.
LEMMA FlacGap ==
  ASSUME NEW w \in {Scale, Scale \div 2},
         NEW y \in Nat, NEW z \in Nat, y = 0 \/ z <= y,
         y + z < w * Significands
  PROVE  (Near(y + z) \div Scale) * Scale
           <= (Near(y) \div Scale) * Scale + Ceiling(Near(z), w) * w + Scale
  <1>. DEFINE n == y + z
              s == Spacing(y)
              r == Spacing(n)
              t == Near(y)
              e == Scale
              p == (t \div e) * e
              v == (Near(n) \div e) * e
              c == Ceiling(Near(z), w)
              f == c * w
              k == p + f + e
  <1>0. /\ w \in Grains /\ w \in Nat \ {0} /\ e \in Nat \ {0} /\ e \in Grains
        /\ (w = e \/ 2 * w = e) /\ n \in Nat /\ y <= n /\ z <= n
        /\ Significands \in Nat /\ w * Significands \in Nat
    BY GrainsAre DEF Grains
  <1>1. c \in Nat /\ f \in Nat /\ 2 * z <= 2 * f + w /\ Near(z) <= f
    <2>1. z < w * Significands
      BY <1>0
    <2>2. c \in Nat /\ 2 * z <= 2 * f + w /\ Near(z) <= f
      BY <1>0, <2>1, SizeNear
    <2>. HIDE DEF c
    <2>. QED BY <1>0, <2>2
  <1>2. /\ r <= w /\ r \in Nat \ {0} /\ s \in Nat \ {0} /\ s <= r
        /\ (n <= 2 * y => r \in {s, 2 * s})
    BY <1>0, SpacingBelow, SpacingGrows, SpacingIs
  <1>3. t \in Nat /\ 2 * y <= 2 * t + s /\ Near(n) \in Nat /\ 2 * Near(n) <= 2 * n + r
    BY <1>0, NearIs
  <1>4. p \in Nat /\ t <= p + Coarser(e, s) - s /\ Multiple(p, e)
    BY <1>0, FloorGrain
  <1>5. v \in Nat /\ v <= Near(n) /\ Multiple(v, e)
    BY <1>0, FloorGrain
  <1>6. Coarser(e, s) = e
    BY <1>0, <1>2 DEF Coarser
  <1>7. CASE y = 0
    <2>1. n = z
      BY <1>7
    <2>2. Near(n) <= f
      BY <1>1, <2>1, Zenon
    <2>. HIDE DEF n, v, f, p, e
    <2>3. v <= p + f + e
      BY <1>0, <1>1, <1>3, <1>4, <1>5, <2>2
    <2>. QED BY <2>3 DEF n, v, f, p, e
  <1>8. CASE z <= y
    <2>1. r = s \/ r = 2 * s
      BY <1>0, <1>2, <1>8
    <2>2. 2 * Near(n) <= 2 * (y + z) + r
      BY <1>3
    <2>. HIDE DEF n, v, f, p, e, s, r, t, c
    <2>3. v < k + w
      BY <1>0, <1>1, <1>2, <1>3, <1>4, <1>5, <1>6, <2>1, <2>2
    <2>4. Multiple(k, w)
      <3>0. Multiple(f, w)
        BY <1>1, c \in Int DEF Multiple, f
      <3>1. e % w = 0
        BY <1>0
      <3>2. Multiple(p, w) /\ Multiple(e, w)
        BY <1>0, <1>4, <3>1, MultipleItself, MultipleOf
      <3>3. Multiple(p + f, w) /\ p + f \in Int
        BY <1>0, <1>1, <1>4, <3>0, <3>2, MultipleSum
      <3>. QED BY <1>0, <3>2, <3>3, MultipleSum
    <2>5. Multiple(v, w)
      <3>1. e % w = 0
        BY <1>0
      <3>. QED BY <1>0, <1>5, <3>1, MultipleOf
    <2>6. k \in Int /\ v \in Int
      BY <1>0, <1>1, <1>4, <1>5
    <2>. HIDE DEF k
    <2>7. v <= k
      BY <1>0, <2>3, <2>4, <2>5, <2>6, MultipleStep
    <2>. QED BY <2>7 DEF n, v, f, p, e, t, c, k
  <1>. QED BY <1>7, <1>8

\* At the end of a FLAC file, b, at most one chunk is unplayed: what lies ahead is
\* less than fills the buffer.
LEMMA FlacEnd ==
  ASSUME NEW w \in {Scale, Scale \div 2}, NEW y \in Nat, NEW z \in Nat, y = 0 \/ z <= y,
         NEW b \in Nat, Multiple(b, Scale), b < w * Significands,
         NEW d \in Nat, d + w <= Ceiling(Near(z), w) * w,
         (Near(y) \div Scale) * Scale < b, b <= (Near(y + z) \div Scale) * Scale + d
  PROVE  b <= (Near(y) \div Scale) * Scale + 2 * (Ceiling(Near(z), w) * w)
  <1>. DEFINE n == y + z
              s == Spacing(y)
              t == Near(y)
              e == Scale
              p == (t \div e) * e
              v == (Near(n) \div e) * e
              c == Ceiling(Near(z), w)
              f == c * w
              m == w * Significands
              k == p + 2 * f
  <1>0. /\ w \in Grains /\ w \in Nat \ {0} /\ e \in Nat \ {0} /\ e \in Grains
        /\ (w = e \/ 2 * w = e) /\ n \in Nat /\ Significands \in Nat /\ m \in Nat
    BY GrainsAre DEF Grains
  <1>1. y < m /\ b + e <= m
    <2>1. e % e = 0
      BY <1>0
    <2>. QED BY <1>0, <2>1, BeforeTheLimit
  <1>2. p \in Nat /\ t <= p + Coarser(e, s) - s /\ Multiple(p, e) /\ t \in Nat
    BY <1>0, FloorGrain, NearIs
  <1>3. v \in Nat /\ v <= Near(n) /\ Multiple(v, e) /\ Near(n) \in Nat
    BY <1>0, FloorGrain, NearIs
  <1>4. c \in Nat /\ f \in Nat /\ Near(z) <= f
    <2>. DEFINE x == Near(z)
                a == x + w - 1
    <2>0. x \in Nat /\ c = (x + w - 1) \div w
      BY NearIs DEF Ceiling
    <2>. HIDE DEF x
    <2>1. x \in Nat /\ a \in Nat /\ c = a \div w
      BY <1>0, <2>0
    <2>. HIDE DEF a, c, x
    <2>2. c \in Nat /\ f \in Nat /\ a < f + w
      BY <1>0, <2>1, DivMultiple
    <2>. HIDE DEF f
    <2>3. x <= f
      BY <1>0, <2>1, <2>2 DEF a
    <2>. QED BY <2>2, <2>3 DEF x
  <1>5. d + w <= f
    OBVIOUS
  <1>6. CASE n < m
    <2>1. v <= p + f + e
      BY <1>6, FlacGap
    <2>2. b <= v + d
      OBVIOUS
    <2>3. Multiple(k, e)
      <3>1. Multiple(2 * f, e)
        <4>1. \E i \in Int : 2 * f = i * e
          <5>1. CASE w = e
            <6>1. 2 * f = (2 * c) * e /\ 2 * c \in Int
              BY <1>0, <1>4, <5>1
            <6>. QED BY <6>1
          <5>2. CASE 2 * w = e
            <6>. HIDE DEF e, c
            <6>1. 2 * f = c * e
              BY <1>0, <1>4, <5>2
            <6>. QED BY <1>4, <6>1
          <5>. QED BY <1>0, <5>1, <5>2
        <4>. QED BY <4>1 DEF Multiple
      <3>. HIDE DEF e, f, p
      <3>. QED BY <1>0, <1>2, <1>4, <3>1, MultipleSum
    <2>. HIDE DEF e, f, p, v, n
    <2>4. k \in Int /\ b < k + e /\ Multiple(b, e)
      BY <1>0, <1>2, <1>3, <1>4, <1>5, <2>1, <2>2 DEF e
    <2>. HIDE DEF k
    <2>5. b <= k
      BY <1>0, <2>3, <2>4, MultipleStep
    <2>. QED BY <2>5 DEF k, p, f, e
  <1>7. CASE y = 0
    <2>1. n = z
      BY <1>7
    <2>2. Near(n) <= f
      BY <1>4, <2>1, Zenon
    <2>3. b <= v + d
      OBVIOUS
    <2>. HIDE DEF n, v, f, p, e, t
    <2>4. b <= p + 2 * f
      BY <1>0, <1>2, <1>3, <1>4, <1>5, <2>2, <2>3
    <2>. QED BY <2>4 DEF p, f, e, t
  <1>8. CASE ~(n < m) /\ z <= y
    <2>1. z < m
      BY <1>0, <1>1, <1>8
    <2>2. 2 * z <= 2 * f + w
      BY <1>0, <2>1, SizeNear
    <2>3. 2 * y <= 2 * t + s /\ s \in Nat \ {0} /\ s <= w
      BY <1>0, <1>1, NearIs, SpacingIs, SpacingBelow
    <2>4. Coarser(e, s) = e
      BY <1>0, <2>3 DEF Coarser
    <2>5. b + e <= y + z
      BY <1>0, <1>1, <1>8
    <2>. HIDE DEF t, s, p, f, e, m
    <2>6. b <= p + 2 * f
      BY <1>0, <1>2, <1>4, <1>5, <2>2, <2>3, <2>4, <2>5
    <2>. QED BY <2>6 DEF p, t, f, e
  <1>. QED BY <1>6, <1>7, <1>8

-----------------------------------------------------------------------------
(* The code's products of floats                                           *)

\* p is one of the floats.
IsFloat(p) == \E s \in Spacings, q \in Nat : p = q * s /\ (q <= Significands \/ s = MaxSpacing)

\* The first numbers are floats.
LEMMA SmallIs ==
  ASSUME NEW j \in {1, 2, 4}
  PROVE  FromInt(j) = j * Scale
  <1>. DEFINE n == (4 * j) * Significands
  <1>1. n \in Nat /\ Real(j) = n * 1 /\ j * Scale = n /\ Significands \in Nat \ {0}
    <2>1. Significands \in Nat \ {0} /\ Scale = 4 * Significands
      BY ScaleNat
    <2>. QED BY <2>1 DEF Real
  <1>. HIDE DEF n
  <1>2. n % Spacing(n) = 0
    <2>. DEFINE t == Spacing(n)
                h == Significands \div 2
    <2>1. /\ t \in Spacings /\ t \in Nat \ {0}
          /\ \A s \in Spacings : n < s * Significands \/ s = MaxSpacing => t <= s
      BY <1>1, SpacingIs
    <2>. HIDE DEF t
    <2>2. PICK p \in {1, 2, 4, 8, 16, 32} :
            p \in Spacings /\ p <= 8 * j /\ (p = 8 * j \/ p = MaxSpacing)
      <3>1. \A s \in Spacings : s = MaxSpacing \/ 2 * s \in Spacings
        BY SpacingsAssumption
      <3>2. 8 * j \in {8, 16, 32}
        OBVIOUS
      <3>. QED BY <3>1, <3>2, SpacingsAssumption
    <2>3. t <= p
      <3>1. n < (8 * j) * Significands
        BY <1>1 DEF n
      <3>. QED BY <2>1, <2>2, <3>1
    <2>4. p % t = 0
      BY <2>1, <2>2, <2>3, SpacingsAssumption
    <2>5. h \in Nat /\ Significands = 2 * h
      BY <1>1, DivNat, SignificandsAssumption
    <2>. HIDE DEF h
    <2>6. PICK k \in Nat : n = k * p
      <3>1. n = (8 * j) * h /\ 8 * j \in {8, 16, 32}
        BY <2>5 DEF n
      <3>2. PICK e \in {1, 2, 4, 8, 16, 32} : e * p = 8 * j
        BY <2>2, <3>1
      <3>3. n = (h * e) * p /\ h * e \in Nat
        BY <2>2, <2>5, <3>1, <3>2
      <3>. QED BY <3>3
    <2>7. (k * p) % t = 0
      BY <2>1, <2>2, <2>4, Multiples
    <2>. QED BY <2>6, <2>7 DEF t
  <1>. QED BY <1>1, <1>2, SingleExact DEF FromInt

\* And so are the numbers of frames that floats tell apart.
LEMMA FramesAre ==
  ASSUME NEW k \in Nat, k < Significands
  PROVE  FromInt(k) = k * Scale
  <1>. DEFINE e == Scale
              n == k * e
              s == Spacing(n)
  <1>1. e \in Grains /\ e \in Nat \ {0} /\ Significands \in Nat
    BY GrainsAre DEF Grains
  <1>2. n \in Nat /\ n < e * Significands
    <2>1. k * e < Significands * e /\ Significands * e = e * Significands
      BY <1>1
    <2>. QED BY <1>1, <2>1, ProductNat
  <1>3. s \in Spacings /\ s \in Nat \ {0} /\ s <= e
    BY <1>1, <1>2, SpacingIs, SpacingBelow
  <1>4. e % s = 0
    BY <1>1, <1>3, GrainOrSpacing
  <1>. HIDE DEF e
  <1>5. n % s = 0
    <2>. HIDE DEF s
    <2>. QED BY <1>1, <1>3, <1>4, Multiples
  <1>6. Real(k) = n * 1
    BY <1>1, <1>2 DEF Real, e
  <1>. HIDE DEF n
  <1>7. Single(n * 1, 1) = n
    BY <1>2, <1>5, SingleExact
  <1>. QED BY <1>6, <1>7 DEF FromInt, n, e

LEMMA NearIsFloat ==
  ASSUME NEW n \in Nat
  PROVE  IsFloat(Near(n)) /\ Near(n) \in Nat
  <1>1. n * Scale \in Nat /\ Scale \in Nat \ {0}
    BY ScaleNat, ProductNat
  <1>2. IsFloat(Near(n))
    BY <1>1, SingleForm DEF Near, IsFloat
  <1>. QED BY <1>2, NearIs

\* A product with a whole number is the float nearest to the product.
LEMMA TimesIs ==
  ASSUME NEW a \in Nat, NEW k \in Nat, FromInt(k) = k * Scale
  PROVE  Times(a, FromInt(k)) = Near(k * a) /\ Times(FromInt(k), a) = Near(k * a)
  <1>. DEFINE e == Scale
  <1>1. e \in Nat
    BY ScaleNat
  <1>. HIDE DEF e
  <1>2. a * (k * e) = (k * a) * e /\ (k * e) * a = (k * a) * e
    BY <1>1
  <1>. QED BY <1>2 DEF Times, Near, e

\* To double a float, or to take it as it is, does not round.
LEMMA NotRounded ==
  ASSUME NEW p \in Nat, IsFloat(p), NEW j \in {1, 2}
  PROVE  Times(p, FromInt(j)) = j * p /\ IsFloat(j * p)
  <1>1. PICK s \in Spacings, q \in Nat : p = q * s /\ (q <= Significands \/ s = MaxSpacing)
    BY DEF IsFloat
  <1>. DEFINE m == j * p
              t == Spacing(m)
              h == Significands \div 2
  <1>2. /\ s \in Nat \ {0} /\ MaxSpacing \in Nat /\ s <= MaxSpacing
        /\ Significands \in Nat \ {0} /\ m \in Nat
    BY GrainsAre, SpacingsAssumption
  <1>3. h \in Nat \ {0} /\ Significands = 2 * h
    BY <1>2, GrainsAre
  <1>. HIDE DEF h
  <1>4. IsFloat(m) /\ \E c \in Nat, r \in Spacings : m = c * r /\ (c <= Significands \/ r = MaxSpacing)
    <2>1. CASE j = 1
      BY <1>1, <2>1 DEF IsFloat
    <2>2. CASE j = 2 /\ s = MaxSpacing
      <3>1. m = (2 * q) * s /\ 2 * q \in Nat
        BY <1>1, <1>2, <2>2
      <3>. QED BY <2>2, <3>1 DEF IsFloat
    <2>3. CASE j = 2 /\ s # MaxSpacing
      <3>1. 2 * s \in Spacings /\ q <= Significands
        BY <1>1, <2>3, SpacingsAssumption
      <3>2. m = q * (2 * s)
        BY <1>1, <1>2, <2>3
      <3>. QED BY <3>1, <3>2 DEF IsFloat
    <2>. QED BY <2>1, <2>2, <2>3
  <1>. HIDE DEF m
  <1>5. PICK c \in Nat, r \in Spacings : m = c * r /\ (c <= Significands \/ r = MaxSpacing)
    BY <1>4
  <1>6. m % t = 0
    <2>1. /\ t \in Spacings /\ t \in Nat \ {0} /\ t <= MaxSpacing /\ r \in Nat \ {0} /\ r <= MaxSpacing
          /\ \A u \in Spacings : m < u * Significands \/ u = MaxSpacing => t <= u
      BY <1>2, SpacingIs, SpacingsAssumption
    <2>. HIDE DEF t
    <2>2. CASE t <= r
      <3>1. r % t = 0
        BY <2>1, <2>2, SpacingsAssumption
      <3>2. (c * r) % t = 0
        BY <2>1, <3>1, Multiples
      <3>. QED BY <1>5, <3>2
    <2>3. CASE ~(t <= r)
      <3>1. r # MaxSpacing /\ 2 * r \in Spacings /\ c <= Significands
        BY <1>5, <2>1, <2>3, SpacingsAssumption
      <3>2. c >= Significands
        <4>1. ~(m < r * Significands)
          BY <2>1, <2>3, Zenon
        <4>. SUFFICES ASSUME c < Significands PROVE FALSE
          BY <1>2
        <4>2. c * r < Significands * r
          BY <1>2, <2>1
        <4>. QED BY <1>2, <1>5, <2>1, <4>1, <4>2
      <3>3. m = h * (2 * r)
        BY <1>2, <1>3, <1>5, <2>1, <3>1, <3>2
      <3>4. m < (2 * r) * Significands
        <4>1. h * (2 * r) < Significands * (2 * r)
          BY <1>3, <2>1
        <4>. QED BY <1>2, <2>1, <3>3, <4>1
      <3>5. (2 * r) % t = 0
        BY <2>1, <3>1, <3>4, SpacingsAssumption
      <3>. DEFINE a == 2 * r
      <3>6. a \in Nat /\ a % t = 0
        BY <2>1, <3>5
      <3>. HIDE DEF a
      <3>7. (h * a) % t = 0
        BY <1>3, <2>1, <3>6, Multiples
      <3>. QED BY <3>3, <3>7 DEF a
    <2>. QED BY <2>2, <2>3
  <1>7. Near(m) = m
    <2>1. Scale \in Nat \ {0}
      BY ScaleNat
    <2>. QED BY <1>2, <1>6, <2>1, SingleExact DEF Near
  <1>8. Times(p, FromInt(j)) = Near(m)
    <2>1. FromInt(j) = j * Scale
      BY SmallIs
    <2>. QED BY <2>1, TimesIs DEF m
  <1>. QED BY <1>4, <1>7, <1>8 DEF m

-----------------------------------------------------------------------------
(* Where the chunks lie                                                    *)

\* The places of the chunks from the first frame they are played at.
PositionAt(k) ==
    Floor(Times(Times(Times(FromInt(k), FileSamplerateOverStdaud),
                      FromInt(header.NumChannels)), FromInt(SampleSize)))

StartFrameAt(k) == Floor(Times(FromInt(k), FileSamplerateOverStdaud))

\* A sample and a byte, in units of the frames of the file.
SampleUnit == Scale \div header.NumChannels
ByteUnit   == Scale \div FrameSize

LEMMA UnitsAre ==
  ASSUME Format
  PROVE  /\ SampleUnit \in {Scale, Scale \div 2} /\ SampleUnit \in Nat \ {0}
         /\ ByteUnit \in Grains /\ ByteUnit \in Nat \ {0} /\ SampleUnit % ByteUnit = 0
         /\ header.NumChannels * SampleUnit = Scale /\ FrameSize * ByteUnit = Scale
         /\ SampleSize * ByteUnit = SampleUnit
         /\ header.NumChannels \in {1, 2} /\ SampleSize \in {2, 4} /\ FrameSize \in {2, 4, 8}
         /\ FrameSize = header.NumChannels * SampleSize
  <1>1. header.NumChannels \in {1, 2} /\ SampleSize \in {2, 4}
    BY DEF Format, Channels, SampleSize
  <1>2. FrameSize = header.NumChannels * SampleSize
    BY DEF FrameSize
  <1>3. FrameSize \in {2, 4, 8}
    BY <1>1, <1>2
  <1>4. Scale \in Nat \ {0} /\ 2 * (Scale \div 2) = Scale /\ 4 * (Scale \div 4) = Scale
        /\ 8 * (Scale \div 8) = Scale
        /\ Grains \subseteq Nat \ {0}
    BY GrainsAre, ScaleNat
  <1>. DEFINE e == Scale
              w == SampleUnit
              u == ByteUnit
  <1>5. w \in {e, e \div 2} /\ header.NumChannels * w = e
    <2>1. CASE header.NumChannels = 1
      BY <1>4, <2>1 DEF SampleUnit
    <2>2. CASE header.NumChannels = 2
      BY <1>4, <2>2 DEF SampleUnit
    <2>. QED BY <1>1, <2>1, <2>2
  <1>6. u \in Grains /\ FrameSize * u = e
    <2>1. CASE FrameSize = 2
      BY <1>4, <2>1 DEF ByteUnit, Grains
    <2>2. CASE FrameSize = 4
      BY <1>4, <2>2 DEF ByteUnit, Grains
    <2>3. CASE FrameSize = 8
      BY <1>4, <2>3 DEF ByteUnit, Grains
    <2>. QED BY <1>3, <2>1, <2>2, <2>3
  <1>7. w \in Nat \ {0} /\ u \in Nat \ {0}
    <2>1. w \in Grains
      BY <1>5 DEF Grains
    <2>. QED BY <1>4, <1>6, <2>1
  <1>. HIDE DEF e, w, u
  <1>8. SampleSize * u = w
    <2>1. CASE header.NumChannels = 1
      BY <1>1, <1>2, <1>5, <1>6, <1>7, <2>1
    <2>2. CASE header.NumChannels = 2 /\ SampleSize = 2
      BY <1>1, <1>2, <1>5, <1>6, <1>7, <2>2
    <2>3. CASE header.NumChannels = 2 /\ SampleSize = 4
      BY <1>1, <1>2, <1>5, <1>6, <1>7, <2>3
    <2>. QED BY <1>1, <2>1, <2>2, <2>3
  <1>9. w % u = 0
    <2>1. CASE SampleSize = 2
      BY <1>7, <1>8, <2>1
    <2>2. CASE SampleSize = 4
      BY <1>7, <1>8, <2>2
    <2>. QED BY <1>1, <2>1, <2>2
  <1>. QED BY <1>1, <1>2, <1>3, <1>5, <1>6, <1>7, <1>8, <1>9 DEF e, w, u

\* A quotient of multiples of the same number.
LEMMA DivReduces ==
  ASSUME NEW t \in Nat, NEW u \in Nat \ {0}, NEW f \in {1, 2, 4, 8}
  PROVE  (f * t) \div (f * u) = t \div u
  <1>. DEFINE p == t \div u
              r == t % u
  <1>1. p \in Nat /\ r \in 0 .. u - 1 /\ u * p + r = t
    BY DivNat
  <1>. HIDE DEF p, r
  <1>. DEFINE a == f * t
              b == f * u
              c == a \div b
              s == a % b
  <1>2. a \in Nat /\ b \in Nat \ {0}
    OBVIOUS
  <1>3. c \in Nat /\ s \in 0 .. b - 1 /\ b * c + s = a
    <2>. HIDE DEF a, b
    <2>. QED BY <1>2, DivNat
  <1>. HIDE DEF c, s
  <1>4. a = b * p + f * r /\ f * r \in Nat /\ f * r < b
    <2>1. f * (u * p + r) = b * p + f * r
      BY <1>1
    <2>2. f * r <= f * (u - 1)
      BY <1>1
    <2>. QED BY <1>1, <2>1, <2>2
  <1>. HIDE DEF a, b
  <1>5. ~(c > p)
    <2>. SUFFICES ASSUME c >= p + 1 PROVE FALSE
      BY <1>1, <1>3
    <2>1. b * c >= b * (p + 1) /\ b * (p + 1) = b * p + b
      BY <1>1, <1>2, <1>3
    <2>2. b * p \in Nat /\ b * c \in Nat
      BY <1>1, <1>2, <1>3
    <2>. QED BY <1>2, <1>3, <1>4, <2>1, <2>2
  <1>6. ~(c < p)
    <2>. SUFFICES ASSUME p >= c + 1 PROVE FALSE
      BY <1>1, <1>3
    <2>1. b * p >= b * (c + 1) /\ b * (c + 1) = b * c + b
      BY <1>1, <1>2, <1>3
    <2>2. b * p \in Nat /\ b * c \in Nat
      BY <1>1, <1>2, <1>3
    <2>. QED BY <1>2, <1>3, <1>4, <2>1, <2>2
  <1>7. c = p
    BY <1>1, <1>3, <1>5, <1>6
  <1>. QED BY <1>7 DEF a, b, c, p

LEMMA RatioNat ==
  ASSUME Format
  PROVE  FileSamplerateOverStdaud \in Nat
  <1>1. header.SampleRate \in Nat /\ StdRate \in Nat \ {0}
    BY StdAudFmtAssumption DEF Format
  <1>2. Real(header.SampleRate) \in Nat
    BY <1>1, ScaleNat, ProductNat DEF Real
  <1>. QED BY <1>1, <1>2, SingleNat DEF FileSamplerateOverStdaud

\* Where a chunk starts: the product is rounded once.
LEMMA PlacesAre ==
  ASSUME Format, NEW k \in Nat, k < Significands
  PROVE  LET y == k * FileSamplerateOverStdaud
         IN  /\ y \in Nat /\ Near(y) \in Nat
             /\ StartFrameAt(k) = Near(y) \div Scale
             /\ PositionAt(k) = Near(y) \div ByteUnit
  <1>. DEFINE q == FileSamplerateOverStdaud
              y == k * q
              p == Near(y)
              ch == header.NumChannels
              ss == SampleSize
              fs == FrameSize
  <1>1. q \in Nat /\ y \in Nat
    BY RatioNat, ProductNat
  <1>. HIDE DEF q
  <1>2. Times(FromInt(k), q) = p
    BY <1>1, FramesAre, TimesIs
  <1>3. p \in Nat /\ IsFloat(p)
    BY <1>1, NearIsFloat
  <1>. HIDE DEF y, p
  <1>4. /\ ch \in {1, 2} /\ ss \in {2, 4} /\ fs \in {2, 4, 8} /\ fs = ch * ss
        /\ ByteUnit \in Nat \ {0} /\ fs * ByteUnit = Scale
    BY UnitsAre
  <1>. HIDE DEF ch, ss, fs
  <1>5. Times(p, FromInt(ch)) = ch * p /\ IsFloat(ch * p)
    BY <1>3, <1>4, NotRounded
  <1>. DEFINE a == ch * p
  <1>6. a \in Nat
    BY <1>3, <1>4
  <1>7. a = Single(a * Scale, Scale) /\ a * Scale \in Nat
    <2>1. Times(a, FromInt(1)) = 1 * a
      BY <1>5, <1>6, NotRounded
    <2>2. FromInt(1) = 1 * Scale /\ Scale \in Nat
      BY SmallIs, ScaleNat
    <2>3. Times(a, FromInt(1)) = Near(1 * a)
      BY <1>6, <2>2, TimesIs
    <2>. HIDE DEF a
    <2>4. 1 * a = a /\ a * Scale \in Nat
      BY <1>6, <2>2
    <2>. QED BY <2>1, <2>3, <2>4 DEF Near
  <1>8. Times(a, FromInt(ss)) = ss * a
    <2>. HIDE DEF a
    <2>1. CASE ss = 2
      BY <1>5, <1>6, <2>1, NotRounded DEF a
    <2>2. CASE ss = 4
      <3>1. \E n \in Nat : a = Single(n, Scale)
        BY <1>7
      <3>. QED BY <1>6, <2>2, <3>1, TimesFour
    <2>. QED BY <1>4, <2>1, <2>2
  <1>9. ss * a = fs * p
    BY <1>3, <1>4
  <1>10. PositionAt(k) = (fs * p) \div (fs * ByteUnit)
    BY <1>2, <1>4, <1>5, <1>8, <1>9 DEF PositionAt, Floor, q, ch, ss
  <1>11. PositionAt(k) = p \div ByteUnit
    BY <1>3, <1>4, <1>10, DivReduces
  <1>12. StartFrameAt(k) = p \div Scale
    BY <1>2 DEF StartFrameAt, Floor, q
  <1>. QED BY <1>1, <1>3, <1>11, <1>12 DEF q, y, p

\* How long a chunk is: the product is rounded once.
LEMMA ChunkIs ==
  ASSUME Format, FrameCount < Significands
  PROVE  LET z == FrameCount * FileSamplerateOverStdaud
         IN  /\ z \in Nat /\ Near(z) \in Nat
             /\ Floor(SamplesToRead) = Near(z) \div SampleUnit
             /\ Ceil(SamplesToRead) = Ceiling(Near(z), SampleUnit)
  <1>. DEFINE q == FileSamplerateOverStdaud
              z == FrameCount * q
              x == Near(z)
              ch == header.NumChannels
              w == SampleUnit
  <1>1. q \in Nat /\ z \in Nat /\ FrameCount \in Nat
    BY RatioNat, ProductNat, ChunkStreamAssumption
  <1>. HIDE DEF q
  <1>2. Times(q, FromInt(FrameCount)) = x
    BY <1>1, FramesAre, TimesIs
  <1>3. x \in Nat /\ IsFloat(x)
    BY <1>1, NearIsFloat
  <1>. HIDE DEF z, x
  <1>4. ch \in {1, 2} /\ w \in Nat \ {0} /\ ch * w = Scale
    BY UnitsAre
  <1>. HIDE DEF ch, w
  <1>5. SamplesToRead = ch * x
    BY <1>2, <1>3, <1>4, NotRounded DEF SamplesToRead, q, ch
  <1>6. Floor(SamplesToRead) = x \div w
    <2>1. (ch * x) \div (ch * w) = x \div w
      BY <1>3, <1>4, DivReduces
    <2>. QED BY <1>4, <1>5, <2>1 DEF Floor
  <1>7. Ceil(SamplesToRead) = Ceiling(x, w)
    <2>1. CASE ch = 1
      BY <1>3, <1>4, <1>5, <2>1 DEF Ceil
    <2>2. CASE ch = 2
      <3>. DEFINE m == x + w - 1
      <3>1. m \in Nat
        BY <1>3, <1>4
      <3>2. Ceil(SamplesToRead) = (2 * m + 1) \div (2 * w)
        <4>1. ch * x + Scale - 1 = 2 * m + 1 /\ Scale = 2 * w
          BY <1>3, <1>4, <2>2
        <4>. QED BY <1>5, <4>1 DEF Ceil, Ceiling
      <3>. HIDE DEF m
      <3>3. (2 * m + 1) \div (2 * w) = m \div w
        <4>. DEFINE c == (2 * m + 1) \div (2 * w)
                    s == (2 * m + 1) % (2 * w)
                    b == 2 * w
                    a == 2 * m + 1
                    d == m \div w
                    r == m % w
        <4>1. a \in Nat /\ b \in Nat \ {0}
          BY <1>4, <3>1
        <4>2. c \in Nat /\ s \in 0 .. b - 1 /\ b * c + s = a
          <5>1. c = a \div b /\ s = a % b
            OBVIOUS
          <5>. HIDE DEF a, b, c, s
          <5>. QED BY <4>1, <5>1, DivNat
        <4>3. d \in Nat /\ r \in 0 .. w - 1 /\ w * d + r = m
          BY <1>4, <3>1, DivNat
        <4>. HIDE DEF c, s, d, r
        <4>4. a = 2 * (w * d) + 2 * r + 1 /\ b * c = 2 * (w * c) /\ w * c \in Nat /\ w * d \in Nat
          BY <1>4, <4>2, <4>3
        <4>5. ~(c > d)
          <5>. SUFFICES ASSUME c >= d + 1 PROVE FALSE
            BY <4>2, <4>3
          <5>1. w * c >= w * (d + 1) /\ w * (d + 1) = w * d + w
            BY <1>4, <4>2, <4>3
          <5>. HIDE DEF a, b
          <5>. QED BY <1>4, <4>2, <4>3, <4>4, <5>1
        <4>6. ~(c < d)
          <5>. SUFFICES ASSUME d >= c + 1 PROVE FALSE
            BY <4>2, <4>3
          <5>1. w * d >= w * (c + 1) /\ w * (c + 1) = w * c + w
            BY <1>4, <4>2, <4>3
          <5>2. s <= 2 * w - 1 /\ s \in Nat
            BY <1>4, <4>2
          <5>. HIDE DEF a, b
          <5>. QED BY <1>4, <4>2, <4>3, <4>4, <5>1, <5>2
        <4>7. c = d
          BY <4>2, <4>3, <4>5, <4>6
        <4>. QED BY <4>7 DEF c, d
      <3>4. Ceiling(x, w) = m \div w
        BY DEF Ceiling, m
      <3>. QED BY <3>2, <3>3, <3>4
    <2>. QED BY <1>4, <2>1, <2>2
  <1>. QED BY <1>1, <1>3, <1>6, <1>7 DEF q, z, x, w

\* Where the chunk read last lies, from the frame it is played at; before the first
\* one nothing is read.
Placed ==
    /\ file.kind \in Sources /\ file.present \in Nat
    /\ first_frame \in Nat
    /\ next_first_frame = 0 => chunk.end = 0 /\ pc = "idle"
    /\ next_first_frame # 0 =>
         /\ next_first_frame = first_frame + FrameCount
         /\ first_frame = 0 \/ FrameCount <= first_frame
         /\ file.kind = "wav" =>
              /\ chunk.start = PositionAt(first_frame) /\ chunk.start < AudiodataSize
              /\ chunk.end = chunk.start + Clamp(BytesToRead, AudiodataSize - chunk.start)
         /\ file.kind = "flac" =>
              /\ chunk.start = StartFrameAt(first_frame) * FrameSize
              /\ chunk.end = chunk.start + BufferSize
              /\ FramesToFill # 0 => StartFrameAt(first_frame) < file.frames

\* The frames the buffer of a FLAC chunk is filled with.
LEMMA FillIs ==
  ASSUME Format, Loaded
  PROVE  LET c == Ceil(SamplesToRead)
         IN  /\ c \in Nat /\ FramesToFill = Ceiling(c, header.NumChannels)
             /\ FramesToFill \in Nat
  <1>. DEFINE c == Ceil(SamplesToRead)
              ss == SampleSize
              ch == header.NumChannels
              fs == FrameSize
  <1>1. c \in Nat
    BY SizesNat DEF Loaded
  <1>2. ch \in {1, 2} /\ ss \in {2, 4} /\ fs \in {2, 4, 8} /\ fs = ch * ss
    BY UnitsAre
  <1>3. FramesToFill = (c * ss + fs - 1) \div fs
    BY DEF FramesToFill, Ceiling, BufferSize
  <1>. HIDE DEF c, ss, ch, fs
  <1>4. FramesToFill = (c + ch - 1) \div ch /\ FramesToFill \in Nat
    <2>1. CASE ch = 1 /\ ss = 2
      <3>1. fs = 2
        BY <1>2, <2>1
      <3>. QED BY <1>1, <1>3, <2>1, <3>1
    <2>2. CASE ch = 1 /\ ss = 4
      <3>1. fs = 4
        BY <1>2, <2>2
      <3>. QED BY <1>1, <1>3, <2>2, <3>1
    <2>3. CASE ch = 2 /\ ss = 2
      <3>1. fs = 4
        BY <1>2, <2>3
      <3>. QED BY <1>1, <1>3, <2>3, <3>1
    <2>4. CASE ch = 2 /\ ss = 4
      <3>1. fs = 8
        BY <1>2, <2>4
      <3>. QED BY <1>1, <1>3, <2>4, <3>1
    <2>. QED BY <1>2, <2>1, <2>2, <2>3, <2>4
  <1>. QED BY <1>1, <1>4 DEF Ceiling, c, ch

LEMMA PlacedInit == Init => Placed
  <1>. SUFFICES ASSUME Init PROVE Placed
    OBVIOUS
  <1>1. file.kind \in Sources /\ file.present \in Nat
    BY ChunkStreamAssumption DEF Init
  <1>2. pc = "idle" /\ chunk = [start |-> 0, end |-> 0] /\ next_first_frame = 0 /\ first_frame = 0
    BY DEF Init, ConversionInit
  <1>. QED BY <1>1, <1>2 DEF Placed

\* The places depend on what no step changes.
LEMMA SamePlaces ==
  ASSUME header' = header, file' = file
  PROVE  /\ FrameSize' = FrameSize /\ AudiodataSize' = AudiodataSize
         /\ BytesToRead' = BytesToRead /\ BufferSize' = BufferSize /\ FramesToFill' = FramesToFill
         /\ first_frame' = first_frame =>
              /\ PositionAt(first_frame)' = PositionAt(first_frame)
              /\ StartFrameAt(first_frame)' = StartFrameAt(first_frame)
         /\ first_frame' = next_first_frame =>
              /\ PositionAt(first_frame)' = Position
              /\ StartFrameAt(first_frame)' = StartFrame
  <1>1. FrameSize' = FrameSize /\ SampleSize' = SampleSize
    BY DEF FrameSize, SampleSize
  <1>2. FileSamplerateOverStdaud' = FileSamplerateOverStdaud
    BY DEF FileSamplerateOverStdaud
  <1>3. SamplesToRead' = SamplesToRead
    BY <1>2 DEF SamplesToRead
  <1>4. BytesToRead' = BytesToRead /\ BufferSize' = BufferSize
    BY <1>1, <1>3 DEF BytesToRead, BufferSize
  <1>5. FramesToFill' = FramesToFill
    BY <1>1, <1>4 DEF FramesToFill
  <1>6. AudiodataSize' = AudiodataSize
    BY <1>1 DEF AudiodataSize
  <1>7. ASSUME first_frame' = first_frame
        PROVE  /\ PositionAt(first_frame)' = PositionAt(first_frame)
               /\ StartFrameAt(first_frame)' = StartFrameAt(first_frame)
    BY <1>1, <1>2, <1>7 DEF PositionAt, StartFrameAt
  <1>8. ASSUME first_frame' = next_first_frame
        PROVE  /\ PositionAt(first_frame)' = Position
               /\ StartFrameAt(first_frame)' = StartFrame
    BY <1>1, <1>2, <1>8 DEF PositionAt, StartFrameAt, Position, StartFrame
  <1>. QED BY <1>1, <1>4, <1>5, <1>6, <1>7, <1>8

\* No step changes the file or its format.
LEMMA FileStays == [Next]_vars => header' = header /\ file' = file /\ plenty' = plenty
  BY DEF Next, vars, conversionVars, Retired, WAV_EOF, WAV_UnequalRead, FLAC_EOF, GiveUp,
         WAV_Read, FLAC_Read, HaveRead, Convert, Deliver, ConversionError, Convey, Conversion,
         ToFloat, ToStereo, IsStereo, IsStdRate, ToRate, LeftChannel, RightChannel,
         SplitChannel, ResampleChannel, DropChannel, Merge, DropBoth, FreePrev

LEMMA PlacedNext ==
  ASSUME Contents, Loaded, Placed, [Next]_vars
  PROVE  Placed'
  <1>1. header' = header /\ file' = file
    BY FileStays
  <1>2. /\ FrameCount \in Nat \ {0} /\ next_first_frame \in Nat /\ Format
        /\ AudiodataSize \in Nat /\ Position \in Nat /\ BytesToRead \in Nat
        /\ StartFrame \in Nat /\ FramesToFill \in Nat /\ file.frames \in Nat
    BY SizesNat, FillIs, ChunkStreamAssumption DEF Loaded, Contents
  <1>3. ASSUME NEW start, NEW n, HaveRead(start, n)
        PROVE  /\ first_frame' = next_first_frame /\ next_first_frame' = first_frame' + FrameCount
               /\ first_frame' \in Nat
               /\ first_frame' = 0 \/ FrameCount <= first_frame'
               /\ next_first_frame' # 0
               /\ chunk'.start = start /\ chunk'.end = start + n
    <2>1. /\ first_frame' = next_first_frame /\ next_first_frame' = next_first_frame + FrameCount
          /\ chunk'.start = start /\ chunk'.end = start + n
      BY <1>3 DEF HaveRead
    <2>2. next_first_frame = 0 \/ FrameCount <= next_first_frame
      BY <1>2 DEF Placed
    <2>. QED BY <1>2, <2>1, <2>2
  <1>4. CASE WAV_Read
    <2>1. /\ HaveRead(WavStart, WavBytes) /\ file.kind = "wav" /\ AudiodataSize - WavStart # 0
      BY <1>4 DEF WAV_Read, Loading
    <2>2. WavStart = Position /\ Position < AudiodataSize
      BY <1>2, <2>1 DEF WavStart, Clamp
    <2>3. WavBytes = Clamp(BytesToRead, AudiodataSize - Position)
      BY <2>2 DEF WavBytes
    <2>4. PositionAt(first_frame)' = Position
      BY <1>1, <1>3, <2>1, SamePlaces
    <2>5. AudiodataSize' = AudiodataSize /\ BytesToRead' = BytesToRead
      BY <1>1, SamePlaces
    <2>6. /\ chunk'.start = Position /\ chunk'.start < AudiodataSize'
          /\ chunk'.end = chunk'.start + Clamp(BytesToRead', AudiodataSize' - chunk'.start)
      BY <1>3, <2>1, <2>2, <2>3, <2>5
    <2>7. file'.kind = "wav" /\ file'.present \in Nat
      BY <1>1, <2>1 DEF Placed
    <2>8. /\ first_frame' \in Nat /\ next_first_frame' = first_frame' + FrameCount
          /\ first_frame' = 0 \/ FrameCount <= first_frame'
          /\ next_first_frame' # 0
      BY <1>3, <2>1
    <2>9. chunk'.start = PositionAt(first_frame)'
      BY <2>4, <2>6
    <2>. QED BY <2>6, <2>7, <2>8, <2>9 DEF Placed, Sources
  <1>5. CASE FLAC_Read
    <2>1. HaveRead(StartFrame * FrameSize, BufferSize) /\ file.kind = "flac"
          /\ FramesAhead >= FramesToFill
      BY <1>5 DEF FLAC_Read, Loading
    <2>2. FramesToFill # 0 => StartFrame < file.frames
      BY <1>2, <2>1 DEF FramesAhead
    <2>3. StartFrameAt(first_frame)' = StartFrame /\ FrameSize' = FrameSize
          /\ BufferSize' = BufferSize /\ FramesToFill' = FramesToFill
      BY <1>1, <1>3, <2>1, SamePlaces
    <2>4. file'.kind = "flac" /\ file'.present \in Nat
      BY <1>1, <2>1 DEF Placed
    <2>5. /\ first_frame' \in Nat /\ next_first_frame' = first_frame' + FrameCount
          /\ first_frame' = 0 \/ FrameCount <= first_frame'
          /\ next_first_frame' # 0
          /\ chunk'.start = StartFrame * FrameSize /\ chunk'.end = chunk'.start + BufferSize
      BY <1>3, <2>1
    <2>6. /\ chunk'.start = StartFrameAt(first_frame)' * FrameSize'
          /\ chunk'.end = chunk'.start + BufferSize'
          /\ FramesToFill' # 0 => StartFrameAt(first_frame)' < file'.frames
      BY <1>1, <2>2, <2>3, <2>5
    <2>. QED BY <2>4, <2>5, <2>6 DEF Placed, Sources
  <1>6. ASSUME UNCHANGED <<first_frame, next_first_frame, chunk>>,
               next_first_frame = 0 => pc' = "idle"
        PROVE  Placed'
    <2>1. /\ FrameSize' = FrameSize /\ AudiodataSize' = AudiodataSize
          /\ BytesToRead' = BytesToRead /\ BufferSize' = BufferSize /\ FramesToFill' = FramesToFill
          /\ PositionAt(first_frame)' = PositionAt(first_frame)
          /\ StartFrameAt(first_frame)' = StartFrameAt(first_frame)
      BY <1>1, <1>6, SamePlaces
    <2>. QED BY <1>1, <1>6, <2>1 DEF Placed
  <1>7. CASE Convey
    <2>1. pc # "idle" /\ UNCHANGED <<first_frame, next_first_frame, chunk>>
      BY <1>7 DEF Convey, Conversion, ToFloat, ToStereo, IsStereo, IsStdRate, ToRate, LeftChannel,
                  RightChannel, SplitChannel, ResampleChannel, DropChannel, Merge, DropBoth, FreePrev
    <2>. QED BY <1>6, <2>1 DEF Placed
  <1>8. CASE WAV_EOF \/ WAV_UnequalRead \/ FLAC_EOF \/ Deliver \/ ConversionError
             \/ Retired \/ UNCHANGED vars
    <2>1. UNCHANGED <<first_frame, next_first_frame, chunk>> /\ (pc' = "idle" \/ pc' = pc)
      BY <1>8 DEF WAV_EOF, WAV_UnequalRead, FLAC_EOF, GiveUp, Deliver, ConversionError, Goto,
                  Retired, vars, conversionVars
    <2>2. next_first_frame = 0 => pc = "idle"
      BY DEF Placed
    <2>. QED BY <1>6, <2>1, <2>2
  <1>. QED BY <1>4, <1>5, <1>7, <1>8 DEF Next

-----------------------------------------------------------------------------
(* Where a track ends                                                      *)

\* The chunk read last starts where floats tell samples apart, and so does the next.
LEMMA LoadsAre ==
  ASSUME Format, Loaded, Placed, next_first_frame # 0, next_first_frame < Significands
  PROVE  LET y == first_frame * FileSamplerateOverStdaud
             z == FrameCount * FileSamplerateOverStdaud
         IN  /\ y \in Nat /\ z \in Nat /\ (y = 0 \/ z <= y)
             /\ next_first_frame * FileSamplerateOverStdaud = y + z
             /\ first_frame \in Nat /\ first_frame < Significands /\ FrameCount < Significands
  <1>. DEFINE q == FileSamplerateOverStdaud
              y == first_frame * q
              z == FrameCount * q
  <1>1. /\ first_frame \in Nat /\ next_first_frame = first_frame + FrameCount
        /\ FrameCount \in Nat \ {0} /\ Significands \in Nat /\ q \in Nat
        /\ first_frame = 0 \/ FrameCount <= first_frame
    BY RatioNat, ChunkStreamAssumption DEF Placed
  <1>. HIDE DEF q
  <1>2. y \in Nat /\ z \in Nat /\ next_first_frame * q = y + z
    BY <1>1
  <1>3. y = 0 \/ z <= y
    <2>1. CASE first_frame = 0
      BY <1>1, <2>1
    <2>2. CASE FrameCount <= first_frame
      BY <1>1, <2>2
    <2>. QED BY <1>1, <2>1, <2>2
  <1>4. first_frame < Significands /\ FrameCount < Significands
    BY <1>1
  <1>. QED BY <1>1, <1>2, <1>3, <1>4 DEF q, y, z

\* The end of the file, in units.
LEMMA EndIs ==
  ASSUME Format, Loaded, Exact(AudiodataSize)
  PROVE  LET b == file.frames * Scale
         IN  /\ b \in Nat /\ Multiple(b, Scale) /\ b < SampleUnit * Significands
             /\ AudiodataSize * ByteUnit = b /\ AudiodataSize = file.frames * FrameSize
  <1>. DEFINE b == file.frames * Scale
              f == file.frames
              ch == header.NumChannels
              ss == SampleSize
              w == SampleUnit
              u == ByteUnit
              e == Scale
              g == f * ch
  <1>1. /\ ch \in {1, 2} /\ ss \in {2, 4} /\ FrameSize = ch * ss /\ w \in Nat \ {0}
        /\ u \in Nat \ {0} /\ ch * w = e /\ FrameSize * u = e /\ f \in Nat
        /\ e \in Nat /\ Significands \in Nat
    BY UnitsAre, ScaleNat DEF Loaded
  <1>2. AudiodataSize = f * FrameSize
    BY DEF AudiodataSize
  <1>3. b \in Nat /\ Multiple(b, e)
    <2>1. b \in Nat
      BY <1>1, ProductNat
    <2>2. f \in Int
      BY <1>1
    <2>. QED BY <2>1, <2>2 DEF Multiple
  <1>4. AudiodataSize \div ss = g
    <2>1. AudiodataSize = g * ss /\ g \in Nat
      BY <1>1, <1>2
    <2>. HIDE DEF g
    <2>. QED BY <1>1, <2>1, Cancel
  <1>5. b < w * Significands
    <2>1. g < Significands /\ g \in Nat
      BY <1>1, <1>4 DEF Exact
    <2>2. b = g * w
      BY <1>1
    <2>. HIDE DEF g, b, w
    <2>3. g * w < Significands * w
      BY <1>1, <2>1
    <2>. QED BY <1>1, <2>1, <2>2, <2>3
  <1>6. AudiodataSize * u = b
    <2>1. AudiodataSize * u = f * (FrameSize * u)
      <3>. HIDE DEF u, f
      <3>. QED BY <1>1, <1>2
    <2>. QED BY <1>1, <2>1
  <1>. QED BY <1>2, <1>3, <1>5, <1>6

\* From units to bytes.
LEMMA FromUnits ==
  ASSUME NEW a \in Int, NEW b \in Int, NEW u \in Nat \ {0}, a * u <= b * u
  PROVE  a <= b
  <1>. SUFFICES ASSUME a >= b + 1 PROVE FALSE
    OBVIOUS
  <1>1. a * u >= (b + 1) * u /\ (b + 1) * u = b * u + u
    OBVIOUS
  <1>. QED BY <1>1

\* A mono chunk leaves no three quarters of a frame, as PlacesWell has it.
LEMMA LeavesLittle ==
  ASSUME Format, FrameCount < Significands, PlacesWell(header.SampleRate)
  PROVE  LET z == FrameCount * FileSamplerateOverStdaud
         IN  SampleUnit = Scale =>
               4 * z < 4 * ((Near(z) \div SampleUnit) * SampleUnit) + 3 * SampleUnit
  <1>. DEFINE q == FileSamplerateOverStdaud
              z == FrameCount * q
              c == Floor(SamplesToRead)
              w == SampleUnit
              whole == Floor(Times(Times(q, FromInt(FrameCount)), FromInt(1)))
  <1>. SUFFICES ASSUME w = Scale PROVE 4 * z < 4 * ((Near(z) \div w) * w) + 3 * w
    OBVIOUS
  <1>1. z \in Nat /\ Near(z) \in Nat /\ c = Near(z) \div w
    BY ChunkIs
  <1>2. header.NumChannels = 1 /\ w \in Nat \ {0} /\ Scale \in Nat
    <2>1. header.NumChannels \in {1, 2} /\ header.NumChannels * w = Scale /\ w \in Nat \ {0}
      BY UnitsAre
    <2>. HIDE DEF w
    <2>. QED BY <2>1
  <1>3. 4 * (q * FrameCount) < Real(4 * whole + 3)
    BY DEF PlacesWell, FileSamplerateOverStdaud
  <1>4. whole = c
    BY <1>2 DEF SamplesToRead
  <1>5. c \in Nat
    BY <1>1, <1>2, DivNat
  <1>6. q * FrameCount = z /\ q \in Nat /\ FrameCount \in Nat
    BY RatioNat, ChunkStreamAssumption
  <1>. HIDE DEF q, z, c, w, whole
  <1>7. 4 * z < (4 * c + 3) * Scale
    BY <1>3, <1>4, <1>6 DEF Real
  <1>8. (4 * c + 3) * Scale = 4 * (c * w) + 3 * w
    BY <1>2, <1>5
  <1>9. c * w = (Near(z) \div w) * w
    BY <1>1
  <1>10. c * w \in Nat
    BY <1>2, <1>5
  <1>. QED BY <1>1, <1>2, <1>7, <1>8, <1>9, <1>10

\* At the end of a WAV file at most one frame is unplayed.
LEMMA WavEndsWell ==
  ASSUME Format, Loaded, Placed, PlacesWell(header.SampleRate), WAV_EOF, Exact(AudiodataSize)
  PROVE  AudiodataSize - chunk.end <= FrameSize
  <1>. DEFINE A == AudiodataSize
              u == ByteUnit
              w == SampleUnit
              q == FileSamplerateOverStdaud
              y == first_frame * q
              z == FrameCount * q
              b == file.frames * Scale
  <1>1. /\ next_first_frame \in Nat /\ next_first_frame < Significands
        /\ A \in Nat /\ Position \in Nat /\ BytesToRead \in Nat /\ Significands \in Nat \ {0}
        /\ w \in Nat \ {0} /\ u \in Nat \ {0} /\ u \in Grains /\ w \in {Scale, Scale \div 2}
        /\ w % u = 0 /\ SampleSize * u = w /\ FrameSize * u = Scale /\ FrameSize \in Nat
        /\ SampleSize \in Nat /\ Scale \in Nat /\ chunk.end \in Nat
    BY SizesNat, UnitsAre, ScaleNat DEF Loaded, Exact
  <1>2. file.kind = "wav" /\ A <= Position
    BY <1>1 DEF WAV_EOF, Loading, WavStart, Clamp
  <1>3. Position = Near(next_first_frame * q) \div u
    <2>1. Position = PositionAt(next_first_frame)
      BY DEF Position, PositionAt
    <2>. QED BY <1>1, <2>1, PlacesAre
  <1>4. CASE next_first_frame = 0
    <2>1. next_first_frame * q = 0
      BY <1>4, RatioNat
    <2>2. Near(0) = 0 /\ 0 \div u = 0
      BY <1>1, NearIs
    <2>3. Position = 0
      BY <1>3, <2>1, <2>2
    <2>. QED BY <1>1, <1>2, <2>3
  <1>5. CASE next_first_frame # 0
    <2>. DEFINE start == chunk.start
                c == Floor(SamplesToRead)
                p == (Near(y) \div u) * u
                v == (Near(y + z) \div u) * u
                f == (Near(z) \div w) * w
    <2>1. /\ y \in Nat /\ z \in Nat /\ (y = 0 \/ z <= y)
          /\ next_first_frame * q = y + z
          /\ first_frame \in Nat /\ first_frame < Significands /\ FrameCount < Significands
      BY <1>1, <1>5, LoadsAre
    <2>2. b \in Nat /\ Multiple(b, Scale) /\ b < w * Significands /\ A * u = b
      BY EndIs
    <2>3. w = Scale => 4 * z < 4 * f + 3 * w
      BY <2>1, LeavesLittle
    <2>4. start = Near(y) \div u /\ start < A /\ start \in Nat
          /\ chunk.end = start + Clamp(BytesToRead, A - start)
      BY <1>2, <1>5, <2>1, PlacesAre DEF Placed, Loaded
    <2>5. c = Near(z) \div w /\ Near(z) \in Nat
      BY <2>1, ChunkIs
    <2>6. c \in Nat
      <3>. DEFINE n == Near(z)
      <3>1. c = n \div w /\ n \in Nat
        BY <2>5
      <3>. HIDE DEF n, w, c
      <3>. QED BY <1>1, <3>1, DivNat
    <2>7. p = start * u /\ f = c * w /\ v = Position * u
      <3>1. v = Position * u
        BY <1>3, <2>1
      <3>. QED BY <2>4, <2>5, <3>1
    <2>. HIDE DEF A, u, w, q, y, z, b, start, c, p, v, f
    <2>8. p < b
      BY <1>1, <2>2, <2>4, <2>7
    <2>9. b <= v
      BY <1>1, <1>2, <2>2, <2>7
    <2>10. b <= p + f + Scale
      BY <1>1, <2>1, <2>2, <2>3, <2>8, <2>9, WavEnd DEF p, v, f
    <2>11. BytesToRead = c * SampleSize
      BY DEF BytesToRead, c
    <2>12. f = BytesToRead * u
      BY <1>1, <2>6, <2>7, <2>11
    <2>13. A <= start + BytesToRead + FrameSize
      <3>. DEFINE m == start + BytesToRead + FrameSize
      <3>1. m \in Nat /\ m * u = start * u + BytesToRead * u + FrameSize * u
        BY <1>1, <2>4
      <3>. HIDE DEF m
      <3>2. A * u <= m * u
        BY <1>1, <2>2, <2>7, <2>10, <2>12, <3>1
      <3>3. A <= m
        BY <1>1, <3>1, <3>2, FromUnits
      <3>. QED BY <3>3 DEF m
    <2>14. A - chunk.end <= FrameSize
      BY <1>1, <2>4, <2>13 DEF Clamp
    <2>. QED BY <2>14 DEF A
  <1>. QED BY <1>4, <1>5

\* At the end of a FLAC file at most one chunk is unplayed.
LEMMA FlacEndsWell ==
  ASSUME Format, Loaded, Placed, FLAC_EOF, Exact(AudiodataSize)
  PROVE  AudiodataSize - chunk.end <= BufferSize
  <1>. DEFINE A == AudiodataSize
              u == ByteUnit
              w == SampleUnit
              e == Scale
              q == FileSamplerateOverStdaud
              y == first_frame * q
              z == FrameCount * q
              b == file.frames * e
              c == Ceil(SamplesToRead)
              t == FramesToFill
              d == (t - 1) * e
              ch == header.NumChannels
  <1>1. /\ next_first_frame \in Nat /\ next_first_frame < Significands
        /\ A \in Nat /\ StartFrame \in Nat /\ BufferSize \in Nat /\ Significands \in Nat \ {0}
        /\ w \in Nat \ {0} /\ u \in Nat \ {0} /\ w \in {e, e \div 2}
        /\ SampleSize * u = w /\ FrameSize * u = e /\ FrameSize \in Nat \ {0}
        /\ SampleSize \in Nat /\ e \in Nat \ {0} /\ chunk.end \in Nat /\ file.frames \in Nat
        /\ ch \in {1, 2} /\ ch * w = e
    BY SizesNat, UnitsAre, ScaleNat DEF Loaded, Exact
  <1>2. file.kind = "flac" /\ FramesAhead < t
    BY DEF FLAC_EOF, Loading
  <1>3. c \in Nat /\ t = Ceiling(c, ch) /\ t \in Nat /\ BufferSize = c * SampleSize
    BY FillIs DEF BufferSize
  <1>4. StartFrame = Near(next_first_frame * q) \div e
    <2>1. StartFrame = StartFrameAt(next_first_frame)
      BY DEF StartFrame, StartFrameAt
    <2>. QED BY <1>1, <2>1, PlacesAre
  <1>5. b \in Nat /\ Multiple(b, e) /\ b < w * Significands /\ A * u = b
    BY EndIs
  <1>6. FramesAhead \in Nat /\ FramesAhead >= file.frames - StartFrame
    BY <1>1 DEF FramesAhead
  <1>7. t >= 1 /\ file.frames <= StartFrame + (t - 1)
    <2>. HIDE DEF t
    <2>. QED BY <1>1, <1>2, <1>3, <1>6
  <1>8. BufferSize * u = c * w
    <2>. HIDE DEF c, u, w
    <2>. QED BY <1>1, <1>3
  <1>9. d \in Nat /\ d + w <= c * w
    <2>. HIDE DEF e, w, c, t, ch
    <2>0. d \in Nat
      BY <1>1, <1>3, <1>7
    <2>1. CASE ch = 1
      <3>1. t = c /\ w = e
        BY <1>1, <1>3, <2>1 DEF Ceiling
      <3>2. d + w = c * w
        BY <1>1, <1>3, <3>1
      <3>. QED BY <1>1, <1>3, <2>0, <3>2
    <2>2. CASE ch = 2
      <3>1. 2 * (t - 1) + 1 <= c /\ e = 2 * w
        BY <1>1, <1>3, <2>2 DEF Ceiling
      <3>2. d + w = (2 * (t - 1) + 1) * w
        BY <1>1, <1>3, <3>1
      <3>. DEFINE g == 2 * (t - 1) + 1
      <3>3. g \in Int /\ g <= c
        BY <1>3, <3>1
      <3>. HIDE DEF g
      <3>4. g * w <= c * w
        BY <1>1, <1>3, <3>3
      <3>. QED BY <2>0, <3>2, <3>4 DEF g
    <2>. QED BY <1>1, <2>1, <2>2
  <1>10. CASE next_first_frame = 0
    <2>1. next_first_frame * q = 0
      BY <1>10, RatioNat
    <2>2. Near(0) = 0 /\ 0 \div e = 0
      BY <1>1, NearIs
    <2>3. StartFrame = 0
      BY <1>4, <2>1, <2>2
    <2>4. b <= d
      <3>. HIDE DEF e, t
      <3>1. file.frames <= t - 1
        BY <1>1, <1>3, <1>7, <2>3
      <3>. QED BY <1>1, <1>3, <3>1
    <2>. HIDE DEF A, u, w, e, q, b, c, t, d, ch
    <2>5. A * u <= BufferSize * u
      <3>1. c * w \in Nat
        BY <1>1, <1>3
      <3>. QED BY <1>1, <1>5, <1>8, <1>9, <2>4, <3>1
    <2>6. A <= BufferSize
      BY <1>1, <2>5, FromUnits
    <2>. QED BY <1>1, <2>6 DEF A
  <1>11. CASE next_first_frame # 0
    <2>. DEFINE s == StartFrameAt(first_frame)
                p == (Near(y) \div e) * e
                v == (Near(y + z) \div e) * e
                f == Ceiling(Near(z), w) * w
    <2>1. /\ y \in Nat /\ z \in Nat /\ (y = 0 \/ z <= y)
          /\ next_first_frame * q = y + z
          /\ first_frame \in Nat /\ first_frame < Significands /\ FrameCount < Significands
      BY <1>1, <1>11, LoadsAre
    <2>2. s = Near(y) \div e /\ Near(y) \in Nat
      BY <2>1, PlacesAre
    <2>3. s \in Nat
      <3>. DEFINE k == Near(y)
      <3>1. k \in Nat /\ e \in Nat \ {0}
        BY <1>1, <2>2
      <3>. HIDE DEF k, e
      <3>2. k \div e \in Nat
        BY <3>1, DivNat
      <3>. QED BY <2>2, <3>2 DEF k
    <2>4. /\ chunk.start = s * FrameSize /\ chunk.end = s * FrameSize + BufferSize
          /\ s < file.frames
      <3>1. t # 0
        BY <1>3, <1>7
      <3>. QED BY <1>2, <1>11, <3>1 DEF Placed
    <2>5. c = Ceiling(Near(z), w)
      BY <2>1, ChunkIs
    <2>6. p = s * e /\ f = c * w /\ v = StartFrame * e
      <3>1. v = StartFrame * e
        BY <1>4, <2>1
      <3>. QED BY <2>2, <2>5, <3>1
    <2>. HIDE DEF A, u, w, q, y, z, b, c, t, d, ch, s, p, v, f
    <2>7. p < b
      BY <1>1, <2>3, <2>4, <2>6 DEF b
    <2>8. b <= v + d
      <3>. HIDE DEF e
      <3>1. file.frames * e <= (StartFrame + (t - 1)) * e
        BY <1>1, <1>3, <1>7
      <3>2. (StartFrame + (t - 1)) * e = StartFrame * e + (t - 1) * e
        BY <1>1, <1>3
      <3>. QED BY <1>1, <1>3, <2>6, <3>1, <3>2 DEF b, d
    <2>9. b <= p + 2 * f
      <3>1. d \in Nat /\ d + w <= f
        BY <1>9, <2>6
      <3>. QED BY <1>1, <1>5, <2>1, <2>7, <2>8, <3>1, FlacEnd DEF p, v, f
    <2>. HIDE DEF e
    <2>10. A <= s * FrameSize + 2 * BufferSize
      <3>. DEFINE m == s * FrameSize + 2 * BufferSize
      <3>1. m \in Nat /\ m * u = s * (FrameSize * u) + 2 * (BufferSize * u)
        BY <1>1, <2>3
      <3>. HIDE DEF m
      <3>2. A * u <= m * u
        BY <1>1, <1>5, <1>8, <2>6, <2>9, <3>1
      <3>3. A <= m
        BY <1>1, <3>1, <3>2, FromUnits
      <3>. QED BY <3>3 DEF m
    <2>11. s * FrameSize \in Nat
      BY <1>1, <2>3
    <2>12. A - chunk.end <= BufferSize
      BY <1>1, <2>4, <2>10, <2>11
    <2>. QED BY <2>12 DEF A
  <1>. QED BY <1>10, <1>11

\* A read comes up short of a truncated file only.
LEMMA UnequalEndsWell ==
  ASSUME Format, Loaded, Placed, WAV_UnequalRead
  PROVE  file.present < file.frames
  <1>1. /\ AudiodataSize = file.frames * FrameSize /\ AudiodataSize \in Nat
        /\ Position \in Nat /\ BytesToRead \in Nat /\ FrameSize \in Nat \ {0}
        /\ file.frames \in Nat /\ file.present \in Nat
    BY SizesNat DEF Loaded, Placed, AudiodataSize
  <1>2. WavStart + WavBytes > file.present * FrameSize
    BY DEF WAV_UnequalRead, Truncated
  <1>3. WavStart + WavBytes <= AudiodataSize
    BY <1>1 DEF WavStart, WavBytes, Clamp
  <1>4. WavStart + WavBytes \in Int /\ file.present * FrameSize \in Nat
    BY <1>1, WavChunk
  <1>. SUFFICES ASSUME file.frames <= file.present PROVE FALSE
    BY <1>1
  <1>5. file.frames * FrameSize <= file.present * FrameSize
    BY <1>1
  <1>. QED BY <1>1, <1>2, <1>3, <1>4, <1>5

\* The end of a WAV file that may be too short for the conversion, as EndsWell has it.
TooShort ==
    /\ file.kind = "wav"
    /\ chunk.end = AudiodataSize
    /\ LET bytes == chunk.end - chunk.start
       IN  \/ (bytes \div FrameSize) * StdRate < header.SampleRate
           \/ bytes % 2 = 1 /\ header.NumChannels = 2 /\ header.BitsPerSample = 32

\* A quotient does not fall when what is divided grows.
LEMMA DivGrows ==
  ASSUME NEW a \in Nat, NEW b \in Nat, NEW d \in Nat \ {0}, a <= b
  PROVE  a \div d <= b \div d
  <1>. DEFINE p == a \div d
              q == b \div d
              r == a % d
              s == b % d
  <1>1. /\ p \in Nat /\ r \in 0 .. d - 1 /\ d * p + r = a
        /\ q \in Nat /\ s \in 0 .. d - 1 /\ d * q + s = b
    BY DivNat
  <1>. HIDE DEF p, q, r, s
  <1>2. ~(p >= q + 1)
    <2>. SUFFICES ASSUME p >= q + 1 PROVE FALSE
      OBVIOUS
    <2>1. d * p >= d * (q + 1) /\ d * (q + 1) = d * q + d
      BY <1>1
    <2>2. d * p \in Nat /\ d * q \in Nat
      BY <1>1
    <2>. QED BY <1>1, <2>1, <2>2
  <1>3. p <= q
    BY <1>1, <1>2
  <1>. QED BY <1>3 DEF p, q

\* A chunk of c samples has c frames less a frame at most.
LEMMA FramesOf ==
  ASSUME NEW c \in Nat, NEW ss \in {2, 4}, NEW ch \in {1, 2}
  PROVE  (c * ss) \div (ch * ss) = c \div ch
  <1>1. CASE ch = 1 /\ ss = 2
    BY <1>1
  <1>2. CASE ch = 1 /\ ss = 4
    BY <1>2
  <1>3. CASE ch = 2 /\ ss = 2
    BY <1>3
  <1>4. CASE ch = 2 /\ ss = 4
    BY <1>4
  <1>. QED BY <1>1, <1>2, <1>3, <1>4

\* The bytes of the chunk read last.
ChunkBytes == chunk.end - chunk.start

\* A chunk that is not the end of a file makes a frame at the standard rate, and so
\* does one that is not too short.
LEMMA ChunkMakesFrame ==
  ASSUME Format, Loaded, Placed, pc # "idle", PlacesWell(header.SampleRate), ~TooShort
  PROVE  /\ ChunkBytes \in Nat
         /\ (ChunkBytes \div FrameSize) * StdRate >= header.SampleRate
         /\ header.NumChannels = 2 /\ header.BitsPerSample = 32 => ChunkBytes % 2 = 0
  <1>. DEFINE n == ChunkBytes
              rate == header.SampleRate
              ch == header.NumChannels
              ss == SampleSize
              fs == FrameSize
              a == Floor(SamplesToRead)
              c == Ceil(SamplesToRead)
  <1>1. /\ n \in Nat /\ chunk.start \in Nat /\ chunk.end = chunk.start + n
        /\ StdRate \in Nat /\ rate \in Nat
        /\ ch \in {1, 2} /\ ss \in {2, 4} /\ fs = ch * ss /\ fs \in Nat \ {0}
        /\ AudiodataSize \in Nat /\ BytesToRead \in Nat /\ next_first_frame # 0
        /\ file.kind \in {"wav", "flac"}
    BY SizesNat, UnitsAre, StdAudFmtAssumption DEF Loaded, Placed, ChunkBytes, Format, Sources
  <1>2. a \in Nat /\ c \in Nat /\ a <= c
    <2>. DEFINE S == SamplesToRead
                e == Scale
    <2>1. S \in Nat /\ e \in Nat \ {0} /\ a = S \div e /\ c = (S + e - 1) \div e /\ c \in Nat
      BY SizesNat, ScaleNat DEF Loaded, Floor, Ceil, Ceiling
    <2>. DEFINE m == S + e - 1
    <2>. HIDE DEF S, e, a, c
    <2>2. m \in Nat /\ S <= m /\ c = m \div e
      BY <2>1
    <2>. HIDE DEF m
    <2>. QED BY <2>1, <2>2, DivNat, DivGrows
  <1>3. (a \div ch) * StdRate >= rate
    BY <1>1 DEF PlacesWell, SamplesToRead, FileSamplerateOverStdaud, Channels
  <1>. HIDE DEF n, rate, ch, ss, fs, a, c
  <1>4. ASSUME NEW k \in Nat, n = k * ss, a <= k
        PROVE  (n \div fs) * StdRate >= rate /\ n % 2 = 0
    <2>1. n \div fs = k \div ch
      BY <1>1, <1>4, FramesOf
    <2>2. a \div ch <= k \div ch /\ a \div ch \in Nat /\ k \div ch \in Nat
      <3>1. ch \in Nat \ {0}
        BY <1>1
      <3>2. a \div ch \in Nat /\ k \div ch \in Nat
        BY <1>2, <3>1, DivNat
      <3>. QED BY <1>2, <1>4, <3>1, <3>2, DivGrows
    <2>3. (a \div ch) * StdRate <= (k \div ch) * StdRate
      <3>. DEFINE p == a \div ch
                  q == k \div ch
      <3>1. p \in Nat /\ q \in Nat /\ p <= q
        BY <2>2
      <3>. HIDE DEF p, q
      <3>2. p * StdRate <= q * StdRate
        BY <1>1, <3>1
      <3>. QED BY <3>2 DEF p, q
    <2>4. (k \div ch) * StdRate \in Nat /\ (a \div ch) * StdRate \in Nat
      BY <1>1, <2>2, ProductNat
    <2>5. (n \div fs) * StdRate >= rate
      BY <1>1, <1>3, <2>1, <2>3, <2>4
    <2>6. n % 2 = 0
      BY <1>1, <1>4
    <2>. QED BY <2>5, <2>6
  <1>5. CASE file.kind = "flac"
    <2>1. chunk.end = chunk.start + BufferSize
      BY <1>1, <1>5 DEF Placed
    <2>2. BufferSize = c * ss
      BY DEF BufferSize, c, ss
    <2>3. BufferSize \in Nat
      BY <1>1, <1>2, <2>2
    <2>4. n = c * ss
      BY <1>1, <2>1, <2>2, <2>3
    <2>. QED BY <1>1, <1>2, <1>4, <2>4 DEF n, rate, fs
  <1>6. CASE file.kind = "wav"
    <2>1. /\ chunk.end = chunk.start + Clamp(BytesToRead, AudiodataSize - chunk.start)
          /\ chunk.start < AudiodataSize
      BY <1>1, <1>6 DEF Placed
    <2>2. n = BytesToRead \/ chunk.end = AudiodataSize
      BY <1>1, <2>1 DEF Clamp
    <2>3. CASE n = BytesToRead
      <3>1. n = a * ss
        BY <2>3 DEF BytesToRead, a, ss
      <3>. QED BY <1>1, <1>2, <1>4, <3>1 DEF n, rate, fs
    <2>4. CASE chunk.end = AudiodataSize
      <3>1. /\ ~((n \div fs) * StdRate < rate)
            /\ ~(n % 2 = 1 /\ header.NumChannels = 2 /\ header.BitsPerSample = 32)
        BY <1>6, <2>4 DEF TooShort, ChunkBytes, n, fs, rate
      <3>2. (n \div fs) * StdRate \in Nat
        BY <1>1, DivNat, ProductNat
      <3>3. n % 2 \in {0, 1}
        BY <1>1
      <3>. QED BY <1>1, <3>1, <3>2, <3>3 DEF n, rate, fs
    <2>. QED BY <2>2, <2>3, <2>4
  <1>. QED BY <1>1, <1>5, <1>6

-----------------------------------------------------------------------------
(* What is worth converting is converted                                   *)

\* Where there is a sample there are bytes.
LEMMA BytesSome ==
  ASSUME NEW d, Len(d.data) \in Nat \ {0}, d.tail \in Nat
  PROVE  Bytes(d) # 0
  BY DEF Bytes, FloatSize

\* What is worth converting: no step of the conversion makes nothing of it.
Worth ==
    /\ Bytes(Floats) # 0 /\ Bytes(Stereo) # 0
    /\ header.SampleRate # StdRate =>
         /\ \A k \in 0 .. 1 : Bytes(Side(k)) # 0 /\ Bytes(Resampled(k)) # 0
         /\ Bytes(MergeToStereo(Resampled(0), Resampled(1))) # 0

LEMMA ChunkWorth ==
  ASSUME Format, Loaded, Placed, pc # "idle", PlacesWell(header.SampleRate), ~TooShort
  PROVE  Worth
  <1>. DEFINE n == ChunkBytes
              rate == header.SampleRate
              ch == header.NumChannels
              ss == SampleSize
              len == Len(heap[ORIG].data)
              tail == heap[ORIG].tail
  <1>1. /\ InputTyped /\ n \in Nat /\ (n \div FrameSize) * StdRate >= rate
        /\ (ch = 2 /\ header.BitsPerSample = 32 => n % 2 = 0)
        /\ rate \in Nat \ {0} /\ StdRate \in Nat \ {0}
        /\ ch \in {1, 2} /\ ss \in {2, 4} /\ FrameSize = ch * ss
        /\ header.BitsPerSample \in {16, 32} /\ ss = header.BitsPerSample \div 8
    BY LoadedInput, ChunkMakesFrame, UnitsAre, StdAudFmtAssumption DEF Format, SampleSize
  <1>2. len = n \div ss /\ tail = n % ss /\ len \in Nat
    <2>1. heap[ORIG] = Input(chunk.start, n)
      BY DEF Loaded, ChunkBytes
    <2>. DEFINE m == n \div ss
                d == [i \in 1 .. m |-> chunk.start + ss * (i - 1)]
    <2>2. heap[ORIG] = Datapoints(d, n % ss)
      BY <2>1 DEF Input
    <2>. HIDE DEF n, ss
    <2>3. m \in Nat
      <3>1. ss \in Nat \ {0}
        BY <1>1
      <3>. QED BY <1>1, <3>1, DivNat
    <2>. HIDE DEF m
    <2>4. Len(d) = m
      BY <2>3
    <2>. HIDE DEF d
    <2>. QED BY <2>2, <2>3, <2>4 DEF Datapoints, m
  <1>. HIDE DEF n, rate, ch, ss, len, tail
  <1>3. Frames = n \div FrameSize /\ Frames \in Nat
    <2>1. Frames = (n \div ss) \div ch
      BY <1>2 DEF Frames, len, ch
    <2>2. CASE ch = 1
      BY <1>1, <2>1, <2>2
    <2>3. CASE ch = 2 /\ ss = 2
      BY <1>1, <2>1, <2>3
    <2>4. CASE ch = 2 /\ ss = 4
      BY <1>1, <2>1, <2>4
    <2>. QED BY <1>1, <2>2, <2>3, <2>4
  <1>4. Frames * StdRate >= rate /\ Frames # 0
    <2>1. Frames * StdRate >= rate
      BY <1>1, <1>3
    <2>2. Frames = 0 => Frames * StdRate = 0
      BY <1>1
    <2>. QED BY <1>1, <2>1, <2>2
  <1>5. len # 0
    <2>1. CASE len = 0
      <3>1. Frames = 0 \div ch
        BY <2>1 DEF Frames, len, ch
      <3>. QED BY <1>1, <1>4, <3>1
    <2>. QED BY <2>1
  <1>6. Bytes(Floats) # 0
    <2>1. Len(Floats.data) = len /\ Floats.tail \in 0 .. 3
      BY <1>1, FloatsAre DEF len
    <2>. QED BY <1>2, <1>5, <2>1, BytesSome
  <1>7. Bytes(Stereo) # 0
    <2>1. Len(Stereo.data) \in {2 * Frames, 2 * Frames + 1} /\ Stereo.tail \in 0 .. 3
      BY <1>1, StereoIs
    <2>2. Len(Stereo.data) \in Nat \ {0} /\ Stereo.tail \in Nat
      BY <1>3, <1>4, <2>1
    <2>. QED BY <2>2, BytesSome
  <1>8. Bytes(Floats) \in Nat /\ (ch = 2 => Bytes(Floats) % 2 = 0)
    <2>1. Len(Floats.data) = len /\ Floats.tail = IF header.BitsPerSample = 32 THEN tail ELSE 0
      <3>1. Len(Floats.data) = len
        BY <1>1, FloatsAre DEF len
      <3>2. Floats.tail = IF header.BitsPerSample = 32 THEN tail ELSE 0
        BY DEF Floats, ToF32, Datapoints, tail
      <3>. QED BY <3>1, <3>2
    <2>2. Bytes(Floats) = 4 * len + Floats.tail
      BY <2>1 DEF Bytes, FloatSize
    <2>3. CASE header.BitsPerSample = 16
      BY <1>2, <2>1, <2>2, <2>3
    <2>4. CASE header.BitsPerSample = 32
      <3>1. ss = 4
        BY <1>1, <2>4
      <3>2. 4 * len + tail = n
        BY <1>1, <1>2, <3>1
      <3>. QED BY <1>1, <2>1, <2>2, <2>4, <3>2
    <2>. QED BY <1>1, <2>3, <2>4
  <1>9. ~SplitRefused(Stereo, StdChannels)
    <2>1. CASE ch = 2
      <3>1. Stereo = Floats
        BY <2>1 DEF Stereo, ch
      <3>. QED BY <1>8, <2>1, <3>1 DEF SplitRefused, StdChannels
    <2>2. CASE ch = 1
      <3>. DEFINE bytes == Bytes(Floats) * StdChannels
                  m == bytes \div FloatSize
                  e == [i \in 1 .. m |-> IF i <= Len(Floats.data) * StdChannels
                          THEN Floats.data[(i - 1) \div StdChannels + 1] ELSE Silence]
      <3>1. Stereo = Datapoints(e, bytes % FloatSize)
        BY <2>2 DEF Stereo, MonoToXChannels, ch
      <3>2. bytes \in Nat /\ bytes % 2 = 0
        BY <1>8 DEF StdChannels
      <3>. HIDE DEF bytes
      <3>3. m \in Nat /\ 4 * m + (bytes % 4) = bytes
        BY <3>2 DEF FloatSize
      <3>. HIDE DEF m
      <3>4. Len(e) = m
        BY <3>3
      <3>. HIDE DEF e
      <3>5. Bytes(Stereo) = bytes
        BY <3>1, <3>3, <3>4 DEF Bytes, Datapoints, FloatSize
      <3>. QED BY <3>2, <3>5 DEF SplitRefused, StdChannels
    <2>. QED BY <1>1, <2>1, <2>2
  <1>10. ASSUME header.SampleRate # StdRate
         PROVE  /\ \A k \in 0 .. 1 : Bytes(Side(k)) # 0 /\ Bytes(Resampled(k)) # 0
                /\ Bytes(MergeToStereo(Resampled(0), Resampled(1))) # 0
    <2>1. OutFrames \in Nat \ {0}
      <3>. DEFINE m == Frames * StdRate
      <3>1. OutFrames = m \div rate /\ m \in Nat /\ m >= rate
        BY <1>1, <1>3, <1>4, <1>10, ProductNat DEF OutFrames, rate
      <3>. HIDE DEF m
      <3>2. OutFrames \in Nat /\ rate \div rate <= OutFrames
        BY <1>1, <3>1, DivNat, DivGrows
      <3>3. rate \div rate = 1
        BY <1>1
      <3>. QED BY <3>2, <3>3
    <2>2. ASSUME NEW k \in 0 .. 1
          PROVE  /\ Bytes(Side(k)) # 0 /\ Bytes(Resampled(k)) # 0
                 /\ Resampled(k).tail = 0 /\ Len(Resampled(k).data) = OutFrames
      <3>1. Side(k).tail = 0 /\ Len(Side(k).data) = Frames
        BY <1>1, <1>9, SideIs
      <3>2. Resampled(k).tail = 0 /\ Len(Resampled(k).data) = OutFrames
        BY <1>1, <1>9, <1>10, ResampledIs
      <3>. QED BY <1>3, <1>4, <2>1, <3>1, <3>2, BytesSome
    <2>3. Bytes(MergeToStereo(Resampled(0), Resampled(1))) # 0
      <3>. DEFINE l == Resampled(0)
                  r == Resampled(1)
                  e == [i \in 1 .. 2 * Len(r.data) |->
                          IF i % 2 = 1 THEN l.data[(i + 1) \div 2] ELSE r.data[i \div 2]]
      <3>1. 0 \in 0 .. 1 /\ 1 \in 0 .. 1
        OBVIOUS
      <3>2. l.tail = 0 /\ r.tail = 0 /\ Len(l.data) = OutFrames /\ Len(r.data) = OutFrames
        BY <2>2, <3>1
      <3>. HIDE DEF l, r
      <3>3. MergeToStereo(l, r) = Datapoints(e, 0)
        BY <3>2 DEF MergeToStereo, Bytes
      <3>4. Len(e) = 2 * OutFrames
        BY <2>1, <3>2
      <3>. HIDE DEF e
      <3>5. Len(MergeToStereo(l, r).data) \in Nat \ {0} /\ MergeToStereo(l, r).tail \in Nat
        BY <2>1, <3>3, <3>4 DEF Datapoints
      <3>6. Bytes(MergeToStereo(l, r)) # 0
        BY <3>5, BytesSome
      <3>. QED BY <3>6 DEF l, r
    <2>. QED BY <2>2, <2>3
  <1>. QED BY <1>6, <1>7, <1>10 DEF Worth

\* With memory to be had, a conversion that is worth its while does not fail: all
\* that the variables should hold at a step is there.
Full ==
    (plenty /\ ~TooShort) =>
      /\ pc \notin {"freeFailed", "failed"}
      /\ \A v \in Known(pc) : var[v] # NULL

LEMMA NewSome ==
  ASSUME NEW v \in Local, NEW d, NEW mid \in [Local -> Pointer], New(v, d, mid),
         plenty, Bytes(d) # 0
  PROVE  var'[v] # NULL /\ \A u \in Local : u # v => var'[u] = mid[u]
  <1>1. NULL \notin Block
    BY StdAudFmtAssumption
  <1>2. PICK b \in Block : var' = [mid EXCEPT ![v] = b]
    BY DEF New
  <1>. QED BY <1>1, <1>2

\* The two channels and their merging.
LEMMA FullResampling ==
  ASSUME Ownership, Contents, Worth, plenty, \A v \in Known(pc) : var[v] # NULL,
         LeftChannel \/ RightChannel \/ Merge \/ DropBoth
  PROVE  pc' \notin {"freeFailed", "failed"} /\ \A v \in Known(pc') : var'[v] # NULL
  <1>0. var \in [Local -> Pointer]
    BY DEF Ownership, Aliasing
  <1>1. ASSUME NEW v \in Local, NEW d, New(v, d, var), Bytes(d) # 0, pc \in Resampling,
               pc' \in Resampling, Holders(pc') = Holders(pc) \cup {v}, Holders(pc) \subseteq Local
        PROVE  pc' \notin {"freeFailed", "failed"} /\ \A u \in Known(pc') : var'[u] # NULL
    <2>1. var'[v] # NULL /\ \A u \in Local : u # v => var'[u] = var[u]
      BY <1>0, <1>1, NewSome
    <2>2. Known(pc') = Holders(pc) \cup {v} /\ Known(pc) = Holders(pc)
      BY <1>1 DEF Known
    <2>3. pc' \notin {"freeFailed", "failed"}
      BY <1>1 DEF Resampling
    <2>. QED BY <1>1, <2>1, <2>2, <2>3
  <1>2. ASSUME NEW label, NEW orig \in {"orig_l", "orig_r"}, NEW k \in 0 .. 1, NEW next,
               SplitChannel(label, orig, k, next), label \in Resampling, next \in Resampling,
               "prev" \in Holders(label), Holders(next) = Holders(label) \cup {orig}
        PROVE  pc' \notin {"freeFailed", "failed"} /\ \A u \in Known(pc') : var'[u] # NULL
    <2>. DEFINE d == Split(Content("prev"), StdChannels, k)
    <2>1. pc = label /\ pc' = next /\ New(orig, d, var) /\ header.SampleRate # StdRate
      BY <1>2 DEF SplitChannel, Goto, Contents
    <2>2. Content("prev") = Stereo
      BY <1>2, <2>1 DEF Content, Contents, Known, Value
    <2>3. d = Side(k)
      BY <2>2 DEF Side
    <2>4. Bytes(d) # 0
      BY <2>1, <2>3 DEF Worth
    <2>5. Holders(pc) \subseteq Local /\ orig \in Local
      BY <1>2, <2>1 DEF Holders, Local, Resampling
    <2>. HIDE DEF d
    <2>. QED BY <1>1, <1>2, <2>1, <2>4, <2>5
  <1>3. ASSUME NEW label, NEW orig \in {"orig_l", "orig_r"}, NEW dest \in {"dest_l", "dest_r"},
               NEW k \in 0 .. 1, NEW next,
               ResampleChannel(label, orig, dest, next), label \in Resampling, next \in Resampling,
               orig \in Holders(label), Holders(next) = Holders(label) \cup {dest},
               Value(label, orig) = Side(k)
        PROVE  pc' \notin {"freeFailed", "failed"} /\ \A u \in Known(pc') : var'[u] # NULL
    <2>. DEFINE d == ToSamplerateMono(Content(orig), header.SampleRate, StdRate)
    <2>1. pc = label /\ pc' = next /\ New(dest, d, var) /\ header.SampleRate # StdRate
      BY <1>3 DEF ResampleChannel, Goto, Contents
    <2>2. Content(orig) = Side(k)
      BY <1>3, <2>1 DEF Content, Contents, Known
    <2>3. d = Resampled(k)
      BY <2>2 DEF Resampled
    <2>4. Bytes(d) # 0
      BY <2>1, <2>3 DEF Worth
    <2>5. Holders(pc) \subseteq Local /\ dest \in Local
      BY <1>3, <2>1 DEF Holders, Local, Resampling
    <2>. HIDE DEF d
    <2>. QED BY <1>1, <1>3, <2>1, <2>4, <2>5
  <1>4. ASSUME NEW label, NEW orig, NEW dest, NEW others, NEW next,
               DropChannel(label, orig, dest, others, next), label \in Resampling, next \in Resampling,
               {orig, dest} \subseteq Holders(label), Holders(next) = Holders(label) \ {orig}
        PROVE  pc' \notin {"freeFailed", "failed"} /\ \A u \in Known(pc') : var'[u] # NULL
    <2>1. pc = label /\ pc' = next
      BY <1>4 DEF DropChannel, Goto
    <2>2. Known(pc) = Holders(label) /\ Known(pc') = Holders(label) \ {orig}
      BY <1>4, <2>1 DEF Known
    <2>3. var[orig] # NULL /\ var[dest] # NULL
      BY <1>4, <2>2
    <2>4. var' = Nulled({orig})
      BY <1>4, <2>3 DEF DropChannel, Free
    <2>5. Holders(label) \subseteq Local
      BY <1>4 DEF Holders, Local, Resampling
    <2>6. \A u \in Known(pc') : var'[u] = var[u] /\ u \in Known(pc)
      BY <2>2, <2>4, <2>5 DEF Nulled
    <2>7. pc' \notin {"freeFailed", "failed"}
      BY <1>4, <2>1 DEF Resampling
    <2>. QED BY <2>6, <2>7
  <1>5. CASE LeftChannel
    <2>. USE DEF Resampling, Holders, Value
    <2>1. CASE SplitChannel("splitLeft", "orig_l", 0, "resampleLeft")
      BY <1>2, <2>1
    <2>2. CASE ResampleChannel("resampleLeft", "orig_l", "dest_l", "dropLeft")
      BY <1>3, <2>2
    <2>3. CASE DropChannel("dropLeft", "orig_l", "dest_l", {}, "splitRight")
      BY <1>4, <2>3
    <2>. QED BY <1>5, <2>1, <2>2, <2>3 DEF LeftChannel
  <1>6. CASE RightChannel
    <2>. USE DEF Resampling, Holders, Value
    <2>1. CASE SplitChannel("splitRight", "orig_r", 1, "resampleRight")
      BY <1>2, <2>1
    <2>2. CASE ResampleChannel("resampleRight", "orig_r", "dest_r", "dropRight")
      BY <1>3, <2>2
    <2>3. CASE DropChannel("dropRight", "orig_r", "dest_r", {"dest_l"}, "merge")
      BY <1>4, <2>3
    <2>. QED BY <1>6, <2>1, <2>2, <2>3 DEF RightChannel
  <1>7. CASE Merge
    <2>. DEFINE d == MergeToStereo(Content("dest_l"), Content("dest_r"))
    <2>1. /\ pc = "merge" /\ pc' = "dropBoth" /\ New("current", d, var)
          /\ header.SampleRate # StdRate
      BY <1>7 DEF Merge, Goto, Contents, Resampling
    <2>2. Content("dest_l") = Resampled(0) /\ Content("dest_r") = Resampled(1)
      BY <2>1 DEF Content, Contents, Known, Value, Resampling, Holders
    <2>3. Bytes(d) # 0
      BY <2>1, <2>2 DEF Worth
    <2>4. pc \in Resampling /\ pc' \in Resampling /\ "current" \in Local
          /\ Holders(pc') = Holders(pc) \cup {"current"} /\ Holders(pc) \subseteq Local
      BY <2>1 DEF Resampling, Holders, Local
    <2>. HIDE DEF d
    <2>. QED BY <1>1, <2>1, <2>3, <2>4
  <1>8. CASE DropBoth
    <2>1. /\ pc = "dropBoth" /\ var' = Nulled({"dest_l", "dest_r"})
          /\ pc' = IF var["current"] = NULL THEN "freeFailed" ELSE "freePrev"
      BY <1>8 DEF DropBoth, Goto, Free
    <2>2. var["current"] # NULL /\ var'["current"] = var["current"]
      BY <2>1 DEF Known, Holders, Resampling, Nulled, Local
    <2>3. pc' = "freePrev" /\ Known("freePrev") = {"current"}
      BY <2>1, <2>2 DEF Known, Holders, Resampling
    <2>. QED BY <2>2, <2>3
  <1>. QED BY <1>5, <1>6, <1>7, <1>8

\* What comes before the resampling, and its end.
LEMMA FullOther ==
  ASSUME Ownership, Contents, Worth, plenty, pc \notin {"freeFailed", "failed"},
         \A v \in Known(pc) : var[v] # NULL,
         ToFloat \/ ToStereo \/ IsStereo \/ IsStdRate \/ ToRate \/ FreePrev
  PROVE  pc' \notin {"freeFailed", "failed"} /\ \A v \in Known(pc') : var'[v] # NULL
  <1>0. {"orig", "prev", "current"} \subseteq Local /\ NULL \notin Block
    BY StdAudFmtAssumption DEF Local
  <1>1. /\ var \in [Local -> Pointer]
        /\ pc # "idle" => var["orig"] = ORIG
        /\ pc \in {"toStereo", "toRate", "freePrev", "ok"} => var["current"] \in Block
    BY DEF Ownership, Aliasing
  <1>2. Known("toStereo") = {"current"} /\ Known("toRate") = {"current"} /\ Known("ok") = {"current"}
        /\ Known("freePrev") = {"current"} /\ Known("splitLeft") = {"prev"}
    BY DEF Known, Holders, Resampling
  <1>3. CASE ToFloat
    <2>1. pc = "toFloat" /\ New("current", ToF32(Content("orig"), header.BitsPerSample), var)
          /\ pc' = IF var'["current"] = NULL THEN "failed" ELSE "toStereo"
      BY <1>3 DEF ToFloat, Goto
    <2>2. Content("orig") = heap[ORIG]
      BY <1>1, <2>1, StdAudFmtAssumption DEF Content
    <2>3. New("current", Floats, var)
      BY <2>1, <2>2 DEF Floats
    <2>4. var'["current"] # NULL
      BY <1>0, <1>1, <2>3, NewSome DEF Worth
    <2>. QED BY <1>2, <2>1, <2>4
  <1>4. CASE ToStereo
    <2>. DEFINE mid == [var EXCEPT !["prev"] = var["current"]]
    <2>1. pc = "toStereo" /\ header.NumChannels = 1
          /\ New("current", MonoToXChannels(Content("current"), StdChannels), mid)
          /\ pc' = IF var'["current"] = NULL THEN "freeFailed" ELSE "toRate"
      BY <1>4 DEF ToStereo, Goto
    <2>2. Content("current") = Floats
      <3>1. "current" \in Known(pc) /\ Value(pc, "current") = Floats /\ var["current"] # NULL
        BY <1>2, <2>1 DEF Value
      <3>. QED BY <3>1 DEF Content, Contents
    <2>3. New("current", Stereo, mid)
      BY <2>1, <2>2 DEF Stereo
    <2>4. mid \in [Local -> Pointer]
      BY <1>0, <1>1
    <2>. HIDE DEF mid
    <2>5. var'["current"] # NULL
      BY <1>0, <2>3, <2>4, NewSome DEF Worth
    <2>. QED BY <1>2, <2>1, <2>5
  <1>5. CASE IsStereo
    BY <1>2, <1>5 DEF IsStereo, Goto
  <1>6. CASE IsStdRate
    BY <1>2, <1>6 DEF IsStdRate, Goto
  <1>7. CASE ToRate
    <2>1. pc = "toRate" /\ pc' = "splitLeft" /\ var' = [var EXCEPT !["prev"] = var["current"]]
      BY <1>7 DEF ToRate, Goto
    <2>2. var'["prev"] = var["current"] /\ var["current"] # NULL
      BY <1>0, <1>1, <2>1
    <2>. QED BY <1>2, <2>1, <2>2
  <1>8. CASE FreePrev
    <2>1. pc = "freePrev" /\ pc' = "ok" /\ var' = Nulled(PrevIfOurs)
      BY <1>8 DEF FreePrev, Free, Goto
    <2>2. var'["current"] = var["current"] /\ var["current"] # NULL
      BY <1>0, <1>1, <2>1 DEF Nulled, PrevIfOurs
    <2>. QED BY <1>2, <2>1, <2>2
  <1>. QED BY <1>3, <1>4, <1>5, <1>6, <1>7, <1>8

LEMMA FullNext ==
  ASSUME Ownership, Contents, Loaded, Placed, Full, PlacesWell(header.SampleRate), [Next]_vars
  PROVE  Full'
  <1>1. header' = header /\ file' = file /\ plenty' = plenty
    BY FileStays
  <1>2. AudiodataSize' = AudiodataSize /\ FrameSize' = FrameSize
    BY <1>1, SamePlaces
  <1>3. chunk' = chunk => (TooShort' <=> TooShort)
    BY <1>1, <1>2 DEF TooShort
  <1>4. CASE Convey
    <2>1. pc # "idle" /\ chunk' = chunk
      BY <1>4 DEF Convey, Conversion, ToFloat, ToStereo, IsStereo, IsStdRate, ToRate, LeftChannel,
                  RightChannel, SplitChannel, ResampleChannel, DropChannel, Merge, DropBoth, FreePrev
    <2>2. SUFFICES ASSUME plenty, ~TooShort
                   PROVE  pc' \notin {"freeFailed", "failed"} /\ \A v \in Known(pc') : var'[v] # NULL
      BY <1>1, <1>3, <2>1 DEF Full, Known, Holders, Resampling
    <2>3. pc \notin {"freeFailed", "failed"} /\ \A v \in Known(pc) : var[v] # NULL
      BY <2>2 DEF Full
    <2>4. Worth
      BY <2>1, <2>2, ChunkWorth DEF Contents
    <2>5. \/ LeftChannel \/ RightChannel \/ Merge \/ DropBoth
          \/ ToFloat \/ ToStereo \/ IsStereo \/ IsStdRate \/ ToRate \/ FreePrev
      BY <1>4 DEF Convey, Conversion
    <2>. QED BY <2>2, <2>3, <2>4, <2>5, FullResampling, FullOther
  <1>5. CASE UNCHANGED vars \/ Retired
    <2>1. UNCHANGED <<pc, var, plenty, chunk>>
      BY <1>5 DEF vars, conversionVars, Retired
    <2>. QED BY <1>3, <2>1 DEF Full, Known, Holders, Resampling
  <1>6. CASE WAV_EOF \/ WAV_UnequalRead \/ FLAC_EOF \/ WAV_Read \/ FLAC_Read \/ Deliver \/ ConversionError
    <2>1. pc' = "idle" \/ pc' = "toFloat"
      BY <1>6 DEF WAV_EOF, WAV_UnequalRead, FLAC_EOF, GiveUp, Loading, conversionVars, WAV_Read,
                  FLAC_Read, HaveRead, Convert, Deliver, ConversionError, Goto
    <2>. QED BY <2>1 DEF Full, Known, Holders, Resampling
  <1>. QED BY <1>4, <1>5, <1>6 DEF Next

LEMMA EndsWellNext ==
  ASSUME Ownership, Contents, Loaded, Placed, Full, EndsWell, PlacesWell(header.SampleRate),
         [Next]_vars
  PROVE  EndsWell'
  <1>1. header' = header /\ file' = file /\ plenty' = plenty
    BY FileStays
  <1>2. AudiodataSize' = AudiodataSize /\ FrameSize' = FrameSize /\ BufferSize' = BufferSize
        /\ SampleSize' = SampleSize
    BY <1>1, SamePlaces DEF SampleSize
  <1>3. Format
    BY DEF Contents
  <1>4. ASSUME load_err' = "OK" PROVE EndsWell'
    BY <1>4 DEF EndsWell
  <1>5. CASE WAV_EOF
    <2>1. load_err' = "EOF" /\ UNCHANGED <<next_first_frame, chunk>> /\ file.kind = "wav"
      BY <1>5 DEF WAV_EOF, GiveUp, Loading
    <2>2. Exact(AudiodataSize) => AudiodataSize - chunk.end <= FrameSize
      BY <1>3, <1>5, WavEndsWell
    <2>3. Exact(AudiodataSize)' <=> Exact(AudiodataSize)
      BY <1>2, <2>1 DEF Exact
    <2>. QED BY <1>1, <1>2, <2>1, <2>2, <2>3 DEF EndsWell
  <1>6. CASE FLAC_EOF
    <2>1. load_err' = "EOF" /\ UNCHANGED <<next_first_frame, chunk>> /\ file.kind = "flac"
      BY <1>6 DEF FLAC_EOF, GiveUp, Loading
    <2>2. Exact(AudiodataSize) => AudiodataSize - chunk.end <= BufferSize
      BY <1>3, <1>6, FlacEndsWell
    <2>3. Exact(AudiodataSize)' <=> Exact(AudiodataSize)
      BY <1>2, <2>1 DEF Exact
    <2>. QED BY <1>1, <1>2, <2>1, <2>2, <2>3 DEF EndsWell
  <1>7. CASE WAV_UnequalRead
    <2>1. load_err' = "UnequalRead"
      BY <1>7 DEF WAV_UnequalRead, GiveUp
    <2>. QED BY <1>1, <1>3, <1>7, <2>1, UnequalEndsWell DEF EndsWell
  <1>8. CASE ConversionError
    <2>1. load_err' = "StdaudConversionError" /\ chunk' = chunk /\ pc = "failed"
      BY <1>8 DEF ConversionError
    <2>2. plenty => TooShort
      BY <2>1 DEF Full
    <2>3. TooShort' <=> TooShort
      BY <1>1, <1>2, <2>1 DEF TooShort
    <2>. QED BY <1>1, <2>1, <2>2, <2>3 DEF EndsWell, TooShort
  <1>9. CASE WAV_Read \/ FLAC_Read \/ Convey \/ Deliver
    <2>1. load_err' = load_err
      BY <1>9 DEF WAV_Read, FLAC_Read, HaveRead, Convey, Deliver
    <2>2. load_err = "OK"
      BY <1>9 DEF Loaded, WAV_Read, FLAC_Read, Loading, Deliver, Convey, Conversion, ToFloat,
                  ToStereo, IsStereo, IsStdRate, ToRate, LeftChannel, RightChannel, SplitChannel,
                  ResampleChannel, DropChannel, Merge, DropBoth, FreePrev
    <2>. QED BY <1>4, <2>1, <2>2
  <1>10. CASE UNCHANGED vars \/ Retired
    <2>1. UNCHANGED <<load_err, next_first_frame, chunk>>
      BY <1>10 DEF vars, conversionVars, Retired
    <2>2. Exact(AudiodataSize)' <=> Exact(AudiodataSize)
      BY <1>2, <2>1 DEF Exact
    <2>. QED BY <1>1, <1>2, <2>1, <2>2 DEF EndsWell
  <1>. QED BY <1>5, <1>6, <1>7, <1>8, <1>9, <1>10 DEF Next

-----------------------------------------------------------------------------
(* Where one chunk ends and the next one starts                            *)

\* Where the next WAV chunk starts, no more than a sample is read again.
LEMMA WavBack ==
  ASSUME NEW w \in {Scale, Scale \div 2}, NEW u \in Grains, w % u = 0, 2 * u <= w,
         NEW y \in Nat, NEW z \in Nat, y = 0 \/ z <= y,
         y + z < w * Significands
  PROVE  (Near(y) \div u) * u + (Near(z) \div w) * w <= (Near(y + z) \div u) * u + w
  <1>. DEFINE n == y + z
              s == Spacing(y)
              d == Spacing(z)
              r == Spacing(n)
              t == Near(y)
              x == Near(z)
              p == (t \div u) * u
              v == (Near(n) \div u) * u
              f == (x \div w) * w
              g == Coarser(u, r)
  <1>1. /\ w \in Grains /\ w \in Nat \ {0} /\ u \in Nat \ {0}
        /\ n \in Nat /\ y <= n /\ z <= n /\ n < w * Significands
    BY GrainsAre DEF Grains
  <1>2. /\ r <= w /\ s <= r /\ d <= r /\ (z <= y => d <= s)
    BY <1>1, SpacingBelow, SpacingGrows
  <1>3. /\ r \in Nat \ {0} /\ s \in Nat \ {0} /\ d \in Nat \ {0}
        /\ r \in Spacings /\ s \in Spacings
    BY <1>1, SpacingIs
  <1>4. /\ t \in Nat /\ 2 * t <= 2 * y + s /\ x \in Nat /\ 2 * x <= 2 * z + d
        /\ Near(n) \in Nat /\ 2 * n <= 2 * Near(n) + r /\ (y = 0 => t = 0)
    BY <1>1, NearIs
  <1>5. p \in Nat /\ p <= t /\ Multiple(p, Coarser(u, s))
    BY FloorGrain
  <1>6. v \in Nat /\ Near(n) < v + u /\ Near(n) <= v + g - r /\ Multiple(v, g)
    BY <1>1, FloorGrain
  <1>7. f \in Nat /\ f <= x /\ Multiple(f, w)
    BY <1>1, <1>4, DivMultiple
  <1>8. CASE y = 0
    <2>1. n = z /\ p <= 0
      BY <1>4, <1>5, <1>8
    <2>2. Near(n) = x
      BY <2>1, Zenon
    <2>. HIDE DEF n, p, v, f, t, x
    <2>3. p + f <= v + w
      BY <1>1, <1>4, <1>5, <1>6, <1>7, <2>1, <2>2
    <2>. QED BY <2>3 DEF n, p, v, f, t, x
  <1>9. CASE z <= y
    <2>1. n = y + z
      OBVIOUS
    <2>2. g = IF r >= u THEN r ELSE u
      BY DEF Coarser
    <2>3. s = r \/ 2 * s <= r
      <3>1. r % s = 0
        BY <1>2, <1>3, SpacingsAssumption
      <3>. DEFINE k == r \div s
      <3>2. k \in Nat /\ s * k = r
        BY <1>3, <3>1, DivExact
      <3>. HIDE DEF k, r, s
      <3>3. k = 0 => s * k = 0
        BY <1>3
      <3>4. k = 1 => s * k = s
        BY <1>3
      <3>5. k >= 2 => s * k >= s * 2
        BY <1>3, <3>2
      <3>. QED BY <1>3, <3>2, <3>3, <3>4, <3>5
    <2>. HIDE DEF n, p, v, f, t, x, g, r, s, d
    <2>4. 2 * p + 2 * f <= 2 * v + 2 * g - r + s + d
      <3>1. g \in Nat
        BY <1>1, <1>3, <2>2
      <3>. QED BY <1>1, <1>3, <1>4, <1>5, <1>6, <1>7, <2>1, <3>1
    <2>5. CASE r < u
      BY <1>1, <1>2, <1>3, <1>5, <1>6, <1>7, <2>2, <2>4, <2>5 DEF p, v, f, t, x, n
    <2>6. CASE r >= u /\ 2 * s <= r
      BY <1>1, <1>2, <1>3, <1>5, <1>6, <1>7, <1>9, <2>2, <2>4, <2>6 DEF p, v, f, t, x, n
    <2>7. CASE r >= u /\ s = r
      <3>1. g = r
        BY <1>1, <1>3, <2>2, <2>7
      <3>2. Multiple(p, r) /\ Multiple(v, r)
        BY <1>1, <1>3, <1>5, <1>6, <2>7, <3>1 DEF Coarser
      <3>3. w % r = 0
        BY <1>1, <1>2, <1>3, GrainOrSpacing
      <3>4. Multiple(f, r)
        BY <1>1, <1>3, <1>7, <3>3, MultipleOf
      <3>5. Multiple(w, r)
        <4>1. Multiple(w, w)
          BY <1>1, MultipleItself
        <4>. QED BY <1>1, <1>3, <3>3, <4>1, MultipleOf
      <3>. DEFINE a == p + f
                  b == v + w
      <3>6. Multiple(a, r)
        BY <1>3, <1>5, <1>7, <3>2, <3>4, MultipleSum
      <3>7. Multiple(b, r)
        BY <1>1, <1>3, <1>6, <3>2, <3>5, MultipleSum
      <3>8. a \in Int /\ b \in Int /\ a < b + r
        BY <1>1, <1>2, <1>3, <1>5, <1>6, <1>7, <1>9, <2>4, <2>7, <3>1
      <3>. HIDE DEF a, b
      <3>9. a <= b
        BY <1>3, <3>6, <3>7, <3>8, MultipleStep
      <3>. QED BY <3>9 DEF a, b, p, v, f, t, x, n
    <2>. QED BY <1>1, <1>3, <2>3, <2>5, <2>6, <2>7
  <1>. QED BY <1>8, <1>9

\* Where the next FLAC chunk starts, no more than a frame is read again.
LEMMA FlacBack ==
  ASSUME NEW w \in {Scale, Scale \div 2},
         NEW y \in Nat, NEW z \in Nat,
         y + z < w * Significands
  PROVE  (Near(y) \div Scale) * Scale + Ceiling(Near(z), w) * w
           <= (Near(y + z) \div Scale) * Scale + Scale
  <1>. DEFINE n == y + z
              s == Spacing(y)
              d == Spacing(z)
              r == Spacing(n)
              t == Near(y)
              x == Near(z)
              e == Scale
              p == (t \div e) * e
              v == (Near(n) \div e) * e
              c == Ceiling(x, w)
              f == c * w
              h == (x + w) - d
              a == p + f
              b == v + e
  <1>1. /\ w \in Grains /\ w \in Nat \ {0} /\ e \in Nat \ {0} /\ e \in Grains
        /\ (w = e \/ 2 * w = e) /\ w <= e /\ e % w = 0
        /\ n \in Nat /\ y <= n /\ z <= n /\ n < w * Significands
    <2>1. w \in Grains /\ w \in Nat \ {0} /\ e \in Nat \ {0} /\ e \in Grains
          /\ (w = e \/ 2 * w = e)
      BY GrainsAre DEF Grains
    <2>. QED BY <2>1
  <1>2. /\ r <= w /\ s <= r /\ d <= r
    BY <1>1, SpacingBelow, SpacingGrows
  <1>3. /\ r \in Nat \ {0} /\ s \in Nat \ {0} /\ d \in Nat \ {0} /\ d \in Spacings
    BY <1>1, SpacingIs
  <1>4. /\ t \in Nat /\ 2 * t <= 2 * y + s /\ x \in Nat /\ 2 * x <= 2 * z + d
        /\ Near(n) \in Nat /\ 2 * n <= 2 * Near(n) + r
    BY <1>1, NearIs
  <1>5. Multiple(x, d)
    BY NearIs
  <1>6. p \in Nat /\ p <= t /\ Multiple(p, e)
    BY <1>1, FloorGrain
  <1>7. v \in Nat /\ Near(n) <= v + e - r /\ Multiple(v, e)
    <2>1. v \in Nat /\ Near(n) <= v + Coarser(e, r) - r /\ Multiple(v, e)
      BY <1>1, FloorGrain
    <2>2. Coarser(e, r) = e
      BY <1>1, <1>2, <1>3 DEF Coarser
    <2>. QED BY <2>1, <2>2
  <1>8. f \in Nat /\ f < x + w /\ Multiple(f, w)
    <2>. DEFINE m == x + w - 1
    <2>1. m \in Nat /\ c = m \div w
      BY <1>1, <1>4 DEF Ceiling
    <2>. HIDE DEF m, c, x
    <2>2. f \in Nat /\ f <= m /\ Multiple(f, w)
      BY <1>1, <2>1, DivMultiple
    <2>. HIDE DEF f
    <2>. QED BY <1>1, <1>4, <2>1, <2>2 DEF m
  <1>. HIDE DEF n, s, d, r, t, x, e, p, v, c, f
  <1>9. f <= h
    <2>1. w % d = 0
      BY <1>1, <1>2, <1>3, GrainOrSpacing
    <2>2. Multiple(w, w) /\ Multiple(d, d)
      BY <1>1, <1>3, MultipleItself
    <2>3. Multiple(f, d) /\ Multiple(w, d)
      BY <1>1, <1>3, <1>8, <2>1, <2>2, MultipleOf
    <2>4. Multiple(x + w, d) /\ x + w \in Int
      BY <1>1, <1>3, <1>4, <1>5, <2>3, MultipleSum
    <2>5. Multiple(h, d)
      <3>. DEFINE m == x + w
      <3>1. m \in Int /\ d \in Int /\ d \in Nat \ {0} /\ Multiple(m, d) /\ Multiple(d, d)
        BY <1>3, <2>2, <2>4
      <3>. HIDE DEF m
      <3>2. Multiple(m - d, d)
        BY <3>1, MultipleSum
      <3>. QED BY <3>2 DEF m
    <2>6. h \in Int /\ f < h + d
      BY <1>1, <1>3, <1>4, <1>8
    <2>. HIDE DEF h
    <2>. QED BY <1>3, <1>8, <2>3, <2>5, <2>6, MultipleStep
  <1>10. a < b + w
    <2>1. n = y + z
      BY DEF n
    <2>. QED BY <1>1, <1>2, <1>3, <1>4, <1>6, <1>7, <1>8, <1>9, <2>1
  <1>11. Multiple(a, w) /\ Multiple(b, w)
    <2>1. Multiple(e, e)
      BY <1>1, MultipleItself
    <2>2. Multiple(p, w) /\ Multiple(v, w) /\ Multiple(e, w)
      BY <1>1, <1>6, <1>7, <2>1, MultipleOf
    <2>3. Multiple(a, w)
      BY <1>1, <1>6, <1>8, <2>2, MultipleSum
    <2>4. Multiple(b, w)
      BY <1>1, <1>7, <2>2, MultipleSum
    <2>. QED BY <2>3, <2>4
  <1>12. a \in Int /\ b \in Int
    BY <1>1, <1>6, <1>7, <1>8
  <1>. HIDE DEF a, b
  <1>13. a <= b
    BY <1>1, <1>10, <1>11, <1>12, MultipleStep
  <1>. QED BY <1>13 DEF a, b, n, t, x, e, p, v, c, f

\* The next chunk starts where floats tell the samples apart.
LEMMA StartsBelow ==
  ASSUME Format, NEW n \in Nat, NEW unit \in {ByteUnit, Scale}, NEW start \in Nat,
         start * ByteUnit = (Near(n) \div unit) * unit, Exact(start)
  PROVE  n < SampleUnit * Significands
  <1>. DEFINE u == ByteUnit
              w == SampleUnit
              e == Scale
              t == Near(n)
              ss == SampleSize
              ch == header.NumChannels
              S == Significands
              a == (t \div unit) * unit
              g == start \div ss
              r == start % ss
  <1>1. /\ w \in Grains /\ w \in Nat \ {0} /\ u \in Nat \ {0} /\ e \in Nat \ {0}
        /\ ch * w = e /\ ss * u = w /\ ss \in {2, 4} /\ ch \in {1, 2} /\ unit \in Nat \ {0}
        /\ S \in Nat \ {0} /\ S % 2 = 0
    BY UnitsAre, GrainsAre DEF Grains
  <1>2. t \in Nat
    BY NearIs
  <1>3. a \in Nat /\ t < a + unit /\ Multiple(a, unit) /\ a = start * u
    <2>. HIDE DEF t, u
    <2>. QED BY <1>1, <1>2, DivMultiple DEF u, t
  <1>4. g \in Nat /\ r \in 0 .. ss - 1 /\ ss * g + r = start /\ g < S
    <2>1. ss \in Nat \ {0}
      BY <1>1
    <2>2. g < S
      BY DEF Exact
    <2>. HIDE DEF ss
    <2>. QED BY <2>1, <2>2, DivNat
  <1>. HIDE DEF u, w, e, t, ss, ch, S, a, g, r
  <1>5. SUFFICES t < w * S
    BY <1>1, NearBelow DEF w, S, t
  <1>6. start + 1 <= ss * S
    <2>1. ss * g + ss <= ss * S
      <3>1. g \in Nat /\ S \in Nat /\ g + 1 <= S
        BY <1>1, <1>4
      <3>2. CASE ss = 2
        BY <3>1, <3>2
      <3>3. CASE ss = 4
        BY <3>1, <3>3
      <3>. QED BY <1>1, <3>2, <3>3
    <2>2. ss * S \in Nat /\ ss * g \in Nat
      BY <1>1, <1>4
    <2>. QED BY <1>1, <1>4, <2>1, <2>2
  <1>7. CASE unit = u
    <2>1. (start + 1) * u <= (ss * S) * u
      <3>. DEFINE m == ss * S
                  k == start + 1
      <3>1. m \in Nat /\ k \in Nat /\ k <= m
        BY <1>1, <1>6
      <3>. HIDE DEF m, k
      <3>2. k * u <= m * u
        BY <1>1, <3>1
      <3>. QED BY <3>2 DEF m, k
    <2>2. (ss * S) * u = w * S /\ (start + 1) * u = a + u
      BY <1>1, <1>3
    <2>. QED BY <1>1, <1>2, <1>3, <1>7, <2>1, <2>2
  <1>8. CASE unit = e
    <2>1. a < w * S
      <3>1. start * u < (ss * S) * u
        BY <1>1, <1>6
      <3>2. (ss * S) * u = w * S
        BY <1>1
      <3>. QED BY <1>3, <3>1, <3>2
    <2>2. Multiple(w * S, e)
      <3>1. CASE ch = 1
        <4>1. w * S = S * e
          BY <1>1, <3>1
        <4>2. S * e = e * S /\ S \in Int
          BY <1>1
        <4>. QED BY <4>1, <4>2 DEF Multiple
      <3>2. CASE ch = 2
        <4>. DEFINE h == S \div 2
        <4>1. h \in Nat /\ S = 2 * h
          BY <1>1
        <4>. HIDE DEF h
        <4>2. w * S = h * e
          BY <1>1, <3>2, <4>1
        <4>. QED BY <4>1, <4>2 DEF Multiple
      <3>. QED BY <1>1, <3>1, <3>2
    <2>. DEFINE b == w * S
                c == a + e
    <2>3. b \in Int /\ c \in Int /\ a < b /\ c < b + e
      BY <1>1, <1>3, <2>1
    <2>4. Multiple(c, e)
      <3>1. a \in Int /\ e \in Nat \ {0} /\ Multiple(a, e) /\ Multiple(e, e)
        BY <1>1, <1>3, <1>8, MultipleItself
      <3>. QED BY <3>1, MultipleSum
    <2>5. Multiple(b, e)
      BY <2>2
    <2>. HIDE DEF b, c
    <2>6. e \in Nat \ {0}
      BY <1>1
    <2>7. c <= b
      BY <2>3, <2>4, <2>5, <2>6, MultipleStep
    <2>. QED BY <1>1, <1>2, <1>3, <1>8, <2>3, <2>7 DEF b, c
  <1>. QED BY <1>7, <1>8 DEF u, e

\* Where the first chunk starts.
LEMMA FirstPlaces ==
  ASSUME Format, next_first_frame = 0
  PROVE  Position = 0 /\ StartFrame = 0
  <1>1. Position = PositionAt(0) /\ StartFrame = StartFrameAt(0)
    BY DEF Position, PositionAt, StartFrame, StartFrameAt
  <1>2. 0 < Significands /\ 0 * FileSamplerateOverStdaud = 0
    BY GrainsAre, RatioNat
  <1>3. Near(0) = 0
    BY NearIs
  <1>4. 0 \div ByteUnit = 0 /\ 0 \div Scale = 0
    BY UnitsAre, ScaleNat
  <1>5. PositionAt(0) = Near(0) \div ByteUnit /\ StartFrameAt(0) = Near(0) \div Scale
    BY <1>2, PlacesAre
  <1>. QED BY <1>1, <1>3, <1>4, <1>5

\* Where the chunk before lies and the next one starts, in units: a bound on how far
\* they are apart is one on how many bytes of a WAV file are left out or repeated.
LEMMA WavInUnits ==
  ASSUME Format, Loaded, Placed, WAV_Read, Exact(WavStart), next_first_frame # 0
  PROVE  LET u == ByteUnit
             w == SampleUnit
             y == first_frame * FileSamplerateOverStdaud
             z == FrameCount * FileSamplerateOverStdaud
             p == (Near(y) \div u) * u
             v == (Near(y + z) \div u) * u
             f == (Near(z) \div w) * w
         IN  /\ y + z < w * Significands
             /\ \A k \in Nat : v <= p + f + k * u => WavStart - chunk.end <= k
             /\ \A k \in Nat : p + f <= v + k * u => chunk.end - WavStart <= k
  <1>. DEFINE A == AudiodataSize
              u == ByteUnit
              w == SampleUnit
              q == FileSamplerateOverStdaud
              y == first_frame * q
              z == FrameCount * q
              start == chunk.start
              c == Floor(SamplesToRead)
              p == (Near(y) \div u) * u
              v == (Near(y + z) \div u) * u
              f == (Near(z) \div w) * w
              end == start + BytesToRead
  <1>1. /\ next_first_frame \in Nat /\ next_first_frame < Significands
        /\ A \in Nat /\ Position \in Nat /\ BytesToRead \in Nat
        /\ w \in Nat \ {0} /\ u \in Nat \ {0} /\ SampleSize * u = w
        /\ SampleSize \in Nat /\ chunk.end \in Nat
    BY SizesNat, UnitsAre, ScaleNat DEF Loaded, Exact
  <1>2. file.kind = "wav" /\ WavStart = Position /\ Position < A
    BY <1>1 DEF WAV_Read, Loading, WavStart, Clamp
  <1>3. /\ y \in Nat /\ z \in Nat /\ next_first_frame * q = y + z
        /\ first_frame \in Nat /\ first_frame < Significands /\ FrameCount < Significands
    BY <1>1, LoadsAre
  <1>4. Position = Near(y + z) \div u
    <2>1. Position = PositionAt(next_first_frame)
      BY DEF Position, PositionAt
    <2>2. Position = Near(next_first_frame * q) \div u
      BY <1>1, <2>1, PlacesAre
    <2>. HIDE DEF y, z, q, u
    <2>. QED BY <1>3, <2>2
  <1>5. start = Near(y) \div u /\ start < A /\ start \in Nat
        /\ chunk.end = start + Clamp(BytesToRead, A - start)
    BY <1>2, <1>3, PlacesAre DEF Placed, Loaded
  <1>6. c = Near(z) \div w /\ c \in Nat
    <2>1. c = Near(z) \div w /\ SamplesToRead \in Nat
      BY <1>3, ChunkIs, SizesNat DEF Loaded
    <2>. QED BY <2>1, ScaleNat, DivNat DEF Floor
  <1>7. p = start * u /\ f = c * w /\ v = Position * u
    BY <1>4, <1>5, <1>6
  <1>8. y + z < w * Significands
    <2>. DEFINE n == y + z
    <2>1. n \in Nat /\ Position * u = (Near(n) \div u) * u
      BY <1>3, <1>4
    <2>. HIDE DEF n
    <2>2. n < w * Significands
      BY <1>1, <1>2, <2>1, StartsBelow
    <2>. QED BY <2>2 DEF n
  <1>9. BytesToRead = c * SampleSize
    BY DEF BytesToRead
  <1>. HIDE DEF A, u, w, q, y, z, start, c, p, v, f
  <1>10. end \in Nat /\ end * u = p + f
    <2>1. (c * SampleSize) * u = c * (SampleSize * u)
      BY <1>1, <1>6
    <2>2. end * u = start * u + BytesToRead * u
      BY <1>1, <1>5
    <2>. QED BY <1>1, <1>5, <1>7, <1>9, <2>1, <2>2
  <1>. HIDE DEF end
  <1>11. chunk.end <= end /\ (chunk.end = end \/ Position < chunk.end)
    BY <1>1, <1>2, <1>5 DEF Clamp, end
  <1>12. ASSUME NEW k \in Nat, v <= p + f + k * u
         PROVE  WavStart - chunk.end <= k
    <2>. DEFINE m == end + k
    <2>1. m \in Nat /\ m * u = end * u + k * u
      BY <1>1, <1>10
    <2>. HIDE DEF m
    <2>2. Position * u <= m * u
      BY <1>7, <1>10, <1>12, <2>1
    <2>3. Position <= m
      BY <1>1, <2>1, <2>2, FromUnits
    <2>. QED BY <1>1, <1>2, <1>10, <1>11, <2>3 DEF m
  <1>13. ASSUME NEW k \in Nat, p + f <= v + k * u
         PROVE  chunk.end - WavStart <= k
    <2>. DEFINE m == Position + k
    <2>1. m \in Nat /\ m * u = Position * u + k * u
      BY <1>1
    <2>. HIDE DEF m
    <2>2. end * u <= m * u
      BY <1>7, <1>10, <1>13, <2>1
    <2>3. end <= m
      BY <1>1, <1>10, <2>1, <2>2, FromUnits
    <2>. QED BY <1>1, <1>2, <1>10, <1>11, <2>3 DEF m
  <1>. QED BY <1>8, <1>12, <1>13 DEF u, w, q, y, z, p, v, f

\* The same of a FLAC file.
LEMMA FlacInUnits ==
  ASSUME Format, Loaded, Placed, FLAC_Read, Exact(StartFrame * FrameSize), next_first_frame # 0
  PROVE  LET e == Scale
             w == SampleUnit
             y == first_frame * FileSamplerateOverStdaud
             z == FrameCount * FileSamplerateOverStdaud
             p == (Near(y) \div e) * e
             v == (Near(y + z) \div e) * e
             f == Ceiling(Near(z), w) * w
             gap == StartFrame * FrameSize - chunk.end
         IN  /\ y + z < w * Significands
             /\ v <= p + f + e => gap <= FrameSize
             /\ p + f <= v + e => -FrameSize <= gap
             /\ v = p + f => gap = 0
  <1>. DEFINE u == ByteUnit
              w == SampleUnit
              e == Scale
              q == FileSamplerateOverStdaud
              y == first_frame * q
              z == FrameCount * q
              next == StartFrame * FrameSize
              s == StartFrameAt(first_frame)
              c == Ceil(SamplesToRead)
              p == (Near(y) \div e) * e
              v == (Near(y + z) \div e) * e
              f == Ceiling(Near(z), w) * w
              end == s * FrameSize + BufferSize
  <1>1. /\ next_first_frame \in Nat /\ next_first_frame < Significands
        /\ StartFrame \in Nat /\ BufferSize \in Nat /\ next \in Nat
        /\ w \in Nat \ {0} /\ u \in Nat \ {0}
        /\ SampleSize * u = w /\ FrameSize * u = e /\ FrameSize \in Nat \ {0}
        /\ SampleSize \in Nat /\ e \in Nat \ {0} /\ chunk.end \in Nat
    BY SizesNat, UnitsAre, ScaleNat, ProductNat DEF Loaded, Exact
  <1>2. file.kind = "flac"
    BY DEF FLAC_Read, Loading
  <1>3. /\ y \in Nat /\ z \in Nat /\ next_first_frame * q = y + z
        /\ first_frame \in Nat /\ first_frame < Significands /\ FrameCount < Significands
    BY <1>1, LoadsAre
  <1>4. StartFrame = Near(y + z) \div e
    <2>1. StartFrame = StartFrameAt(next_first_frame)
      BY DEF StartFrame, StartFrameAt
    <2>2. StartFrame = Near(next_first_frame * q) \div e
      BY <1>1, <2>1, PlacesAre
    <2>. HIDE DEF y, z, q, e
    <2>. QED BY <1>3, <2>2
  <1>5. s = Near(y) \div e /\ Near(y) \in Nat
    BY <1>3, PlacesAre
  <1>6. s \in Nat
    <2>. DEFINE t == Near(y)
    <2>1. t \in Nat /\ e \in Nat \ {0}
      BY <1>1, <1>5
    <2>. HIDE DEF t, e
    <2>2. t \div e \in Nat
      BY <2>1, DivNat
    <2>. QED BY <1>5, <2>2 DEF t
  <1>7. chunk.end = end
    BY <1>2 DEF Placed
  <1>8. c = Ceiling(Near(z), w) /\ c \in Nat /\ BufferSize = c * SampleSize
    BY <1>3, ChunkIs, FillIs DEF BufferSize
  <1>9. p = s * e /\ f = c * w /\ v = StartFrame * e
    BY <1>4, <1>5, <1>8
  <1>10. next * u = v
    <2>1. next * u = StartFrame * (FrameSize * u)
      <3>. HIDE DEF u
      <3>. QED BY <1>1
    <2>. QED BY <1>1, <1>9, <2>1
  <1>11. y + z < w * Significands
    <2>. DEFINE n == y + z
    <2>1. n \in Nat /\ next * u = (Near(n) \div e) * e
      BY <1>3, <1>10
    <2>. HIDE DEF n
    <2>2. n < w * Significands
      BY <1>1, <2>1, StartsBelow
    <2>. QED BY <2>2 DEF n
  <1>. HIDE DEF u, w, e, q, y, z, next, s, c, p, v, f
  <1>12. end \in Nat /\ end * u = p + f
    <2>1. (c * SampleSize) * u = c * (SampleSize * u) /\ (s * FrameSize) * u = s * (FrameSize * u)
      BY <1>1, <1>6, <1>8
    <2>2. end * u = (s * FrameSize) * u + BufferSize * u /\ end \in Nat
      BY <1>1, <1>6
    <2>. QED BY <1>1, <1>8, <1>9, <2>1, <2>2
  <1>. HIDE DEF end
  <1>13. ASSUME NEW a \in Nat, NEW b \in Nat, NEW k \in Nat, a * u <= b * u + k * u
         PROVE  a - b <= k
    <2>. DEFINE m == b + k
    <2>1. m \in Nat /\ m * u = b * u + k * u
      BY <1>1
    <2>. HIDE DEF m
    <2>2. a <= m
      BY <1>1, <1>13, <2>1, FromUnits
    <2>. QED BY <2>2 DEF m
  <1>14. v <= p + f + e => next - end <= FrameSize
    BY <1>1, <1>10, <1>12, <1>13
  <1>15. p + f <= v + e => end - next <= FrameSize
    BY <1>1, <1>10, <1>12, <1>13
  <1>16. v = p + f => next - end = 0
    <2>1. v = p + f => next * u <= end * u + 0 * u /\ end * u <= next * u + 0 * u
      BY <1>1, <1>10, <1>12
    <2>2. v = p + f => next - end <= 0 /\ end - next <= 0
      BY <1>1, <1>12, <1>13, <2>1
    <2>. QED BY <1>1, <1>12, <2>2
  <1>17. p + f <= v + e => -FrameSize <= next - end
    BY <1>1, <1>12, <1>15
  <1>. QED BY <1>7, <1>11, <1>14, <1>16, <1>17 DEF u, w, e, q, y, z, next, p, v, f

\* After a chunk that was read, at most one frame is left out ...
LeavesOutAFrame ==
    (first_frame' # first_frame /\ Exact(chunk'.start)) => chunk'.start - chunk.end <= FrameSize

\* ... or repeated.
RepeatsAFrame ==
    (first_frame' # first_frame /\ Exact(chunk'.start)) => chunk.end - chunk'.start <= FrameSize

LEMMA WavNear ==
  ASSUME Format, Loaded, Placed, WAV_Read, Exact(WavStart)
  PROVE  /\ PlacesWell(header.SampleRate) => WavStart - chunk.end <= FrameSize
         /\ chunk.end - WavStart <= FrameSize
  <1>. DEFINE u == ByteUnit
              w == SampleUnit
              e == Scale
              y == first_frame * FileSamplerateOverStdaud
              z == FrameCount * FileSamplerateOverStdaud
              p == (Near(y) \div u) * u
              v == (Near(y + z) \div u) * u
              f == (Near(z) \div w) * w
  <1>1. /\ w \in {e, e \div 2} /\ u \in Grains /\ w % u = 0 /\ u \in Nat \ {0} /\ w \in Nat
        /\ SampleSize * u = w /\ FrameSize * u = e /\ SampleSize \in {2, 4}
        /\ FrameSize \in Nat /\ SampleSize <= FrameSize /\ chunk.end \in Nat
    <2>1. FrameSize = header.NumChannels * SampleSize /\ header.NumChannels \in {1, 2}
          /\ SampleSize \in {2, 4}
      BY UnitsAre
    <2>2. FrameSize \in Nat /\ SampleSize <= FrameSize
      BY <2>1
    <2>. QED BY <2>2, UnitsAre DEF Loaded
  <1>2. CASE next_first_frame = 0
    <2>1. chunk.end = 0 /\ WavStart = 0
      <3>1. chunk.end = 0 /\ Position = 0
        BY <1>2, FirstPlaces DEF Placed
      <3>2. AudiodataSize \in Nat
        BY SizesNat DEF Loaded
      <3>3. WavStart = IF Position > AudiodataSize THEN AudiodataSize ELSE Position
        BY DEF WavStart, Clamp
      <3>. QED BY <3>1, <3>2, <3>3
    <2>. HIDE DEF u, w, e
    <2>. QED BY <1>1, <2>1
  <1>3. CASE next_first_frame # 0
    <2>1. y \in Nat /\ z \in Nat /\ (y = 0 \/ z <= y)
      BY <1>3, LoadsAre DEF Exact
    <2>2. /\ y + z < w * Significands
          /\ \A k \in Nat : v <= p + f + k * u => WavStart - chunk.end <= k
          /\ \A k \in Nat : p + f <= v + k * u => chunk.end - WavStart <= k
      BY <1>3, WavInUnits
    <2>3. (w = e /\ PlacesWell(header.SampleRate)) => 4 * z < 4 * f + 3 * w
      BY <1>3, LeavesLittle, LoadsAre DEF Exact
    <2>. HIDE DEF u, w, y, z
    <2>4. PlacesWell(header.SampleRate) => v <= p + f + e
      BY <1>1, <2>1, <2>2, <2>3, WavGap
    <2>5. p + f <= v + w
      <3>1. 2 * u <= w
        BY <1>1
      <3>. QED BY <1>1, <2>1, <2>2, <3>1, WavBack
    <2>. HIDE DEF e, p, v, f
    <2>6. PlacesWell(header.SampleRate) => WavStart - chunk.end <= FrameSize
      BY <1>1, <2>2, <2>4
    <2>7. chunk.end - WavStart <= SampleSize
      BY <1>1, <2>2, <2>5
    <2>8. WavStart \in Nat
      BY SizesNat DEF WavStart, Clamp, Loaded
    <2>. QED BY <1>1, <2>6, <2>7, <2>8
  <1>. QED BY <1>2, <1>3

LEMMA FlacNear ==
  ASSUME Format, Loaded, Placed, FLAC_Read, Exact(StartFrame * FrameSize)
  PROVE  LET gap == StartFrame * FrameSize - chunk.end
         IN  gap <= FrameSize /\ -FrameSize <= gap
  <1>. DEFINE w == SampleUnit
              e == Scale
              y == first_frame * FileSamplerateOverStdaud
              z == FrameCount * FileSamplerateOverStdaud
              p == (Near(y) \div e) * e
              v == (Near(y + z) \div e) * e
              f == Ceiling(Near(z), w) * w
              gap == StartFrame * FrameSize - chunk.end
  <1>1. CASE next_first_frame = 0
    <2>1. StartFrame = 0 /\ chunk.end = 0 /\ FrameSize \in Nat
      BY <1>1, FirstPlaces, UnitsAre DEF Placed
    <2>. QED BY <2>1
  <1>2. CASE next_first_frame # 0
    <2>1. w \in {e, e \div 2} /\ y \in Nat /\ z \in Nat /\ (y = 0 \/ z <= y)
      BY <1>2, LoadsAre, UnitsAre DEF Exact
    <2>2. /\ y + z < w * Significands
          /\ v <= p + f + e => gap <= FrameSize
          /\ p + f <= v + e => -FrameSize <= gap
      BY <1>2, FlacInUnits
    <2>. HIDE DEF w, y, z, gap
    <2>3. v <= p + f + e
      BY <2>1, <2>2, FlacGap
    <2>4. p + f <= v + e
      BY <2>1, <2>2, FlacBack
    <2>. QED BY <2>2, <2>3, <2>4 DEF gap
  <1>. QED BY <1>1, <1>2

LEMMA NearNext ==
  ASSUME Contents, Loaded, Placed, [Next]_vars
  PROVE  /\ PlacesWell(header.SampleRate) => LeavesOutAFrame
         /\ RepeatsAFrame
  <1>. SUFFICES ASSUME first_frame' # first_frame, Exact(chunk'.start)
                PROVE  /\ PlacesWell(header.SampleRate) => chunk'.start - chunk.end <= FrameSize
                       /\ chunk.end - chunk'.start <= FrameSize
    BY DEF LeavesOutAFrame, RepeatsAFrame
  <1>1. Format
    BY DEF Contents
  <1>2. CASE WAV_Read
    <2>1. chunk'.start = WavStart
      BY <1>2 DEF WAV_Read, HaveRead
    <2>. QED BY <1>1, <1>2, <2>1, WavNear
  <1>3. CASE FLAC_Read
    <2>. DEFINE next == StartFrame * FrameSize
    <2>1. chunk'.start = next
      BY <1>3 DEF FLAC_Read, HaveRead
    <2>2. next - chunk.end <= FrameSize /\ -FrameSize <= next - chunk.end
      BY <1>1, <1>3, <2>1, FlacNear
    <2>3. next \in Int /\ chunk.end \in Int /\ FrameSize \in Int
      BY <1>1, SizesNat, UnitsAre DEF Loaded
    <2>. HIDE DEF next
    <2>. QED BY <2>1, <2>2, <2>3
  <1>4. WAV_Read \/ FLAC_Read
    BY DEF Next, vars, Retired, WAV_EOF, WAV_UnequalRead, FLAC_EOF, GiveUp, Deliver,
           ConversionError, Convey
  <1>. QED BY <1>2, <1>3, <1>4

\* The ratio of the rates is a float, and a power of two: as at 12, 24, 48, 96 or 192 kHz.
RatioExact ==
    /\ FileSamplerateOverStdaud \in Spacings
    /\ FileSamplerateOverStdaud * StdRate = Real(header.SampleRate)

\* Then the products are not rounded ...
LEMMA NearExact ==
  ASSUME NEW k \in Nat, k < Significands, NEW q \in Spacings
  PROVE  Near(k * q) = k * q
  <1>. DEFINE n == k * q
              s == Spacing(n)
  <1>1. q \in Nat \ {0} /\ Significands \in Nat
    BY SpacingsPositive, GrainsAre
  <1>2. n \in Nat /\ n < q * Significands
    BY <1>1
  <1>3. s \in Spacings /\ s \in Nat \ {0} /\ s <= q
    BY <1>2, SpacingIs
  <1>4. q % s = 0
    BY <1>3, SpacingsAssumption
  <1>5. n % s = 0
    <2>. HIDE DEF s
    <2>. QED BY <1>1, <1>3, <1>4, Multiples
  <1>6. Scale \in Nat \ {0}
    BY ScaleNat
  <1>. HIDE DEF n
  <1>. QED BY <1>2, <1>5, <1>6, SingleExact DEF Near, n

\* ... and a chunk of whole frames is one in floats, too.
LEMMA WholeChunk ==
  ASSUME Format, RatioExact, (header.SampleRate * FrameCount) % StdRate = 0
  PROVE  Multiple(FrameCount * FileSamplerateOverStdaud, Scale)
  <1>. DEFINE q == FileSamplerateOverStdaud
              z == FrameCount * q
              rate == header.SampleRate
              j == (rate * FrameCount) \div StdRate
  <1>1. /\ q \in Nat /\ rate \in Nat /\ StdRate \in Nat \ {0} /\ Scale \in Nat
        /\ FrameCount \in Nat /\ q * StdRate = rate * Scale
    BY RatioNat, ScaleNat, ChunkStreamAssumption, StdAudFmtAssumption DEF Format, RatioExact, Real
  <1>2. j \in Nat /\ StdRate * j = rate * FrameCount
    <2>1. rate * FrameCount \in Nat
      BY <1>1, ProductNat
    <2>. QED BY <1>1, <2>1, DivExact
  <1>. HIDE DEF q, rate, j
  <1>3. z * StdRate = (j * Scale) * StdRate
    <2>1. z * StdRate = FrameCount * (q * StdRate)
      BY <1>1
    <2>2. FrameCount * (rate * Scale) = (rate * FrameCount) * Scale
      BY <1>1
    <2>3. (StdRate * j) * Scale = (j * Scale) * StdRate
      BY <1>1, <1>2
    <2>. QED BY <1>1, <1>2, <2>1, <2>2, <2>3
  <1>4. z \in Nat /\ j * Scale \in Nat
    BY <1>1, <1>2
  <1>. HIDE DEF z
  <1>5. z = j * Scale
    <2>. DEFINE m == j * Scale
    <2>. HIDE DEF m
    <2>1. (z * StdRate) \div StdRate = z /\ (m * StdRate) \div StdRate = m
      BY <1>1, <1>4, Cancel DEF m
    <2>. QED BY <1>3, <2>1 DEF m
  <1>. QED BY <1>2, <1>5 DEF Multiple, z, q

\* The greatest multiple of g up to n.
Down(n, g) == (n \div g) * g

\* Where nothing is rounded, WAV chunks meet, or leave out less than a sample and a byte.
LEMMA WavMeet ==
  ASSUME NEW y \in Nat, NEW z \in Nat, NEW u \in Nat \ {0}, NEW w \in Nat \ {0}, w % u = 0
  PROVE  LET p == Down(y, u)
             v == Down(y + z, u)
             f == Down(z, w)
         IN  /\ p + f <= v /\ v <= p + f + w
             /\ Multiple(z, w) => v = p + f
  <1>. DEFINE n == y + z
              p == (y \div u) * u
              v == (n \div u) * u
              f == (z \div w) * w
              a == p + f
              b == p + f + w
  <1>1. p \in Nat /\ p <= y /\ y < p + u /\ Multiple(p, u)
    BY DivMultiple
  <1>2. v \in Nat /\ v <= n /\ n < v + u /\ Multiple(v, u)
    <2>1. n \in Nat
      OBVIOUS
    <2>. HIDE DEF n
    <2>. QED BY <2>1, DivMultiple
  <1>3. f \in Nat /\ f <= z /\ z < f + w /\ Multiple(f, w)
    BY DivMultiple
  <1>. HIDE DEF p, v, f
  <1>4. Multiple(f, u) /\ Multiple(w, u)
    BY <1>3, MultipleItself, MultipleOf
  <1>5. Multiple(a, u)
    BY <1>1, <1>3, <1>4, MultipleSum
  <1>6. Multiple(b, u)
    <2>1. a \in Int
      BY <1>1, <1>3
    <2>. HIDE DEF a
    <2>2. Multiple(a + w, u)
      BY <1>4, <1>5, <2>1, MultipleSum
    <2>. QED BY <2>2 DEF a
  <1>7. a \in Int /\ b \in Int /\ a < v + u /\ v < b + u
    BY <1>1, <1>2, <1>3
  <1>8. a <= v
    <2>. HIDE DEF a
    <2>. QED BY <1>2, <1>5, <1>7, MultipleStep
  <1>9. v <= b
    <2>. HIDE DEF b
    <2>. QED BY <1>2, <1>6, <1>7, MultipleStep
  <1>10. ASSUME Multiple(z, w) PROVE v <= a
    <2>1. z <= f
      BY <1>3, <1>10, MultipleStep
    <2>2. v < a + u
      BY <1>1, <1>2, <1>3, <2>1
    <2>. HIDE DEF a
    <2>. QED BY <1>2, <1>5, <1>7, <2>2, MultipleStep
  <1>11. Multiple(z, w) => v = a
    <2>. HIDE DEF a
    <2>. QED BY <1>2, <1>7, <1>8, <1>10
  <1>. QED BY <1>8, <1>9, <1>11 DEF Down, p, v, f

\* And FLAC chunks meet, leave out or repeat a frame at most.
LEMMA FlacMeet ==
  ASSUME NEW y \in Nat, NEW z \in Nat, NEW e \in Nat \ {0}, NEW w \in Nat \ {0},
         e % w = 0, Multiple(z, e)
  PROVE  Down(y + z, e) = Down(y, e) + Ceiling(z, w) * w
  <1>. DEFINE n == y + z
              m == z + w - 1
              p == (y \div e) * e
              v == (n \div e) * e
              f == Ceiling(z, w) * w
              a == p + f
  <1>1. p \in Nat /\ p <= y /\ y < p + e /\ Multiple(p, e)
    BY DivMultiple
  <1>2. v \in Nat /\ v <= n /\ n < v + e /\ Multiple(v, e)
    <2>1. n \in Nat
      OBVIOUS
    <2>. HIDE DEF n
    <2>. QED BY <2>1, DivMultiple
  <1>3. f \in Nat /\ f <= m /\ m < f + w /\ Multiple(f, w)
    <2>1. m \in Nat /\ f = (m \div w) * w
      BY DEF Ceiling
    <2>. HIDE DEF m, f
    <2>. QED BY <2>1, DivMultiple
  <1>. HIDE DEF p, v, f
  <1>4. f = z
    <2>1. Multiple(z, w)
      BY MultipleOf
    <2>2. z < f + w /\ f < z + w
      BY <1>3
    <2>. QED BY <1>3, <2>1, <2>2, MultipleStep
  <1>5. Multiple(a, e) /\ a \in Int
    BY <1>1, <1>3, <1>4, MultipleSum
  <1>6. a < v + e /\ v < a + e
    BY <1>1, <1>2, <1>4
  <1>. HIDE DEF a
  <1>7. a <= v /\ v <= a
    BY <1>2, <1>5, <1>6, MultipleStep
  <1>. QED BY <1>2, <1>5, <1>7 DEF Down, a, p, v, f

\* A chunk is a whole number of frames of the file.
WholeFrameChunks == (header.SampleRate * FrameCount) % StdRate = 0

LEMMA WavExactlyMeets ==
  ASSUME Format, Loaded, Placed, RatioExact, WAV_Read, Exact(WavStart)
  PROVE  LET gap == WavStart - chunk.end
         IN  gap \in 0 .. FrameSize /\ (WholeFrameChunks => gap = 0)
  <1>. DEFINE u == ByteUnit
              w == SampleUnit
              q == FileSamplerateOverStdaud
              y == first_frame * q
              z == FrameCount * q
              gap == WavStart - chunk.end
  <1>1. /\ w \in Nat \ {0} /\ u \in Nat \ {0} /\ w % u = 0 /\ Scale % w = 0 /\ Scale \in Nat \ {0}
        /\ SampleSize * u = w /\ SampleSize \in Nat /\ FrameSize \in Nat /\ SampleSize <= FrameSize
        /\ chunk.end \in Nat /\ WavStart \in Nat
    <2>1. FrameSize = header.NumChannels * SampleSize /\ header.NumChannels \in {1, 2}
          /\ SampleSize \in {2, 4}
      BY UnitsAre
    <2>2. FrameSize \in Nat /\ SampleSize \in Nat /\ SampleSize <= FrameSize
      BY <2>1
    <2>3. w \in {Scale, Scale \div 2} /\ Scale \in Nat \ {0} /\ 2 * (Scale \div 2) = Scale
      BY UnitsAre, GrainsAre, ScaleNat
    <2>4. w \in Nat \ {0} /\ u \in Nat \ {0} /\ w % u = 0 /\ SampleSize * u = w
      BY UnitsAre
    <2>5. Scale % w = 0
      BY <2>3, <2>4
    <2>6. chunk.end \in Nat /\ WavStart \in Nat
      <3>1. Position \in Nat /\ AudiodataSize \in Nat
        BY SizesNat DEF Loaded
      <3>. QED BY <3>1 DEF WavStart, Clamp, Loaded
    <2>. QED BY <2>2, <2>3, <2>4, <2>5, <2>6
  <1>2. CASE next_first_frame = 0
    <2>1. chunk.end = 0 /\ Position = 0 /\ AudiodataSize \in Nat
      BY <1>2, FirstPlaces, SizesNat DEF Placed, Loaded
    <2>2. WavStart = IF Position > AudiodataSize THEN AudiodataSize ELSE Position
      BY DEF WavStart, Clamp
    <2>3. gap = 0
      BY <2>1, <2>2
    <2>4. gap \in 0 .. FrameSize
      <3>. HIDE DEF gap, u, w
      <3>. QED BY <1>1, <2>3
    <2>. QED BY <2>3, <2>4
  <1>3. CASE next_first_frame # 0
    <2>. DEFINE p == (y \div u) * u
                v == ((y + z) \div u) * u
                f == (z \div w) * w
    <2>1. /\ y \in Nat /\ z \in Nat /\ next_first_frame * q = y + z
          /\ first_frame \in Nat /\ first_frame < Significands /\ FrameCount < Significands
          /\ next_first_frame \in Nat /\ next_first_frame < Significands /\ FrameCount \in Nat
      BY <1>3, LoadsAre, ChunkStreamAssumption DEF Exact, Loaded
    <2>2. q \in Spacings
      BY DEF RatioExact
    <2>3. Near(y) = y /\ Near(z) = z /\ Near(y + z) = y + z
      <3>. HIDE DEF q
      <3>1. Near(first_frame * q) = first_frame * q /\ Near(FrameCount * q) = FrameCount * q
            /\ Near(next_first_frame * q) = next_first_frame * q
        BY <2>1, <2>2, NearExact
      <3>. QED BY <2>1, <3>1
    <2>4. /\ \A k \in Nat : v <= p + f + k * u => WavStart - chunk.end <= k
          /\ \A k \in Nat : p + f <= v + k * u => chunk.end - WavStart <= k
      BY <1>3, <2>3, WavInUnits
    <2>5. WholeFrameChunks => Multiple(z, w)
      <3>1. WholeFrameChunks => Multiple(z, Scale)
        BY WholeChunk DEF WholeFrameChunks
      <3>. HIDE DEF z, w
      <3>. QED BY <1>1, <2>1, <3>1, MultipleOf
    <2>. HIDE DEF u, w, q, y, z
    <2>6. p + f <= v /\ v <= p + f + w /\ (Multiple(z, w) => v = p + f)
      <3>1. y \in Nat /\ z \in Nat /\ u \in Nat \ {0} /\ w \in Nat \ {0} /\ w % u = 0
        BY <1>1, <2>1
      <3>2. /\ Down(y, u) + Down(z, w) <= Down(y + z, u)
            /\ Down(y + z, u) <= Down(y, u) + Down(z, w) + w
            /\ Multiple(z, w) => Down(y + z, u) = Down(y, u) + Down(z, w)
        BY <3>1, WavMeet
      <3>. QED BY <3>2 DEF Down
    <2>7. p \in Nat /\ v \in Nat /\ f \in Nat
      <3>1. p \in Nat /\ f \in Nat
        BY <1>1, <2>1, DivMultiple
      <3>. DEFINE n == y + z
      <3>2. n \in Nat
        BY <2>1
      <3>. HIDE DEF n
      <3>3. (n \div u) * u \in Nat
        BY <1>1, <3>2, DivMultiple
      <3>. QED BY <3>1, <3>3 DEF n
    <2>. HIDE DEF p, v, f
    <2>8. chunk.end - WavStart <= 0
      <3>1. p + f <= v + 0 * u
        BY <1>1, <2>6, <2>7
      <3>. QED BY <2>4, <3>1
    <2>9. WavStart - chunk.end <= SampleSize
      BY <1>1, <2>4, <2>6
    <2>10. WholeFrameChunks => WavStart - chunk.end <= 0
      <3>1. WholeFrameChunks => v <= p + f + 0 * u
        BY <1>1, <2>5, <2>6, <2>7
      <3>. QED BY <2>4, <3>1
    <2>. QED BY <1>1, <2>8, <2>9, <2>10
  <1>. QED BY <1>2, <1>3

LEMMA FlacExactlyMeets ==
  ASSUME Format, Loaded, Placed, RatioExact, FLAC_Read, Exact(StartFrame * FrameSize),
         WholeFrameChunks
  PROVE  StartFrame * FrameSize - chunk.end = 0
  <1>. DEFINE w == SampleUnit
              e == Scale
              q == FileSamplerateOverStdaud
              y == first_frame * q
              z == FrameCount * q
              p == (Near(y) \div e) * e
              v == (Near(y + z) \div e) * e
              f == Ceiling(Near(z), w) * w
              gap == StartFrame * FrameSize - chunk.end
  <1>1. CASE next_first_frame = 0
    <2>1. StartFrame = 0 /\ chunk.end = 0 /\ FrameSize \in Nat
      BY <1>1, FirstPlaces, UnitsAre DEF Placed
    <2>. QED BY <2>1
  <1>2. CASE next_first_frame # 0
    <2>1. /\ y \in Nat /\ z \in Nat /\ next_first_frame * q = y + z
          /\ first_frame \in Nat /\ first_frame < Significands /\ FrameCount < Significands
          /\ next_first_frame \in Nat /\ next_first_frame < Significands /\ FrameCount \in Nat
      BY <1>2, LoadsAre, ChunkStreamAssumption DEF Exact, Loaded
    <2>2. q \in Spacings
      BY DEF RatioExact
    <2>3. Near(y) = y /\ Near(z) = z /\ Near(y + z) = y + z
      <3>. HIDE DEF q
      <3>1. Near(first_frame * q) = first_frame * q /\ Near(FrameCount * q) = FrameCount * q
            /\ Near(next_first_frame * q) = next_first_frame * q
        BY <2>1, <2>2, NearExact
      <3>. QED BY <2>1, <3>1
    <2>4. v = p + f => gap = 0
      BY <1>2, FlacInUnits
    <2>5. w \in Nat \ {0} /\ e \in Nat \ {0} /\ e % w = 0
      <3>1. w \in {e, e \div 2} /\ e \in Nat \ {0} /\ 2 * (e \div 2) = e /\ w \in Nat \ {0}
        BY UnitsAre, GrainsAre, ScaleNat
      <3>. QED BY <3>1
    <2>6. Multiple(z, e)
      BY WholeChunk DEF WholeFrameChunks
    <2>. HIDE DEF w, e, q, y, z
    <2>7. ((y + z) \div e) * e = (y \div e) * e + Ceiling(z, w) * w
      <3>1. y \in Nat /\ z \in Nat
        BY <2>1
      <3>2. Down(y + z, e) = Down(y, e) + Ceiling(z, w) * w
        BY <2>5, <2>6, <3>1, FlacMeet
      <3>. QED BY <3>2 DEF Down
    <2>8. v = p + f
      BY <2>3, <2>7
    <2>. QED BY <2>4, <2>8
  <1>. QED BY <1>1, <1>2

\* Where one chunk ends and the next one starts, as ChunksMeet has it.
Meeting ==
    (first_frame' # first_frame /\ Exact(chunk'.start)) =>
      LET gap == chunk'.start - chunk.end
      IN  IF (header.SampleRate * FrameCount) % StdRate = 0 THEN gap = 0
          ELSE gap \in (IF file.kind = "wav" THEN 0 ELSE -FrameSize) .. FrameSize

LEMMA MeetingNext ==
  ASSUME Contents, Loaded, Placed, RatioExact, [Next]_vars
  PROVE  Meeting
  <1>. DEFINE gap == chunk'.start - chunk.end
  <1>. SUFFICES ASSUME first_frame' # first_frame, Exact(chunk'.start)
                PROVE  IF WholeFrameChunks THEN gap = 0
                       ELSE gap \in (IF file.kind = "wav" THEN 0 ELSE -FrameSize) .. FrameSize
    BY DEF Meeting, WholeFrameChunks
  <1>1. Format
    BY DEF Contents
  <1>2. CASE WAV_Read
    <2>1. chunk'.start = WavStart /\ file.kind = "wav"
      BY <1>2 DEF WAV_Read, HaveRead, Loading
    <2>2. gap \in 0 .. FrameSize /\ (WholeFrameChunks => gap = 0)
      BY <1>1, <1>2, <2>1, WavExactlyMeets
    <2>. QED BY <2>1, <2>2
  <1>3. CASE FLAC_Read
    <2>. DEFINE next == StartFrame * FrameSize
    <2>1. chunk'.start = next /\ file.kind = "flac"
      BY <1>3 DEF FLAC_Read, HaveRead, Loading
    <2>2. next - chunk.end <= FrameSize /\ -FrameSize <= next - chunk.end
      BY <1>1, <1>3, <2>1, FlacNear
    <2>3. WholeFrameChunks => next - chunk.end = 0
      BY <1>1, <1>3, <2>1, FlacExactlyMeets
    <2>4. StartFrame \in Nat /\ chunk.end \in Int /\ FrameSize \in Int
      BY <1>1, SizesNat, UnitsAre DEF Loaded
    <2>5. next \in Int
      BY <2>4
    <2>. HIDE DEF next
    <2>. QED BY <2>1, <2>2, <2>3, <2>4, <2>5
  <1>4. WAV_Read \/ FLAC_Read
    BY DEF Next, vars, Retired, WAV_EOF, WAV_UnequalRead, FLAC_EOF, GiveUp, Deliver,
           ConversionError, Convey
  <1>. QED BY <1>2, <1>3, <1>4

-----------------------------------------------------------------------------
\* The inductive invariant of the loading of a file.
LoadingInv ==
    /\ Ownership /\ Contents /\ Loaded /\ MonoWhole
    /\ PlaysOnlyTheChunk /\ ReadBytesFit /\ bytes_in_buffer \in Nat

\* It holds in every reachable state.
THEOREM LoadingHolds == Spec => []LoadingInv
  <1>1. Init => LoadingInv
    BY OwnershipInit, ContentsInit, LoadedInit, MonoWholeInit, PlaysInit, FitsInit DEF LoadingInv
  <1>2. LoadingInv /\ [Next]_vars => LoadingInv'
    BY OwnershipNext, ContentsNext, LoadedNext, MonoWholeNext, PlaysNext, FitsNext DEF LoadingInv
  <1>. QED BY <1>1, <1>2, PTL DEF Spec

\* A conversion that succeeds has the right number of frames, each with both
\* channels from the right frames of the input (ConvertsFaithfully).
THEOREM ConvertsRight == Spec => []ConvertsFaithfully
  <1>1. LoadingInv => ConvertsFaithfully
    BY ContentsFaithful DEF LoadingInv
  <1>. QED BY <1>1, LoadingHolds, PTL

\* A conversion that succeeds returns whole frames, but of a stereo file at the
\* standard rate that ends in half a frame (LeavesNoHalfFrame).
THEOREM WholeFrames == Spec => []LeavesNoHalfFrame
  <1>1. LoadingInv => LeavesNoHalfFrame
    BY WholeFramesLeft DEF LoadingInv
  <1>. QED BY <1>1, LoadingHolds, PTL

\* What is delivered comes from the chunk read last; the rest is silence
\* (PlaysOnlyTheChunk).
THEOREM PlaysTheChunk == Spec => []PlaysOnlyTheChunk
  <1>1. LoadingInv => PlaysOnlyTheChunk
    BY DEF LoadingInv
  <1>. QED BY <1>1, LoadingHolds, PTL

\* The decoder exceeds its buffer by less than a frame, and by nothing when the
\* file is mono (ReadBytesFit).
THEOREM DecoderFits == Spec => []ReadBytesFit
  <1>1. LoadingInv => ReadBytesFit
    BY DEF LoadingInv
  <1>. QED BY <1>1, LoadingHolds, PTL

\* A WAV chunk fits the datapoints, and a FLAC chunk exceeds them by less than what
\* a frame of the file becomes, when the sizes of the chunks are rounded well (Fits).
THEOREM ChunksFit ==
  ASSUME RoundsWell
  PROVE  Spec => []Fits
  <1>1. Init => Sized /\ Fits
    <2>. SUFFICES ASSUME Init PROVE Sized /\ Fits
      OBVIOUS
    <2>1. pc = "idle"
      BY DEF Init, ConversionInit
    <2>. DEFINE m == FrameCount * StdChannels
    <2>2. m \in Nat /\ m \div 2 = FrameCount /\ FrameCount \in Nat
      BY ChunkStreamAssumption, Halves DEF StdChannels
    <2>. HIDE DEF m
    <2>3. datapoints = [i \in 1 .. m |-> Silence]
      BY DEF Init, m
    <2>4. Len(datapoints) \div StdChannels - FrameCount = 0
      BY <2>2, <2>3 DEF StdChannels
    <2>. QED BY <2>1, <2>4 DEF Sized, Fits
  <1>2. LoadingInv /\ Sized /\ Fits /\ [Next]_vars => (Sized /\ Fits)'
    BY SizedNext, DeliveredFits DEF LoadingInv
  <1>. QED BY <1>1, <1>2, LoadingHolds, PTL DEF Spec

\* Where PlacesWell holds, a track ends as it should (EndsWell).
THEOREM EndsRight == Spec => [](PlacesWell(header.SampleRate) => EndsWell)
  <1>. DEFINE Ending == Placed /\ (PlacesWell(header.SampleRate) => Full /\ EndsWell)
  <1>1. Init => Ending
    <2>. SUFFICES ASSUME Init PROVE Ending
      OBVIOUS
    <2>1. pc = "idle" /\ load_err = "OK"
      BY DEF Init, ConversionInit
    <2>. QED BY <2>1, PlacedInit DEF EndsWell, Full, Known, Holders, Resampling
  <1>2. LoadingInv /\ Ending /\ [Next]_vars => Ending'
    <2>. SUFFICES ASSUME LoadingInv, Ending, [Next]_vars PROVE Ending'
      OBVIOUS
    <2>1. Placed'
      BY PlacedNext DEF LoadingInv
    <2>2. header' = header
      BY FileStays
    <2>3. PlacesWell(header.SampleRate)' <=> PlacesWell(header.SampleRate)
      BY <2>2 DEF PlacesWell
    <2>4. PlacesWell(header.SampleRate) => Full' /\ EndsWell'
      BY FullNext, EndsWellNext DEF LoadingInv
    <2>. QED BY <2>1, <2>3, <2>4
  <1>3. Ending => (PlacesWell(header.SampleRate) => EndsWell)
    OBVIOUS
  <1>. QED BY <1>1, <1>2, <1>3, LoadingHolds, PTL DEF Spec

\* At any rate no chunk repeats more than a frame of the one before it; where PlacesWell
\* holds, none leaves out more than a frame after it.
THEOREM ChunksNearlyMeet ==
    Spec => [][/\ RepeatsAFrame
               /\ PlacesWell(header.SampleRate) => LeavesOutAFrame]_vars
  <1>1. Init => Placed
    BY PlacedInit
  <1>2. LoadingInv /\ Placed /\ [Next]_vars => Placed'
    BY PlacedNext DEF LoadingInv
  <1>3. LoadingInv /\ Placed /\ [Next]_vars
        => [RepeatsAFrame /\ (PlacesWell(header.SampleRate) => LeavesOutAFrame)]_vars
    BY NearNext DEF LoadingInv
  <1>. QED BY <1>1, <1>2, <1>3, LoadingHolds, PTL DEF Spec

\* Where the ratio of the rates is exact, each chunk goes on where the one before it
\* ended (ChunksMeet).
THEOREM ChunksExactlyMeet == Spec /\ RatioExact => ChunksMeet
  <1>1. Init => Placed
    BY PlacedInit
  <1>2. LoadingInv /\ Placed /\ [Next]_vars => Placed'
    BY PlacedNext DEF LoadingInv
  <1>3. RatioExact /\ [Next]_vars => RatioExact'
    <2>. SUFFICES ASSUME RatioExact, [Next]_vars PROVE RatioExact'
      OBVIOUS
    <2>1. header' = header
      BY FileStays
    <2>. QED BY <2>1 DEF RatioExact, FileSamplerateOverStdaud, Real
  <1>4. LoadingInv /\ Placed /\ RatioExact /\ [Next]_vars => [Meeting]_vars
    BY MeetingNext DEF LoadingInv
  <1>. QED BY <1>1, <1>2, <1>3, <1>4, LoadingHolds, PTL DEF Spec, ChunksMeet, Meeting
=============================================================================
