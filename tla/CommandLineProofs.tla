-------------------------- MODULE CommandLineProofs --------------------------
(***************************************************************************)
(* Proofs about the loop of the user's thread: whatever is typed, however   *)
(* long, and wherever an allocation fails, it frees what it allocates, once; *)
(* it reads whole lines, writes nothing outside the strings for them, and   *)
(* does what the words of a line say.                                       *)
(***************************************************************************)
EXTENDS CommandLine, SequenceTheorems, FiniteSetTheorems, WellFoundedInduction, TLAPS

\* What is allocated at each step of a round; a crash may come at any.
HeldBy(step) ==
    CASE step = "trim"  -> {"input"}
      [] step = "slice" -> {"trimmed"}
      [] step = "cut"   -> {"copy", "trimmed"}
      [] step = "obey"  -> {"slices"}
      [] step = "queue" -> {"name", "slices"}
      [] OTHER          -> {}

\* The inductive invariant: what is held is known from the step, so every free
\* finds what it frees.
Ownership == "free" \notin misuse /\ (pc # "crashed" => held = HeldBy(pc))

LEMMA OwnershipInit == Init => Ownership
  BY DEF Init, Ownership, HeldBy

LEMMA OwnershipNext == Ownership /\ [Next]_vars => Ownership'
  <1>. SUFFICES ASSUME Ownership, [Next]_vars  PROVE Ownership'
    OBVIOUS
  <1>. USE DEF Ownership, HeldBy
  <1>1. CASE UNCHANGED vars
    BY <1>1 DEF vars
  <1>2. CASE ReadLine
    BY <1>2 DEF ReadLine, Memory
  <1>3. CASE ReadLineFails
    BY <1>3 DEF ReadLineFails, vars
  <1>4. CASE ReadLineCrashes \/ SliceCrashes
    BY <1>4 DEF ReadLineCrashes, SliceCrashes, Crash
  <1>5. CASE TrimLine
    BY <1>5 DEF TrimLine, Memory
  <1>6. CASE TrimLineFails
    BY <1>6 DEF TrimLineFails, Memory, Continue
  <1>7. CASE CopyLine \/ SliceLine
    BY <1>7 DEF CopyLine, SliceLine, Memory
  <1>8. CASE CopyLineFails \/ SliceFails
    BY <1>8 DEF CopyLineFails, SliceFails, Memory, Continue
  <1>9. ASSUME pc = "obey", Memory({}, {"slices"}), pc' \in {"read", "exited"}
        PROVE  Ownership'
    BY <1>9 DEF Memory
  <1>10. CASE ObeyPause \/ LoadFails \/ InvalidCommand
    BY <1>9, <1>10 DEF ObeyPause, LoadFails, InvalidCommand, Command, EndRound, Continue
  <1>13. CASE JoinName \/ LoadAudio
    BY <1>13 DEF JoinName, LoadAudio, Command, Memory, Continue
  <1>11. CASE ObeyQuit
    BY <1>9, <1>11 DEF ObeyQuit, Command
  <1>12. CASE Ended
    BY <1>12 DEF Ended, vars
  <1>. QED BY <1>1, <1>2, <1>3, <1>4, <1>5, <1>6, <1>7, <1>8, <1>10, <1>11, <1>12, <1>13 DEF Next

\* For input of any length, no round of the loop leaves memory behind or frees
\* what is not its own.
THEOREM NothingLeaks == Spec => []FreesEverythingOnce
  <1>1. Ownership => FreesEverythingOnce
    BY DEF Ownership, FreesEverythingOnce, HeldBy
  <1>. QED BY <1>1, OwnershipInit, OwnershipNext, PTL DEF Spec

-----------------------------------------------------------------------------
(* The least and the greatest of a set of places                           *)

LEMMA MinIsLeast ==
  ASSUME NEW S \in SUBSET Nat, S # {}
  PROVE  Min(S) \in S /\ \A x \in S : Min(S) <= x
  <1>1. PICK x \in S : \A y \in S : <<y, x>> \notin OpToRel(<, Nat)
    BY WFMin, NatLessThanWellFounded
  <1>2. ASSUME NEW y \in S PROVE x <= y
    <2>. SUFFICES ASSUME y < x PROVE FALSE
      OBVIOUS
    <2>1. <<y, x>> \in OpToRel(<, Nat)
      BY DEF OpToRel
    <2>. QED BY <1>1, <2>1
  <1>. QED BY <1>2 DEF Min

\* Induction, over the set of the numbers that have the property.
LEMMA Induction ==
  ASSUME NEW S \in SUBSET Nat, 0 \in S, \A n \in S : n + 1 \in S
  PROVE  S = Nat
  <1>. SUFFICES ASSUME Nat \ S # {} PROVE FALSE
    OBVIOUS
  <1>. DEFINE least == Min(Nat \ S)
  <1>1. least \in Nat \ S /\ \A n \in Nat \ S : least <= n
    BY MinIsLeast
  <1>. HIDE DEF least
  <1>2. least - 1 \in S
    BY <1>1
  <1>. QED BY <1>1, <1>2

LEMMA MaxIsGreatest ==
  ASSUME NEW n \in Nat, NEW S \in SUBSET (1 .. n), S # {}
  PROVE  Max(S) \in S /\ \A x \in S : x <= Max(S)
  <1>. DEFINE T == {n - x : x \in S}
              m == Min(T)
  <1>1. T \in SUBSET Nat /\ T # {}
    <2>1. \A x \in S : n - x \in Nat
      OBVIOUS
    <2>. QED BY <2>1
  <1>2. m \in T /\ \A y \in T : m <= y
    <2>. HIDE DEF T
    <2>. QED BY <1>1, MinIsLeast
  <1>. HIDE DEF m
  <1>3. PICK x \in S : m = n - x
    BY <1>2
  <1>4. \A y \in S : x >= y
    <2>. SUFFICES ASSUME NEW y \in S PROVE x >= y
      OBVIOUS
    <2>1. n - x <= n - y
      BY <1>2, <1>3
    <2>. QED BY <2>1
  <1>. QED BY <1>4 DEF Max

-----------------------------------------------------------------------------
(* The folds over a string                                                 *)

\* A step of the fold of TrimDuplicates, and of that of Slicing.
Step(fold, r, c) ==
    IF fold = "trim"
    THEN IF c = SEP /\ r # <<>> /\ Last(r) = SEP THEN r ELSE Append(r, c)
    ELSE IF c # SEP /\ Len(r.strs[r.pos]) < SliceMax
         THEN [r EXCEPT !.strs[r.pos] = Append(@, c)]
         ELSE [r EXCEPT !.pos = @ + 1]

\* What a fold gives on the characters at the places of a set, for each set.
FoldStep(g, fold, base, s, n) ==
    [x \in SUBSET (1 .. n) |->
       IF x = {} THEN base ELSE Step(fold, g[x \ {Max(x)}], s[Max(x)])]

FoldOn(fold, base, s) ==
    CHOOSE g : g = [x \in SUBSET DOMAIN s |->
                      IF x = {} THEN base ELSE Step(fold, g[x \ {Max(x)}], s[Max(x)])]

LEMMA TrimIsFold ==
  ASSUME NEW s
  PROVE  TrimDuplicates(s) = FoldOn("trim", <<>>, s)[DOMAIN s]
  BY DEF TrimDuplicates, FoldOn, Step, FoldLeft, MapThenFoldSet

LEMMA SlicingIsFold ==
  ASSUME NEW s
  PROVE  Slicing(s) =
           FoldOn("slice", [pos |-> 1, strs |-> [i \in 1 .. Len(s) + 1 |-> <<>>]], s)[DOMAIN s].strs
  BY DEF Slicing, FoldOn, Step, FoldLeft, MapThenFoldSet

\* The function that FoldOn chooses exists: a set whose greatest place is n + 1
\* comes down to one without it.
LEMMA FoldExists ==
  ASSUME NEW fold, NEW base, NEW s, NEW N \in Nat
  PROVE  \E g : g = FoldStep(g, fold, base, s, N)
  <1>. DEFINE S == {n \in Nat : \E g : g = FoldStep(g, fold, base, s, n)}
  <1>1. 0 \in S
    <2>. DEFINE g == [x \in SUBSET (1 .. 0) |-> base]
    <2>1. \A x \in SUBSET (1 .. 0) : x = {}
      OBVIOUS
    <2>2. FoldStep(g, fold, base, s, 0) = [x \in SUBSET (1 .. 0) |-> base]
      BY <2>1 DEF FoldStep
    <2>. QED BY <2>2
  <1>2. ASSUME NEW n \in S PROVE n + 1 \in S
    <2>0. n \in Nat /\ n + 1 \in Nat /\ \A i \in 1 .. n + 1 : i # n + 1 => i \in 1 .. n
      OBVIOUS
    <2>1. PICK g : g = FoldStep(g, fold, base, s, n)
      OBVIOUS
    <2>. DEFINE h == [x \in SUBSET (1 .. n + 1) |->
                        IF n + 1 \in x THEN Step(fold, g[x \ {n + 1}], s[n + 1]) ELSE g[x]]
    <2>2. ASSUME NEW x \in SUBSET (1 .. n + 1)
          PROVE  h[x] = IF x = {} THEN base ELSE Step(fold, h[x \ {Max(x)}], s[Max(x)])
      <3>1. CASE n + 1 \in x
        <4>1. Max(x) = n + 1
          <5>1. Max(x) \in x /\ n + 1 <= Max(x)
            BY <2>0, <3>1, MaxIsGreatest
          <5>2. Max(x) \in 1 .. n + 1
            BY <5>1
          <5>. QED BY <2>0, <5>1, <5>2
        <4>2. h[x \ {n + 1}] = g[x \ {n + 1}]
          OBVIOUS
        <4>. QED BY <3>1, <4>1, <4>2
      <3>2. CASE n + 1 \notin x
        <4>1. x \in SUBSET (1 .. n) /\ x \ {Max(x)} \in SUBSET (1 .. n)
          <5>1. \A i \in x : i \in 1 .. n
            BY <2>0, <3>2
          <5>. QED BY <5>1
        <4>2. h[x] = g[x] /\ h[x \ {Max(x)}] = g[x \ {Max(x)}]
          BY <3>2, <4>1
        <4>3. g[x] = IF x = {} THEN base ELSE Step(fold, g[x \ {Max(x)}], s[Max(x)])
          BY <2>1, <4>1 DEF FoldStep
        <4>. QED BY <4>2, <4>3
      <3>. QED BY <3>1, <3>2
    <2>3. h = FoldStep(h, fold, base, s, n + 1)
      BY <2>2 DEF FoldStep
    <2>. HIDE DEF h
    <2>. QED BY <2>3
  <1>3. S = Nat
    <2>1. S \in SUBSET Nat
      OBVIOUS
    <2>. HIDE DEF S
    <2>. QED BY <1>1, <1>2, <2>1, Induction
  <1>. QED BY <1>3

\* A fold takes the characters from left to right.
LEMMA FoldIs ==
  ASSUME NEW fold, NEW base, NEW n \in Nat, NEW s, DOMAIN s = 1 .. n
  PROVE  /\ FoldOn(fold, base, s)[1 .. 0] = base
         /\ \A k \in 0 .. n - 1 :
              FoldOn(fold, base, s)[1 .. k + 1] =
                Step(fold, FoldOn(fold, base, s)[1 .. k], s[k + 1])
  <1>. DEFINE F == FoldOn(fold, base, s)
  <1>1. F = FoldStep(F, fold, base, s, n)
    <2>1. F = CHOOSE g : g = FoldStep(g, fold, base, s, n)
      BY DEF FoldOn, FoldStep
    <2>. HIDE DEF F
    <2>. QED BY <2>1, FoldExists
  <1>. HIDE DEF F
  <1>2. ASSUME NEW x \in SUBSET (1 .. n)
        PROVE  F[x] = IF x = {} THEN base ELSE Step(fold, F[x \ {Max(x)}], s[Max(x)])
    BY <1>1 DEF FoldStep
  <1>3. F[1 .. 0] = base
    <2>1. 1 .. 0 = {}
      OBVIOUS
    <2>2. {} \in SUBSET (1 .. n)
      OBVIOUS
    <2>. HIDE DEF F
    <2>. QED BY <1>2, <2>1, <2>2
  <1>4. ASSUME NEW k \in 0 .. n - 1
        PROVE  F[1 .. k + 1] = Step(fold, F[1 .. k], s[k + 1])
    <2>1. Max(1 .. k + 1) = k + 1
      <3>. DEFINE K == 1 .. k + 1
      <3>1. k + 1 \in Nat /\ K \in SUBSET (1 .. k + 1) /\ k + 1 \in K
        OBVIOUS
      <3>2. \A i \in K : i \in Nat /\ i <= k + 1
        OBVIOUS
      <3>. HIDE DEF K
      <3>3. Max(K) \in K /\ k + 1 <= Max(K)
        BY <3>1, MaxIsGreatest
      <3>4. Max(K) = k + 1
        <4>1. Max(K) \in Nat /\ Max(K) <= k + 1 /\ k \in Nat
          BY <3>2, <3>3
        <4>. QED BY <4>1, <3>3
      <3>. QED BY <3>4 DEF K
    <2>2. (1 .. k + 1) \ {k + 1} = 1 .. k
      OBVIOUS
    <2>3. 1 .. k + 1 \in SUBSET (1 .. n) /\ 1 .. k + 1 # {}
      <3>1. (\A i \in 1 .. k + 1 : i \in 1 .. n) /\ 1 \in 1 .. k + 1
        OBVIOUS
      <3>. QED BY <3>1
    <2>. QED BY <1>2, <2>1, <2>2, <2>3
  <1>. QED BY <1>3, <1>4 DEF F

\* Strings without duplicate separators are no longer.
LEMMA TrimDuplicatesIs ==
  ASSUME NEW s \in Seq(Char)
  PROVE  TrimDuplicates(s) \in Seq(Char) /\ Len(TrimDuplicates(s)) <= Len(s)
  <1>. DEFINE n == Len(s)
              base == <<>>
              fold == "trim"
              F == FoldOn(fold, base, s)
              Short(k) == F[1 .. k] \in Seq(Char) /\ Len(F[1 .. k]) <= k
              S == {k \in Nat : k <= n => Short(k)}
  <1>1. n \in Nat /\ DOMAIN s = 1 .. n /\ \A i \in 1 .. n : s[i] \in Char
    BY LenProperties, ElementOfSeq
  <1>2. /\ F[1 .. 0] = base
        /\ \A k \in 0 .. n - 1 : F[1 .. k + 1] = Step(fold, F[1 .. k], s[k + 1])
    <2>. HIDE DEF n, base, fold
    <2>. QED BY <1>1, FoldIs
  <1>3. TrimDuplicates(s) = F[1 .. n]
    BY <1>1, TrimIsFold
  <1>4. Short(0)
    <2>1. base \in Seq(Char) /\ Len(base) = 0
      OBVIOUS
    <2>. HIDE DEF base, F
    <2>. QED BY <1>2, <2>1
  <1>. HIDE DEF n, F
  <1>5. ASSUME NEW k \in Nat, k + 1 <= n, Short(k) PROVE Short(k + 1)
    <2>1. k \in 0 .. n - 1 /\ k + 1 \in 1 .. n
      BY <1>1, <1>5
    <2>. DEFINE kept == F[1 .. k]
                next == F[1 .. k + 1]
                c == s[k + 1]
    <2>2. kept \in Seq(Char) /\ Len(kept) <= k /\ c \in Char
      BY <2>1, <1>1, <1>5
    <2>3. next = kept \/ next = Append(kept, c)
      BY <1>2, <2>1 DEF Step
    <2>. HIDE DEF kept, next, c
    <2>4. Append(kept, c) \in Seq(Char) /\ Len(Append(kept, c)) = Len(kept) + 1
          /\ Len(kept) \in Nat
      BY <2>2
    <2>5. next \in Seq(Char) /\ Len(next) <= k + 1
      BY <2>2, <2>3, <2>4
    <2>. QED BY <2>5 DEF next
  <1>. HIDE DEF Short
  <1>6. S = Nat
    <2>1. S \in SUBSET Nat /\ 0 \in S
      BY <1>4
    <2>2. ASSUME NEW k \in S PROVE k + 1 \in S
      BY <1>1, <1>5
    <2>. HIDE DEF S
    <2>. QED BY <2>1, <2>2, Induction
  <1>7. Short(n)
    BY <1>1, <1>6
  <1>. QED BY <1>1, <1>3, <1>7 DEF n, Short

\* How many places up to a place are in a set.
LEMMA CountUpTo ==
  ASSUME NEW T, NEW k \in Nat
  PROVE  LET C(m) == Cardinality({i \in 1 .. m : i \in T})
         IN  C(0) = 0 /\ C(k) \in Nat /\ C(k) <= k
             /\ C(k + 1) = IF k + 1 \in T THEN C(k) + 1 ELSE C(k)
  <1>. DEFINE D(m) == {i \in 1 .. m : i \in T}
  <1>1. D(0) = {} /\ Cardinality({}) = 0
    BY FS_EmptySet
  <1>2. IsFiniteSet(D(k)) /\ Cardinality(D(k)) \in Nat /\ Cardinality(D(k)) <= k
    <2>1. IsFiniteSet(1 .. k) /\ Cardinality(1 .. k) = k /\ D(k) \subseteq 1 .. k
      BY FS_Interval
    <2>2. IsFiniteSet(D(k)) /\ Cardinality(D(k)) <= k
      BY <2>1, FS_Subset
    <2>. QED BY <2>2, FS_CardinalityType
  <1>3. D(k + 1) = IF k + 1 \in T THEN D(k) \cup {k + 1} ELSE D(k)
    OBVIOUS
  <1>4. k + 1 \notin D(k)
    OBVIOUS
  <1>. HIDE DEF D
  <1>5. Cardinality(D(k) \cup {k + 1}) = Cardinality(D(k)) + 1
    BY <1>2, <1>4, FS_AddElement
  <1>6. Cardinality(D(k + 1)) = IF k + 1 \in T THEN Cardinality(D(k)) + 1 ELSE Cardinality(D(k))
    BY <1>3, <1>5
  <1>. QED BY <1>1, <1>2, <1>6 DEF D

\* The separators up to a place.
Seps(s, k) == {i \in 1 .. k : s[i] = SEP}

LEMMA SepsAre ==
  ASSUME NEW s, NEW k \in Nat
  PROVE  /\ Cardinality(Seps(s, 0)) = 0
         /\ Cardinality(Seps(s, k)) \in Nat /\ Cardinality(Seps(s, k)) <= k
         /\ Cardinality(Seps(s, k + 1)) =
              IF s[k + 1] = SEP THEN Cardinality(Seps(s, k)) + 1 ELSE Cardinality(Seps(s, k))
  <1>. DEFINE T == {i \in Nat : s[i] = SEP}
  <1>1. ASSUME NEW m \in Nat
        PROVE  {i \in 1 .. m : s[i] = SEP} = {i \in 1 .. m : i \in T}
    OBVIOUS
  <1>2. k + 1 \in Nat /\ 0 \in Nat /\ (k + 1 \in T <=> s[k + 1] = SEP)
    OBVIOUS
  <1>. HIDE DEF T
  <1>. DEFINE C(m) == Cardinality({i \in 1 .. m : i \in T})
  <1>3. C(0) = 0 /\ C(k) \in Nat /\ C(k) <= k
        /\ C(k + 1) = IF k + 1 \in T THEN C(k) + 1 ELSE C(k)
    BY CountUpTo
  <1>4. Cardinality(Seps(s, 0)) = C(0) /\ Cardinality(Seps(s, k)) = C(k)
        /\ Cardinality(Seps(s, k + 1)) = C(k + 1)
    BY <1>1, <1>2 DEF Seps
  <1>. HIDE DEF C
  <1>. QED BY <1>2, <1>3, <1>4

\* The strings when the characters up to a place are in them, and which of them
\* the next character is for.
SlicingFold(s) ==
    FoldOn("slice", [pos |-> 1, strs |-> [i \in 1 .. Len(s) + 1 |-> <<>>]], s)

StringAt(s, k) == 1 + Cardinality(Seps(s, k))

SlicedUpTo(s, k) ==
    LET r == SlicingFold(s)[1 .. k] IN
      /\ r \in [pos : {StringAt(s, k)},
                strs : [1 .. Len(s) + 1 -> {q \in Seq(Char) : Len(q) <= k}]]
      /\ \A j \in 1 .. Len(s) + 1 : j > StringAt(s, k) => r.strs[j] = <<>>

LEMMA StringAtIs ==
  ASSUME NEW s, NEW k \in Nat
  PROVE  /\ StringAt(s, 0) = 1
         /\ StringAt(s, k) \in Nat /\ StringAt(s, k) >= 1 /\ StringAt(s, k) <= k + 1
         /\ StringAt(s, k + 1) = IF s[k + 1] = SEP THEN StringAt(s, k) + 1 ELSE StringAt(s, k)
  <1>. DEFINE C(m) == Cardinality(Seps(s, m))
  <1>1. /\ C(0) = 0 /\ C(k) \in Nat /\ C(k) <= k
        /\ C(k + 1) = IF s[k + 1] = SEP THEN C(k) + 1 ELSE C(k)
    BY SepsAre
  <1>2. StringAt(s, 0) = 1 + C(0) /\ StringAt(s, k) = 1 + C(k) /\ StringAt(s, k + 1) = 1 + C(k + 1)
    BY DEF StringAt
  <1>. HIDE DEF C
  <1>. QED BY <1>1, <1>2

\* Slicing a string that fits one of its strings, whole, starts a new string at
\* separators only.
LEMMA SlicingIs ==
  ASSUME NEW s \in Seq(Char), Len(s) <= SliceMax
  PROVE  /\ \A k \in 0 .. Len(s) : SlicedUpTo(s, k)
         /\ \A k \in 0 .. Len(s) - 1 :
              SlicingFold(s)[1 .. k + 1] = Step("slice", SlicingFold(s)[1 .. k], s[k + 1])
         /\ Slicing(s) = SlicingFold(s)[1 .. Len(s)].strs
         /\ StringCount(s) = StringAt(s, Len(s))
  <1>. DEFINE n == Len(s)
              base == [pos |-> 1, strs |-> [i \in 1 .. n + 1 |-> <<>>]]
              F == SlicingFold(s)
              At(k) == StringAt(s, k)
              Strs(k) == [1 .. n + 1 -> {q \in Seq(Char) : Len(q) <= k}]
              Inv(k) == /\ F[1 .. k] \in [pos : {At(k)}, strs : Strs(k)]
                        /\ \A j \in 1 .. n + 1 : j > At(k) => F[1 .. k].strs[j] = <<>>
              S == {k \in Nat : k <= n => Inv(k)}
  <1>1. n \in Nat /\ DOMAIN s = 1 .. n /\ (\A i \in 1 .. n : s[i] \in Char)
        /\ SliceMax \in Nat /\ n <= SliceMax
    BY LenProperties, ElementOfSeq, SlicedStringsAssumption
  <1>2. /\ F[1 .. 0] = base
        /\ \A k \in 0 .. n - 1 : F[1 .. k + 1] = Step("slice", F[1 .. k], s[k + 1])
    <2>. DEFINE G == FoldOn("slice", base, s)
    <2>1. F = G
      BY DEF SlicingFold
    <2>. HIDE DEF n, base, F
    <2>2. /\ G[1 .. 0] = base
          /\ \A k \in 0 .. n - 1 : G[1 .. k + 1] = Step("slice", G[1 .. k], s[k + 1])
      BY <1>1, FoldIs
    <2>. HIDE DEF G
    <2>. QED BY <2>1, <2>2
  <1>3. Slicing(s) = F[1 .. n].strs
    BY <1>1, SlicingIsFold DEF SlicingFold
  <1>4. StringCount(s) = At(n)
    BY <1>1 DEF StringCount, Seps, StringAt
  <1>5. \A k \in Nat : /\ At(0) = 1
                       /\ At(k) \in Nat /\ At(k) >= 1 /\ At(k) <= k + 1
                       /\ At(k + 1) = IF s[k + 1] = SEP THEN At(k) + 1 ELSE At(k)
    BY StringAtIs
  <1>. HIDE DEF n, F, At
  <1>6. Inv(0)
    <2>1. base \in [pos : {At(0)}, strs : Strs(0)]
      <3>1. <<>> \in {q \in Seq(Char) : Len(q) <= 0}
        OBVIOUS
      <3>2. [i \in 1 .. n + 1 |-> <<>>] \in Strs(0)
        BY <3>1
      <3>. QED BY <1>5, <3>2
    <2>2. \A j \in 1 .. n + 1 : base.strs[j] = <<>>
      OBVIOUS
    <2>. HIDE DEF base
    <2>. QED BY <1>2, <2>1, <2>2
  <1>7. ASSUME NEW k \in Nat, k + 1 <= n, Inv(k) PROVE Inv(k + 1)
    <2>. DEFINE r == F[1 .. k]
                c == s[k + 1]
                next == F[1 .. k + 1]
    <2>1. k \in 0 .. n - 1 /\ k < n /\ c \in Char
      <3>1. k \in 0 .. n - 1 /\ k + 1 \in 1 .. n /\ k < n
        BY <1>1, <1>7
      <3>. QED BY <3>1, <1>1
    <2>2. next = Step("slice", r, c)
      BY <1>2, <2>1
    <2>3. /\ r = [pos |-> r.pos, strs |-> r.strs] /\ r.pos = At(k) /\ r.strs \in Strs(k)
          /\ \A j \in 1 .. n + 1 : j > At(k) => r.strs[j] = <<>>
      BY <1>7
    <2>. HIDE DEF r, c, next
    <2>4. At(k) \in 1 .. n + 1
      <3>1. At(k) \in Nat /\ At(k) >= 1 /\ At(k) <= k + 1
        BY <1>5
      <3>. QED BY <3>1, <1>1, <2>1
    <2>5. \A j \in 1 .. n + 1 : r.strs[j] \in Seq(Char) /\ Len(r.strs[j]) \in Nat
                                /\ Len(r.strs[j]) <= k
      <3>. SUFFICES ASSUME NEW j \in 1 .. n + 1
                    PROVE  r.strs[j] \in Seq(Char) /\ Len(r.strs[j]) \in Nat
                           /\ Len(r.strs[j]) <= k
        OBVIOUS
      <3>. DEFINE q == r.strs[j]
      <3>1. q \in Seq(Char) /\ Len(q) <= k
        BY <2>3
      <3>. HIDE DEF q
      <3>2. Len(q) \in Nat
        BY <3>1
      <3>. QED BY <3>1, <3>2 DEF q
    <2>6. CASE c = SEP
      <3>1. next = [pos |-> At(k) + 1, strs |-> r.strs]
        BY <2>2, <2>3, <2>6 DEF Step
      <3>2. r.strs \in Strs(k + 1)
        BY <2>1, <2>3, <2>5
      <3>3. At(k + 1) = At(k) + 1 /\ At(k) \in Nat
        BY <1>5, <2>1, <2>6 DEF c
      <3>. QED BY <2>3, <3>1, <3>2, <3>3 DEF next
    <2>7. CASE c # SEP
      <3>1. Len(r.strs[At(k)]) < SliceMax
        BY <1>1, <2>1, <2>4, <2>5
      <3>. DEFINE strs == [r.strs EXCEPT ![At(k)] = Append(@, c)]
      <3>2. next = [pos |-> At(k), strs |-> strs]
        BY <2>2, <2>3, <2>7, <3>1 DEF Step
      <3>3. strs \in Strs(k + 1)
        <4>1. ASSUME NEW j \in 1 .. n + 1
              PROVE  strs[j] \in {q \in Seq(Char) : Len(q) <= k + 1}
          <5>1. CASE j = At(k)
            <6>. DEFINE q == r.strs[j]
            <6>1. strs[j] = Append(q, c) /\ q \in Seq(Char) /\ Len(q) \in Nat /\ Len(q) <= k
              BY <5>1, <2>3, <2>5
            <6>. HIDE DEF q, strs
            <6>2. Append(q, c) \in Seq(Char) /\ Len(Append(q, c)) = Len(q) + 1
              BY <6>1, <2>1
            <6>. QED BY <6>1, <6>2, <2>1
          <5>2. CASE j # At(k)
            BY <5>2, <2>1, <2>3, <2>5
          <5>. QED BY <5>1, <5>2
        <4>2. DOMAIN strs = 1 .. n + 1 /\ strs = [j \in 1 .. n + 1 |-> strs[j]]
          BY <2>3
        <4>. HIDE DEF strs
        <4>. QED BY <4>1, <4>2
      <3>4. \A j \in 1 .. n + 1 : j > At(k) => strs[j] = <<>>
        BY <1>5, <2>1, <2>3
      <3>5. At(k + 1) = At(k)
        BY <1>5, <2>1, <2>7 DEF c
      <3>. HIDE DEF strs
      <3>. QED BY <3>2, <3>3, <3>4, <3>5 DEF next
    <2>. QED BY <2>6, <2>7
  <1>. HIDE DEF Inv
  <1>8. S = Nat
    <2>1. S \in SUBSET Nat /\ 0 \in S
      BY <1>6
    <2>2. ASSUME NEW k \in S PROVE k + 1 \in S
      BY <1>1, <1>7
    <2>. HIDE DEF S
    <2>. QED BY <2>1, <2>2, Induction
  <1>9. ASSUME NEW k \in 0 .. n PROVE SlicedUpTo(s, k)
    <2>1. k \in S /\ k <= n
      <3>. HIDE DEF S
      <3>. QED BY <1>1, <1>8
    <2>2. Inv(k)
      BY <2>1
    <2>. QED BY <2>2 DEF SlicedUpTo, n, F, At, Inv
  <1>. QED BY <1>2, <1>3, <1>4, <1>9 DEF n, F, At

\* The strings that were allocated are as many as that takes.
LEMMA ShortFits ==
  ASSUME NEW s \in Seq(Char), Len(s) <= SliceMax
  PROVE  SliceFits(s)
  <1>. DEFINE n == Len(s)
  <1>1. n \in Nat /\ n \in 0 .. n /\ StringCount(s) = StringAt(s, n) /\ StringAt(s, n) \in Nat
    BY SlicingIs, StringAtIs
  <1>2. Slicing(s) = SlicingFold(s)[1 .. n].strs /\ SlicedUpTo(s, n)
    BY <1>1, SlicingIs
  <1>. HIDE DEF n
  <1>3. \A i \in StringCount(s) + 1 .. n + 1 : i \in 1 .. n + 1 /\ i > StringAt(s, n)
    BY <1>1
  <1>. QED BY <1>2, <1>3 DEF SliceFits, SlicedUpTo, n

-----------------------------------------------------------------------------
(* The reading and the trimming of a line                                  *)

\* What fgets takes: something, no more than there is room for, and the line
\* with its newline when that fits.
LEMMA PieceIs ==
  ASSUME NEW s \in Seq(Char), s # <<>>
  PROVE  /\ PieceLen(s) \in 1 .. Len(s) /\ PieceLen(s) <= MaxLine
         /\ SelectInSeq(s, IsNL) \in 1 .. MaxLine =>
              PieceLen(s) = SelectInSeq(s, IsNL) /\ s[PieceLen(s)] = NL
  <1>. DEFINE places == {i \in 1 .. Len(s) : s[i] = NL}
              end == SelectInSeq(s, IsNL)
  <1>1. end = IF places # {} THEN Min(places) ELSE 0
    BY DEF SelectInSeq, IsNL
  <1>2. Len(s) \in Nat /\ Len(s) >= 1 /\ MaxLine \in Nat /\ MaxLine >= 1
    BY SlicedStringsAssumption
  <1>3. places \in SUBSET Nat
    OBVIOUS
  <1>4. places # {} => end \in places
    <2>. HIDE DEF places, end
    <2>. QED BY <1>1, <1>3, MinIsLeast
  <1>5. PieceLen(s) = IF end \in 1 .. MaxLine THEN end
                      ELSE IF Len(s) < MaxLine THEN Len(s) ELSE MaxLine
    BY DEF PieceLen
  <1>. HIDE DEF end
  <1>6. end \in 1 .. MaxLine => end \in 1 .. Len(s) /\ s[end] = NL
    BY <1>1, <1>4
  <1>7. PieceLen(s) \in 1 .. Len(s) /\ PieceLen(s) <= MaxLine
    <2>1. CASE end \in 1 .. MaxLine
      BY <1>2, <1>5, <1>6, <2>1
    <2>2. CASE end \notin 1 .. MaxLine
      BY <1>2, <1>5, <2>2
    <2>. QED BY <2>1, <2>2
  <1>. QED BY <1>5, <1>6, <1>7 DEF end

LEMMA ChompedIs ==
  ASSUME NEW piece \in Seq(Char), Len(piece) >= 1
  PROVE  Chomped(piece) \in Seq(Char) /\ Len(Chomped(piece)) <= Len(piece)
  <1>. DEFINE m == Len(piece) - 1
              front == SubSeq(piece, 1, m)
  <1>1. Len(piece) \in Nat /\ m \in Nat /\ m + 1 = Len(piece)
    OBVIOUS
  <1>2. front \in Seq(Char) /\ Len(front) = IF 1 <= m THEN m - 1 + 1 ELSE 0
    <2>1. \A i \in 1 .. m : piece[i] \in Char
      BY <1>1
    <2>. HIDE DEF m
    <2>. QED BY <1>1, <2>1, SubSeqProperties
  <1>3. Chomped(piece) = piece \/ Chomped(piece) = front
    BY DEF Chomped, Front
  <1>. HIDE DEF m, front
  <1>4. Len(front) <= Len(piece)
    <2>1. m - 1 + 1 = m /\ m <= Len(piece) /\ 0 <= Len(piece)
      BY <1>1
    <2>. QED BY <1>2, <2>1
  <1>. QED BY <1>1, <1>2, <1>3, <1>4

LEMMA TrimWhitespaceIs ==
  ASSUME NEW s \in Seq(Char)
  PROVE  TrimWhitespace(s) \in Seq(Char) /\ Len(TrimWhitespace(s)) <= Len(s)
  <1>. DEFINE places == {i \in 1 .. Len(s) : s[i] # SEP}
              first == SelectInSeq(s, IsOfWord)
              last == SelectLastInSeq(s, IsOfWord)
  <1>0. Len(s) \in Nat
    OBVIOUS
  <1>1. CASE places = {}
    <2>1. TrimWhitespace(s) = <<>>
      BY <1>1 DEF TrimWhitespace
    <2>. QED BY <2>1, <1>0
  <1>2. CASE places # {}
    <2>1. first = Min(places)
      BY <1>2 DEF SelectInSeq, IsOfWord
    <2>2. last = Max(places)
      BY <1>2 DEF SelectLastInSeq, IsOfWord
    <2>3. TrimWhitespace(s) = SubSeq(s, first, last)
      BY <1>2 DEF TrimWhitespace
    <2>4. places \in SUBSET Nat /\ places \in SUBSET (1 .. Len(s))
      OBVIOUS
    <2>5. first \in places /\ last \in places /\ first <= last
      <3>. HIDE DEF places, first, last
      <3>. QED BY <1>0, <1>2, <2>1, <2>2, <2>4, MinIsLeast, MaxIsGreatest
    <2>6. first \in 1 .. Len(s) /\ last \in 1 .. Len(s)
      <3>. HIDE DEF first, last
      <3>. QED BY <2>5
    <2>. HIDE DEF first, last, places
    <2>7. /\ SubSeq(s, first, last) \in Seq(Char)
          /\ Len(SubSeq(s, first, last)) = last - first + 1
      <3>1. first \in 1 .. Len(s) + 1 /\ last \in first - 1 .. Len(s)
        BY <1>0, <2>5, <2>6
      <3>. QED BY <3>1, SubSeqProperties
    <2>. QED BY <1>0, <2>3, <2>5, <2>6, <2>7
  <1>. QED BY <1>1, <1>2

-----------------------------------------------------------------------------
\* The inductive invariant: the line in hand, trimmed or not, is no longer than
\* what is read at once.
LineFits ==
    /\ stdin \in Seq(Char)
    /\ pc \in {"trim", "slice", "cut"} => text \in Seq(Char) /\ Len(text) <= MaxLine
    /\ SlicesInBounds

LEMMA LineFitsInit == Init => LineFits
  <1>. SUFFICES ASSUME Init PROVE LineFits
    OBVIOUS
  <1>1. PICK n \in 0 .. MaxInput : stdin \in [1 .. n -> Char]
    BY DEF Init, BoundedSeq, SeqOf
  <1>2. n \in Nat
    BY CommandLineAssumption
  <1>3. stdin \in Seq(Char)
    BY <1>1, <1>2, IsASeq
  <1>. QED BY <1>3 DEF Init, LineFits, SlicesInBounds

\* A step that reads a line.
LEMMA ReadLineIs ==
  ASSUME LineFits, ReadLine
  PROVE  /\ stdin' \in Seq(Char)
         /\ text' \in Seq(Char) /\ Len(text') <= MaxLine
         /\ SelectInSeq(stdin, IsNL) \in 1 .. MaxLine =>
              LET end == SelectInSeq(stdin, IsNL)
              IN  line' = SubSeq(stdin, 1, end - 1) /\ stdin' = SubSeq(stdin, end + 1, Len(stdin))
  <1>. DEFINE n == PieceLen(stdin)
              piece == SubSeq(stdin, 1, n)
              end == SelectInSeq(stdin, IsNL)
  <1>0. /\ stdin \in Seq(Char) /\ stdin # <<>> /\ Len(stdin) \in Nat
        /\ stdin' = SubSeq(stdin, n + 1, Len(stdin))
        /\ text' = Chomped(piece) /\ line' = text'
    BY DEF LineFits, ReadLine
  <1>1. /\ n \in 1 .. Len(stdin) /\ n <= MaxLine
        /\ end \in 1 .. MaxLine => n = end /\ stdin[n] = NL
    BY <1>0, PieceIs
  <1>. HIDE DEF n, end
  <1>2. stdin' \in Seq(Char)
    <2>1. n + 1 \in 1 .. Len(stdin) + 1 /\ Len(stdin) \in (n + 1) - 1 .. Len(stdin)
      BY <1>0, <1>1
    <2>. QED BY <1>0, <2>1, SubSeqProperties
  <1>3. piece \in Seq(Char) /\ Len(piece) = n /\ \A i \in 1 .. n : piece[i] = stdin[i]
    <2>1. 1 \in 1 .. Len(stdin) + 1 /\ n \in 1 - 1 .. Len(stdin)
      BY <1>0, <1>1
    <2>2. /\ piece \in Seq(Char) /\ Len(piece) = n - 1 + 1
          /\ \A i \in 1 .. n - 1 + 1 : piece[i] = stdin[1 + i - 1]
      BY <1>0, <2>1, SubSeqProperties
    <2>. HIDE DEF piece
    <2>. QED BY <1>1, <2>2
  <1>4. text' \in Seq(Char) /\ Len(text') <= MaxLine
    <2>. HIDE DEF piece
    <2>1. Chomped(piece) \in Seq(Char) /\ Len(Chomped(piece)) <= Len(piece)
      BY <1>1, <1>3, ChompedIs
    <2>2. Len(Chomped(piece)) \in Nat /\ MaxLine \in Nat
      BY <2>1, SlicedStringsAssumption
    <2>. QED BY <1>0, <1>1, <1>3, <2>1, <2>2
  <1>5. ASSUME end \in 1 .. MaxLine
        PROVE  line' = SubSeq(stdin, 1, end - 1) /\ stdin' = SubSeq(stdin, end + 1, Len(stdin))
    <2>1. end = n /\ Last(piece) = NL
      <3>. HIDE DEF piece
      <3>. QED BY <1>1, <1>3, <1>5 DEF Last
    <2>2. line' = SubSeq(piece, 1, n - 1)
      <3>. HIDE DEF piece
      <3>. QED BY <1>0, <1>3, <2>1 DEF Chomped, Front
    <2>3. SubSeq(piece, 1, n - 1) = SubSeq(stdin, 1, n - 1)
      <3>. HIDE DEF piece
      <3>. DEFINE a == SubSeq(piece, 1, n - 1)
                  b == SubSeq(stdin, 1, n - 1)
      <3>1. n - 1 \in Nat /\ n - 1 \in 0 .. Len(stdin) /\ n - 1 \in 0 .. Len(piece)
        BY <1>0, <1>1, <1>3
      <3>2. a \in Seq(Char) /\ Len(a) = n - 1 /\ \A i \in 1 .. n - 1 : a[i] = piece[i]
        BY <1>3, <3>1, SubSeqProperties
      <3>3. b \in Seq(Char) /\ Len(b) = n - 1 /\ \A i \in 1 .. n - 1 : b[i] = stdin[i]
        BY <1>0, <3>1, SubSeqProperties
      <3>4. \A i \in 1 .. n - 1 : a[i] = b[i]
        <4>. HIDE DEF a, b
        <4>. QED BY <1>1, <1>3, <3>2, <3>3
      <3>. HIDE DEF a, b
      <3>5. a = b
        BY <3>2, <3>3, <3>4, SeqEqual
      <3>. QED BY <3>5 DEF a, b
    <2>. QED BY <1>0, <2>1, <2>2, <2>3
  <1>. QED BY <1>2, <1>4, <1>5 DEF end

LEMMA LineFitsNext == LineFits /\ [Next]_vars => LineFits'
  <1>. SUFFICES ASSUME LineFits, [Next]_vars  PROVE LineFits'
    OBVIOUS
  <1>0. ASSUME stdin' = stdin, pc' \notin {"trim", "slice", "cut"},
               misuse' = misuse \/ misuse' = misuse \cup {"free"}
        PROVE  LineFits'
    BY <1>0 DEF LineFits, SlicesInBounds
  <1>1. CASE UNCHANGED vars
    BY <1>1 DEF vars, LineFits, SlicesInBounds
  <1>2. CASE ReadLine
    <2>1. misuse' = misuse \/ misuse' = misuse \cup {"free"}
      BY <1>2 DEF ReadLine, Memory
    <2>2. pc' = "trim"
      BY <1>2 DEF ReadLine
    <2>. QED BY <1>2, <2>1, <2>2, ReadLineIs DEF LineFits, SlicesInBounds
  <1>3. CASE ReadLineFails \/ Ended
    BY <1>3 DEF ReadLineFails, Ended, vars, LineFits, SlicesInBounds
  <1>4. CASE ReadLineCrashes \/ SliceCrashes
    BY <1>0, <1>4 DEF ReadLineCrashes, SliceCrashes, Crash
  <1>5. CASE TrimLine
    <2>1. text \in Seq(Char) /\ Len(text) <= MaxLine /\ text' = TrimWhitespace(text)
          /\ stdin' = stdin
      BY <1>5 DEF TrimLine, LineFits
    <2>2. text' \in Seq(Char) /\ Len(text') <= Len(text)
      BY <2>1, TrimWhitespaceIs
    <2>3. Len(text') <= MaxLine
      <3>1. Len(text) \in Nat /\ Len(text') \in Nat /\ MaxLine \in Nat
        BY <2>1, <2>2, SlicedStringsAssumption
      <3>. QED BY <3>1, <2>1, <2>2
    <2>4. misuse' = misuse \/ misuse' = misuse \cup {"free"}
      BY <1>5 DEF TrimLine, Memory
    <2>. QED BY <2>1, <2>2, <2>3, <2>4 DEF LineFits, SlicesInBounds
  <1>6. CASE TrimLineFails \/ CopyLineFails \/ SliceFails
    BY <1>0, <1>6 DEF TrimLineFails, CopyLineFails, SliceFails, Memory, Continue
  <1>10. CASE CopyLine
    <2>1. text \in Seq(Char) /\ Len(text) <= MaxLine /\ text' = TrimDuplicates(text)
          /\ stdin' = stdin
      BY <1>10 DEF CopyLine, LineFits
    <2>2. text' \in Seq(Char) /\ Len(text') <= Len(text)
      BY <2>1, TrimDuplicatesIs
    <2>3. Len(text') <= MaxLine
      <3>1. Len(text) \in Nat /\ Len(text') \in Nat /\ MaxLine \in Nat
        BY <2>1, <2>2, SlicedStringsAssumption
      <3>. QED BY <3>1, <2>1, <2>2
    <2>4. misuse' = misuse \/ misuse' = misuse \cup {"free"}
      BY <1>10 DEF CopyLine, Memory
    <2>. QED BY <2>1, <2>2, <2>3, <2>4 DEF LineFits, SlicesInBounds
  <1>7. CASE SliceLine
    <2>1. text \in Seq(Char) /\ Len(text) <= MaxLine
      BY <1>7 DEF SliceLine, LineFits
    <2>2. Len(text) <= SliceMax
      <3>1. Len(text) \in Nat /\ MaxLine \in Nat /\ SliceMax \in Nat /\ MaxLine <= SliceMax
        BY <2>1, SlicedStringsAssumption, CommandLineAssumption
      <3>. QED BY <3>1, <2>1
    <2>3. SliceFits(text)
      BY <2>1, <2>2, ShortFits
    <2>. QED BY <2>3, <1>7 DEF SliceLine, LineFits, SlicesInBounds
  <1>8. CASE ObeyPause \/ JoinName \/ LoadAudio \/ LoadFails \/ InvalidCommand
    BY <1>0, <1>8 DEF ObeyPause, JoinName, LoadAudio, LoadFails, InvalidCommand, EndRound,
                      Memory, Continue
  <1>9. CASE ObeyQuit
    BY <1>0, <1>9 DEF ObeyQuit, Memory
  <1>. QED BY <1>1, <1>2, <1>3, <1>4, <1>5, <1>6, <1>7, <1>8, <1>9, <1>10 DEF Next

LEMMA LineAlwaysFits == Spec => []LineFits
  BY LineFitsInit, LineFitsNext, PTL DEF Spec

\* Whatever is typed, of any length, no character is written outside the strings
\* that were allocated for the words of the line (SlicesInBounds).
THEOREM NothingOverruns == Spec => []SlicesInBounds
  <1>1. LineFits => SlicesInBounds
    BY DEF LineFits
  <1>. QED BY <1>1, LineAlwaysFits, PTL

\* A line that fits is read whole and alone (ReadsWholeLines).
THEOREM WholeLinesRead == Spec => ReadsWholeLines
  <1>1. LineFits /\ [Next]_vars =>
          [LET end == SelectInSeq(stdin, IsNL) IN
             pc = "read" /\ pc' = "trim" /\ end \in 1 .. MaxLine =>
               /\ line' = SubSeq(stdin, 1, end - 1)
               /\ stdin' = SubSeq(stdin, end + 1, Len(stdin))]_vars
    <2>. SUFFICES ASSUME LineFits, Next, pc = "read", pc' = "trim",
                         SelectInSeq(stdin, IsNL) \in 1 .. MaxLine
                  PROVE  LET end == SelectInSeq(stdin, IsNL)
                         IN  /\ line' = SubSeq(stdin, 1, end - 1)
                             /\ stdin' = SubSeq(stdin, end + 1, Len(stdin))
      OBVIOUS
    <2>1. ReadLine
      BY DEF Next, ReadLineFails, ReadLineCrashes, Crash, TrimLine, TrimLineFails, CopyLine,
             CopyLineFails, SliceLine, SliceFails, SliceCrashes, ObeyPause, JoinName, LoadAudio,
             LoadFails, ObeyQuit, InvalidCommand, Command, Ended, vars
    <2>. QED BY <2>1, ReadLineIs
  <1>. QED BY <1>1, LineAlwaysFits, PTL DEF Spec, ReadsWholeLines

-----------------------------------------------------------------------------
(* The words of a line, as its characters are appended                     *)

LEMMA NumberIs ==
  ASSUME NEW s, NEW k \in Nat
  PROVE  /\ WordNumber(s, 0) = 0 /\ WordNumber(s, k) \in Nat
         /\ WordNumber(s, k + 1) =
              IF Begins(s, k + 1) THEN WordNumber(s, k) + 1 ELSE WordNumber(s, k)
  <1>. DEFINE T == {i \in Nat : Begins(s, i)}
  <1>1. ASSUME NEW m \in Nat
        PROVE  {j \in 1 .. m : Begins(s, j)} = {i \in 1 .. m : i \in T}
    OBVIOUS
  <1>2. k + 1 \in Nat /\ 0 \in Nat /\ (k + 1 \in T <=> Begins(s, k + 1))
    OBVIOUS
  <1>. HIDE DEF T
  <1>. QED BY <1>1, <1>2, CountUpTo DEF WordNumber

\* No place is in a later word than the last one is, and every word has a place.
LEMMA NumbersAre ==
  ASSUME NEW s \in Seq(Char)
  PROVE  /\ \A k \in 0 .. Len(s) : WordNumber(s, k) \in Nat
                                   /\ WordNumber(s, k) <= WordNumber(s, Len(s))
         /\ \A n \in 1 .. WordNumber(s, Len(s)) : PlacesOf(s, n) # {}
  <1>. DEFINE m == Len(s)
              Num(k) == WordNumber(s, k)
              S == {k \in Nat : k <= m => /\ \A j \in 0 .. k : Num(j) \in Nat /\ Num(j) <= Num(k)
                                          /\ \A n \in 1 .. Num(k) : PlacesOf(s, n) # {}}
  <1>0. m \in Nat
    OBVIOUS
  <1>1. \A k \in Nat : /\ Num(0) = 0 /\ Num(k) \in Nat
                       /\ Num(k + 1) = IF Begins(s, k + 1) THEN Num(k) + 1 ELSE Num(k)
    BY NumberIs
  <1>3. \A n : PlacesOf(s, n) = {i \in 1 .. m : s[i] # SEP /\ Num(i) = n}
    BY DEF PlacesOf
  <1>. HIDE DEF m, Num
  <1>4. 0 \in S
    <2>1. Num(0) = 0 /\ \A j \in 0 .. 0 : j = 0
      BY <1>1
    <2>2. \A j \in 0 .. 0 : Num(j) \in Nat /\ Num(j) <= Num(0)
      BY <2>1
    <2>3. \A n \in 1 .. Num(0) : PlacesOf(s, n) # {}
      BY <2>1
    <2>. QED BY <2>2, <2>3
  <1>5. ASSUME NEW k \in S PROVE k + 1 \in S
    <2>. SUFFICES ASSUME k + 1 <= m
                  PROVE  /\ \A j \in 0 .. k + 1 : Num(j) \in Nat /\ Num(j) <= Num(k + 1)
                         /\ \A n \in 1 .. Num(k + 1) : PlacesOf(s, n) # {}
      OBVIOUS
    <2>1. k \in Nat /\ k <= m /\ k + 1 \in 1 .. m
      BY <1>0
    <2>2. Num(k) \in Nat /\ Num(k + 1) \in Nat
          /\ Num(k + 1) = IF Begins(s, k + 1) THEN Num(k) + 1 ELSE Num(k)
      BY <1>1, <2>1
    <2>3. \A j \in 0 .. k + 1 : j \in 0 .. k \/ j = k + 1
      BY <2>1
    <2>4. Begins(s, k + 1) => k + 1 \in PlacesOf(s, Num(k + 1))
      BY <1>3, <2>1 DEF Begins
    <2>5. \A n \in 1 .. Num(k + 1) : n \in 1 .. Num(k) \/ (n = Num(k + 1) /\ Begins(s, k + 1))
      BY <2>2
    <2>6. /\ \A j \in 0 .. k : Num(j) \in Nat /\ Num(j) <= Num(k)
          /\ \A n \in 1 .. Num(k) : PlacesOf(s, n) # {}
      BY <2>1
    <2>. HIDE DEF S
    <2>7. ASSUME NEW j \in 0 .. k + 1 PROVE Num(j) \in Nat /\ Num(j) <= Num(k + 1)
      BY <2>2, <2>3, <2>6
    <2>8. \A n \in 1 .. Num(k + 1) : PlacesOf(s, n) # {}
      BY <2>4, <2>5, <2>6
    <2>. QED BY <2>7, <2>8
  <1>6. S = Nat
    <2>1. S \in SUBSET Nat
      OBVIOUS
    <2>. HIDE DEF S
    <2>. QED BY <1>4, <1>5, <2>1, Induction
  <1>. QED BY <1>0, <1>6 DEF m, Num

\* What a further character changes.
LEMMA PlacesWithOneMore ==
  ASSUME NEW s \in Seq(Char), NEW c \in Char
  PROVE  LET t == Append(s, c)
             m == Len(s)
         IN  /\ t \in Seq(Char) /\ Len(t) = m + 1 /\ t[m + 1] = c /\ \A i \in 1 .. m : t[i] = s[i]
             /\ \A k \in 0 .. m : WordNumber(t, k) = WordNumber(s, k)
             /\ WordNumber(t, m + 1) = IF c # SEP /\ (s = <<>> \/ Last(s) = SEP)
                                       THEN WordNumber(s, m) + 1 ELSE WordNumber(s, m)
             /\ \A n : PlacesOf(t, n) =
                         PlacesOf(s, n) \cup
                           (IF c # SEP /\ WordNumber(t, m + 1) = n THEN {m + 1} ELSE {})
  <1>. DEFINE t == Append(s, c)
              m == Len(s)
  <1>1. /\ t \in Seq(Char) /\ Len(t) = m + 1 /\ t[m + 1] = c /\ \A i \in 1 .. m : t[i] = s[i]
        /\ m \in Nat
    BY AppendProperties
  <1>2. s = <<>> <=> m = 0
    OBVIOUS
  <1>3. Last(s) = s[m]
    BY DEF Last
  <1>. HIDE DEF t, m
  <1>4. \A k \in 1 .. m : Begins(t, k) <=> Begins(s, k)
    BY <1>1 DEF Begins
  <1>5. ASSUME NEW k \in 0 .. m PROVE WordNumber(t, k) = WordNumber(s, k)
    <2>1. {j \in 1 .. k : Begins(t, j)} = {j \in 1 .. k : Begins(s, j)}
      BY <1>1, <1>4
    <2>. QED BY <2>1 DEF WordNumber
  <1>6. Begins(t, m + 1) <=> c # SEP /\ (s = <<>> \/ Last(s) = SEP)
    <2>1. m # 0 => m \in 1 .. m
      BY <1>1
    <2>. QED BY <1>1, <1>2, <1>3, <2>1 DEF Begins
  <1>7. WordNumber(t, m + 1) = IF c # SEP /\ (s = <<>> \/ Last(s) = SEP)
                               THEN WordNumber(s, m) + 1 ELSE WordNumber(s, m)
    <2>1. WordNumber(t, m + 1) = IF Begins(t, m + 1) THEN WordNumber(t, m) + 1 ELSE WordNumber(t, m)
      BY <1>1, NumberIs
    <2>2. m \in 0 .. m
      BY <1>1
    <2>. QED BY <1>5, <1>6, <2>1, <2>2
  <1>8. ASSUME NEW n
        PROVE  PlacesOf(t, n) = PlacesOf(s, n) \cup
                 (IF c # SEP /\ WordNumber(t, m + 1) = n THEN {m + 1} ELSE {})
    <2>1. PlacesOf(t, n) = {i \in 1 .. m + 1 : t[i] # SEP /\ WordNumber(t, i) = n}
      BY <1>1 DEF PlacesOf
    <2>2. PlacesOf(s, n) = {i \in 1 .. m : s[i] # SEP /\ WordNumber(s, i) = n}
      BY DEF PlacesOf, m
    <2>3. ASSUME NEW i \in 1 .. m
          PROVE  i \in PlacesOf(t, n) <=> i \in PlacesOf(s, n)
      <3>1. i \in 0 .. m /\ i \in 1 .. m + 1
        BY <1>1
      <3>. QED BY <1>1, <1>5, <2>1, <2>2, <3>1
    <2>4. m + 1 \in PlacesOf(t, n) <=> c # SEP /\ WordNumber(t, m + 1) = n
      BY <1>1, <2>1
    <2>5. \A i \in 1 .. m + 1 : i \in 1 .. m \/ i = m + 1
      BY <1>1
    <2>. QED BY <2>1, <2>2, <2>3, <2>4, <2>5
  <1>. QED BY <1>1, <1>5, <1>7, <1>8 DEF t, m

LEMMA MinIs ==
  ASSUME NEW S \in SUBSET Nat, NEW x \in S, \A y \in S : x <= y
  PROVE  Min(S) = x
  <1>1. Min(S) \in S /\ \A y \in S : Min(S) <= y
    BY MinIsLeast
  <1>. DEFINE y == Min(S)
  <1>2. y \in Nat /\ x \in Nat /\ y <= x /\ x <= y
    BY <1>1
  <1>. HIDE DEF y
  <1>3. y = x
    BY <1>2
  <1>. QED BY <1>3 DEF y

LEMMA MaxIs ==
  ASSUME NEW n \in Nat, NEW S \in SUBSET (1 .. n), NEW x \in S, \A y \in S : y <= x
  PROVE  Max(S) = x
  <1>1. Max(S) \in S /\ \A y \in S : y <= Max(S)
    BY MaxIsGreatest
  <1>. DEFINE y == Max(S)
  <1>2. y \in 1 .. n /\ x \in 1 .. n /\ y <= x /\ x <= y
    BY <1>1
  <1>. HIDE DEF y
  <1>3. y = x
    BY <1>2
  <1>. QED BY <1>3 DEF y

\* Pieces of strings that agree.
LEMMA SamePiece ==
  ASSUME NEW s \in Seq(Char), NEW t \in Seq(Char), NEW a \in 1 .. Len(s), NEW b \in a .. Len(s),
         b <= Len(t), \A i \in a .. b : t[i] = s[i]
  PROVE  SubSeq(t, a, b) = SubSeq(s, a, b)
  <1>. DEFINE p == SubSeq(s, a, b)
              q == SubSeq(t, a, b)
              m == b - a + 1
  <1>0. Len(s) \in Nat /\ Len(t) \in Nat /\ a \in Int /\ b \in Int /\ 1 <= a /\ a <= b /\ b <= Len(s)
        /\ m \in Nat
    OBVIOUS
  <1>1. (\A i \in a .. b : s[i] \in Char) /\ (\A i \in a .. b : t[i] \in Char)
    BY <1>0, ElementOfSeq
  <1>2. p \in Seq(Char) /\ Len(p) = m /\ \A i \in 1 .. m : p[i] = s[a + i - 1]
    BY <1>0, <1>1, SubSeqProperties
  <1>3. q \in Seq(Char) /\ Len(q) = m /\ \A i \in 1 .. m : q[i] = t[a + i - 1]
    BY <1>0, <1>1, SubSeqProperties
  <1>4. \A i \in 1 .. m : a + i - 1 \in a .. b
    BY <1>0
  <1>. HIDE DEF p, q, m
  <1>5. p = q
    BY <1>2, <1>3, <1>4, SeqEqual
  <1>. QED BY <1>5 DEF p, q

\* A piece with one more character.
LEMMA LongerPiece ==
  ASSUME NEW s \in Seq(Char), NEW k \in 0 .. Len(s) - 1, NEW a \in 1 .. k + 1
  PROVE  /\ SubSeq(s, a, k) \in Seq(Char) /\ s[k + 1] \in Char
         /\ Len(SubSeq(s, a, k)) = k - a + 1
         /\ SubSeq(s, a, k + 1) = Append(SubSeq(s, a, k), s[k + 1])
         /\ \A i \in 1 .. k - a + 1 : SubSeq(s, a, k)[i] = s[a + i - 1]
  <1>. DEFINE p == SubSeq(s, a, k)
              q == SubSeq(s, a, k + 1)
              m == k - a + 1
  <1>0. Len(s) \in Nat /\ a \in Int /\ k \in Int /\ k + 1 \in Int /\ 1 <= a /\ k + 1 <= Len(s)
        /\ m \in Nat /\ a <= k + 1
    OBVIOUS
  <1>1. \A i \in a .. k + 1 : s[i] \in Char
    BY <1>0, ElementOfSeq
  <1>2. p \in Seq(Char) /\ Len(p) = m /\ \A i \in 1 .. m : p[i] = s[a + i - 1]
    <2>1. \A i \in a .. k : s[i] \in Char
      BY <1>0, <1>1
    <2>2. p \in Seq(Char) /\ Len(p) = (IF a <= k THEN m ELSE 0) /\ \A i \in 1 .. m : p[i] = s[a + i - 1]
      BY <1>0, <2>1, SubSeqProperties
    <2>. HIDE DEF p
    <2>. QED BY <1>0, <2>2
  <1>3. q \in Seq(Char) /\ Len(q) = m + 1 /\ \A i \in 1 .. m + 1 : q[i] = s[a + i - 1]
    <2>1. /\ q \in Seq(Char) /\ Len(q) = (IF a <= k + 1 THEN k + 1 - a + 1 ELSE 0)
          /\ \A i \in 1 .. k + 1 - a + 1 : q[i] = s[a + i - 1]
      BY <1>0, <1>1, SubSeqProperties
    <2>. HIDE DEF q
    <2>. QED BY <1>0, <2>1
  <1>4. k + 1 \in a .. k + 1 /\ s[k + 1] \in Char
    BY <1>0, <1>1
  <1>5. a + (m + 1) - 1 = k + 1
    BY <1>0
  <1>. HIDE DEF p, q, m
  <1>. DEFINE r == Append(p, s[k + 1])
  <1>6. /\ r \in Seq(Char) /\ Len(r) = m + 1
        /\ (\A i \in 1 .. m : r[i] = p[i]) /\ r[m + 1] = s[k + 1]
    BY <1>2, <1>4, AppendProperties
  <1>. HIDE DEF r
  <1>7. \A i \in 1 .. m + 1 : i \in 1 .. m \/ i = m + 1
    BY <1>0
  <1>8. \A i \in 1 .. m + 1 : r[i] = q[i]
    BY <1>2, <1>3, <1>5, <1>6, <1>7
  <1>9. r = q
    BY <1>3, <1>6, <1>8, SeqEqual
  <1>. QED BY <1>2, <1>4, <1>9 DEF p, q, r, m

LEMMA WordsAre ==
  ASSUME NEW s \in Seq(Char)
  PROVE  /\ Words(s) \in Seq(Seq(Char)) /\ Len(Words(s)) = WordNumber(s, Len(s))
         /\ WordNumber(s, Len(s)) \in Nat
         /\ \A n \in 1 .. Len(Words(s)) :
              LET a == Min(PlacesOf(s, n))
                  b == Max(PlacesOf(s, n))
              IN  /\ Words(s)[n] = SubSeq(s, a, b)
                  /\ a \in PlacesOf(s, n) /\ \A y \in PlacesOf(s, n) : a <= y
                  /\ b \in PlacesOf(s, n) /\ \A y \in PlacesOf(s, n) : y <= b
  <1>. DEFINE N == WordNumber(s, Len(s))
              a(n) == Min(PlacesOf(s, n))
              b(n) == Max(PlacesOf(s, n))
  <1>0. Len(s) \in Nat /\ N \in Nat
    BY NumberIs
  <1>1. ASSUME NEW n \in 1 .. N
        PROVE  /\ a(n) \in PlacesOf(s, n) /\ \A y \in PlacesOf(s, n) : a(n) <= y
               /\ b(n) \in PlacesOf(s, n) /\ \A y \in PlacesOf(s, n) : y <= b(n)
    <2>1. PlacesOf(s, n) # {}
      BY NumbersAre
    <2>2. PlacesOf(s, n) \in SUBSET (1 .. Len(s)) /\ PlacesOf(s, n) \in SUBSET Nat
      BY DEF PlacesOf
    <2>. QED BY <1>0, <2>1, <2>2, MinIsLeast, MaxIsGreatest
  <1>2. ASSUME NEW n \in 1 .. N PROVE SubSeq(s, a(n), b(n)) \in Seq(Char)
    <2>1. a(n) \in 1 .. Len(s) /\ b(n) \in 1 .. Len(s)
      BY <1>1 DEF PlacesOf
    <2>. HIDE DEF a, b
    <2>2. a(n) \in Int /\ b(n) \in Int /\ \A i \in a(n) .. b(n) : i \in 1 .. Len(s)
      BY <2>1, <1>0
    <2>3. \A i \in a(n) .. b(n) : s[i] \in Char
      BY <2>2, ElementOfSeq
    <2>. QED BY <2>2, <2>3, SubSeqProperties
  <1>3. Words(s) = [n \in 1 .. N |-> SubSeq(s, a(n), b(n))]
    BY DEF Words
  <1>. HIDE DEF N, a, b
  <1>4. Words(s) \in Seq(Seq(Char)) /\ Len(Words(s)) = N
    <2>1. Words(s) \in [1 .. N -> Seq(Char)]
      BY <1>2, <1>3
    <2>. QED BY <2>1, <1>0
  <1>. QED BY <1>0, <1>1, <1>3, <1>4 DEF N, a, b

\* The words of a line, and those of the line with one more character.
WordsGrow(s, t, c) ==
    /\ c = SEP => Words(t) = Words(s)
    /\ c # SEP /\ (s = <<>> \/ Last(s) = SEP) => Words(t) = Append(Words(s), <<c>>)
    /\ c # SEP /\ s # <<>> /\ Last(s) # SEP =>
         /\ Len(Words(s)) >= 1
         /\ Words(t) = [Words(s) EXCEPT ![Len(Words(s))] = Append(@, c)]

LEMMA WordsWithOneMore ==
  ASSUME NEW s \in Seq(Char), NEW c \in Char
  PROVE  WordsGrow(s, Append(s, c), c)
  <1>. DEFINE t == Append(s, c)
              m == Len(s)
              M == WordNumber(t, m + 1)
              N == WordNumber(s, m)
  <1>1. /\ t \in Seq(Char) /\ Len(t) = m + 1 /\ t[m + 1] = c /\ \A i \in 1 .. m : t[i] = s[i]
        /\ \A k \in 0 .. m : WordNumber(t, k) = WordNumber(s, k)
        /\ M = IF c # SEP /\ (s = <<>> \/ Last(s) = SEP) THEN N + 1 ELSE N
        /\ \A n : PlacesOf(t, n) =
                    PlacesOf(s, n) \cup (IF c # SEP /\ M = n THEN {m + 1} ELSE {})
    BY PlacesWithOneMore
  <1>2. m \in Nat /\ N \in Nat
    BY NumberIs
  <1>3. /\ Words(s) \in Seq(Seq(Char)) /\ Len(Words(s)) = N
        /\ Words(t) \in Seq(Seq(Char)) /\ Len(Words(t)) = M
    BY <1>1, WordsAre
  <1>. HIDE DEF t, m, M, N
  <1>4. ASSUME NEW n \in 1 .. N, c = SEP \/ M # n
        PROVE  n \in 1 .. M => Words(t)[n] = Words(s)[n]
    <2>. SUFFICES ASSUME n \in 1 .. M PROVE Words(t)[n] = Words(s)[n]
      OBVIOUS
    <2>. DEFINE a == Min(PlacesOf(s, n))
                b == Max(PlacesOf(s, n))
    <2>1. PlacesOf(t, n) = PlacesOf(s, n)
      BY <1>1, <1>4
    <2>2. /\ Words(s)[n] = SubSeq(s, a, b) /\ a \in PlacesOf(s, n) /\ b \in PlacesOf(s, n)
          /\ \A y \in PlacesOf(s, n) : a <= y
      BY <1>3, WordsAre
    <2>3. Words(t)[n] = SubSeq(t, a, b)
      BY <1>1, <1>3, <2>1, WordsAre
    <2>4. a \in 1 .. m /\ b \in 1 .. m
      BY <2>2 DEF PlacesOf, m
    <2>. HIDE DEF a, b
    <2>5. a <= b /\ b \in a .. m /\ b <= Len(t) /\ \A i \in a .. b : i \in 1 .. m
      BY <1>1, <1>2, <2>2, <2>4
    <2>6. SubSeq(t, a, b) = SubSeq(s, a, b)
      BY <1>1, <2>4, <2>5, SamePiece DEF m
    <2>. QED BY <2>2, <2>3, <2>6
  <1>5. ASSUME c = SEP PROVE Words(t) = Words(s)
    <2>1. M = N
      BY <1>1, <1>5
    <2>. QED BY <1>3, <1>4, <1>5, <2>1, SeqEqual
  <1>6. ASSUME c # SEP, s = <<>> \/ Last(s) = SEP PROVE Words(t) = Append(Words(s), <<c>>)
    <2>1. M = N + 1
      BY <1>1, <1>6
    <2>2. PlacesOf(s, M) = {}
      <3>1. \A i \in 1 .. m : WordNumber(s, i) \in Nat /\ WordNumber(s, i) <= N
        <4>1. \A i \in 1 .. m : i \in 0 .. m
          BY <1>2
        <4>. QED BY <4>1, NumbersAre DEF m, N
      <3>2. \A i \in 1 .. m : WordNumber(s, i) # M
        BY <1>2, <2>1, <3>1
      <3>. QED BY <3>2 DEF PlacesOf, m
    <2>3. PlacesOf(t, M) = {m + 1}
      BY <1>1, <1>6, <2>2
    <2>4. Words(t)[M] = <<c>>
      <3>. DEFINE a == Min(PlacesOf(t, M))
                  b == Max(PlacesOf(t, M))
      <3>1. M \in 1 .. Len(Words(t))
        BY <1>2, <1>3, <2>1
      <3>2. Words(t)[M] = SubSeq(t, a, b) /\ a \in PlacesOf(t, M) /\ b \in PlacesOf(t, M)
        BY <1>1, <3>1, WordsAre
      <3>3. a = m + 1 /\ b = m + 1
        <4>. HIDE DEF a, b
        <4>. QED BY <2>3, <3>2
      <3>. HIDE DEF a, b
      <3>4. m \in 0 .. Len(t) - 1 /\ m + 1 \in 1 .. m + 1
        BY <1>1, <1>2
      <3>5. /\ SubSeq(t, m + 1, m) \in Seq(Char) /\ Len(SubSeq(t, m + 1, m)) = m - (m + 1) + 1
            /\ SubSeq(t, m + 1, m + 1) = Append(SubSeq(t, m + 1, m), t[m + 1])
        BY <1>1, <3>4, LongerPiece
      <3>6. SubSeq(t, m + 1, m) = <<>>
        <4>1. m + 1 \in Int /\ m \in Int /\ m < m + 1
          BY <1>2
        <4>. QED BY <4>1, SubSeqEmpty
      <3>7. SubSeq(t, m + 1, m + 1) = Append(<<>>, c)
        BY <1>1, <3>5, <3>6
      <3>. QED BY <3>2, <3>3, <3>7
    <2>5. \A n \in 1 .. N : Words(t)[n] = Words(s)[n]
      <3>1. \A n \in 1 .. N : n \in 1 .. M /\ M # n
        BY <1>2, <2>1
      <3>. QED BY <1>4, <3>1
    <2>. DEFINE w == Append(Words(s), <<c>>)
    <2>6. <<c>> \in Seq(Char)
      OBVIOUS
    <2>7. /\ w \in Seq(Seq(Char)) /\ Len(w) = N + 1
          /\ (\A n \in 1 .. N : w[n] = Words(s)[n]) /\ w[N + 1] = <<c>>
      BY <1>3, <2>6, AppendProperties
    <2>8. \A n \in 1 .. M : n \in 1 .. N \/ n = N + 1
      BY <1>2, <2>1
    <2>. HIDE DEF w
    <2>9. \A n \in 1 .. M : Words(t)[n] = w[n]
      BY <2>1, <2>4, <2>5, <2>7, <2>8
    <2>10. Words(t) = w
      BY <1>3, <2>1, <2>7, <2>9, SeqEqual
    <2>. QED BY <2>10 DEF w
  <1>7. ASSUME c # SEP, s # <<>>, Last(s) # SEP
        PROVE  N >= 1 /\ Words(t) = [Words(s) EXCEPT ![N] = Append(@, c)]
    <2>1. M = N
      BY <1>1, <1>7
    <2>2. m \in 1 .. m /\ s[m] # SEP
      BY <1>2, <1>7 DEF Last, m
    <2>3. m \in PlacesOf(s, N)
      BY <2>2 DEF PlacesOf, m, N
    <2>4. N >= 1
      <3>1. SUFFICES ASSUME N = 0 PROVE FALSE
        BY <1>2
      <3>. DEFINE S == {k \in Nat : k <= m => \A i \in 1 .. k : s[i] = SEP}
      <3>2. \A k \in 0 .. m : WordNumber(s, k) = 0
        <4>1. \A k \in 0 .. m : WordNumber(s, k) \in Nat /\ WordNumber(s, k) <= N
          BY NumbersAre DEF m, N
        <4>. QED BY <3>1, <4>1
      <3>3. ASSUME NEW k \in S PROVE k + 1 \in S
        <4>. SUFFICES ASSUME k + 1 <= m PROVE \A i \in 1 .. k + 1 : s[i] = SEP
          OBVIOUS
        <4>1. k \in Nat /\ k \in 0 .. m /\ k + 1 \in 0 .. m /\ \A i \in 1 .. k : s[i] = SEP
          BY <1>2
        <4>2. ~Begins(s, k + 1)
          BY <3>2, <4>1, NumberIs
        <4>3. k + 1 = 1 \/ k \in 1 .. k
          BY <4>1
        <4>4. s[k + 1] = SEP
          BY <4>1, <4>2, <4>3 DEF Begins
        <4>5. \A i \in 1 .. k + 1 : i \in 1 .. k \/ i = k + 1
          BY <4>1
        <4>. QED BY <4>1, <4>4, <4>5
      <3>4. S = Nat
        <4>1. S \in SUBSET Nat /\ 0 \in S
          <5>1. 1 .. 0 = {}
            OBVIOUS
          <5>. QED BY <5>1
        <4>. HIDE DEF S
        <4>. QED BY <3>3, <4>1, Induction
      <3>5. m \in S
        <4>. HIDE DEF S
        <4>. QED BY <1>2, <3>4
      <3>. QED BY <1>2, <2>2, <3>5
    <2>5. Words(t)[N] = Append(Words(s)[N], c)
      <3>. DEFINE a == Min(PlacesOf(s, N))
                  b == Max(PlacesOf(s, N))
      <3>1. N \in 1 .. Len(Words(s)) /\ N \in 1 .. Len(Words(t))
        BY <1>2, <1>3, <2>1, <2>4
      <3>2. /\ Words(s)[N] = SubSeq(s, a, b) /\ a \in PlacesOf(s, N)
            /\ \A y \in PlacesOf(s, N) : a <= y
        BY <3>1, WordsAre
      <3>3. PlacesOf(s, N) \in SUBSET (1 .. m) /\ \A y \in 1 .. m : y <= m
        BY <1>2 DEF PlacesOf, m
      <3>4. b = m
        BY <1>2, <2>3, <3>3, MaxIs
      <3>5. PlacesOf(t, N) = PlacesOf(s, N) \cup {m + 1}
        BY <1>1, <1>7, <2>1
      <3>. HIDE DEF a, b
      <3>6. a \in 1 .. m
        BY <3>2, <3>3
      <3>7. Min(PlacesOf(t, N)) = a
        <4>1. PlacesOf(t, N) \in SUBSET Nat /\ a \in PlacesOf(t, N)
          BY <1>2, <3>2, <3>3, <3>5
        <4>2. \A y \in PlacesOf(t, N) : a <= y
          BY <1>2, <3>2, <3>5, <3>6
        <4>. QED BY <4>1, <4>2, MinIs
      <3>8. Max(PlacesOf(t, N)) = m + 1
        <4>1. /\ m + 1 \in Nat /\ PlacesOf(t, N) \in SUBSET (1 .. m + 1)
              /\ m + 1 \in PlacesOf(t, N)
          BY <1>2, <3>3, <3>5
        <4>2. \A y \in PlacesOf(t, N) : y <= m + 1
          BY <4>1
        <4>. QED BY <4>1, <4>2, MaxIs
      <3>9. Words(t)[N] = SubSeq(t, a, m + 1)
        BY <1>1, <3>1, <3>7, <3>8, WordsAre
      <3>10. SubSeq(t, a, m + 1) = Append(SubSeq(t, a, m), c)
        <4>1. m \in 0 .. Len(t) - 1 /\ a \in 1 .. m + 1
          BY <1>1, <1>2, <3>6
        <4>. QED BY <1>1, <4>1, LongerPiece
      <3>11. SubSeq(t, a, m) = SubSeq(s, a, m)
        <4>1. /\ a \in 1 .. Len(s) /\ m \in a .. Len(s) /\ m <= Len(t)
              /\ \A i \in a .. m : t[i] = s[i]
          BY <1>1, <1>2, <3>6 DEF m
        <4>. QED BY <1>1, <4>1, SamePiece
      <3>. QED BY <3>2, <3>4, <3>9, <3>10, <3>11
    <2>. DEFINE w == [Words(s) EXCEPT ![N] = Append(@, c)]
    <2>6. N \in 1 .. Len(Words(s)) /\ Words(s)[N] \in Seq(Char)
      BY <1>2, <1>3, <2>4, ElementOfSeq
    <2>7. Append(Words(s)[N], c) \in Seq(Char)
      BY <2>6
    <2>8. /\ w \in Seq(Seq(Char)) /\ Len(w) = N
          /\ \A n \in 1 .. N : w[n] = IF n = N THEN Append(Words(s)[N], c) ELSE Words(s)[n]
      BY <1>3, <2>6, <2>7, ExceptSeq
    <2>. HIDE DEF w
    <2>9. \A n \in 1 .. N : Words(t)[n] = w[n]
      BY <1>4, <2>1, <2>5, <2>8
    <2>10. Words(t) = w
      BY <1>3, <2>1, <2>8, <2>9, SeqEqual
    <2>. QED BY <2>4, <2>10 DEF w
  <1>. QED BY <1>3, <1>5, <1>6, <1>7 DEF WordsGrow, t, N, m

-----------------------------------------------------------------------------
(* The words survive the trimming, the slicing and the joining             *)

LEMMA NoWords == Words(<<>>) = <<>>
  <1>1. <<>> \in Seq(Char) /\ Len(<<>>) = 0
    OBVIOUS
  <1>2. WordNumber(<<>>, 0) = 0
    BY NumberIs
  <1>3. Words(<<>>) \in Seq(Seq(Char)) /\ Len(Words(<<>>)) = 0
    BY <1>1, <1>2, WordsAre
  <1>. QED BY <1>3, EmptySeq

\* The beginnings of a piece of a string.
LEMMA PiecesAre ==
  ASSUME NEW s \in Seq(Char), NEW a \in 1 .. Len(s) + 1
  PROVE  /\ SubSeq(s, a, a - 1) = <<>> /\ SubSeq(s, 1, Len(s)) = s
         /\ \A k \in a .. Len(s) :
              /\ SubSeq(s, a, k) \in Seq(Char) /\ SubSeq(s, a, k) # <<>>
              /\ Len(SubSeq(s, a, k)) = k - a + 1
              /\ SubSeq(s, a, k)[1] = s[a] /\ Last(SubSeq(s, a, k)) = s[k]
              /\ s[k] \in Char
  <1>0. Len(s) \in Nat /\ a \in Int /\ a - 1 \in Int /\ a - 1 < a
    OBVIOUS
  <1>1. SubSeq(s, a, a - 1) = <<>> /\ SubSeq(s, 1, Len(s)) = s
    BY <1>0, SubSeqEmpty, SubSeqFull
  <1>2. ASSUME NEW k \in a .. Len(s)
        PROVE  /\ SubSeq(s, a, k) \in Seq(Char) /\ SubSeq(s, a, k) # <<>>
               /\ Len(SubSeq(s, a, k)) = k - a + 1
               /\ SubSeq(s, a, k)[1] = s[a] /\ Last(SubSeq(s, a, k)) = s[k]
               /\ s[k] \in Char
    <2>. DEFINE p == SubSeq(s, a, k)
                m == k - a + 1
    <2>1. m \in Nat /\ m >= 1 /\ k \in Int /\ a <= k /\ \A i \in a .. k : i \in 1 .. Len(s)
      BY <1>0
    <2>2. \A i \in a .. k : s[i] \in Char
      BY <2>1, ElementOfSeq
    <2>3. p \in Seq(Char) /\ Len(p) = m /\ \A i \in 1 .. m : p[i] = s[a + i - 1]
      BY <1>0, <2>1, <2>2, SubSeqProperties
    <2>4. a + 1 - 1 = a /\ a + m - 1 = k /\ 1 \in 1 .. m /\ m \in 1 .. m /\ k \in a .. k
      BY <1>0, <2>1
    <2>5. Last(p) = p[m]
      BY <2>3 DEF Last
    <2>. HIDE DEF p, m
    <2>6. p[1] = s[a] /\ p[m] = s[k] /\ p # <<>> /\ s[k] \in Char
      BY <2>1, <2>2, <2>3, <2>4
    <2>. QED BY <2>3, <2>5, <2>6 DEF p, m
  <1>. QED BY <1>1, <1>2

\* Separators around a string hold no words.
LEMMA StrippedWords ==
  ASSUME NEW s \in Seq(Char), NEW first \in 1 .. Len(s) + 1, NEW last \in first - 1 .. Len(s),
         \A i \in 1 .. Len(s) : i < first \/ i > last => s[i] = SEP
  PROVE  Words(SubSeq(s, first, last)) = Words(s)
  <1>. DEFINE m == Len(s)
              upto(k) == IF k < last THEN k ELSE last
              UpTo(k) == SubSeq(s, 1, k)
              R(k) == SubSeq(s, first, k)
              S == {k \in Nat : k <= m => Words(UpTo(k)) = Words(R(upto(k)))}
  <1>0. m \in Nat /\ first \in Int /\ last \in Int /\ 1 <= first /\ first <= last + 1
        /\ last <= m /\ \A k \in 1 .. m : s[k] \in Char
    BY ElementOfSeq
  <1>1. /\ UpTo(0) = <<>> /\ UpTo(m) = s
        /\ \A k \in 1 .. m : UpTo(k) \in Seq(Char) /\ UpTo(k) # <<>> /\ Last(UpTo(k)) = s[k]
    <2>1. 1 \in 1 .. m + 1 /\ 1 - 1 = 0
      BY <1>0
    <2>2. /\ SubSeq(s, 1, 1 - 1) = <<>> /\ UpTo(m) = s
          /\ \A k \in 1 .. m : UpTo(k) \in Seq(Char) /\ UpTo(k) # <<>> /\ Last(UpTo(k)) = s[k]
      BY <2>1, PiecesAre
    <2>. QED BY <2>1, <2>2
  <1>2. ASSUME NEW k \in 0 .. m - 1
        PROVE  UpTo(k) \in Seq(Char) /\ UpTo(k + 1) = Append(UpTo(k), s[k + 1])
    <2>1. 1 \in 1 .. k + 1
      BY <1>0
    <2>. QED BY <2>1, LongerPiece
  <1>3. \A k \in Int : k < first => R(k) = <<>>
    BY <1>0, SubSeqEmpty
  <1>4. \A k \in first .. m : R(k) \in Seq(Char) /\ R(k) # <<>> /\ Last(R(k)) = s[k]
    BY PiecesAre
  <1>5. ASSUME NEW k \in 0 .. m - 1, first <= k + 1
        PROVE  R(k) \in Seq(Char) /\ R(k + 1) = Append(R(k), s[k + 1])
    <2>1. first \in 1 .. k + 1
      BY <1>0, <1>5
    <2>. QED BY <2>1, LongerPiece
  <1>. HIDE DEF m, UpTo, R
  <1>6. 0 \in S
    <2>1. upto(0) < first /\ upto(0) \in Int
      BY <1>0
    <2>. HIDE DEF upto
    <2>. QED BY <1>1, <1>3, <2>1
  <1>7. ASSUME NEW k \in S PROVE k + 1 \in S
    <2>. SUFFICES ASSUME k + 1 <= m PROVE Words(UpTo(k + 1)) = Words(R(upto(k + 1)))
      OBVIOUS
    <2>. DEFINE c == s[k + 1]
    <2>1. /\ k \in Nat /\ k <= m /\ k \in 0 .. m - 1 /\ k + 1 \in 1 .. m /\ c \in Char
          /\ Words(UpTo(k)) = Words(R(upto(k)))
      BY <1>0
    <2>2. UpTo(k) \in Seq(Char) /\ UpTo(k + 1) = Append(UpTo(k), c)
      BY <1>2, <2>1
    <2>. HIDE DEF S, c
    <2>6. WordsGrow(UpTo(k), UpTo(k + 1), c)
      BY <2>1, <2>2, WordsWithOneMore
    <2>3. CASE k + 1 < first
      <3>1. c = SEP
        BY <2>1, <2>3 DEF c, m
      <3>2. Words(UpTo(k + 1)) = Words(UpTo(k))
        BY <2>6, <3>1 DEF WordsGrow
      <3>3. upto(k) < first /\ upto(k + 1) < first /\ upto(k) \in Int /\ upto(k + 1) \in Int
        BY <1>0, <2>1, <2>3
      <3>. HIDE DEF upto
      <3>4. R(upto(k)) = R(upto(k + 1))
        BY <1>3, <3>3
      <3>. QED BY <2>1, <3>2, <3>4
    <2>4. CASE first <= k + 1 /\ k + 1 <= last
      <3>1. upto(k) = k /\ upto(k + 1) = k + 1
        BY <1>0, <2>1, <2>4
      <3>2. R(k) \in Seq(Char) /\ R(k + 1) = Append(R(k), c)
        BY <1>5, <2>1, <2>4 DEF c
      <3>6. WordsGrow(R(k), R(k + 1), c)
        BY <2>1, <3>2, WordsWithOneMore
      <3>3. CASE c = SEP
        <4>1. Words(UpTo(k + 1)) = Words(UpTo(k)) /\ Words(R(k + 1)) = Words(R(k))
          BY <2>6, <3>3, <3>6 DEF WordsGrow
        <4>. QED BY <2>1, <3>1, <4>1
      <3>4. CASE c # SEP /\ k + 1 = first
        <4>1. R(k) = <<>>
          BY <1>3, <2>1, <3>4
        <4>2. UpTo(k) = <<>> \/ Last(UpTo(k)) = SEP
          <5>1. CASE k = 0
            BY <1>1, <5>1
          <5>2. CASE k # 0
            <6>1. k \in 1 .. m /\ k < first
              BY <2>1, <3>4, <5>2
            <6>2. s[k] = SEP
              BY <6>1 DEF m
            <6>. QED BY <1>1, <6>1, <6>2
          <5>. QED BY <5>1, <5>2
        <4>3. Words(UpTo(k + 1)) = Append(Words(UpTo(k)), <<c>>)
              /\ Words(R(k + 1)) = Append(Words(R(k)), <<c>>)
          BY <2>6, <3>4, <3>6, <4>1, <4>2 DEF WordsGrow
        <4>. QED BY <2>1, <3>1, <4>3
      <3>5. CASE c # SEP /\ k + 1 # first
        <4>1. k \in 1 .. m /\ k \in first .. m
          BY <1>0, <2>1, <2>4, <3>5
        <4>2. /\ UpTo(k) # <<>> /\ Last(UpTo(k)) = s[k]
              /\ R(k) # <<>> /\ Last(R(k)) = s[k]
          BY <1>1, <1>4, <4>1
        <4>3. CASE s[k] = SEP
          <5>1. Words(UpTo(k + 1)) = Append(Words(UpTo(k)), <<c>>)
                /\ Words(R(k + 1)) = Append(Words(R(k)), <<c>>)
            BY <2>6, <3>5, <3>6, <4>2, <4>3 DEF WordsGrow
          <5>. QED BY <2>1, <3>1, <5>1
        <4>4. CASE s[k] # SEP
          <5>. DEFINE longer(ws) == [ws EXCEPT ![Len(ws)] = Append(@, c)]
          <5>1. Words(UpTo(k + 1)) = longer(Words(UpTo(k))) /\ Words(R(k + 1)) = longer(Words(R(k)))
            BY <2>6, <3>5, <3>6, <4>2, <4>4 DEF WordsGrow
          <5>. QED BY <2>1, <3>1, <5>1
        <4>. QED BY <4>3, <4>4
      <3>. QED BY <1>0, <2>1, <3>3, <3>4, <3>5
    <2>5. CASE first <= k + 1 /\ last < k + 1
      <3>1. c = SEP
        BY <2>1, <2>5 DEF c, m
      <3>2. Words(UpTo(k + 1)) = Words(UpTo(k))
        BY <2>6, <3>1 DEF WordsGrow
      <3>3. upto(k) = last /\ upto(k + 1) = last
        BY <1>0, <2>1, <2>5
      <3>. QED BY <2>1, <3>2, <3>3
    <2>. QED BY <1>0, <2>1, <2>3, <2>4, <2>5
  <1>8. m \in S
    <2>1. S \in SUBSET Nat
      OBVIOUS
    <2>. HIDE DEF S
    <2>. QED BY <1>0, <1>6, <1>7, <2>1, Induction
  <1>9. upto(m) = last
    BY <1>0
  <1>. HIDE DEF upto
  <1>10. Words(UpTo(m)) = Words(R(upto(m)))
    BY <1>0, <1>8
  <1>. QED BY <1>1, <1>9, <1>10 DEF R

\* A string that neither begins nor ends with a separator.
Stripped(s) == s # <<>> => s[1] # SEP /\ Last(s) # SEP

LEMMA TrimWhitespaceKeepsWords ==
  ASSUME NEW s \in Seq(Char)
  PROVE  Words(TrimWhitespace(s)) = Words(s) /\ Stripped(TrimWhitespace(s))
  <1>. DEFINE places == {i \in 1 .. Len(s) : s[i] # SEP}
              first == SelectInSeq(s, IsOfWord)
              last == SelectLastInSeq(s, IsOfWord)
  <1>0. Len(s) \in Nat
    OBVIOUS
  <1>1. CASE places = {}
    <2>1. TrimWhitespace(s) = <<>>
      BY <1>1 DEF TrimWhitespace
    <2>2. /\ Len(s) + 1 \in 1 .. Len(s) + 1 /\ Len(s) \in (Len(s) + 1) - 1 .. Len(s)
          /\ \A i \in 1 .. Len(s) : s[i] = SEP
      BY <1>0, <1>1
    <2>3. Words(SubSeq(s, Len(s) + 1, Len(s))) = Words(s)
      BY <2>2, StrippedWords
    <2>4. SubSeq(s, Len(s) + 1, Len(s)) = <<>>
      <3>1. Len(s) + 1 \in Int /\ Len(s) \in Int /\ Len(s) < Len(s) + 1
        BY <1>0
      <3>. QED BY <3>1, SubSeqEmpty
    <2>. QED BY <2>1, <2>3, <2>4 DEF Stripped
  <1>2. CASE places # {}
    <2>1. first = Min(places)
      BY <1>2 DEF SelectInSeq, IsOfWord
    <2>2. last = Max(places)
      BY <1>2 DEF SelectLastInSeq, IsOfWord
    <2>3. TrimWhitespace(s) = SubSeq(s, first, last)
      BY <1>2 DEF TrimWhitespace
    <2>4. places \in SUBSET Nat /\ places \in SUBSET (1 .. Len(s))
      OBVIOUS
    <2>5. /\ first \in places /\ last \in places
          /\ \A i \in places : first <= i /\ i <= last
      <3>. HIDE DEF places, first, last
      <3>. QED BY <1>0, <1>2, <2>1, <2>2, <2>4, MinIsLeast, MaxIsGreatest
    <2>6. /\ first \in 1 .. Len(s) /\ last \in 1 .. Len(s) /\ s[first] # SEP /\ s[last] # SEP
          /\ \A i \in 1 .. Len(s) : s[i] # SEP => first <= i /\ i <= last
      <3>. HIDE DEF first, last
      <3>. QED BY <2>5
    <2>. HIDE DEF first, last, places
    <2>7. /\ first \in 1 .. Len(s) + 1 /\ last \in first - 1 .. Len(s)
          /\ last \in first .. Len(s)
          /\ \A i \in 1 .. Len(s) : i < first \/ i > last => s[i] = SEP
      BY <1>0, <2>6
    <2>8. Words(SubSeq(s, first, last)) = Words(s)
      BY <2>7, StrippedWords
    <2>9. SubSeq(s, first, last)[1] = s[first] /\ Last(SubSeq(s, first, last)) = s[last]
      BY <2>7, PiecesAre
    <2>. QED BY <2>3, <2>6, <2>8, <2>9 DEF Stripped
  <1>. QED BY <1>1, <1>2

\* A string whose words are between single separators.
Tidy(s) ==
    /\ s \in Seq(Char) /\ Stripped(s)
    /\ \A i \in 1 .. Len(s) - 1 : s[i] = SEP => s[i + 1] # SEP

LEMMA TrimDuplicatesKeepsWords ==
  ASSUME NEW s \in Seq(Char), Stripped(s)
  PROVE  Words(TrimDuplicates(s)) = Words(s) /\ Tidy(TrimDuplicates(s))
  <1>. DEFINE n == Len(s)
              base == <<>>
              fold == "trim"
              F == FoldOn(fold, base, s)
              UpTo(k) == SubSeq(s, 1, k)
              Single(q) == \A i \in 1 .. Len(q) - 1 : q[i] = SEP => q[i + 1] # SEP
              Same(k) == /\ F[1 .. k] \in Seq(Char) /\ Single(F[1 .. k])
                         /\ Words(F[1 .. k]) = Words(UpTo(k))
                         /\ F[1 .. k] = <<>> <=> k = 0
                         /\ k # 0 => Last(F[1 .. k]) = s[k] /\ F[1 .. k][1] = s[1]
              S == {k \in Nat : k <= n => Same(k)}
  <1>1. n \in Nat /\ DOMAIN s = 1 .. n /\ \A i \in 1 .. n : s[i] \in Char
    BY LenProperties, ElementOfSeq
  <1>2. /\ F[1 .. 0] = base
        /\ \A k \in 0 .. n - 1 : F[1 .. k + 1] = Step(fold, F[1 .. k], s[k + 1])
    <2>. HIDE DEF n, base, fold
    <2>. QED BY <1>1, FoldIs
  <1>3. TrimDuplicates(s) = F[1 .. n]
    BY <1>1, TrimIsFold
  <1>4. /\ UpTo(0) = <<>> /\ UpTo(n) = s
        /\ \A k \in 1 .. n : UpTo(k) # <<>> /\ Last(UpTo(k)) = s[k]
    <2>1. 1 \in 1 .. n + 1 /\ 1 - 1 = 0
      BY <1>1
    <2>2. /\ SubSeq(s, 1, 1 - 1) = <<>> /\ UpTo(n) = s
          /\ \A k \in 1 .. n : UpTo(k) # <<>> /\ Last(UpTo(k)) = s[k]
      BY <2>1, PiecesAre
    <2>. QED BY <2>1, <2>2
  <1>5. ASSUME NEW k \in 0 .. n - 1
        PROVE  UpTo(k) \in Seq(Char) /\ UpTo(k + 1) = Append(UpTo(k), s[k + 1])
    <2>1. 1 \in 1 .. k + 1
      BY <1>1
    <2>. QED BY <2>1, LongerPiece
  <1>. HIDE DEF n, F, UpTo
  <1>6. Same(0)
    <2>1. base \in Seq(Char) /\ Len(base) = 0 /\ Single(base)
      OBVIOUS
    <2>. HIDE DEF Single
    <2>. QED BY <1>2, <1>4, <2>1
  <1>7. ASSUME NEW k \in Nat, k + 1 <= n, Same(k) PROVE Same(k + 1)
    <2>. DEFINE kept == F[1 .. k]
                next == F[1 .. k + 1]
                c == s[k + 1]
                m == Len(kept)
    <2>1. k \in 0 .. n - 1 /\ k + 1 \in 1 .. n /\ c \in Char /\ k + 1 # 0
      BY <1>1, <1>7
    <2>2. /\ kept \in Seq(Char) /\ Single(kept) /\ Words(kept) = Words(UpTo(k))
          /\ kept = <<>> <=> k = 0
          /\ k # 0 => Last(kept) = s[k] /\ kept[1] = s[1]
      BY <1>7
    <2>3. next = IF c = SEP /\ kept # <<>> /\ Last(kept) = SEP THEN kept ELSE Append(kept, c)
      BY <1>2, <2>1 DEF Step
    <2>4. UpTo(k) \in Seq(Char) /\ UpTo(k + 1) = Append(UpTo(k), c)
      BY <1>5, <2>1
    <2>5. m \in Nat /\ (kept = <<>> <=> m = 0) /\ Last(kept) = kept[m]
      BY <2>2 DEF Last
    <2>6. k # 0 => UpTo(k) # <<>> /\ Last(UpTo(k)) = s[k]
      <3>1. k # 0 => k \in 1 .. n
        BY <1>1, <2>1
      <3>. HIDE DEF UpTo
      <3>. QED BY <1>4, <3>1
    <2>7. k = 0 => UpTo(k) = <<>>
      BY <1>4
    <2>8. s[k + 1] = c
      OBVIOUS
    <2>. HIDE DEF kept, next, c, m
    <2>9. WordsGrow(UpTo(k), UpTo(k + 1), c)
      BY <2>1, <2>4, WordsWithOneMore
    <2>10. CASE c = SEP /\ kept # <<>> /\ Last(kept) = SEP
      <3>1. next = kept /\ k # 0
        BY <2>2, <2>3, <2>10
      <3>2. Words(UpTo(k + 1)) = Words(UpTo(k))
        BY <2>9, <2>10 DEF WordsGrow
      <3>3. Last(kept) = s[k + 1] /\ kept[1] = s[1]
        BY <2>2, <2>8, <2>10, <3>1
      <3>4. next \in Seq(Char) /\ Single(next) /\ Words(next) = Words(UpTo(k + 1))
        BY <2>2, <3>1, <3>2
      <3>. HIDE DEF Single
      <3>. QED BY <2>1, <2>10, <3>1, <3>3, <3>4 DEF next
    <2>11. CASE ~(c = SEP /\ kept # <<>> /\ Last(kept) = SEP)
      <3>1. next = Append(kept, c)
        BY <2>3, <2>11
      <3>2. /\ next \in Seq(Char) /\ next # <<>> /\ Len(next) = m + 1
            /\ (\A i \in 1 .. m : next[i] = kept[i]) /\ next[m + 1] = c
        BY <2>1, <2>2, <3>1, AppendProperties DEF m
      <3>3. WordsGrow(kept, next, c)
        BY <2>1, <2>2, <3>1, WordsWithOneMore
      <3>4. Words(next) = Words(UpTo(k + 1))
        <4>1. kept = <<>> <=> UpTo(k) = <<>>
          BY <2>2, <2>6, <2>7
        <4>2. kept # <<>> => Last(kept) = Last(UpTo(k))
          BY <2>2, <2>6
        <4>3. CASE c = SEP
          BY <2>2, <2>9, <3>3, <4>3 DEF WordsGrow
        <4>4. CASE c # SEP /\ (kept = <<>> \/ Last(kept) = SEP)
          <5>1. Words(next) = Append(Words(kept), <<c>>)
            BY <3>3, <4>4 DEF WordsGrow
          <5>2. Words(UpTo(k + 1)) = Append(Words(UpTo(k)), <<c>>)
            BY <2>9, <4>1, <4>2, <4>4 DEF WordsGrow
          <5>. QED BY <2>2, <5>1, <5>2
        <4>5. CASE c # SEP /\ kept # <<>> /\ Last(kept) # SEP
          <5>. DEFINE longer(ws) == [ws EXCEPT ![Len(ws)] = Append(@, c)]
          <5>1. Words(next) = longer(Words(kept))
            BY <3>3, <4>5 DEF WordsGrow
          <5>2. Words(UpTo(k + 1)) = longer(Words(UpTo(k)))
            BY <2>9, <4>1, <4>2, <4>5 DEF WordsGrow
          <5>. QED BY <2>2, <5>1, <5>2
        <4>. QED BY <4>3, <4>4, <4>5
      <3>5. Single(next)
        <4>. SUFFICES ASSUME NEW i \in 1 .. Len(next) - 1, next[i] = SEP
                      PROVE  next[i + 1] # SEP
          OBVIOUS
        <4>1. i \in 1 .. m /\ next[i] = kept[i]
          BY <2>5, <3>2
        <4>2. CASE i = m
          <5>1. Last(kept) = SEP /\ kept # <<>>
            BY <2>5, <4>1, <4>2
          <5>. QED BY <2>11, <3>2, <4>2, <5>1
        <4>3. CASE i # m
          <5>1. i \in 1 .. Len(kept) - 1 /\ i + 1 \in 1 .. m
            BY <2>5, <4>1, <4>3 DEF m
          <5>2. kept[i + 1] # SEP
            BY <2>2, <4>1, <5>1
          <5>. QED BY <3>2, <5>1, <5>2
        <4>. QED BY <4>2, <4>3
      <3>6. Last(next) = c
        BY <3>2 DEF Last
      <3>7. next[1] = s[1]
        <4>1. CASE k = 0
          <5>1. m = 0 /\ k + 1 = 1 /\ m + 1 = 1
            BY <2>2, <2>5, <4>1
          <5>. QED BY <2>8, <3>2, <5>1, <4>1
        <4>2. CASE k # 0
          <5>1. 1 \in 1 .. m
            BY <2>2, <2>5, <4>2
          <5>. QED BY <2>2, <3>2, <4>2, <5>1
        <4>. QED BY <4>1, <4>2
      <3>. HIDE DEF Single
      <3>. QED BY <2>1, <2>8, <3>2, <3>4, <3>5, <3>6, <3>7 DEF next
    <2>. QED BY <2>10, <2>11
  <1>. HIDE DEF Same
  <1>8. n \in S
    <2>1. S \in SUBSET Nat /\ 0 \in S
      BY <1>6
    <2>2. ASSUME NEW k \in S PROVE k + 1 \in S
      BY <1>1, <1>7
    <2>. HIDE DEF S
    <2>3. S = Nat
      BY <2>1, <2>2, Induction
    <2>. QED BY <1>1, <2>3
  <1>. DEFINE d == F[1 .. n]
  <1>9. /\ d \in Seq(Char) /\ Single(d) /\ Words(d) = Words(UpTo(n))
        /\ d = <<>> <=> n = 0
        /\ n # 0 => Last(d) = s[n] /\ d[1] = s[1]
    BY <1>1, <1>8 DEF Same
  <1>10. n # 0 => s # <<>> /\ Last(s) = s[n]
    BY <1>1 DEF n, Last
  <1>11. Stripped(d)
    <2>. HIDE DEF d
    <2>. QED BY <1>9, <1>10 DEF Stripped
  <1>. QED BY <1>3, <1>4, <1>9, <1>11 DEF Tidy

\* One character of the slicing.
LEMMA SlicingStep ==
  ASSUME NEW s \in Seq(Char), Len(s) <= SliceMax, NEW k \in 0 .. Len(s) - 1
  PROVE  LET strs == SlicingFold(s)[1 .. k].strs
             at == StringAt(s, k)
         IN  /\ at \in 1 .. Len(s) + 1 /\ strs \in [1 .. Len(s) + 1 -> Seq(Char)]
             /\ at + 1 \in 1 .. Len(s) + 1 /\ strs[at + 1] = <<>>
             /\ SlicingFold(s)[1 .. k + 1].strs =
                  IF s[k + 1] = SEP THEN strs ELSE [strs EXCEPT ![at] = Append(@, s[k + 1])]
  <1>. DEFINE n == Len(s)
              r == SlicingFold(s)[1 .. k]
              at == StringAt(s, k)
  <1>1. n \in Nat /\ k \in Nat /\ k < n /\ SliceMax \in Nat /\ k < SliceMax
    BY SlicedStringsAssumption
  <1>2. at \in 1 .. n + 1 /\ at + 1 \in 1 .. n + 1
    <2>1. at \in Nat /\ at >= 1 /\ at <= k + 1
      BY <1>1, StringAtIs
    <2>. HIDE DEF at, n
    <2>. QED BY <1>1, <2>1
  <1>3. /\ r \in [pos : {at}, strs : [1 .. n + 1 -> {q \in Seq(Char) : Len(q) <= k}]]
        /\ \A j \in 1 .. n + 1 : j > at => r.strs[j] = <<>>
    <2>1. SlicedUpTo(s, k)
      <3>1. k \in 0 .. Len(s)
        OBVIOUS
      <3>. QED BY <3>1, SlicingIs
    <2>. QED BY <2>1 DEF SlicedUpTo
  <1>4. SlicingFold(s)[1 .. k + 1] = Step("slice", r, s[k + 1])
    BY SlicingIs
  <1>. HIDE DEF n, r, at
  <1>5. /\ r = [pos |-> r.pos, strs |-> r.strs] /\ r.pos = at
        /\ r.strs \in [1 .. n + 1 -> Seq(Char)] /\ r.strs[at + 1] = <<>>
    BY <1>2, <1>3
  <1>6. Len(r.strs[at]) < SliceMax
    <2>. DEFINE q == r.strs[at]
    <2>1. q \in Seq(Char) /\ Len(q) <= k
      BY <1>2, <1>3
    <2>. HIDE DEF q
    <2>2. Len(q) \in Nat
      BY <2>1
    <2>3. Len(q) < SliceMax
      BY <1>1, <2>1, <2>2
    <2>. QED BY <2>3 DEF q
  <1>7. SlicingFold(s)[1 .. k + 1].strs =
          IF s[k + 1] = SEP THEN r.strs ELSE [r.strs EXCEPT ![at] = Append(@, s[k + 1])]
    <2>1. CASE s[k + 1] = SEP
      BY <1>4, <1>5, <2>1 DEF Step
    <2>2. CASE s[k + 1] # SEP
      BY <1>4, <1>5, <1>6, <2>2 DEF Step
    <2>. QED BY <2>1, <2>2
  <1>. QED BY <1>2, <1>5, <1>7 DEF n, r, at

\* What a tidy string is sliced into: its words, or one empty string.
LEMMA SlicesAreWords ==
  ASSUME NEW s, Tidy(s), Len(s) <= SliceMax
  PROVE  Slices(s) = IF s = <<>> THEN << <<>> >> ELSE Words(s)
  <1>. DEFINE n == Len(s)
              UpTo(k) == SubSeq(s, 1, k)
              At(k) == StringAt(s, k)
              strs(k) == SlicingFold(s)[1 .. k].strs
              Open(k) == k = 0 \/ s[k] = SEP
              Inv(k) == /\ Len(Words(UpTo(k))) = IF Open(k) THEN At(k) - 1 ELSE At(k)
                        /\ \A i \in 1 .. Len(Words(UpTo(k))) : strs(k)[i] = Words(UpTo(k))[i]
                        /\ Open(k) => strs(k)[At(k)] = <<>>
              S == {k \in Nat : k <= n => Inv(k)}
  <1>0. s \in Seq(Char) /\ n \in Nat /\ Stripped(s)
        /\ \A i \in 1 .. n - 1 : s[i] = SEP => s[i + 1] # SEP
    BY DEF Tidy
  <1>1. /\ UpTo(0) = <<>> /\ UpTo(n) = s
        /\ \A k \in 1 .. n : UpTo(k) # <<>> /\ Last(UpTo(k)) = s[k] /\ s[k] \in Char
    <2>1. 1 \in 1 .. n + 1 /\ 1 - 1 = 0
      BY <1>0
    <2>2. /\ SubSeq(s, 1, 1 - 1) = <<>> /\ UpTo(n) = s
          /\ \A k \in 1 .. n : UpTo(k) # <<>> /\ Last(UpTo(k)) = s[k] /\ s[k] \in Char
      BY <1>0, <2>1, PiecesAre
    <2>. QED BY <2>1, <2>2
  <1>2. ASSUME NEW k \in 0 .. n - 1
        PROVE  UpTo(k) \in Seq(Char) /\ WordsGrow(UpTo(k), UpTo(k + 1), s[k + 1])
    <2>1. 1 \in 1 .. k + 1 /\ k + 1 \in 1 .. n
      BY <1>0
    <2>2. UpTo(k) \in Seq(Char) /\ UpTo(k + 1) = Append(UpTo(k), s[k + 1])
      BY <1>0, <2>1, LongerPiece
    <2>. QED BY <1>1, <2>1, <2>2, WordsWithOneMore
  <1>3. \A k \in Nat : /\ At(0) = 1 /\ At(k) \in Nat /\ At(k) >= 1
                       /\ At(k + 1) = IF s[k + 1] = SEP THEN At(k) + 1 ELSE At(k)
    BY StringAtIs
  <1>4. strs(0) \in [1 .. n + 1 -> {q \in Seq(Char) : Len(q) <= 0}]
    <2>1. SlicedUpTo(s, 0)
      <3>1. 0 \in 0 .. n
        BY <1>0
      <3>. QED BY <1>0, <3>1, SlicingIs
    <2>. QED BY <2>1 DEF SlicedUpTo
  <1>5. \A k \in 0 .. n - 1 :
          /\ At(k) \in 1 .. n + 1 /\ strs(k) \in [1 .. n + 1 -> Seq(Char)]
          /\ At(k) + 1 \in 1 .. n + 1 /\ strs(k)[At(k) + 1] = <<>>
          /\ strs(k + 1) = IF s[k + 1] = SEP THEN strs(k)
                           ELSE [strs(k) EXCEPT ![At(k)] = Append(@, s[k + 1])]
    BY <1>0, SlicingStep
  <1>6. Slicing(s) = strs(n) /\ StringCount(s) = At(n)
    BY <1>0, SlicingIs
  <1>7. n # 0 => s # <<>> /\ s[1] # SEP /\ s[n] # SEP
    BY <1>0 DEF Stripped, Last
  <1>. HIDE DEF n, UpTo, At, strs
  <1>8. strs(0)[1] = <<>>
    <2>. DEFINE q == strs(0)[1]
    <2>1. q \in Seq(Char) /\ Len(q) <= 0
      BY <1>0, <1>4
    <2>. HIDE DEF q
    <2>2. q = <<>>
      BY <2>1
    <2>. QED BY <2>2 DEF q
  <1>9. Inv(0)
    <2>1. Words(UpTo(0)) = <<>>
      BY <1>1, NoWords
    <2>2. Len(<<>>) = 0
      OBVIOUS
    <2>3. At(0) = 1
      BY <1>3
    <2>. QED BY <1>8, <2>1, <2>2, <2>3
  <1>10. ASSUME NEW k \in Nat, k + 1 <= n, Inv(k) PROVE Inv(k + 1)
    <2>. DEFINE c == s[k + 1]
                ws == Words(UpTo(k))
                next == Words(UpTo(k + 1))
                m == Len(ws)
    <2>1. k \in 0 .. n - 1 /\ k + 1 \in 1 .. n /\ k + 1 # 0
      BY <1>0, <1>10
    <2>2. c \in Char /\ UpTo(k) \in Seq(Char) /\ WordsGrow(UpTo(k), UpTo(k + 1), c)
      BY <1>1, <1>2, <2>1
    <2>3. ws \in Seq(Seq(Char)) /\ m \in Nat
      BY <2>2, WordsAre
    <2>4. Open(k) <=> UpTo(k) = <<>> \/ Last(UpTo(k)) = SEP
      <3>1. k # 0 => k \in 1 .. n
        BY <1>0, <2>1
      <3>. QED BY <1>1, <3>1
    <2>5. /\ m = IF Open(k) THEN At(k) - 1 ELSE At(k)
          /\ \A i \in 1 .. m : strs(k)[i] = ws[i]
          /\ Open(k) => strs(k)[At(k)] = <<>>
      BY <1>10
    <2>6. /\ At(k) \in 1 .. n + 1 /\ strs(k) \in [1 .. n + 1 -> Seq(Char)]
          /\ At(k) + 1 \in 1 .. n + 1 /\ strs(k)[At(k) + 1] = <<>>
          /\ strs(k + 1) = IF c = SEP THEN strs(k) ELSE [strs(k) EXCEPT ![At(k)] = Append(@, c)]
      BY <1>5, <2>1
    <2>7. At(k + 1) = IF c = SEP THEN At(k) + 1 ELSE At(k)
      BY <1>3, <2>1
    <2>8. Open(k + 1) <=> c = SEP
      BY <2>1
    <2>9. c = SEP => ~Open(k)
      <3>1. CASE k = 0
        BY <1>0, <1>7, <2>1, <3>1
      <3>2. CASE k # 0
        <4>1. k \in 1 .. n - 1
          BY <1>0, <2>1, <3>2
        <4>. QED BY <1>0, <3>2, <4>1
      <3>. QED BY <3>1, <3>2
    <2>. HIDE DEF Open, c, ws, next, m
    <2>10. CASE c = SEP
      <3>1. next = ws
        BY <2>2, <2>10 DEF WordsGrow, ws, next
      <3>2. Len(next) = At(k + 1) - 1 /\ \A i \in 1 .. Len(next) : strs(k + 1)[i] = next[i]
        <4>1. m = At(k) /\ At(k + 1) = At(k) + 1 /\ At(k) \in Nat /\ strs(k + 1) = strs(k)
          BY <1>3, <2>1, <2>5, <2>6, <2>7, <2>9, <2>10
        <4>2. Len(next) = m
          BY <3>1 DEF m
        <4>3. m = At(k + 1) - 1
          BY <4>1
        <4>. QED BY <2>5, <3>1, <4>1, <4>2, <4>3
      <3>3. strs(k + 1)[At(k + 1)] = <<>>
        BY <2>6, <2>7, <2>10
      <3>. QED BY <2>8, <2>10, <3>2, <3>3 DEF next
    <2>11. CASE c # SEP /\ Open(k)
      <3>. DEFINE w == <<c>>
      <3>1. next = Append(ws, w)
        BY <2>2, <2>4, <2>11 DEF WordsGrow, ws, next
      <3>2. w \in Seq(Char) /\ w = Append(<<>>, c)
        BY <2>2
      <3>. HIDE DEF w
      <3>3. /\ Len(next) = m + 1 /\ (\A i \in 1 .. m : next[i] = ws[i]) /\ next[m + 1] = w
        BY <2>3, <3>1, <3>2, AppendProperties DEF m
      <3>4. m + 1 = At(k) /\ At(k + 1) = At(k) /\ At(k) \in Nat
        <4>1. At(k) \in Nat
          BY <1>3
        <4>2. m = At(k) - 1
          BY <2>5, <2>11
        <4>3. At(k + 1) = At(k)
          BY <2>7, <2>11
        <4>. HIDE DEF m, At
        <4>. QED BY <4>1, <4>2, <4>3
      <3>5. strs(k + 1)[At(k)] = w
        BY <2>5, <2>6, <2>11, <3>2
      <3>6. \A i \in 1 .. m : strs(k + 1)[i] = next[i]
        <4>. SUFFICES ASSUME NEW i \in 1 .. m PROVE strs(k + 1)[i] = next[i]
          OBVIOUS
        <4>1. i # At(k) /\ i \in 1 .. n + 1
          BY <1>0, <2>3, <2>6, <3>4
        <4>. QED BY <2>5, <2>6, <2>11, <3>3, <4>1
      <3>7. \A i \in 1 .. Len(next) : strs(k + 1)[i] = next[i]
        BY <2>3, <3>3, <3>4, <3>5, <3>6
      <3>8. Len(next) = At(k + 1)
        BY <3>3, <3>4
      <3>. QED BY <2>8, <2>11, <3>7, <3>8 DEF next
    <2>12. CASE c # SEP /\ ~Open(k)
      <3>1. m >= 1 /\ next = [ws EXCEPT ![m] = Append(@, c)]
        BY <2>2, <2>4, <2>12 DEF WordsGrow, ws, next, m
      <3>2. m = At(k) /\ At(k + 1) = m
        BY <2>5, <2>7, <2>12
      <3>3. m \in 1 .. Len(ws) /\ ws[m] \in Seq(Char) /\ DOMAIN ws = 1 .. m
        BY <2>3, <3>1, ElementOfSeq DEF m
      <3>. DEFINE w == Append(ws[m], c)
      <3>4. w \in Seq(Char)
        BY <2>2, <3>3
      <3>5. /\ Len(next) = m
            /\ \A i \in 1 .. m : next[i] = IF i = m THEN w ELSE ws[i]
        BY <2>3, <3>1, <3>3, <3>4, ExceptSeq DEF m
      <3>6. \A i \in 1 .. m : strs(k + 1)[i] = next[i]
        <4>. SUFFICES ASSUME NEW i \in 1 .. m PROVE strs(k + 1)[i] = next[i]
          OBVIOUS
        <4>1. i \in 1 .. n + 1 /\ strs(k)[i] = ws[i]
          BY <1>0, <2>3, <2>5, <2>6, <3>2
        <4>2. strs(k + 1)[i] = IF i = m THEN Append(strs(k)[i], c) ELSE strs(k)[i]
          BY <2>6, <2>12, <3>2, <4>1
        <4>3. CASE i = m
          BY <3>5, <4>1, <4>2, <4>3
        <4>4. CASE i # m
          BY <3>5, <4>1, <4>2, <4>4
        <4>. QED BY <4>3, <4>4
      <3>. QED BY <2>8, <2>12, <3>2, <3>5, <3>6 DEF next
    <2>. QED BY <2>10, <2>11, <2>12
  <1>. HIDE DEF Inv
  <1>11. n \in S
    <2>1. S \in SUBSET Nat /\ 0 \in S
      BY <1>9
    <2>2. ASSUME NEW k \in S PROVE k + 1 \in S
      BY <1>0, <1>10
    <2>. HIDE DEF S
    <2>3. S = Nat
      BY <2>1, <2>2, Induction
    <2>. QED BY <1>0, <2>3
  <1>12. Slices(s) = [i \in 1 .. At(n) |-> strs(n)[i]]
    BY <1>6 DEF Slices
  <1>13. CASE s = <<>>
    <2>1. n = 0
      BY <1>13 DEF n
    <2>2. At(0) = 1
      BY <1>3
    <2>3. Slices(s) = [i \in 1 .. 1 |-> <<>>]
      BY <1>8, <1>12, <2>1, <2>2
    <2>. DEFINE a == [i \in 1 .. 1 |-> <<>>]
                b == << <<>> >>
    <2>4. /\ a \in Seq({<<>>}) /\ b \in Seq({<<>>}) /\ Len(a) = 1 /\ Len(b) = 1
          /\ a[1] = <<>> /\ b[1] = <<>>
      OBVIOUS
    <2>. HIDE DEF a, b
    <2>5. \A i \in 1 .. Len(a) : a[i] = b[i]
      BY <2>4
    <2>6. a = b
      BY <2>4, <2>5, SeqEqual
    <2>. QED BY <1>13, <2>3, <2>6 DEF a, b
  <1>14. CASE s # <<>>
    <2>1. n # 0
      BY <1>0, <1>14 DEF n
    <2>2. ~Open(n)
      BY <1>7, <2>1
    <2>3. Inv(n)
      BY <1>0, <1>11
    <2>4. Len(Words(s)) = At(n) /\ \A i \in 1 .. At(n) : strs(n)[i] = Words(s)[i]
      BY <1>1, <2>2, <2>3 DEF Inv
    <2>5. Words(s) \in Seq(Seq(Char)) /\ DOMAIN Words(s) = 1 .. At(n)
      BY <1>0, <2>4, WordsAre, LenProperties
    <2>6. Slices(s) = [i \in 1 .. At(n) |-> Words(s)[i]]
      BY <1>12, <2>4
    <2>7. Words(s) = [i \in 1 .. At(n) |-> Words(s)[i]]
      BY <2>5
    <2>. QED BY <1>14, <2>6, <2>7
  <1>. QED BY <1>13, <1>14

\* A word: characters that are not separators.
IsWord(w) == w \in Seq(Char) /\ w # <<>> /\ \A i \in 1 .. Len(w) : w[i] # SEP

\* A sequence whose last word gets one more character.
LEMMA LongerLast ==
  ASSUME NEW ws \in Seq(Seq(Char)), NEW w \in Seq(Char), NEW c \in Char
  PROVE  LET ext == Append(ws, w)
         IN  [ext EXCEPT ![Len(ext)] = Append(@, c)] = Append(ws, Append(w, c))
  <1>. DEFINE m == Len(ws)
              ext == Append(ws, w)
              v == Append(w, c)
              a == [ext EXCEPT ![m + 1] = v]
              b == Append(ws, v)
  <1>1. m \in Nat /\ v \in Seq(Char)
    OBVIOUS
  <1>2. /\ ext \in Seq(Seq(Char)) /\ Len(ext) = m + 1 /\ ext[m + 1] = w
        /\ \A i \in 1 .. m : ext[i] = ws[i]
    BY AppendProperties
  <1>3. /\ b \in Seq(Seq(Char)) /\ Len(b) = m + 1 /\ b[m + 1] = v
        /\ \A i \in 1 .. m : b[i] = ws[i]
    BY <1>1, AppendProperties
  <1>4. [ext EXCEPT ![Len(ext)] = Append(@, c)] = a
    BY <1>2
  <1>. HIDE DEF m, ext, v
  <1>5. /\ a \in Seq(Seq(Char)) /\ Len(a) = m + 1
        /\ \A i \in 1 .. m + 1 : a[i] = IF i = m + 1 THEN v ELSE ext[i]
    <2>1. m + 1 \in 1 .. Len(ext)
      BY <1>1, <1>2
    <2>. QED BY <1>1, <1>2, <2>1, ExceptSeq
  <1>. HIDE DEF a, b
  <1>6. \A i \in 1 .. m + 1 : a[i] = b[i]
    <2>1. \A i \in 1 .. m + 1 : i \in 1 .. m \/ i = m + 1
      BY <1>1
    <2>2. \A i \in 1 .. m : i # m + 1
      BY <1>1
    <2>. QED BY <1>2, <1>3, <1>5, <2>1, <2>2
  <1>7. a = b
    BY <1>3, <1>5, <1>6, SeqEqual
  <1>. QED BY <1>4, <1>7 DEF ext, b, v

\* The words of a line have characters, and no separators.
LEMMA WordsAreWords ==
  ASSUME NEW s \in Seq(Char)
  PROVE  \A i \in 1 .. Len(Words(s)) : IsWord(Words(s)[i])
  <1>. DEFINE n == Len(s)
              UpTo(k) == SubSeq(s, 1, k)
              Inv(k) == \A i \in 1 .. Len(Words(UpTo(k))) : IsWord(Words(UpTo(k))[i])
              S == {k \in Nat : k <= n => Inv(k)}
  <1>0. n \in Nat
    OBVIOUS
  <1>1. UpTo(0) = <<>> /\ UpTo(n) = s /\ \A k \in 1 .. n : s[k] \in Char
    <2>1. 1 \in 1 .. n + 1 /\ 1 - 1 = 0
      BY <1>0
    <2>2. SubSeq(s, 1, 1 - 1) = <<>> /\ UpTo(n) = s
      BY <2>1, PiecesAre
    <2>. QED BY <2>1, <2>2, ElementOfSeq
  <1>2. ASSUME NEW k \in 0 .. n - 1
        PROVE  UpTo(k) \in Seq(Char) /\ WordsGrow(UpTo(k), UpTo(k + 1), s[k + 1])
    <2>1. 1 \in 1 .. k + 1 /\ k + 1 \in 1 .. n
      BY <1>0
    <2>2. UpTo(k) \in Seq(Char) /\ UpTo(k + 1) = Append(UpTo(k), s[k + 1])
      BY <2>1, LongerPiece
    <2>. QED BY <1>1, <2>1, <2>2, WordsWithOneMore
  <1>. HIDE DEF n, UpTo
  <1>3. Inv(0)
    <2>1. Words(UpTo(0)) = <<>> /\ Len(<<>>) = 0
      BY <1>1, NoWords
    <2>2. \A i \in 1 .. 0 : FALSE
      OBVIOUS
    <2>. QED BY <2>1, <2>2
  <1>4. ASSUME NEW k \in Nat, k + 1 <= n, Inv(k) PROVE Inv(k + 1)
    <2>. DEFINE c == s[k + 1]
                ws == Words(UpTo(k))
                next == Words(UpTo(k + 1))
                m == Len(ws)
    <2>1. k \in 0 .. n - 1 /\ k + 1 \in 1 .. n
      BY <1>0, <1>4
    <2>2. c \in Char /\ UpTo(k) \in Seq(Char) /\ WordsGrow(UpTo(k), UpTo(k + 1), c)
      BY <1>1, <1>2, <2>1
    <2>3. ws \in Seq(Seq(Char)) /\ m \in Nat
      BY <2>2, WordsAre
    <2>4. \A i \in 1 .. m : IsWord(ws[i])
      BY <1>4
    <2>. HIDE DEF c, ws, next, m
    <2>5. CASE c = SEP
      BY <2>2, <2>4, <2>5 DEF WordsGrow, ws, m
    <2>6. CASE c # SEP /\ (UpTo(k) = <<>> \/ Last(UpTo(k)) = SEP)
      <3>. DEFINE w == <<c>>
      <3>1. next = Append(ws, w)
        BY <2>2, <2>6 DEF WordsGrow, ws, next
      <3>2. IsWord(w)
        BY <2>2, <2>6 DEF IsWord
      <3>3. w \in Seq(Char)
        BY <2>2
      <3>. HIDE DEF w
      <3>4. /\ Len(next) = m + 1 /\ (\A i \in 1 .. m : next[i] = ws[i]) /\ next[m + 1] = w
        BY <2>3, <3>1, <3>3, AppendProperties DEF m
      <3>5. \A i \in 1 .. m + 1 : i \in 1 .. m \/ i = m + 1
        BY <2>3
      <3>6. \A i \in 1 .. Len(next) : IsWord(next[i])
        BY <2>4, <3>2, <3>4, <3>5
      <3>. QED BY <3>6 DEF next
    <2>7. CASE c # SEP /\ UpTo(k) # <<>> /\ Last(UpTo(k)) # SEP
      <3>1. m >= 1 /\ next = [ws EXCEPT ![m] = Append(@, c)]
        BY <2>2, <2>7 DEF WordsGrow, ws, next, m
      <3>. DEFINE w == Append(ws[m], c)
      <3>2. m \in 1 .. Len(ws) /\ IsWord(ws[m])
        BY <2>3, <2>4, <3>1 DEF m
      <3>3. IsWord(w)
        <4>. DEFINE v == ws[m]
        <4>1. v \in Seq(Char) /\ \A i \in 1 .. Len(v) : v[i] # SEP
          BY <3>2 DEF IsWord
        <4>. HIDE DEF v
        <4>2. /\ Append(v, c) \in Seq(Char) /\ Append(v, c) # <<>>
              /\ Len(Append(v, c)) = Len(v) + 1 /\ Len(v) \in Nat
              /\ \A i \in 1 .. Len(v) : Append(v, c)[i] = v[i]
              /\ Append(v, c)[Len(v) + 1] = c
          BY <2>2, <4>1, AppendProperties
        <4>3. \A i \in 1 .. Len(v) + 1 : i \in 1 .. Len(v) \/ i = Len(v) + 1
          BY <4>2
        <4>4. IsWord(Append(v, c))
          BY <2>7, <4>1, <4>2, <4>3 DEF IsWord
        <4>. QED BY <4>4 DEF v
      <3>4. w \in Seq(Char)
        BY <3>3 DEF IsWord
      <3>. HIDE DEF w
      <3>5. next = [ws EXCEPT ![m] = w]
        BY <3>1 DEF w
      <3>6. Len(next) = m /\ \A i \in 1 .. m : next[i] = IF i = m THEN w ELSE ws[i]
        BY <2>3, <3>2, <3>4, <3>5, ExceptSeq DEF m
      <3>7. \A i \in 1 .. Len(next) : IsWord(next[i])
        BY <2>4, <3>3, <3>6
      <3>. QED BY <3>7 DEF next
    <2>. QED BY <2>5, <2>6, <2>7
  <1>. HIDE DEF Inv
  <1>5. n \in S
    <2>1. S \in SUBSET Nat /\ 0 \in S
      BY <1>3
    <2>2. ASSUME NEW k \in S PROVE k + 1 \in S
      BY <1>0, <1>4
    <2>. HIDE DEF S
    <2>3. S = Nat
      BY <2>1, <2>2, Induction
    <2>. QED BY <1>0, <2>3
  <1>. QED BY <1>0, <1>1, <1>5 DEF Inv

LEMMA ConcatAppend ==
  ASSUME NEW s \in Seq(Char), NEW t \in Seq(Char), NEW c \in Char
  PROVE  s \o Append(t, c) = Append(s \o t, c)
  <1>. DEFINE u == <<c>>
  <1>1. u \in Seq(Char) /\ s \o t \in Seq(Char)
    OBVIOUS
  <1>2. Append(t, c) = t \o u /\ Append(s \o t, c) = (s \o t) \o u
    BY <1>1, AppendIsConcat
  <1>. HIDE DEF u
  <1>. QED BY <1>1, <1>2, ConcatAssociative

\* A word after a separator, or at the beginning, is one more word.
LEMMA OneMoreWord ==
  ASSUME NEW s \in Seq(Char), s = <<>> \/ Last(s) = SEP, NEW w, IsWord(w)
  PROVE  /\ s \o w \in Seq(Char) /\ Len(s \o w) = Len(s) + Len(w)
         /\ Words(s \o w) = Append(Words(s), w)
  <1>. DEFINE n == Len(w)
              UpTo(k) == SubSeq(w, 1, k)
              Inv(k) == /\ s \o UpTo(k) \in Seq(Char) /\ s \o UpTo(k) # <<>> /\ Last(s \o UpTo(k)) # SEP
                        /\ Words(s \o UpTo(k)) = Append(Words(s), UpTo(k))
              S == {k \in Nat : k + 1 <= n => Inv(k + 1)}
  <1>0. w \in Seq(Char) /\ n \in Nat /\ n >= 1 /\ \A i \in 1 .. n : w[i] # SEP /\ w[i] \in Char
    BY ElementOfSeq DEF IsWord
  <1>1. UpTo(0) = <<>> /\ UpTo(n) = w
    <2>1. 1 \in 1 .. n + 1 /\ 1 - 1 = 0
      BY <1>0
    <2>2. SubSeq(w, 1, 1 - 1) = <<>> /\ UpTo(n) = w
      BY <1>0, <2>1, PiecesAre
    <2>. QED BY <2>1, <2>2
  <1>2. ASSUME NEW k \in 0 .. n - 1
        PROVE  /\ UpTo(k) \in Seq(Char) /\ UpTo(k + 1) = Append(UpTo(k), w[k + 1])
               /\ UpTo(k + 1) \in Seq(Char)
    <2>1. 1 \in 1 .. k + 1 /\ k + 1 \in 1 .. n
      BY <1>0
    <2>2. UpTo(k) \in Seq(Char) /\ UpTo(k + 1) = Append(UpTo(k), w[k + 1])
      BY <1>0, <2>1, LongerPiece
    <2>. QED BY <1>0, <2>1, <2>2
  <1>. HIDE DEF n, UpTo
  <1>3. ASSUME NEW k \in 0 .. n - 1
        PROVE  /\ s \o UpTo(k) \in Seq(Char) /\ s \o UpTo(k + 1) \in Seq(Char) /\ s \o UpTo(k + 1) # <<>>
               /\ s \o UpTo(k + 1) = Append(s \o UpTo(k), w[k + 1]) /\ Last(s \o UpTo(k + 1)) # SEP
               /\ WordsGrow(s \o UpTo(k), s \o UpTo(k + 1), w[k + 1])
    <2>. DEFINE p == UpTo(k)
                c == w[k + 1]
                q == s \o p
    <2>1. k + 1 \in 1 .. n
      BY <1>0
    <2>2. p \in Seq(Char) /\ UpTo(k + 1) = Append(p, c) /\ c \in Char /\ c # SEP
      BY <1>0, <1>2, <2>1
    <2>. HIDE DEF p, c
    <2>3. s \o UpTo(k + 1) = Append(q, c) /\ q \in Seq(Char)
      <3>1. s \o Append(p, c) = Append(s \o p, c)
        BY <2>2, ConcatAppend
      <3>2. s \o p \in Seq(Char)
        BY <2>2, ConcatProperties
      <3>. QED BY <2>2, <3>1, <3>2
    <2>. HIDE DEF q
    <2>4. /\ Append(q, c) \in Seq(Char) /\ Append(q, c) # <<>> /\ Last(Append(q, c)) = c
      BY <2>2, <2>3, AppendProperties DEF Last
    <2>5. WordsGrow(q, Append(q, c), c)
      BY <2>2, <2>3, WordsWithOneMore
    <2>. QED BY <2>2, <2>3, <2>4, <2>5 DEF p, c, q
  <1>4. Words(s) \in Seq(Seq(Char)) /\ s \o <<>> = s
    BY WordsAre, ConcatEmptySeq
  <1>5. Inv(1)
    <2>1. 0 \in 0 .. n - 1 /\ 0 + 1 = 1 /\ w[1] # SEP
      BY <1>0
    <2>2. /\ s \o UpTo(1) \in Seq(Char) /\ s \o UpTo(1) # <<>> /\ Last(s \o UpTo(1)) # SEP
          /\ WordsGrow(s, s \o UpTo(1), w[1])
      BY <1>1, <1>3, <1>4, <2>1
    <2>3. UpTo(1) = <<w[1]>>
      <3>1. UpTo(0 + 1) = Append(UpTo(0), w[0 + 1])
        BY <1>2, <2>1
      <3>. HIDE DEF UpTo
      <3>2. UpTo(1) = Append(<<>>, w[1])
        BY <1>1, <2>1, <3>1
      <3>. QED BY <3>2
    <2>4. Words(s \o UpTo(1)) = Append(Words(s), <<w[1]>>)
      BY <2>1, <2>2 DEF WordsGrow
    <2>. QED BY <2>2, <2>3, <2>4
  <1>6. ASSUME NEW k \in 1 .. n - 1, Inv(k) PROVE Inv(k + 1)
    <2>. DEFINE c == w[k + 1]
                ws == Append(Words(s), UpTo(k))
    <2>1. k \in 0 .. n - 1 /\ k + 1 \in 1 .. n
      BY <1>0
    <2>2. /\ s \o UpTo(k + 1) \in Seq(Char) /\ s \o UpTo(k + 1) # <<>> /\ Last(s \o UpTo(k + 1)) # SEP
          /\ WordsGrow(s \o UpTo(k), s \o UpTo(k + 1), c)
      BY <1>3, <2>1
    <2>3. UpTo(k) \in Seq(Char) /\ UpTo(k + 1) = Append(UpTo(k), c) /\ c \in Char /\ c # SEP
      BY <1>0, <1>2, <2>1
    <2>4. s \o UpTo(k) # <<>> /\ Last(s \o UpTo(k)) # SEP /\ Words(s \o UpTo(k)) = ws
      BY <1>6
    <2>. HIDE DEF c
    <2>5. [ws EXCEPT ![Len(ws)] = Append(@, c)] = Append(Words(s), Append(UpTo(k), c))
      BY <1>4, <2>3, LongerLast
    <2>6. Words(s \o UpTo(k + 1)) = [ws EXCEPT ![Len(ws)] = Append(@, c)]
      BY <2>2, <2>3, <2>4 DEF WordsGrow
    <2>. QED BY <2>2, <2>3, <2>5, <2>6
  <1>. HIDE DEF Inv
  <1>7. n - 1 \in S
    <2>1. S \in SUBSET Nat /\ 0 \in S
      BY <1>5
    <2>2. ASSUME NEW k \in S PROVE k + 1 \in S
      BY <1>0, <1>6
    <2>. HIDE DEF S
    <2>3. S = Nat
      BY <2>1, <2>2, Induction
    <2>. QED BY <1>0, <2>3
  <1>8. Inv(n)
    <2>1. (n - 1) + 1 = n /\ n <= n
      BY <1>0
    <2>. QED BY <1>7, <2>1
  <1>9. Len(s \o w) = Len(s) + Len(w)
    BY <1>0, ConcatProperties
  <1>. QED BY <1>1, <1>8, <1>9 DEF Inv

\* What FlattenSeq makes of the first strings of a sequence.
FlattenStep(f, seqs, n) ==
    [i \in 1 .. n |-> IF i = 1 THEN seqs[i] ELSE f[i - 1] \o seqs[i]]

LEMMA FlattenExists ==
  ASSUME NEW seqs, NEW N \in Nat
  PROVE  \E f : f = FlattenStep(f, seqs, N)
  <1>. DEFINE S == {n \in Nat : \E f : f = FlattenStep(f, seqs, n)}
  <1>1. 0 \in S
    <2>1. \A f : FlattenStep(f, seqs, 0) = [i \in 1 .. 0 |-> seqs[i]]
      BY DEF FlattenStep
    <2>. QED BY <2>1
  <1>2. ASSUME NEW n \in S PROVE n + 1 \in S
    <2>1. n \in Nat /\ n + 1 \in Nat
      OBVIOUS
    <2>2. PICK f : f = FlattenStep(f, seqs, n)
      OBVIOUS
    <2>. DEFINE g == [i \in 1 .. n + 1 |->
                        IF i = n + 1 THEN (IF i = 1 THEN seqs[i] ELSE f[i - 1] \o seqs[i]) ELSE f[i]]
    <2>3. ASSUME NEW i \in 1 .. n + 1
          PROVE  g[i] = IF i = 1 THEN seqs[i] ELSE g[i - 1] \o seqs[i]
      <3>1. i # 1 => i - 1 \in 1 .. n + 1 /\ i - 1 # n + 1
        BY <2>1
      <3>2. i # 1 => g[i - 1] = f[i - 1]
        BY <3>1
      <3>3. CASE i = n + 1
        BY <3>2, <3>3
      <3>4. CASE i # n + 1
        <4>1. i \in 1 .. n
          BY <2>1, <3>4
        <4>2. f[i] = IF i = 1 THEN seqs[i] ELSE f[i - 1] \o seqs[i]
          BY <2>2, <4>1 DEF FlattenStep
        <4>3. g[i] = f[i]
          BY <3>4
        <4>. HIDE DEF g
        <4>. QED BY <3>2, <4>2, <4>3
      <3>. QED BY <3>3, <3>4
    <2>4. g = FlattenStep(g, seqs, n + 1)
      BY <2>3 DEF FlattenStep
    <2>. HIDE DEF g
    <2>. QED BY <2>1, <2>4
  <1>3. S = Nat
    <2>1. S \in SUBSET Nat
      OBVIOUS
    <2>. HIDE DEF S
    <2>. QED BY <1>1, <1>2, <2>1, Induction
  <1>. QED BY <1>3

LEMMA FlattenIs ==
  ASSUME NEW seqs, NEW n \in Nat, n >= 1, Len(seqs) = n
  PROVE  \E f : /\ f[1] = seqs[1]
                /\ \A i \in 1 .. n - 1 : f[i + 1] = f[i] \o seqs[i + 1]
                /\ FlattenSeq(seqs) = f[n]
  <1>. DEFINE f == CHOOSE g : g = FlattenStep(g, seqs, n)
  <1>1. f = FlattenStep(f, seqs, n)
    BY FlattenExists
  <1>2. FlattenSeq(seqs) = f[n]
    <2>1. FlattenSeq(seqs) = (CHOOSE g : g = FlattenStep(g, seqs, Len(seqs)))[Len(seqs)]
      <3>1. Len(seqs) # 0
        OBVIOUS
      <3>. QED BY <3>1 DEF FlattenSeq, FlattenStep
    <2>. QED BY <2>1
  <1>. HIDE DEF f
  <1>3. ASSUME NEW i \in 1 .. n PROVE f[i] = IF i = 1 THEN seqs[i] ELSE f[i - 1] \o seqs[i]
    BY <1>1 DEF FlattenStep
  <1>4. f[1] = seqs[1]
    BY <1>3
  <1>5. ASSUME NEW i \in 1 .. n - 1 PROVE f[i + 1] = f[i] \o seqs[i + 1]
    <2>1. i + 1 \in 1 .. n /\ i + 1 # 1 /\ (i + 1) - 1 = i
      OBVIOUS
    <2>. QED BY <1>3, <2>1
  <1>. QED BY <1>2, <1>4, <1>5

\* Joining the words of a line from the second on gives a line of those words,
\* with one separator between two.
LEMMA JoinedWords ==
  ASSUME NEW ws \in Seq(Seq(Char)), Len(ws) >= 2, \A i \in 1 .. Len(ws) : IsWord(ws[i])
  PROVE  /\ Words(ConcatStrs(ws, 1, Len(ws))) = Tail(ws)
         /\ Len(ConcatStrs(ws, 1, Len(ws))) = Len(FlattenSeq(Tail(ws))) + Len(ws) - 2
  <1>. DEFINE n == Len(ws) - 1
              rest == Tail(ws)
              parts == [i \in 1 .. n |-> IF i < n THEN Append(ws[1 + i], SEP) ELSE ws[1 + i]]
              R(k) == SubSeq(rest, 1, k)
  <1>0. n \in Nat /\ n >= 1 /\ SEP \in Char /\ Len(ws) = n + 1 /\ ws # <<>>
    BY CommandLineAssumption
  <1>1. /\ rest \in Seq(Seq(Char)) /\ Len(rest) = n
        /\ \A i \in 1 .. n : rest[i] = ws[1 + i] /\ IsWord(rest[i])
    <2>1. rest \in Seq(Seq(Char)) /\ Len(rest) = n /\ \A i \in 1 .. n : rest[i] = ws[i + 1]
      BY <1>0, HeadTailProperties
    <2>2. \A i \in 1 .. n : 1 + i = i + 1 /\ i + 1 \in 1 .. Len(ws)
      BY <1>0
    <2>. QED BY <2>1, <2>2
  <1>2. ConcatStrs(ws, 1, Len(ws)) = FlattenSeq(parts)
    BY DEF ConcatStrs
  <1>3. parts = [i \in 1 .. n |-> IF i < n THEN Append(rest[i], SEP) ELSE rest[i]]
    BY <1>1
  <1>. HIDE DEF n, rest, parts
  <1>4. Len(parts) = n /\ \A i \in 1 .. n : parts[i] = IF i < n THEN Append(rest[i], SEP) ELSE rest[i]
    BY <1>0, <1>3
  <1>5. PICK f : /\ f[1] = parts[1]
                 /\ \A i \in 1 .. n - 1 : f[i + 1] = f[i] \o parts[i + 1]
                 /\ FlattenSeq(parts) = f[n]
    BY <1>0, <1>4, FlattenIs
  <1>6. PICK g : /\ g[1] = rest[1]
                 /\ \A i \in 1 .. n - 1 : g[i + 1] = g[i] \o rest[i + 1]
                 /\ FlattenSeq(rest) = g[n]
    BY <1>0, <1>1, FlattenIs
  <1>7. ASSUME NEW k \in 0 .. n - 1
        PROVE  /\ R(k) \in Seq(Seq(Char)) /\ R(k + 1) = Append(R(k), rest[k + 1])
    <2>. DEFINE a == R(k)
                b == R(k + 1)
                w == rest[k + 1]
    <2>1. k + 1 \in 1 .. n /\ k \in Int /\ k >= 0
      BY <1>0
    <2>2. \A i \in 1 .. n : rest[i] \in Seq(Char)
      BY <1>1 DEF IsWord
    <2>3. (\A i \in 1 .. k : rest[i] \in Seq(Char)) /\ (\A i \in 1 .. k + 1 : rest[i] \in Seq(Char))
      BY <1>0, <2>1, <2>2
    <2>4. a \in Seq(Seq(Char)) /\ Len(a) = k /\ \A i \in 1 .. k : a[i] = rest[i]
      <3>1. /\ a \in Seq(Seq(Char)) /\ Len(a) = (IF 1 <= k THEN k - 1 + 1 ELSE 0)
            /\ \A i \in 1 .. k - 1 + 1 : a[i] = rest[1 + i - 1]
        BY <2>1, <2>3, SubSeqProperties
      <3>. HIDE DEF a
      <3>. QED BY <2>1, <3>1
    <2>5. b \in Seq(Seq(Char)) /\ Len(b) = k + 1 /\ \A i \in 1 .. k + 1 : b[i] = rest[i]
      <3>1. /\ b \in Seq(Seq(Char)) /\ Len(b) = (IF 1 <= k + 1 THEN (k + 1) - 1 + 1 ELSE 0)
            /\ \A i \in 1 .. (k + 1) - 1 + 1 : b[i] = rest[1 + i - 1]
        BY <2>1, <2>3, SubSeqProperties
      <3>. HIDE DEF b
      <3>. QED BY <2>1, <3>1
    <2>6. w \in Seq(Char)
      BY <2>1, <2>2
    <2>. HIDE DEF a, b, w
    <2>. DEFINE c == Append(a, w)
    <2>7. /\ c \in Seq(Seq(Char)) /\ Len(c) = k + 1 /\ (\A i \in 1 .. k : c[i] = a[i])
          /\ c[k + 1] = w
      BY <2>4, <2>6, AppendProperties
    <2>. HIDE DEF c
    <2>8. \A i \in 1 .. k + 1 : i \in 1 .. k \/ i = k + 1
      BY <2>1
    <2>9. \A i \in 1 .. k + 1 : b[i] = c[i]
      BY <2>4, <2>5, <2>7, <2>8 DEF w
    <2>10. b = c
      BY <2>5, <2>7, <2>9, SeqEqual
    <2>. QED BY <2>4, <2>10 DEF a, b, c, w
  <1>8. R(0) = <<>> /\ R(n) = rest
    <2>1. 0 \in Int /\ 1 \in Int /\ 0 < 1
      OBVIOUS
    <2>. QED BY <1>1, <2>1, SubSeqEmpty, SubSeqFull
  <1>. HIDE DEF R
  <1>9. ASSUME NEW k \in 0 .. n - 1, NEW q \in Seq(Char), q = <<>> \/ Last(q) = SEP,
               Words(q) = R(k)
        PROVE  LET r == q \o parts[k + 1]
               IN  /\ r \in Seq(Char) /\ Words(r) = R(k + 1)
                   /\ k + 1 < n => Last(r) = SEP /\ Len(r) = Len(q) + Len(rest[k + 1]) + 1
                   /\ k + 1 = n => Len(r) = Len(q) + Len(rest[k + 1])
    <2>. DEFINE w == rest[k + 1]
                p == q \o w
    <2>1. k + 1 \in 1 .. n /\ IsWord(w) /\ w \in Seq(Char)
      <3>1. k + 1 \in 1 .. n
        BY <1>0
      <3>. QED BY <1>1, <3>1 DEF IsWord
    <2>. HIDE DEF w
    <2>2. p \in Seq(Char) /\ Len(p) = Len(q) + Len(w) /\ Words(p) = Append(R(k), w)
      BY <1>9, <2>1, OneMoreWord
    <2>3. Words(p) = R(k + 1)
      BY <1>7, <2>2 DEF w
    <2>4. parts[k + 1] = IF k + 1 < n THEN Append(w, SEP) ELSE w
      BY <1>4, <2>1 DEF w
    <2>5. CASE k + 1 < n
      <3>1. q \o parts[k + 1] = Append(p, SEP)
        BY <1>0, <2>1, <2>4, <2>5, ConcatAppend
      <3>. HIDE DEF p
      <3>2. WordsGrow(p, Append(p, SEP), SEP)
        BY <1>0, <2>2, WordsWithOneMore
      <3>3. Words(Append(p, SEP)) = Words(p)
        BY <3>2 DEF WordsGrow
      <3>4. /\ Append(p, SEP) \in Seq(Char) /\ Len(Append(p, SEP)) = Len(p) + 1
            /\ Last(Append(p, SEP)) = SEP
        BY <1>0, <2>2, AppendProperties DEF Last
      <3>. QED BY <1>0, <2>2, <2>3, <2>5, <3>1, <3>3, <3>4 DEF w
    <2>6. CASE k + 1 = n
      <3>1. q \o parts[k + 1] = p
        BY <1>0, <2>4, <2>6
      <3>. HIDE DEF p
      <3>. QED BY <1>0, <2>2, <2>3, <2>6, <3>1 DEF w
    <2>. QED BY <1>0, <2>5, <2>6
  <1>. DEFINE Inv(k) == /\ f[k] \in Seq(Char) /\ g[k] \in Seq(Char) /\ Words(f[k]) = R(k)
                        /\ k < n => Last(f[k]) = SEP /\ Len(f[k]) = Len(g[k]) + k
                        /\ k = n => Len(f[k]) = Len(g[k]) + k - 1
              S == {k \in Nat : k + 1 <= n => Inv(k + 1)}
  <1>10. Inv(1)
    <2>. DEFINE e == <<>>
    <2>1. 0 \in 0 .. n - 1 /\ 0 + 1 = 1 /\ 1 \in 1 .. n
      BY <1>0
    <2>2. e \in Seq(Char) /\ Len(e) = 0 /\ e = <<>>
      OBVIOUS
    <2>3. Words(e) = R(0)
      BY <1>8, NoWords
    <2>4. rest[1] \in Seq(Char) /\ Len(rest[1]) \in Nat
      <3>1. rest[1] \in Seq(Char)
        BY <1>1, <2>1 DEF IsWord
      <3>. QED BY <3>1
    <2>. HIDE DEF e
    <2>5. LET r == e \o parts[1]
          IN  /\ r \in Seq(Char) /\ Words(r) = R(1)
              /\ 1 < n => Last(r) = SEP /\ Len(r) = Len(e) + Len(rest[1]) + 1
              /\ 1 = n => Len(r) = Len(e) + Len(rest[1])
      <3>1. LET r == e \o parts[0 + 1]
            IN  /\ r \in Seq(Char) /\ Words(r) = R(0 + 1)
                /\ 0 + 1 < n => Last(r) = SEP /\ Len(r) = Len(e) + Len(rest[0 + 1]) + 1
                /\ 0 + 1 = n => Len(r) = Len(e) + Len(rest[0 + 1])
        BY <1>9, <2>1, <2>2, <2>3
      <3>. QED BY <2>1, <3>1
    <2>6. parts[1] \in Seq(Char)
      <3>1. parts[1] = Append(rest[1], SEP) \/ parts[1] = rest[1]
        BY <1>4, <2>1
      <3>2. Append(rest[1], SEP) \in Seq(Char)
        BY <1>0, <2>4
      <3>. QED BY <2>4, <3>1, <3>2
    <2>7. e \o parts[1] = f[1] /\ g[1] = rest[1]
      <3>1. <<>> \o parts[1] = parts[1]
        BY <2>6, ConcatEmptySeq
      <3>. QED BY <1>5, <1>6, <2>2, <3>1
    <2>8. f[1] \in Seq(Char) /\ g[1] \in Seq(Char) /\ Words(f[1]) = R(1)
      BY <2>4, <2>5, <2>7
    <2>9. 1 < n => Last(f[1]) = SEP /\ Len(f[1]) = Len(g[1]) + 1
      BY <2>2, <2>4, <2>5, <2>7
    <2>10. 1 = n => Len(f[1]) = Len(g[1]) + 1 - 1
      BY <2>2, <2>4, <2>5, <2>7
    <2>. QED BY <2>8, <2>9, <2>10
  <1>11. ASSUME NEW k \in 1 .. n - 1, Inv(k) PROVE Inv(k + 1)
    <2>. DEFINE q == f[k]
                w == rest[k + 1]
    <2>1. k \in 0 .. n - 1 /\ k + 1 \in 1 .. n /\ k < n
      BY <1>0
    <2>2. q \in Seq(Char) /\ Last(q) = SEP /\ Words(q) = R(k) /\ Len(q) = Len(g[k]) + k
          /\ g[k] \in Seq(Char)
      BY <1>11, <2>1
    <2>3. f[k + 1] = q \o parts[k + 1] /\ g[k + 1] = g[k] \o w
      BY <1>5, <1>6
    <2>4. w \in Seq(Char)
      BY <1>1, <2>1 DEF IsWord
    <2>5. g[k + 1] \in Seq(Char) /\ Len(g[k + 1]) = Len(g[k]) + Len(w) /\ Len(g[k]) \in Nat
          /\ Len(w) \in Nat
      <3>. HIDE DEF w
      <3>. QED BY <2>2, <2>3, <2>4, ConcatProperties
    <2>6. LET r == q \o parts[k + 1]
          IN  /\ r \in Seq(Char) /\ Words(r) = R(k + 1)
              /\ k + 1 < n => Last(r) = SEP /\ Len(r) = Len(q) + Len(w) + 1
              /\ k + 1 = n => Len(r) = Len(q) + Len(w)
      BY <1>9, <2>1, <2>2
    <2>. HIDE DEF q, w
    <2>. DEFINE r == f[k + 1]
                h == g[k + 1]
    <2>7. /\ r \in Seq(Char) /\ Words(r) = R(k + 1)
          /\ k + 1 < n => Last(r) = SEP /\ Len(r) = Len(q) + Len(w) + 1
          /\ k + 1 = n => Len(r) = Len(q) + Len(w)
      BY <2>3, <2>6
    <2>8. h \in Seq(Char) /\ Len(h) = Len(g[k]) + Len(w)
      BY <2>5
    <2>. HIDE DEF r, h
    <2>9. ASSUME k + 1 < n PROVE Last(r) = SEP /\ Len(r) = Len(h) + (k + 1)
      <3>0. Last(r) = SEP
        BY <2>7, <2>9
      <3>1. Len(r) = (Len(g[k]) + k) + Len(w) + 1
        BY <2>2, <2>7, <2>9
      <3>2. k \in Int
        BY <2>1
      <3>. DEFINE a == Len(g[k])
                  b == Len(w)
      <3>4. Len(r) = (a + k) + b + 1 /\ Len(h) = a + b /\ a \in Int /\ b \in Int
        BY <2>5, <2>8, <3>1
      <3>. HIDE DEF a, b
      <3>3. Len(r) = Len(h) + (k + 1)
        BY <3>2, <3>4
      <3>. QED BY <3>0, <3>3
    <2>10. ASSUME k + 1 = n PROVE Len(r) = Len(h) + (k + 1) - 1
      <3>1. Len(r) = (Len(g[k]) + k) + Len(w)
        BY <2>2, <2>7, <2>10
      <3>. QED BY <2>1, <2>5, <2>8, <3>1
    <2>. QED BY <2>7, <2>8, <2>9, <2>10 DEF r, h
  <1>. HIDE DEF Inv
  <1>12. n - 1 \in S
    <2>1. S \in SUBSET Nat /\ 0 \in S
      BY <1>10
    <2>2. ASSUME NEW k \in S PROVE k + 1 \in S
      BY <1>0, <1>11
    <2>. HIDE DEF S
    <2>3. S = Nat
      BY <2>1, <2>2, Induction
    <2>. QED BY <1>0, <2>3
  <1>13. Inv(n)
    <2>1. (n - 1) + 1 = n /\ n <= n
      BY <1>0
    <2>. QED BY <1>12, <2>1
  <1>14. /\ f[n] \in Seq(Char) /\ g[n] \in Seq(Char) /\ Words(f[n]) = rest
         /\ Len(f[n]) = Len(g[n]) + n - 1
    BY <1>8, <1>13 DEF Inv
  <1>15. Len(g[n]) + n - 1 = Len(g[n]) + Len(ws) - 2
    BY <1>0, <1>14
  <1>. QED BY <1>2, <1>5, <1>6, <1>14, <1>15 DEF rest

\* What the loop works on when it obeys a line: its words, or an empty string.
LEMMA SlicedLine ==
  ASSUME NEW s \in Seq(Char), Len(s) <= MaxLine
  PROVE  Slices(TrimDuplicates(TrimWhitespace(s))) =
           IF Words(s) = <<>> THEN << <<>> >> ELSE Words(s)
  <1>. DEFINE t == TrimWhitespace(s)
              d == TrimDuplicates(t)
  <1>1. t \in Seq(Char) /\ Len(t) <= Len(s) /\ Words(t) = Words(s) /\ Stripped(t)
    BY TrimWhitespaceIs, TrimWhitespaceKeepsWords
  <1>. HIDE DEF t
  <1>2. d \in Seq(Char) /\ Len(d) <= Len(t) /\ Words(d) = Words(t) /\ Tidy(d)
    BY <1>1, TrimDuplicatesIs, TrimDuplicatesKeepsWords
  <1>. HIDE DEF d
  <1>3. Len(d) <= SliceMax
    <2>1. /\ Len(d) \in Nat /\ Len(t) \in Nat /\ Len(s) \in Nat /\ MaxLine \in Nat /\ SliceMax \in Nat
          /\ MaxLine <= SliceMax
      BY <1>1, <1>2, SlicedStringsAssumption, CommandLineAssumption
    <2>. QED BY <1>1, <1>2, <2>1
  <1>4. Slices(d) = IF d = <<>> THEN << <<>> >> ELSE Words(d)
    BY <1>2, <1>3, SlicesAreWords
  <1>5. d = <<>> => Words(d) = <<>>
    BY NoWords
  <1>6. d # <<>> => Words(d) # <<>>
    <2>. SUFFICES ASSUME d # <<>> PROVE Words(d) # <<>>
      OBVIOUS
    <2>1. Len(d) \in Nat /\ Len(d) >= 1 /\ 1 \in 0 .. Len(d) /\ d[1] # SEP
      BY <1>2 DEF Tidy, Stripped
    <2>2. WordNumber(d, 0) = 0 /\ WordNumber(d, 0 + 1) = WordNumber(d, 0) + 1
      BY <2>1, NumberIs DEF Begins
    <2>3. 1 <= WordNumber(d, Len(d))
      <3>1. WordNumber(d, 1) = 1
        BY <2>2
      <3>. QED BY <1>2, <2>1, <3>1, NumbersAre
    <2>4. Words(d) \in Seq(Seq(Char)) /\ Len(Words(d)) >= 1
      <3>1. Len(Words(d)) = WordNumber(d, Len(d)) /\ WordNumber(d, Len(d)) \in Nat
            /\ Words(d) \in Seq(Seq(Char))
        BY <1>2, WordsAre
      <3>. QED BY <2>3, <3>1
    <2>. QED BY <2>4
  <1>. QED BY <1>1, <1>2, <1>4, <1>5, <1>6 DEF t, d

\* The inductive invariant: what the loop has made of the line it read.
LineKept ==
    /\ rcd = [in_pause_state |-> rcd.in_pause_state, queued |-> rcd.queued]
    /\ rcd.in_pause_state \in BOOLEAN
    /\ pc \in {"trim", "slice", "cut", "obey", "queue"} =>
         line \in Seq(Char) /\ Len(line) <= MaxLine
    /\ pc = "trim"  => text = line
    /\ pc = "slice" => text = TrimWhitespace(line)
    /\ pc = "cut"   => text = TrimDuplicates(TrimWhitespace(line))
    /\ pc \in {"obey", "queue"} => slices = Slices(TrimDuplicates(TrimWhitespace(line)))
    /\ pc = "queue" => /\ slices[1] = <<L>> /\ Len(slices) >= 2
                       /\ text = ConcatStrs(slices, 1, Len(slices))

LEMMA LineKeptNext == LineFits /\ LineKept /\ [Next]_vars => LineKept'
  <1>. SUFFICES ASSUME LineFits, LineKept, [Next]_vars  PROVE LineKept'
    OBVIOUS
  <1>0. ASSUME rcd' = rcd, pc' \in {"read", "exited", "crashed"}
        PROVE  LineKept'
    BY <1>0 DEF LineKept
  <1>1. CASE UNCHANGED vars
    BY <1>1 DEF vars, LineKept
  <1>2. CASE ReadLine
    BY <1>2, ReadLineIs DEF LineKept, ReadLine
  <1>3. CASE ReadLineFails \/ Ended
    BY <1>3 DEF ReadLineFails, Ended, vars, LineKept
  <1>4. CASE ReadLineCrashes \/ SliceCrashes
    BY <1>0, <1>4 DEF ReadLineCrashes, SliceCrashes, Crash
  <1>5. CASE TrimLine
    BY <1>5 DEF TrimLine, LineKept
  <1>6. CASE TrimLineFails \/ CopyLineFails \/ SliceFails
    BY <1>0, <1>6 DEF TrimLineFails, CopyLineFails, SliceFails, Continue
  <1>12. CASE CopyLine
    BY <1>12 DEF CopyLine, LineKept
  <1>7. CASE SliceLine
    BY <1>7 DEF SliceLine, LineKept
  <1>13. CASE JoinName
    BY <1>13 DEF JoinName, Command, LineKept
  <1>8. CASE ObeyPause
    BY <1>8 DEF ObeyPause, EndRound, Continue, LineKept
  <1>9. CASE LoadAudio
    BY <1>9 DEF LoadAudio, Continue, LineKept
  <1>10. CASE LoadFails \/ InvalidCommand
    BY <1>0, <1>10 DEF LoadFails, InvalidCommand, EndRound, Continue
  <1>11. CASE ObeyQuit
    BY <1>0, <1>11 DEF ObeyQuit
  <1>. QED BY <1>1, <1>2, <1>3, <1>4, <1>5, <1>6, <1>7, <1>8, <1>9, <1>10, <1>11,
            <1>12, <1>13 DEF Next

LEMMA LineAlwaysKept == Spec => []LineKept
  <1>1. Init => LineKept
    BY DEF Init, LineKept
  <1>. QED BY <1>1, LineKeptNext, LineAlwaysFits, PTL DEF Spec

\* Whatever is typed, the pause, the quit and the name of the file to queue follow
\* the words of the line (ObeysTheLine).
THEOREM LinesObeyed == Spec => ObeysTheLine
  <1>. DEFINE words == Words(line)
              Obeys == /\ rcd'.in_pause_state # rcd.in_pause_state <=>
                            pc = "obey" /\ words # <<>> /\ words[1] = <<P>>
                       /\ pc' = "exited" /\ pc # "exited" <=>
                            pc = "obey" /\ words # <<>> /\ words[1] = <<Q>>
                       /\ rcd'.queued # rcd.queued =>
                            /\ pc = "queue" /\ words[1] = <<L>>
                            /\ Words(rcd'.queued) = Tail(words)
                            /\ Len(rcd'.queued) = Len(FlattenSeq(Tail(words))) + Len(words) - 2
  <1>1. ASSUME LineFits, LineKept, Next PROVE Obeys \/ UNCHANGED vars
    <2>1. P # L /\ P # Q /\ L # Q
      BY CommandLineAssumption
    <2>2. rcd = [in_pause_state |-> rcd.in_pause_state, queued |-> rcd.queued]
          /\ rcd.in_pause_state \in BOOLEAN
      BY <1>1 DEF LineKept
    <2>3. CASE pc \notin {"obey", "queue"}
      <3>1. UNCHANGED vars \/ (rcd' = rcd /\ pc' # "exited")
        BY <1>1, <2>3 DEF Next, ReadLine, ReadLineFails, ReadLineCrashes, Crash, TrimLine,
             TrimLineFails, CopyLine, CopyLineFails, SliceLine, SliceFails, SliceCrashes,
             Continue, ObeyPause, JoinName, LoadAudio, LoadFails, ObeyQuit, InvalidCommand,
             Command, Ended
      <3>. QED BY <2>3, <3>1
    <2>4. CASE pc \in {"obey", "queue"}
      <3>1. words \in Seq(Seq(Char)) /\ (words # <<>> => Len(words) >= 1)
            /\ \A i \in 1 .. Len(words) : IsWord(words[i])
        BY <1>1, <2>4, WordsAre, WordsAreWords DEF LineKept
      <3>2. slices = IF words = <<>> THEN << <<>> >> ELSE words
        BY <1>1, <2>4, SlicedLine DEF LineKept
      <3>. HIDE DEF words
      <3>3. \A c \in Char : slices[1] = <<c>> => words # <<>> /\ words[1] = <<c>> /\ slices = words
        <4>1. \A c \in Char : << <<>> >>[1] # <<c>>
          OBVIOUS
        <4>. QED BY <3>2, <4>1
      <3>4. \A c \in Char : words # <<>> /\ words[1] = <<c>> => slices[1] = <<c>>
        BY <3>2
      <3>5. {P, L, Q} \subseteq Char /\ <<P>> # <<L>> /\ <<P>> # <<Q>> /\ <<L>> # <<Q>>
        <4>1. \A a, b : <<a>> = <<b>> => a = b
          OBVIOUS
        <4>. QED BY <2>1, <4>1, CommandLineAssumption
      <3>6. ASSUME pc = "obey", rcd' = rcd, pc' # "exited", slices[1] \notin {<<P>>, <<Q>>}
            PROVE  Obeys
        BY <3>4, <3>5, <3>6
      <3>7. CASE ObeyPause
        <4>1. slices[1] = <<P>> /\ pc = "obey" /\ pc' = "read"
              /\ rcd' = [rcd EXCEPT !.in_pause_state = ~@]
          BY <3>7 DEF ObeyPause, Command, EndRound, Continue
        <4>2. rcd'.in_pause_state = ~rcd.in_pause_state /\ rcd'.queued = rcd.queued
          BY <2>2, <4>1
        <4>3. rcd'.in_pause_state # rcd.in_pause_state
          BY <2>2, <4>2
        <4>4. words # <<>> /\ words[1] = <<P>>
          BY <3>3, <3>5, <4>1
        <4>. QED BY <3>5, <4>1, <4>2, <4>3, <4>4
      <3>8. CASE LoadAudio
        <4>1. /\ slices[1] = <<L>> /\ Len(slices) >= 2
              /\ pc = "queue" /\ pc' = "read" /\ rcd' = [rcd EXCEPT !.queued = text]
              /\ text = ConcatStrs(slices, 1, Len(slices))
          BY <1>1, <3>8 DEF LoadAudio, Continue, LineKept
        <4>2. words # <<>> /\ words[1] = <<L>> /\ slices = words
          BY <3>3, <3>5, <4>1
        <4>3. rcd'.queued = ConcatStrs(words, 1, Len(words))
              /\ rcd'.in_pause_state = rcd.in_pause_state
          BY <2>2, <4>1, <4>2
        <4>4. /\ Words(rcd'.queued) = Tail(words)
              /\ Len(rcd'.queued) = Len(FlattenSeq(Tail(words))) + Len(words) - 2
          BY <3>1, <4>1, <4>2, <4>3, JoinedWords
        <4>. QED BY <4>1, <4>2, <4>3, <4>4
      <3>9. CASE JoinName \/ LoadFails \/ InvalidCommand
        <4>1. /\ pc = "obey" /\ rcd' = rcd /\ pc' # "exited"
              /\ slices[1] \notin {<<P>>, <<Q>>}
          BY <3>5, <3>9 DEF JoinName, LoadFails, InvalidCommand, Command, EndRound, Continue
        <4>. QED BY <3>6, <4>1
      <3>10. CASE ObeyQuit
        <4>1. slices[1] = <<Q>> /\ pc = "obey" /\ pc' = "exited" /\ rcd' = rcd
          BY <3>10 DEF ObeyQuit, Command
        <4>2. words # <<>> /\ words[1] = <<Q>>
          BY <3>3, <3>5, <4>1
        <4>. QED BY <3>5, <4>1, <4>2
      <3>11. ObeyPause \/ JoinName \/ LoadAudio \/ LoadFails \/ InvalidCommand \/ ObeyQuit
        BY <1>1, <2>4 DEF Next, ReadLine, ReadLineFails, ReadLineCrashes, Crash, TrimLine,
             TrimLineFails, CopyLine, CopyLineFails, SliceLine, SliceFails, SliceCrashes, Ended
      <3>. QED BY <3>7, <3>8, <3>9, <3>10, <3>11
    <2>. QED BY <2>3, <2>4
  <1>2. LineFits /\ LineKept /\ [Next]_vars => [Obeys]_vars
    <2>. HIDE DEF Obeys
    <2>. QED BY <1>1
  <1>3. [][Obeys]_vars => ObeysTheLine
    BY PTL DEF ObeysTheLine
  <1>. QED BY <1>2, <1>3, LineAlwaysFits, LineAlwaysKept, PTL DEF Spec
=============================================================================
