--------------------------- MODULE MemDebugProofs ---------------------------
(***************************************************************************)
(* Proofs about the memory debugger: the record keeps its type and never   *)
(* outgrows its memory, for any number of threads and pointers and however *)
(* often growing it fails.  Then what the record contains: it has an entry *)
(* for every live pointer, every free is granted, and the entries tell     *)
(* where their blocks were allocated.                                      *)
(***************************************************************************)
EXTENDS MemDebug, SequenceTheorems, FiniteSetTheorems, TLAPS

Entries == [ptr : Ptr, site : Site] \cup {Hole}
Calls   == [old : Ptr \cup {NULL}, new : Ptr \cup {NULL}, site : Site \cup {NULL}]

\* A call waits only while the module is on, when the record has some capacity
\* (the doubling of Grown gets nowhere from zero), and has a pointer to enter;
\* before that the record is empty.
Waiting ==
    /\ module = "fresh" => record = <<>>
    /\ module = "on" => capacity # 0
    /\ \A t \in Thread : pc[t] # "idle" => module = "on"
    /\ \A t \in Thread :
         pc[t] \in {"add", "replace"} => call[t].new \in Ptr /\ call[t].site \in Site

\* The inductive invariant.
MInv == TypeOK /\ Waiting /\ RecordInBounds

-----------------------------------------------------------------------------
(* Facts about the record as a sequence.                                   *)

\* Overwriting an entry keeps the length, whatever the index.
LEMMA OverwriteKeepsLen ==
  ASSUME NEW S, NEW r \in Seq(S), NEW i, NEW e \in S
  PROVE  [r EXCEPT ![i] = e] \in Seq(S) /\ Len([r EXCEPT ![i] = e]) = Len(r)
  <1>1. r \in [1 .. Len(r) -> S] /\ Len(r) \in Nat
    BY LenProperties
  <1>2. [r EXCEPT ![i] = e] \in [1 .. Len(r) -> S]
    BY <1>1
  <1>. QED BY <1>1, <1>2, IsASeq, LenProperties

\* Removing an entry never lengthens the record.
LEMMA RemovedShrinks ==
  ASSUME NEW S, Hole \in S, NEW r \in Seq(S), NEW i
  PROVE  Removed(r, i) \in Seq(S) /\ Len(Removed(r, i)) <= Len(r)
  <1>0. Len(r) \in Nat /\ \A j \in 1 .. Len(r) : r[j] \in S
    BY LenProperties
  <1>1. CASE i = Len(r)
    <2>1. \A j \in 1 .. i - 1 : r[j] \in S
      BY <1>0, <1>1
    <2>2. i - 1 \in Int /\ 1 \in Int
      BY <1>0, <1>1
    <2>3. SubSeq(r, 1, i - 1) \in Seq(S)
          /\ Len(SubSeq(r, 1, i - 1)) = IF 1 <= i - 1 THEN i - 1 - 1 + 1 ELSE 0
      BY <2>1, <2>2, SubSeqProperties
    <2>. QED BY <2>3, <1>0, <1>1 DEF Removed
  <1>2. CASE i # Len(r)
    BY <1>0, <1>2, OverwriteKeepsLen DEF Removed
  <1>. QED BY <1>1, <1>2

\* Growing makes room for one more entry.
LEMMA GrownHasRoom ==
  ASSUME NEW n \in Nat, NEW c \in Nat, n <= c, c # 0
  PROVE  Grown(n, c) \in Nat /\ Grown(n, c) # 0 /\ n + 1 <= Grown(n, c) /\ c <= Grown(n, c)
  BY DEF Grown

-----------------------------------------------------------------------------
\* The invariant holds when the module has not been initialised.
LEMMA InitMInv == Init => MInv
  <1>. SUFFICES ASSUME Init PROVE MInv
    OBVIOUS
  <1>1. record \in Seq(Entries) /\ Len(record) = 0
    BY EmptySeq DEF Init
  <1>2. TypeOK
    BY <1>1 DEF Init, TypeOK, NoCall, Entries
  <1>3. Waiting
    BY DEF Init, Waiting
  <1>. QED BY <1>1, <1>2, <1>3 DEF Init, MInv, RecordInBounds

\* A thread that starts to wait for the lock keeps the types, and does not
\* disturb the other calls.
LEMMA AwaitTypes ==
  ASSUME MInv, NEW t \in Thread, NEW what \in {"add", "replace", "free"},
         NEW old \in Ptr \cup {NULL}, NEW new \in Ptr \cup {NULL}, NEW s \in Site \cup {NULL},
         what \in {"add", "replace"} => new \in Ptr /\ s \in Site,
         module = "on", Await(t, what, old, new, s),
         UNCHANGED <<record, capacity, module, missed>>, reused' \in BOOLEAN,
         heap' \in [Ptr -> Site \cup {NULL}]
  PROVE  MInv'
  <1>. USE DEF MInv, TypeOK
  <1>1. pc' \in [Thread -> {"idle", "add", "replace", "free"}]
    BY DEF Await
  <1>2. call' \in [Thread -> [old : Ptr \cup {NULL}, new : Ptr \cup {NULL}, site : Site \cup {NULL}]]
    BY DEF Await
  <1>3. Waiting'
    BY DEF Await, Waiting
  <1>. QED BY <1>1, <1>2, <1>3 DEF RecordInBounds

\* A thread that returns keeps them, if the record and its capacity stay sound.
LEMMA ReturnTypes ==
  ASSUME MInv, NEW t \in Thread, pc[t] # "idle", Return(t),
         record' \in Seq(Entries), capacity' \in Nat, Len(record') <= capacity',
         capacity # 0 => capacity' # 0, module' = module, missed' \in BOOLEAN, reused' \in BOOLEAN,
         heap' \in [Ptr -> Site \cup {NULL}]
  PROVE  MInv'
  <1>. USE DEF MInv, TypeOK
  <1>1. pc' \in [Thread -> {"idle", "add", "replace", "free"}]
    BY DEF Return
  <1>2. call' \in [Thread -> [old : Ptr \cup {NULL}, new : Ptr \cup {NULL}, site : Site \cup {NULL}]]
    BY DEF Return, NoCall
  <1>3. Waiting'
    BY DEF Return, Waiting
  <1>. QED BY <1>1, <1>2, <1>3 DEF RecordInBounds, Entries

\* Every call keeps the invariant.
LEMMA CallMInv ==
  ASSUME MInv, NEW t \in Thread, Call(t)
  PROVE  MInv'
  <1>. DEFINE e == Entry(call[t].new, call[t].site)
  <1>0. /\ record \in Seq(Entries) /\ capacity \in Nat /\ Len(record) \in Nat
        /\ Len(record) <= capacity
        /\ heap \in [Ptr -> Site \cup {NULL}] /\ missed \in BOOLEAN /\ reused \in BOOLEAN
        /\ Hole \in Entries
    BY LenProperties DEF MInv, TypeOK, RecordInBounds, Entries
  <1>1. ASSUME NEW p \in Ptr, NEW s \in Site, Malloc(t, p, s) PROVE MInv'
    <2>1. heap' \in [Ptr -> Site \cup {NULL}]
      BY <1>0, <1>1 DEF Malloc
    <2>. QED BY <1>1, <2>1, AwaitTypes DEF Malloc
  <1>2. ASSUME NEW p \in Ptr, NEW q \in Ptr, NEW s \in Site, Realloc(t, p, q, s) PROVE MInv'
    <2>1. heap' \in [Ptr -> Site \cup {NULL}]
      BY <1>0, <1>2 DEF Realloc
    <2>. QED BY <1>2, <2>1, AwaitTypes DEF Realloc
  <1>3. ASSUME NEW p \in Ptr, Free(t, p) PROVE MInv'
    BY <1>0, <1>3, AwaitTypes DEF Free
  <1>4. ASSUME pc[t] \in {"add", "replace"} PROVE e \in Entries
    BY <1>4 DEF MInv, Waiting, Entry, Entries
  <1>5. CASE AddToUnusedSpace(t)
    <2>1. record' \in Seq(Entries) /\ Len(record') = Len(record)
      BY <1>0, <1>4, <1>5, OverwriteKeepsLen DEF AddToUnusedSpace
    <2>. QED BY <1>0, <1>5, <2>1, ReturnTypes DEF AddToUnusedSpace
  <1>6. CASE AppendElement(t)
    <2>1. capacity # 0 /\ e \in Entries
      BY <1>4, <1>6 DEF AppendElement, MInv, Waiting
    <2>2. record' \in Seq(Entries) /\ Len(record') = Len(record) + 1
      BY <1>0, <1>6, <2>1, AppendProperties DEF AppendElement
    <2>3. capacity' \in Nat /\ Len(record) + 1 <= capacity' /\ capacity' # 0
      BY <1>0, <1>6, <2>1, GrownHasRoom DEF AppendElement
    <2>. QED BY <1>0, <1>6, <2>2, <2>3, ReturnTypes DEF AppendElement
  <1>7. CASE AppendFails(t)
    BY <1>0, <1>7, ReturnTypes DEF AppendFails
  <1>8. CASE ReplaceElement(t)
    <2>1. record' \in Seq(Entries) /\ Len(record') = Len(record)
      BY <1>0, <1>4, <1>8, OverwriteKeepsLen DEF ReplaceElement
    <2>. QED BY <1>0, <1>8, <2>1, ReturnTypes DEF ReplaceElement
  <1>9. CASE FreeElement(t)
    <2>. DEFINE p == call[t].old
    <2>1. heap' \in [Ptr -> Site \cup {NULL}]
      BY <1>0, <1>9 DEF FreeElement
    <2>2. record' \in Seq(Entries) /\ Len(record') <= Len(record)
      BY <1>0, <1>9, RemovedShrinks DEF FreeElement
    <2>3. Len(record') \in Nat
      BY <2>2, LenProperties
    <2>. QED BY <1>0, <1>9, <2>1, <2>2, <2>3, ReturnTypes DEF FreeElement
  <1>10. CASE FreePrevented(t)
    BY <1>0, <1>10, ReturnTypes DEF FreePrevented
  <1>. QED BY <1>1, <1>2, <1>3, <1>5, <1>6, <1>7, <1>8, <1>9, <1>10 DEF Call, AddElement

\* Every step keeps it.
LEMMA StepMInv == MInv /\ [Next]_vars => MInv'
  <1>. SUFFICES ASSUME MInv, [Next]_vars PROVE MInv'
    OBVIOUS
  <1>1. ASSUME NEW t \in Thread, Call(t) PROVE MInv'
    BY <1>1, CallMInv
  <1>2. CASE MemdebugInit
    <2>1. Len(record) <= 1
      BY <1>2, EmptySeq DEF MInv, MemdebugInit, Waiting
    <2>2. TypeOK'
      BY <1>2 DEF MInv, TypeOK, MemdebugInit
    <2>3. Waiting'
      BY <1>2 DEF MInv, Waiting, MemdebugInit
    <2>. QED BY <1>2, <2>1, <2>2, <2>3 DEF MInv, RecordInBounds, MemdebugInit
  <1>3. CASE MemdebugUninit
    <2>1. record' \in Seq(Entries) /\ Len(record') = 0
      BY <1>3, EmptySeq DEF MemdebugUninit
    <2>2. TypeOK'
      BY <1>3, <2>1 DEF MInv, TypeOK, MemdebugUninit, Entries
    <2>3. Waiting'
      BY <1>3 DEF MInv, Waiting, MemdebugUninit, TypeOK
    <2>. QED BY <1>3, <2>1, <2>2, <2>3 DEF MInv, RecordInBounds, MemdebugUninit
  <1>4. CASE UNCHANGED vars
    BY <1>4 DEF MInv, TypeOK, Waiting, RecordInBounds, vars
  <1>. QED BY <1>1, <1>2, <1>3, <1>4 DEF Next, Terminated

\* The invariant holds in every reachable state of the memory debugger.
THEOREM MemDebugInductive == Spec => []MInv
  BY InitMInv, StepMInv, PTL DEF Spec

\* The record and the waiting calls keep their types.
THEOREM RecordTypeCorrect == Spec => []TypeOK
  <1>1. MInv => TypeOK
    BY DEF MInv
  <1>. QED BY <1>1, MemDebugInductive, PTL

\* The container is never written past its end: appending grows it first, and
\* no mix of holes filled, entries dropped and growths refused gets it out of
\* step with its capacity.
THEOREM RecordNeverOverflows == Spec => []RecordInBounds
  <1>1. MInv => RecordInBounds
    BY DEF MInv
  <1>. QED BY <1>1, MemDebugInductive, PTL

-----------------------------------------------------------------------------
(* What the record contains                                                *)


\* The pointers of the calls in progress: a new one holds the block that the
\* call has got and is nobody else's, an old one that is to be freed is live.
Callers ==
    /\ \A t \in Thread : pc[t] \in {"add", "replace"} =>
         call[t].new \in Ptr /\ call[t].site \in Site /\ heap[call[t].new] = call[t].site
    /\ \A t \in Thread : pc[t] \in {"replace", "free"} => call[t].old \in Ptr
    /\ \A t \in Thread : pc[t] = "free" => heap[call[t].old] # NULL
    /\ \A t, u \in Thread :
         pc[t] = "free" /\ pc[u] \in {"add", "replace"} => call[u].new # call[t].old
    /\ \A t, u \in Thread :
         t # u /\ pc[t] \in {"add", "replace"} /\ pc[u] \in {"add", "replace"} =>
           call[t].new # call[u].new
    /\ \A t, u \in Thread :
         t # u /\ pc[t] = "free" /\ pc[u] = "free" => call[t].old # call[u].old

\* Before the module is on nothing has been allocated.
Fresh == module = "fresh" => \A p \in Ptr : heap[p] = NULL

Settled(p) == heap[p] # NULL /\ ~Arriving(p)

\* Two threads that wait to overwrite an entry do not want the same one, and an
\* address that is given up is not in use again.
Apart ==
    /\ \A t, u \in Thread :
         t # u /\ pc[t] = "replace" /\ pc[u] = "replace" => call[t].old # call[u].old
    /\ \A t \in Thread :
         pc[t] = "replace" /\ heap[call[t].old] # NULL => call[t].new = call[t].old

\* No pointer has two entries, and an entry is right or about to be overwritten.
Right ==
    /\ \A i, j \in 1 .. Len(record) :
         i # j /\ record[i].ptr = record[j].ptr => record[i].ptr = NULL
    /\ \A i \in 1 .. Len(record) :
         record[i].ptr # NULL =>
           \/ Leaving(record[i].ptr) # {}
           \/ Settled(record[i].ptr) /\ record[i].site = heap[record[i].ptr]

Sites == ~reused => Apart /\ Right

\* The inductive invariant.
RInv == MInv /\ Callers /\ Fresh /\ RecordMatchesHeap /\ Sites

-----------------------------------------------------------------------------
(* The record before and after one of its entries changes                  *)

\* Overwriting an entry leaves the others.
LEMMA Overwritten ==
  ASSUME NEW r \in Seq(Entries), NEW i \in 1 .. Len(r), NEW e \in Entries
  PROVE  /\ Len([r EXCEPT ![i] = e]) = Len(r)
         /\ \A j \in 1 .. Len(r) : [r EXCEPT ![i] = e][j] = IF j = i THEN e ELSE r[j]
  <1>1. Len([r EXCEPT ![i] = e]) = Len(r)
    BY OverwriteKeepsLen
  <1>2. DOMAIN r = 1 .. Len(r)
    BY LenProperties
  <1>. QED BY <1>1, <1>2

\* So does appending one.
LEMMA Appended ==
  ASSUME NEW r \in Seq(Entries), NEW e \in Entries
  PROVE  /\ Len(Append(r, e)) = Len(r) + 1
         /\ \A j \in 1 .. Len(r) + 1 : Append(r, e)[j] = IF j = Len(r) + 1 THEN e ELSE r[j]
  <1>1. Len(r) \in Nat
    BY LenProperties
  <1>. QED BY <1>1, AppendProperties

\* Whichever way entry i is removed, the others stay where they were.
LEMMA RemovedOne ==
  ASSUME NEW r \in Seq(Entries), NEW i \in 1 .. Len(r)
  PROVE  /\ Len(Removed(r, i)) \in Nat /\ Len(Removed(r, i)) <= Len(r)
         /\ \A j \in 1 .. Len(r) : j # i => j <= Len(Removed(r, i)) /\ Removed(r, i)[j] = r[j]
         /\ i <= Len(Removed(r, i)) => Removed(r, i)[i] = Hole
  <1>0. Len(r) \in Nat /\ \A j \in 1 .. Len(r) : r[j] \in Entries
    BY LenProperties
  <1>1. CASE i = Len(r)
    <2>1. \A j \in 1 .. i - 1 : r[j] \in Entries
      BY <1>0, <1>1
    <2>2. i - 1 \in Int /\ 1 \in Int
      BY <1>0, <1>1
    <2>3. /\ Len(SubSeq(r, 1, i - 1)) = IF 1 <= i - 1 THEN i - 1 - 1 + 1 ELSE 0
          /\ \A j \in 1 .. i - 1 - 1 + 1 : SubSeq(r, 1, i - 1)[j] = r[1 + j - 1]
      BY <2>1, <2>2, SubSeqProperties
    <2>4. Len(SubSeq(r, 1, i - 1)) = i - 1
      BY <2>3, <1>0, <1>1
    <2>5. \A j \in 1 .. i - 1 : SubSeq(r, 1, i - 1)[j] = r[j]
      BY <2>3, <1>0, <1>1
    <2>. QED BY <2>4, <2>5, <1>0, <1>1 DEF Removed
  <1>2. CASE i # Len(r)
    <2>1. Hole \in Entries
      BY DEF Entries
    <2>. QED BY <1>0, <1>2, <2>1, Overwritten DEF Removed
  <1>. QED BY <1>1, <1>2

\* A pointer has finitely many entries, and finitely many calls give it up.
LEMMA Finite ==
  ASSUME MInv, NEW p
  PROVE  IsFiniteSet(Slots(p)) /\ IsFiniteSet(Leaving(p))
  <1>1. IsFiniteSet(1 .. Len(record))
    <2>1. Len(record) \in Nat
      BY LenProperties DEF MInv, TypeOK
    <2>. QED BY <2>1, FS_Interval
  <1>2. Slots(p) \in SUBSET (1 .. Len(record)) /\ Leaving(p) \in SUBSET Thread
    BY DEF Slots, Leaving
  <1>. QED BY <1>1, <1>2, FS_Subset, MemDebugAssumption

\* A finite set of natural numbers that is not empty has a least one: the one
\* with the fewest of the set below it.
LEMMA Least ==
  ASSUME NEW S \in SUBSET Nat, IsFiniteSet(S), S # {}
  PROVE  \E i \in S : \A j \in S : i <= j
  <1>. DEFINE Below(i) == {j \in S : j < i}
              T == {Below(i) : i \in S}
              R == StrictSubsetOrdering(S)
  <1>1. IsWellFoundedOn(R, SUBSET S)
    BY FS_StrictSubsetOrderingWellFounded, FS_FiniteSubsetsOfFinite
  <1>2. T \subseteq SUBSET S /\ T # {}
    OBVIOUS
  <1>3. \A X, Y \in SUBSET S : X \subseteq Y /\ X # Y => <<X, Y>> \in R
    BY DEF StrictSubsetOrdering
  <1>. HIDE DEF R, T
  <1>4. PICK X \in T : \A Y \in T : ~(<<Y, X>> \in R)
    BY <1>1, <1>2, WFMin
  <1>5. PICK i \in S : X = Below(i)
    BY <1>4 DEF T
  <1>6. ASSUME NEW j \in S, j < i PROVE FALSE
    <2>1. Below(j) \in T
      BY DEF T
    <2>2. j \in Below(i) /\ j \notin Below(j)
      BY <1>6
    <2>3. \A k \in Below(j) : k \in Below(i)
      BY <1>6
    <2>4. Below(j) \in SUBSET S /\ Below(i) \in SUBSET S
      OBVIOUS
    <2>. HIDE DEF Below
    <2>. QED BY <2>1, <2>2, <2>3, <2>4, <1>3, <1>4, <1>5
  <1>. QED BY <1>6

\* The first of a pointer's entries is one of them.
LEMMA FirstIsOne ==
  ASSUME MInv, NEW p, Slots(p) # {}
  PROVE  First(Slots(p)) \in Slots(p)
  <1>1. Slots(p) \in SUBSET Nat /\ IsFiniteSet(Slots(p))
    BY Finite DEF Slots
  <1>. QED BY <1>1, Least DEF First

-----------------------------------------------------------------------------
(* What a step does to the calls and to the tally                          *)

\* A thread that starts to wait has its own call, and the others keep theirs.
LEMMA AwaitEffect ==
  ASSUME MInv, NEW t \in Thread, NEW what, NEW old, NEW new, NEW s,
         Await(t, what, old, new, s)
  PROVE  /\ pc'[t] = what /\ call'[t].old = old /\ call'[t].new = new /\ call'[t].site = s
         /\ \A u \in Thread : u # t => pc'[u] = pc[u] /\ call'[u] = call[u]
  BY DEF Await, MInv, TypeOK

\* A thread that returns leaves the calls of the others alone.
LEMMA ReturnEffect ==
  ASSUME MInv, NEW t \in Thread, Return(t)
  PROVE  /\ pc'[t] = "idle"
         /\ \A u \in Thread : u # t => pc'[u] = pc[u] /\ call'[u] = call[u]
  BY DEF Return, MInv, TypeOK

\* Where a step moves nothing the tally is kept.
LEMMA TallyKept ==
  ASSUME RecordMatchesHeap, module' = module, missed' = missed,
         \A x \in Ptr : /\ Slots(x)' = Slots(x) /\ Leaving(x)' = Leaving(x)
                        /\ Settled(x)' <=> Settled(x)
  PROVE  RecordMatchesHeap'
  BY DEF RecordMatchesHeap, Settled

\* What RecordMatchesHeap says of one pointer.
Tally(x) == Cardinality(Slots(x)) = (IF Settled(x) THEN 1 ELSE 0) + Cardinality(Leaving(x))

\* It is enough to look at one pointer at a time.
LEMMA TallyMoves ==
  ASSUME RecordMatchesHeap, module' = module, missed' = missed,
         \A x \in Ptr : Tally(x) => Tally(x)'
  PROVE  RecordMatchesHeap'
  BY DEF RecordMatchesHeap, Tally, Settled

\* A new block waits for its entry.
LEMMA MallocStep ==
  ASSUME RInv, NEW t \in Thread, NEW p \in Ptr, NEW s \in Site, Malloc(t, p, s)
  PROVE  Callers' /\ RecordMatchesHeap' /\ Sites'
  <1>. USE DEF RInv
  <1>0. /\ pc[t] = "idle" /\ heap[p] = NULL /\ s # NULL /\ NULL \notin Ptr
        /\ heap'[p] = s /\ \A x \in Ptr : x # p => heap'[x] = heap[x]
        /\ record' = record /\ module' = module /\ missed' = missed
        /\ reused' = (reused \/ Leaving(p) # {})
    BY MemDebugAssumption DEF Malloc, MInv, TypeOK
  <1>1. /\ pc'[t] = "add" /\ call'[t].new = p /\ call'[t].site = s
        /\ \A u \in Thread : u # t => pc'[u] = pc[u] /\ call'[u] = call[u]
    BY AwaitEffect DEF Malloc
  <1>2. \A x : Leaving(x)' = Leaving(x)
    BY <1>0, <1>1 DEF Leaving
  <1>3. \A x : Arriving(x)' <=> Arriving(x) \/ x = p
    BY <1>0, <1>1 DEF Arriving
  <1>4. \A x \in Ptr : Settled(x)' <=> Settled(x)
    BY <1>0, <1>3 DEF Settled
  <1>5. \A x : Slots(x)' = Slots(x)
    BY <1>0 DEF Slots
  <1>a. \A u \in Thread : /\ pc[u] \in {"add", "replace"} => call[u].new # p
                          /\ pc[u] = "free" => call[u].old # p
    BY <1>0, MemDebugAssumption DEF Callers
  <1>6. Callers'
    BY <1>0, <1>1, <1>a DEF Callers
  <1>7. RecordMatchesHeap'
    BY <1>0, <1>2, <1>4, <1>5, TallyKept
  <1>8. ASSUME ~reused' PROVE Apart' /\ Right'
    <2>1. ~reused /\ Apart /\ Right /\ Leaving(p) = {}
      BY <1>8, <1>0 DEF Sites, MInv, TypeOK
    <2>2. \A u \in Thread : pc[u] = "replace" => call[u].old # p
      BY <2>1 DEF Leaving
    <2>3. Apart'
      BY <2>1, <2>2, <1>0, <1>1 DEF Apart, Callers
    <2>4. \A i \in 1 .. Len(record) : record[i].ptr \in Ptr \cup {NULL}
      BY LenProperties DEF MInv, TypeOK, Hole
    <2>5. \A i \in 1 .. Len(record) : record[i].ptr # p
      BY <2>1, <1>0 DEF Right, Settled
    <2>. QED BY <2>1, <2>3, <2>4, <2>5, <1>0, <1>2, <1>4 DEF Right
  <1>. QED BY <1>6, <1>7, <1>8 DEF Sites

\* The block moves, or stays; its entry waits to be overwritten.
LEMMA ReallocStep ==
  ASSUME RInv, NEW t \in Thread, NEW p \in Ptr, NEW q \in Ptr, NEW s \in Site,
         Realloc(t, p, q, s)
  PROVE  Callers' /\ RecordMatchesHeap' /\ Sites'
  <1>. USE DEF RInv
  <1>0. /\ pc[t] = "idle" /\ heap[p] # NULL /\ s # NULL /\ NULL \notin Ptr
        /\ q = p \/ heap[q] = NULL
        /\ ~Arriving(p) /\ ~Freeing(p)
        /\ heap'[q] = s /\ (q # p => heap'[p] = NULL)
        /\ \A x \in Ptr : x # p /\ x # q => heap'[x] = heap[x]
        /\ record' = record /\ module' = module /\ missed' = missed
        /\ reused' = (reused \/ Leaving(q) # {})
    BY MemDebugAssumption DEF Realloc, Owned, MInv, TypeOK
  <1>1. /\ pc'[t] = "replace" /\ call'[t].old = p /\ call'[t].new = q /\ call'[t].site = s
        /\ \A u \in Thread : u # t => pc'[u] = pc[u] /\ call'[u] = call[u]
    BY AwaitEffect DEF Realloc
  <1>a. \A u \in Thread : /\ pc[u] \in {"add", "replace"} => call[u].new # p
                          /\ pc[u] = "free" => call[u].old # p
    BY <1>0 DEF Arriving, Freeing
  <1>b. \A u \in Thread : q # p => /\ pc[u] \in {"add", "replace"} => call[u].new # q
                                   /\ pc[u] = "free" => call[u].old # q
    BY <1>0, MemDebugAssumption DEF Callers
  <1>2. \A x : x # p => Leaving(x)' = Leaving(x)
    BY <1>0, <1>1 DEF Leaving
  <1>3. Leaving(p)' = Leaving(p) \cup {t} /\ t \notin Leaving(p)
    BY <1>0, <1>1 DEF Leaving
  <1>4. \A x : Arriving(x)' <=> Arriving(x) \/ x = q
    BY <1>0, <1>1 DEF Arriving
  <1>5. \A x \in Ptr : x # p => (Settled(x)' <=> Settled(x))
    BY <1>0, <1>4 DEF Settled
  <1>6. Settled(p) /\ ~Settled(p)'
    BY <1>0, <1>4 DEF Settled
  <1>7. \A x : Slots(x)' = Slots(x)
    BY <1>0 DEF Slots
  <1>8. Callers'
    BY <1>0, <1>1, <1>a, <1>b DEF Callers
  <1>9. RecordMatchesHeap'
    <2>1. Cardinality(Leaving(p)') = Cardinality(Leaving(p)) + 1 /\ Cardinality(Leaving(p)) \in Nat
      BY <1>3, Finite, FS_AddElement, FS_CardinalityType
    <2>. QED BY <2>1, <1>0, <1>2, <1>5, <1>6, <1>7 DEF RecordMatchesHeap, Settled
  <1>10. ASSUME ~reused' PROVE Apart' /\ Right'
    <2>1. ~reused /\ Apart /\ Right /\ Leaving(q) = {}
      BY <1>10, <1>0 DEF Sites, MInv, TypeOK
    <2>2. \A u \in Thread : pc[u] = "replace" => call[u].old # p /\ call[u].old # q
      BY <2>1, <1>0, <1>a DEF Leaving, Apart
    <2>3. Apart'
      BY <2>1, <2>2, <1>0, <1>1 DEF Apart, Callers
    <2>4. \A i \in 1 .. Len(record) : record[i].ptr \in Ptr \cup {NULL}
      BY LenProperties DEF MInv, TypeOK, Hole
    <2>5. q # p => \A i \in 1 .. Len(record) : record[i].ptr # q
      BY <2>1, <1>0 DEF Right, Settled
    <2>. QED BY <2>1, <2>3, <2>4, <2>5, <1>0, <1>2, <1>3, <1>5 DEF Right
  <1>. QED BY <1>8, <1>9, <1>10 DEF Sites

\* A free waits for the lock; nothing has moved yet.
LEMMA FreeStep ==
  ASSUME RInv, NEW t \in Thread, NEW p \in Ptr, Free(t, p)
  PROVE  Callers' /\ RecordMatchesHeap' /\ Sites'
  <1>. USE DEF RInv
  <1>0. /\ pc[t] = "idle" /\ heap[p] # NULL /\ ~Arriving(p) /\ ~Freeing(p)
        /\ heap' = heap /\ record' = record /\ module' = module /\ missed' = missed
        /\ reused' = reused
    BY DEF Free, Owned
  <1>1. /\ pc'[t] = "free" /\ call'[t].old = p
        /\ \A u \in Thread : u # t => pc'[u] = pc[u] /\ call'[u] = call[u]
    BY AwaitEffect DEF Free
  <1>a. \A u \in Thread : /\ pc[u] \in {"add", "replace"} => call[u].new # p
                          /\ pc[u] = "free" => call[u].old # p
    BY <1>0 DEF Arriving, Freeing
  <1>2. \A x : Leaving(x)' = Leaving(x)
    BY <1>0, <1>1 DEF Leaving
  <1>3. \A x : Settled(x)' <=> Settled(x)
    BY <1>0, <1>1 DEF Arriving, Settled
  <1>4. \A x : Slots(x)' = Slots(x)
    BY <1>0 DEF Slots
  <1>5. Callers'
    BY <1>0, <1>1, <1>a DEF Callers
  <1>6. RecordMatchesHeap'
    BY <1>0, <1>2, <1>3, <1>4, TallyKept
  <1>7. Apart => Apart'
    BY <1>0, <1>1 DEF Apart
  <1>8. Right => Right'
    BY <1>0, <1>2, <1>3 DEF Right
  <1>. QED BY <1>0, <1>5, <1>6, <1>7, <1>8 DEF Sites

-----------------------------------------------------------------------------
(* The steps that hold the lock                                            *)

\* The entry e is written to place i, which no settled pointer is sure of.
LEMMA AddStep ==
  ASSUME RInv, NEW t \in Thread, pc[t] = "add", Return(t), NEW p, p = call[t].new,
         NEW i \in Nat \ {0}, record[i].ptr = NULL \/ i = Len(record) + 1,
         Len(record') \in Nat, i <= Len(record'), Len(record) <= Len(record'),
         \A j \in 1 .. Len(record') : j # i => j <= Len(record) /\ record'[j] = record[j],
         record'[i] = Entry(p, call[t].site),
         UNCHANGED <<heap, module, missed, reused>>
  PROVE  Callers' /\ RecordMatchesHeap' /\ Sites'
  <1>. USE DEF RInv
  <1>0. /\ p \in Ptr /\ heap[p] = call[t].site /\ call[t].site \in Site
        /\ NULL \notin Ptr /\ NULL \notin Site
        /\ Len(record) \in Nat
        /\ record'[i].ptr = p /\ record'[i].site = heap[p]
    BY MemDebugAssumption, LenProperties DEF Callers, MInv, TypeOK, Entry
  <1>1. /\ pc'[t] = "idle"
        /\ \A u \in Thread : u # t => pc'[u] = pc[u] /\ call'[u] = call[u]
    BY ReturnEffect
  <1>2. \A x : Leaving(x)' = Leaving(x)
    BY <1>1 DEF Leaving
  <1>a. \A u \in Thread : u # t /\ pc[u] \in {"add", "replace"} => call[u].new # p
    BY DEF Callers
  <1>3. Arriving(p) /\ ~Arriving(p)'
    BY <1>1, <1>a DEF Arriving
  <1>4. \A x : x # p => (Arriving(x)' <=> Arriving(x))
    BY <1>1 DEF Arriving
  <1>5. ~Settled(p) /\ Settled(p)' /\ \A x \in Ptr : x # p => (Settled(x)' <=> Settled(x))
    BY <1>0, <1>3, <1>4 DEF Settled
  <1>6. \A x \in Ptr : x # p => Slots(x)' = Slots(x)
    BY <1>0 DEF Slots
  <1>7. Slots(p)' = Slots(p) \cup {i} /\ i \notin Slots(p)
    BY <1>0 DEF Slots
  <1>8. Callers'
    BY <1>1 DEF Callers
  <1>9. RecordMatchesHeap'
    <2>1. Cardinality(Slots(p)') = Cardinality(Slots(p)) + 1 /\ Cardinality(Slots(p)) \in Nat
      <3>1. IsFiniteSet(Slots(p))
        BY Finite
      <3>. QED BY <3>1, <1>7, FS_AddElement, FS_CardinalityType
    <2>2. Cardinality(Leaving(p)) \in Nat
      BY Finite, FS_CardinalityType
    <2>. QED BY <2>1, <2>2, <1>0, <1>2, <1>5, <1>6 DEF RecordMatchesHeap, Settled
  <1>10. ASSUME ~reused PROVE Apart' /\ Right'
    <2>1. Apart /\ Right
      BY <1>10 DEF Sites
    <2>2. Apart'
      BY <2>1, <1>1 DEF Apart
    <2>3. \A u \in Thread : pc[u] = "replace" => call[u].old # p
      BY <2>1, <1>0 DEF Apart, Callers
    <2>4. \A j \in 1 .. Len(record) : record[j].ptr \in Ptr \cup {NULL} /\ record[j].ptr # p
      <3>1. \A j \in 1 .. Len(record) : record[j].ptr \in Ptr \cup {NULL}
        BY LenProperties DEF MInv, TypeOK, Hole
      <3>. QED BY <3>1, <2>1, <2>3, <1>0, <1>3 DEF Right, Settled, Leaving
    <2>5. \A j \in 1 .. Len(record') : j # i => j \in 1 .. Len(record) /\ record'[j] = record[j]
      BY <1>0
    <2>6. \A j, k \in 1 .. Len(record') :
            j # k /\ record'[j].ptr = record'[k].ptr => record'[j].ptr = NULL
      BY <2>1, <2>4, <2>5, <1>0 DEF Right
    <2>7. ASSUME NEW j \in 1 .. Len(record'), NEW x, x = record'[j].ptr, x # NULL
          PROVE  Leaving(x)' # {} \/ (Settled(x)' /\ record'[j].site = heap'[x])
      <3>1. CASE j = i
        BY <2>7, <3>1, <1>0, <1>5
      <3>2. CASE j # i
        <4>1. /\ x \in Ptr /\ x # p /\ x = record[j].ptr /\ j \in 1 .. Len(record)
              /\ record'[j].site = record[j].site
          BY <2>4, <2>5, <2>7, <3>2
        <4>2. Leaving(x) # {} \/ (Settled(x) /\ record[j].site = heap[x])
          BY <4>1, <2>1, <2>7 DEF Right
        <4>. QED BY <4>1, <4>2, <1>2, <1>5
      <3>. QED BY <3>1, <3>2
    <2>. QED BY <2>2, <2>6, <2>7 DEF Right
  <1>. QED BY <1>8, <1>9, <1>10 DEF Sites

\* The entry goes to a hole or to the end, or is missed.
LEMMA AddElementStep ==
  ASSUME RInv, NEW t \in Thread, AddElement(t)
  PROVE  Callers' /\ RecordMatchesHeap' /\ Sites'
  <1>. USE DEF RInv
  <1>. DEFINE p == call[t].new
              e == Entry(p, call[t].site)
  <1>0. pc[t] = "add" /\ e \in Entries /\ record \in Seq(Entries) /\ Len(record) \in Nat
    BY LenProperties DEF AddElement, AddToUnusedSpace, AppendElement, AppendFails, Callers,
                         Entry, Entries, MInv, TypeOK
  <1>1. CASE AddToUnusedSpace(t)
    <2>. DEFINE i == First(Slots(NULL))
    <2>1. i \in 1 .. Len(record) /\ record[i].ptr = NULL
      BY <1>1, FirstIsOne DEF AddToUnusedSpace, Slots
    <2>2. /\ Len(record') = Len(record)
          /\ \A j \in 1 .. Len(record) : record'[j] = IF j = i THEN e ELSE record[j]
      BY <1>0, <1>1, <2>1, Overwritten DEF AddToUnusedSpace
    <2>3. Return(t) /\ UNCHANGED <<heap, module, missed, reused>>
      BY <1>1 DEF AddToUnusedSpace
    <2>. HIDE DEF i
    <2>. QED BY <1>0, <2>1, <2>2, <2>3, AddStep
  <1>2. CASE AppendElement(t)
    <2>1. /\ Len(record') = Len(record) + 1
          /\ \A j \in 1 .. Len(record) + 1 :
               record'[j] = IF j = Len(record) + 1 THEN e ELSE record[j]
      BY <1>0, <1>2, Appended DEF AppendElement
    <2>2. Return(t) /\ UNCHANGED <<heap, module, missed, reused>>
      BY <1>2 DEF AppendElement
    <2>. QED BY <1>0, <2>1, <2>2, AddStep
  <1>3. CASE AppendFails(t)
    <2>0. /\ Return(t) /\ missed' /\ heap' = heap /\ record' = record /\ module' = module
          /\ reused' = reused
      BY <1>3 DEF AppendFails
    <2>1. /\ pc'[t] = "idle"
          /\ \A u \in Thread : u # t => pc'[u] = pc[u] /\ call'[u] = call[u]
      BY <2>0, ReturnEffect
    <2>2. Callers'
      BY <2>0, <2>1 DEF Callers
    <2>3. RecordMatchesHeap'
      BY <2>0 DEF RecordMatchesHeap
    <2>4. Apart => Apart'
      BY <2>0, <2>1 DEF Apart
    <2>5. /\ \A x : Leaving(x)' = Leaving(x)
          /\ \A x : Settled(x) => Settled(x)'
      BY <1>0, <2>0, <2>1 DEF Leaving, Settled, Arriving
    <2>6. Right => Right'
      BY <2>0, <2>5 DEF Right
    <2>. QED BY <2>0, <2>2, <2>3, <2>4, <2>6 DEF Sites
  <1>. QED BY <1>1, <1>2, <1>3 DEF AddElement

\* The entry of the old pointer becomes that of the new one.
LEMMA ReplaceElementStep ==
  ASSUME RInv, NEW t \in Thread, NEW p, NEW q, p = call[t].old, q = call[t].new,
         ReplaceElement(t)
  PROVE  Callers' /\ RecordMatchesHeap' /\ Sites'
  <1>. USE DEF RInv
  <1>0. /\ pc[t] = "replace" /\ p \in Ptr /\ q \in Ptr /\ Entry(q, call[t].site) \in Entries
        /\ heap[q] = call[t].site /\ call[t].site \in Site
        /\ NULL \notin Ptr /\ NULL \notin Site
        /\ record \in Seq(Entries) /\ Len(record) \in Nat
        /\ heap' = heap /\ module' = module /\ missed' = missed /\ reused' = reused
    BY MemDebugAssumption, LenProperties
       DEF ReplaceElement, Callers, MInv, TypeOK, Entry, Entries
  <1>1. /\ pc'[t] = "idle"
        /\ \A u \in Thread : u # t => pc'[u] = pc[u] /\ call'[u] = call[u]
    BY ReturnEffect DEF ReplaceElement
  <1>a. \A u \in Thread : u # t /\ pc[u] \in {"add", "replace"} => call[u].new # q
    BY <1>0 DEF Callers
  <1>2. t \in Leaving(p) /\ Leaving(p)' = Leaving(p) \ {t}
        /\ \A x : x # p => Leaving(x)' = Leaving(x)
    BY <1>0, <1>1 DEF Leaving
  <1>3. Arriving(q) /\ ~Arriving(q)' /\ \A x : x # q => (Arriving(x)' <=> Arriving(x))
    BY <1>0, <1>1, <1>a DEF Arriving
  <1>4. ~Settled(q) /\ Settled(q)' /\ \A x \in Ptr : x # q => (Settled(x)' <=> Settled(x))
    BY <1>0, <1>3 DEF Settled
  <1>5. Callers'
    BY <1>0, <1>1 DEF Callers
  <1>6. CASE Slots(p) = {}
    <2>1. record' = record
      BY <1>6 DEF ReplaceElement, PtrIndex
    <2>2. \A x : Slots(x)' = Slots(x)
      BY <2>1 DEF Slots
    <2>3. ~(module = "on" /\ ~missed)
      <3>1. Cardinality(Slots(p)) = 0
        BY <1>6, FS_EmptySet
      <3>2. Cardinality(Leaving(p)) \in Nat /\ Cardinality(Leaving(p)) # 0
        BY <1>2, Finite, FS_EmptySet, FS_CardinalityType
      <3>. QED BY <1>0, <3>1, <3>2 DEF RecordMatchesHeap
    <2>4. RecordMatchesHeap'
      BY <1>0, <2>3 DEF RecordMatchesHeap
    <2>5. ASSUME ~reused PROVE Apart' /\ Right'
      <3>1. Apart /\ Right
        BY <2>5 DEF Sites
      <3>2. Apart'
        BY <3>1, <1>0, <1>1 DEF Apart
      <3>3. \A j \in 1 .. Len(record) : record[j].ptr \in Ptr \cup {NULL} /\ record[j].ptr # p
        BY <1>6, LenProperties DEF MInv, TypeOK, Hole, Slots
      <3>4. \A x \in Ptr : x # p /\ Leaving(x) # {} => Leaving(x)' # {}
        BY <1>2
      <3>. QED BY <3>1, <3>2, <3>3, <3>4, <2>1, <1>0, <1>4 DEF Right
    <2>. QED BY <1>0, <1>5, <2>4, <2>5 DEF Sites
  <1>7. CASE Slots(p) # {}
    <2>1. PICK i \in 1 .. Len(record) :
            record[i].ptr = p /\ record' = [record EXCEPT ![i] = Entry(q, call[t].site)]
      <3>1. First(Slots(p)) \in Slots(p)
        BY <1>7, FirstIsOne
      <3>2. record' = [record EXCEPT ![First(Slots(p))] = Entry(q, call[t].site)]
        BY <1>7 DEF ReplaceElement, PtrIndex
      <3>. QED BY <3>1, <3>2 DEF Slots
    <2>2. /\ Len(record') = Len(record)
          /\ \A j \in 1 .. Len(record) : j # i => record'[j] = record[j]
          /\ record'[i].ptr = q /\ record'[i].site = heap[q]
      BY <1>0, <2>1, Overwritten DEF Entry
    <2>3. \A x : x # p /\ x # q => Slots(x)' = Slots(x)
      BY <2>1, <2>2 DEF Slots
    <2>4. ASSUME p = q PROVE RecordMatchesHeap'
      <3>1. \A x : Slots(x)' = Slots(x)
        BY <2>1, <2>2, <2>4 DEF Slots
      <3>2. /\ Cardinality(Leaving(p)') = Cardinality(Leaving(p)) - 1
            /\ Cardinality(Leaving(p)) \in Nat
        BY <1>2, Finite, FS_RemoveElement, FS_CardinalityType
      <3>3. Tally(p) => Tally(p)'
        BY <3>1, <3>2, <2>4, <1>2, <1>4 DEF Tally
      <3>4. \A x \in Ptr : x # p => (Tally(x) => Tally(x)')
        BY <3>1, <2>4, <1>2, <1>4 DEF Tally
      <3>. QED BY <3>3, <3>4, <1>0, TallyMoves
    <2>5. ASSUME p # q PROVE RecordMatchesHeap'
      <3>1. Slots(p)' = Slots(p) \ {i} /\ i \in Slots(p)
            /\ Slots(q)' = Slots(q) \cup {i} /\ i \notin Slots(q)
        BY <2>1, <2>2, <2>5 DEF Slots
      <3>2. /\ Cardinality(Leaving(p)') = Cardinality(Leaving(p)) - 1
            /\ Cardinality(Leaving(p)) \in Nat
        BY <1>2, Finite, FS_RemoveElement, FS_CardinalityType
      <3>3. /\ Cardinality(Slots(p)') = Cardinality(Slots(p)) - 1
            /\ Cardinality(Slots(p)) \in Nat
        BY <3>1, Finite, FS_RemoveElement, FS_CardinalityType
      <3>4. /\ Cardinality(Slots(q)') = Cardinality(Slots(q)) + 1
            /\ Cardinality(Slots(q)) \in Nat /\ Cardinality(Leaving(q)) \in Nat
        <4>1. IsFiniteSet(Slots(q)) /\ IsFiniteSet(Leaving(q))
          BY Finite
        <4>. QED BY <3>1, <4>1, FS_AddElement, FS_CardinalityType
      <3>5. Tally(p) => Tally(p)'
        BY <3>2, <3>3, <2>5, <1>0, <1>4 DEF Tally
      <3>6. Tally(q) => Tally(q)'
        BY <3>4, <2>5, <1>2, <1>4 DEF Tally
      <3>7. \A x \in Ptr : x # p /\ x # q => (Tally(x) => Tally(x)')
        BY <2>3, <1>2, <1>4 DEF Tally
      <3>. QED BY <3>5, <3>6, <3>7, <1>0, TallyMoves
    <2>6. ASSUME ~reused PROVE Apart' /\ Right'
      <3>1. Apart /\ Right
        BY <2>6 DEF Sites
      <3>2. Apart'
        BY <3>1, <1>0, <1>1 DEF Apart
      <3>3. \A j \in 1 .. Len(record) : j # i => record[j].ptr # p
        BY <3>1, <2>1, <1>0 DEF Right
      <3>4. q # p => \A u \in Thread : pc[u] = "replace" => call[u].old # q
        BY <3>1, <1>0, <1>a DEF Apart
      <3>5. \A j \in 1 .. Len(record) :
              record[j].ptr \in Ptr \cup {NULL} /\ (j # i => record[j].ptr # q)
        <4>1. \A j \in 1 .. Len(record) : record[j].ptr \in Ptr \cup {NULL}
          BY LenProperties DEF MInv, TypeOK, Hole
        <4>. QED BY <4>1, <3>1, <3>3, <3>4, <1>0, <1>4 DEF Right, Leaving
      <3>. QED BY <3>1, <3>2, <3>3, <3>5, <2>2, <1>0, <1>2, <1>4 DEF Right
    <2>. QED BY <1>0, <1>5, <2>4, <2>5, <2>6 DEF Sites
  <1>. QED BY <1>6, <1>7

\* The entry of the pointer goes, and its memory with it.
LEMMA FreeElementStep ==
  ASSUME RInv, NEW t \in Thread, NEW p, p = call[t].old, FreeElement(t)
  PROVE  Callers' /\ RecordMatchesHeap' /\ Sites'
  <1>. USE DEF RInv
  <1>0. /\ pc[t] = "free" /\ p \in Ptr /\ heap[p] # NULL /\ NULL \notin Ptr
        /\ record \in Seq(Entries) /\ Len(record) \in Nat
        /\ heap'[p] = NULL /\ \A x \in Ptr : x # p => heap'[x] = heap[x]
        /\ module' = module /\ missed' = missed /\ reused' = reused
    BY MemDebugAssumption, LenProperties DEF FreeElement, Callers, MInv, TypeOK, Entries
  <1>1. /\ pc'[t] = "idle"
        /\ \A u \in Thread : u # t => pc'[u] = pc[u] /\ call'[u] = call[u]
    BY ReturnEffect DEF FreeElement
  <1>a. \A u \in Thread : /\ pc[u] \in {"add", "replace"} => call[u].new # p
                          /\ u # t /\ pc[u] = "free" => call[u].old # p
    BY <1>0 DEF Callers
  <1>2. \A x : Leaving(x)' = Leaving(x)
    BY <1>0, <1>1 DEF Leaving
  <1>3. \A x : Arriving(x)' <=> Arriving(x)
    BY <1>0, <1>1 DEF Arriving
  <1>4. Settled(p) /\ ~Settled(p)' /\ \A x \in Ptr : x # p => (Settled(x)' <=> Settled(x))
    BY <1>0, <1>3, <1>a DEF Settled, Arriving
  <1>5. PICK i \in 1 .. Len(record) : record[i].ptr = p /\ record' = Removed(record, i)
    <2>1. First(Slots(p)) \in Slots(p)
      BY FirstIsOne DEF FreeElement
    <2>. QED BY <2>1 DEF FreeElement, Slots
  <1>6. /\ Len(record') \in Nat /\ Len(record') <= Len(record)
        /\ \A j \in 1 .. Len(record) : j # i => j <= Len(record') /\ record'[j] = record[j]
        /\ i <= Len(record') => record'[i].ptr = NULL
    BY <1>0, <1>5, RemovedOne DEF Hole
  <1>7. Slots(p)' = Slots(p) \ {i} /\ i \in Slots(p)
        /\ \A x \in Ptr : x # p => Slots(x)' = Slots(x)
    BY <1>0, <1>5, <1>6 DEF Slots
  <1>8. Callers'
    BY <1>0, <1>1, <1>a DEF Callers
  <1>9. RecordMatchesHeap'
    <2>1. Cardinality(Slots(p)') = Cardinality(Slots(p)) - 1
          /\ Cardinality(Slots(p)) \in Nat /\ Cardinality(Leaving(p)) \in Nat
      BY <1>7, Finite, FS_RemoveElement, FS_CardinalityType
    <2>2. Tally(p) => Tally(p)'
      BY <2>1, <1>2, <1>4 DEF Tally
    <2>3. \A x \in Ptr : x # p => (Tally(x) => Tally(x)')
      BY <1>2, <1>4, <1>7 DEF Tally
    <2>. QED BY <2>2, <2>3, <1>0, TallyMoves
  <1>10. ASSUME ~reused PROVE Apart' /\ Right'
    <2>1. Apart /\ Right
      BY <1>10 DEF Sites
    <2>2. Apart'
      BY <2>1, <1>0, <1>1 DEF Apart, Callers
    <2>3. \A j \in 1 .. Len(record) :
            record[j].ptr \in Ptr \cup {NULL} /\ (j # i => record[j].ptr # p)
      <3>1. \A j \in 1 .. Len(record) : record[j].ptr \in Ptr \cup {NULL}
        BY LenProperties DEF MInv, TypeOK, Hole
      <3>. QED BY <3>1, <2>1, <1>0, <1>5 DEF Right
    <2>4. \A j \in 1 .. Len(record') :
            /\ j \in 1 .. Len(record)
            /\ IF j = i THEN record'[j].ptr = NULL ELSE record'[j] = record[j]
      BY <1>0, <1>6
    <2>5. \A j, k \in 1 .. Len(record') :
            j # k /\ record'[j].ptr = record'[k].ptr => record'[j].ptr = NULL
      BY <2>1, <2>4 DEF Right
    <2>6. ASSUME NEW j \in 1 .. Len(record'), record'[j].ptr # NULL
          PROVE  (\/ Leaving(record[j].ptr) # {}
                  \/ Settled(record[j].ptr) /\ record[j].site = heap[record[j].ptr])'
      <3>1. j \in 1 .. Len(record) /\ j # i /\ record'[j] = record[j]
        BY <2>4, <2>6
      <3>2. record[j].ptr \in Ptr /\ record[j].ptr # p
        BY <3>1, <2>3, <2>6
      <3>3. \/ Leaving(record[j].ptr) # {}
            \/ Settled(record[j].ptr) /\ record[j].site = heap[record[j].ptr]
        BY <3>1, <2>1, <2>6 DEF Right
      <3>4. /\ Leaving(record[j].ptr)' = Leaving(record[j].ptr)
            /\ Settled(record[j].ptr)' <=> Settled(record[j].ptr)
            /\ heap'[record'[j].ptr] = heap[record[j].ptr]
        BY <3>1, <3>2, <1>0, <1>2, <1>4
      <3>. QED BY <3>1, <3>3, <3>4
    <2>. QED BY <2>2, <2>5, <2>6 DEF Right
  <1>. QED BY <1>0, <1>8, <1>9, <1>10 DEF Sites

\* A free that is refused changes nothing.
LEMMA FreePreventedStep ==
  ASSUME RInv, NEW t \in Thread, FreePrevented(t)
  PROVE  Callers' /\ RecordMatchesHeap' /\ Sites'
  <1>. USE DEF RInv
  <1>0. /\ pc[t] = "free" /\ heap' = heap /\ record' = record /\ module' = module
        /\ missed' = missed /\ reused' = reused
    BY DEF FreePrevented
  <1>1. /\ pc'[t] = "idle"
        /\ \A u \in Thread : u # t => pc'[u] = pc[u] /\ call'[u] = call[u]
    BY ReturnEffect DEF FreePrevented
  <1>2. Callers'
    BY <1>0, <1>1 DEF Callers
  <1>3. \A x : /\ Leaving(x)' = Leaving(x) /\ Slots(x)' = Slots(x)
               /\ Settled(x)' <=> Settled(x)
    BY <1>0, <1>1 DEF Leaving, Slots, Settled, Arriving
  <1>4. RecordMatchesHeap'
    BY <1>0, <1>3, TallyKept
  <1>5. Apart => Apart'
    BY <1>0, <1>1 DEF Apart
  <1>6. Right => Right'
    BY <1>0, <1>3 DEF Right
  <1>. QED BY <1>0, <1>2, <1>4, <1>5, <1>6 DEF Sites

-----------------------------------------------------------------------------
\* The invariant holds before the module is initialised.
LEMMA InitRInv == Init => RInv
  <1>. SUFFICES ASSUME Init PROVE RInv
    OBVIOUS
  <1>1. MInv
    BY InitMInv
  <1>2. Callers /\ Fresh /\ RecordMatchesHeap
    BY DEF Init, Callers, Fresh, RecordMatchesHeap
  <1>3. Sites
    BY EmptySeq DEF Init, Sites, Apart, Right
  <1>. QED BY <1>1, <1>2, <1>3 DEF RInv

\* When no thread waits and the record is empty, nothing is wrong in it.
LEMMA EmptyRecord ==
  ASSUME record' = <<>>, \A t \in Thread : pc'[t] = "idle"
  PROVE  Callers' /\ Sites' /\ \A p : Slots(p)' = {} /\ Leaving(p)' = {}
  <1>1. Len(record') = 0
    BY EmptySeq
  <1>. QED BY <1>1 DEF Callers, Sites, Apart, Right, Slots, Leaving

\* Every step keeps it.
LEMMA StepRInv == RInv /\ [Next]_vars => RInv'
  <1>. SUFFICES ASSUME RInv, [Next]_vars PROVE RInv'
    OBVIOUS
  <1>1. MInv'
    BY StepMInv DEF RInv
  <1>2. ASSUME NEW t \in Thread, Call(t) PROVE RInv'
    <2>1. Callers' /\ RecordMatchesHeap' /\ Sites'
      <3>1. ASSUME FreeElement(t) PROVE Callers' /\ RecordMatchesHeap' /\ Sites'
        BY <3>1, FreeElementStep
      <3>2. ASSUME ReplaceElement(t) PROVE Callers' /\ RecordMatchesHeap' /\ Sites'
        BY <3>2, ReplaceElementStep
      <3>. QED BY <1>2, <3>1, <3>2, MallocStep, ReallocStep, FreeStep, AddElementStep,
                  FreePreventedStep DEF Call
    <2>2. module = "on" /\ module' = module
      <3>1. pc[t] # "idle" => module = "on"
        BY DEF RInv, MInv, Waiting
      <3>. QED BY <1>2, <3>1
             DEF Call, Malloc, Realloc, Free, AddElement, AddToUnusedSpace, AppendElement,
                 AppendFails, ReplaceElement, FreeElement, FreePrevented
    <2>. QED BY <1>1, <2>1, <2>2 DEF RInv, Fresh
  <1>3. CASE MemdebugInit
    <2>1. /\ record' = <<>> /\ \A t \in Thread : pc'[t] = "idle"
          /\ \A p \in Ptr : heap'[p] = NULL
      BY <1>3 DEF MemdebugInit, RInv, MInv, Waiting, Fresh
    <2>2. Callers' /\ Sites' /\ \A p : Slots(p)' = {} /\ Leaving(p)' = {}
      BY <2>1, EmptyRecord
    <2>3. Cardinality({}) = 0
      BY FS_EmptySet
    <2>4. ASSUME NEW p \in Ptr PROVE Tally(p)'
      <3>1. Cardinality(Slots(p)') = 0 /\ Cardinality(Leaving(p)') = 0 /\ ~Settled(p)'
        BY <2>1, <2>2, <2>3 DEF Settled
      <3>. QED BY <3>1 DEF Tally
    <2>5. RecordMatchesHeap'
      BY <2>4 DEF RecordMatchesHeap, Tally, Settled
    <2>. QED BY <1>1, <1>3, <2>2, <2>5 DEF RInv, Fresh, MemdebugInit
  <1>4. CASE MemdebugUninit
    <2>1. record' = <<>> /\ \A t \in Thread : pc'[t] = "idle"
      BY <1>4 DEF MemdebugUninit
    <2>2. Callers' /\ Sites'
      BY <2>1, EmptyRecord
    <2>. QED BY <1>1, <1>4, <2>2 DEF RInv, Fresh, MemdebugUninit, RecordMatchesHeap
  <1>5. CASE UNCHANGED vars
    <2>1. Callers' /\ Fresh'
      BY <1>5 DEF RInv, Callers, Fresh, vars
    <2>2. /\ \A x : Leaving(x)' = Leaving(x) /\ Slots(x)' = Slots(x)
          /\ \A x : Settled(x)' <=> Settled(x)
      BY <1>5 DEF vars, Leaving, Slots, Settled, Arriving
    <2>3. RecordMatchesHeap'
      BY <1>5, <2>2, TallyKept DEF RInv, vars
    <2>4. Sites'
      BY <1>5, <2>2 DEF RInv, Sites, Apart, Right, vars
    <2>. QED BY <1>1, <2>1, <2>3, <2>4 DEF RInv
  <1>. QED BY <1>2, <1>3, <1>4, <1>5 DEF Next, Terminated

\* The invariant about the contents of the record holds in every state.
THEOREM RecordInductive == Spec => []RInv
  BY InitRInv, StepRInv, PTL DEF Spec

\* The record has one entry for every live pointer, and one to spare for every
\* realloc that has yet to overwrite it, whatever was recorded, dropped or
\* filled before.
THEOREM RecordMatches == Spec => []RecordMatchesHeap
  <1>1. RInv => RecordMatchesHeap
    BY DEF RInv
  <1>. QED BY <1>1, RecordInductive, PTL

\* An entry tells where its block was allocated as long as no address has been
\* handed out under a waiting realloc.
THEOREM EntriesTellSite == Spec => []EntryTellsSite
  <1>1. RInv => EntryTellsSite
    <2>. SUFFICES ASSUME RInv, module = "on", ~reused, \A t \in Thread : pc[t] = "idle",
                         NEW i \in 1 .. Len(record), record[i].ptr # NULL
                  PROVE  record[i].site = heap[record[i].ptr]
      BY DEF EntryTellsSite
    <2>1. Leaving(record[i].ptr) = {}
      BY DEF Leaving
    <2>. QED BY <2>1 DEF RInv, Sites, Right
  <1>. QED BY <1>1, RecordInductive, PTL

\* While every allocation could be recorded, no free of a correct caller is
\* refused.
THEOREM FreesRelease == Spec => FreeReleases
  <1>. DEFINE Releases == \A t \in Thread :
                pc[t] = "free" /\ pc'[t] = "idle" /\ ~missed => heap'[call[t].old] = NULL
  <1>1. RInv /\ [Next]_vars => [Releases]_vars
    <2>. SUFFICES ASSUME RInv, [Next]_vars, NEW t \in Thread,
                         pc[t] = "free", pc'[t] = "idle", ~missed
                  PROVE  heap'[call[t].old] = NULL
      OBVIOUS
    <2>0. module = "on" /\ heap \in [Ptr -> Site \cup {NULL}] /\ call[t].old \in Ptr
      BY DEF RInv, MInv, TypeOK, Waiting, Callers
    <2>1. Slots(call[t].old) # {}
      <3>. DEFINE p == call[t].old
      <3>1. Settled(p)
        BY DEF RInv, Callers, Settled, Arriving
      <3>2. Cardinality(Leaving(p)) \in Nat
        BY Finite, FS_CardinalityType DEF RInv
      <3>3. Cardinality(Slots(p)) = 1 + Cardinality(Leaving(p))
        BY <2>0, <3>1 DEF RInv, RecordMatchesHeap, Settled
      <3>4. Cardinality({}) = 0
        BY FS_EmptySet
      <3>. QED BY <3>2, <3>3, <3>4
    <2>2. PICK u \in Thread : Call(u)
      BY <2>0 DEF Next, MemdebugInit, MemdebugUninit, Terminated, vars
    <2>3. u = t
      <3>1. \/ Return(u)
            \/ \E what \in {"add", "replace", "free"} : \E old, new, s : Await(u, what, old, new, s)
        BY <2>2 DEF Call, Malloc, Realloc, Free, AddElement, AddToUnusedSpace, AppendElement,
                    AppendFails, ReplaceElement, FreeElement, FreePrevented
      <3>2. u # t => pc'[t] = pc[t]
        BY <3>1 DEF Return, Await, RInv, MInv, TypeOK
      <3>. QED BY <3>2
    <2>4. FreeElement(t)
      BY <2>1, <2>2, <2>3
         DEF Call, Malloc, Realloc, Free, AddElement, AddToUnusedSpace, AppendElement,
             AppendFails, ReplaceElement, FreePrevented
    <2>. QED BY <2>0, <2>4 DEF FreeElement
  <1>. QED BY <1>1, RecordInductive, PTL DEF Spec, FreeReleases
=============================================================================
