--------------------------- MODULE ByteVecProofs ---------------------------
(***************************************************************************)
(* Proofs about ntrb_bytevec: for values and memory of any size its fields *)
(* describe the memory behind it, nothing is copied past that memory, and  *)
(* what is seen of it is a log of bytes.                                   *)
(***************************************************************************)
EXTENDS ByteVec, TLAPS

-----------------------------------------------------------------------------
(* The inductive invariant                                                 *)

\* The memory as the fields tell it.  Without its block a vector is empty and of
\* no capacity, and no append is in progress: what MemoryMatchesFields says, and
\* that an append has its block.
BlockMatchesFields ==
    IF base_ptr \in live
    THEN /\ live = {base_ptr}
         /\ DOMAIN heap[base_ptr] = 0 .. capacity - 1
         /\ elements <= capacity
    ELSE live = {} /\ capacity = 0 /\ elements = 0 /\ typesize = 0

IInv == TypeOK /\ BlockMatchesFields

LEMMA InitInv == Init => IInv
  BY ByteVecAssumption DEF Init, IInv, TypeOK, BlockMatchesFields, Empty

LEMMA NewInv ==
  ASSUME IInv, NEW n \in AllocBytes, New(n)  PROVE IInv'
  <1>. n \in Nat
    BY ByteVecAssumption
  <1>1. PICK a \in Addr \ live :
          /\ base_ptr' = a
          /\ live' = live \cup {a}
          /\ heap' = [heap EXCEPT ![a] = [i \in 0 .. n - 1 |-> Garbage]]
    BY DEF New
  <1>2. base_ptr = NULL /\ live = {} /\ typesize = 0 /\ DOMAIN heap = Addr
    BY ByteVecAssumption DEF IInv, TypeOK, BlockMatchesFields, New
  <1>3. elements' = 0 /\ capacity' = n /\ value' = value /\ typesize' = typesize
    BY DEF New
  <1>4. TypeOK'
    BY <1>1, <1>2, <1>3, ByteVecAssumption DEF TypeOK
  <1>5. DOMAIN (heap'[a]) = 0 .. n - 1
    BY <1>1, <1>2
  <1>6. BlockMatchesFields'
    BY <1>1, <1>2, <1>3, <1>5 DEF BlockMatchesFields
  <1>. QED BY <1>4, <1>6 DEF IInv

\* A realloc that is granted keeps the invariant in every field it touches.
LEMMA GrantedInv ==
  ASSUME IInv, base_ptr \in live, NEW n \in Nat, n >= capacity,
         ReserveGranted(n), UNCHANGED elements
  PROVE  /\ base_ptr' \in Addr /\ live' = {base_ptr'} /\ capacity' = n
         /\ DOMAIN heap' = Addr
         /\ heap'[base_ptr'] = Resized(heap[base_ptr], capacity, n)
         /\ DOMAIN (heap'[base_ptr']) = 0 .. n - 1
         /\ elements' <= capacity'
  <1>1. PICK a \in (Addr \ live) \cup {base_ptr} :
          /\ base_ptr' = a
          /\ live' = (live \ {base_ptr}) \cup {a}
          /\ heap' = [heap EXCEPT ![base_ptr] = Empty,
                                  ![a] = Resized(heap[base_ptr], capacity, n)]
    BY DEF ReserveGranted
  <1>2. live = {base_ptr} /\ base_ptr \in Addr /\ DOMAIN heap = Addr
    BY DEF IInv, TypeOK, BlockMatchesFields
  <1>3. elements \in Nat /\ capacity \in Nat /\ elements <= capacity
    BY DEF IInv, TypeOK, BlockMatchesFields
  <1>4. capacity' = n
    BY DEF ReserveGranted
  <1>5. a \in Addr /\ live' = {a}
    BY <1>1, <1>2
  <1>6. DOMAIN heap' = Addr /\ heap'[a] = Resized(heap[base_ptr], capacity, n)
    BY <1>1, <1>2, <1>5
  <1>7. DOMAIN Resized(heap[base_ptr], capacity, n) = 0 .. n - 1
    BY DEF Resized
  <1>. QED BY <1>1, <1>3, <1>4, <1>5, <1>6, <1>7

\* So does one that is refused, which loses the block only at capacity zero.
LEMMA RefusedInv ==
  ASSUME IInv, base_ptr \in live, NEW n \in Nat, n >= capacity,
         ReserveRefused(n), UNCHANGED elements, typesize' = 0
  PROVE  IInv'
  <1>1. base_ptr' = base_ptr /\ capacity' = capacity /\ heap' = heap
        /\ elements' = elements /\ typesize' = 0
    BY DEF ReserveRefused
  <1>2. live' = IF n = 0 THEN live \ {base_ptr} ELSE live
    BY DEF ReserveRefused
  <1>3. TypeOK'
    BY <1>1, <1>2 DEF IInv, TypeOK
  <1>4. live = {base_ptr} /\ elements \in Nat /\ capacity \in Nat /\ elements <= capacity
        /\ DOMAIN (heap[base_ptr]) = 0 .. capacity - 1
    BY DEF IInv, TypeOK, BlockMatchesFields
  <1>5. CASE n = 0
    <2>1. live' = {} /\ capacity = 0 /\ elements = 0
      BY <1>2, <1>4, <1>5
    <2>. QED BY <2>1, <1>1, <1>3 DEF IInv, BlockMatchesFields
  <1>6. CASE n # 0
    BY <1>1, <1>2, <1>3, <1>4, <1>6 DEF IInv, BlockMatchesFields
  <1>. QED BY <1>5, <1>6

LEMMA ReserveInv ==
  ASSUME IInv, NEW n \in AllocBytes, Reserve(n)  PROVE IInv'
  <1>. n \in Nat
    BY ByteVecAssumption
  <1>1. base_ptr \in live /\ typesize = 0 /\ typesize' = typesize
        /\ elements' = elements /\ value' = value
    BY DEF Reserve, Ready
  <1>2. capacity \in Nat /\ capacity + n \in Nat /\ capacity + n >= capacity
    BY DEF IInv, TypeOK
  <1>3. CASE ReserveGranted(capacity + n)
    <2>1. /\ base_ptr' \in Addr /\ live' = {base_ptr'} /\ capacity' = capacity + n
          /\ DOMAIN heap' = Addr
          /\ DOMAIN (heap'[base_ptr']) = 0 .. (capacity + n) - 1
          /\ elements' <= capacity'
      BY <1>1, <1>2, <1>3, GrantedInv
    <2>2. TypeOK'
      BY <2>1, <1>1, <1>2 DEF IInv, TypeOK
    <2>3. BlockMatchesFields'
      BY <2>1 DEF BlockMatchesFields
    <2>. QED BY <2>2, <2>3 DEF IInv
  <1>4. CASE ReserveRefused(capacity + n)
    BY <1>1, <1>2, <1>4, RefusedInv
  <1>. QED BY <1>3, <1>4 DEF Reserve

LEMMA AppendCallInv ==
  ASSUME IInv, NEW n \in Sizes, NEW v \in Value(n), AppendCall(n, v)  PROVE IInv'
  <1>1. base_ptr \in live /\ typesize' = n /\ value' = v
    BY DEF AppendCall, Ready
  <1>2. UNCHANGED <<base_ptr, elements, capacity, live, heap>>
    BY DEF AppendCall
  <1>3. base_ptr # NULL
    BY <1>1, ByteVecAssumption DEF IInv, TypeOK
  <1>4. TypeOK'
    BY <1>1, <1>2, <1>3 DEF IInv, TypeOK, Value
  <1>5. BlockMatchesFields'
    BY <1>1, <1>2 DEF IInv, BlockMatchesFields
  <1>. QED BY <1>4, <1>5 DEF IInv

LEMMA AppendGrowInv ==
  ASSUME IInv, AppendGrow  PROVE IInv'
  <1>1. typesize # 0 /\ typesize' = typesize /\ elements' = elements /\ value' = value
        /\ ReserveGranted(Doubled(capacity))
    BY DEF AppendGrow
  <1>2. base_ptr \in live
    BY <1>1 DEF IInv, BlockMatchesFields
  <1>3. capacity \in Nat /\ Doubled(capacity) \in Nat /\ Doubled(capacity) >= capacity
    BY DEF IInv, TypeOK, Doubled
  <1>4. /\ base_ptr' \in Addr /\ live' = {base_ptr'} /\ capacity' = Doubled(capacity)
        /\ DOMAIN heap' = Addr
        /\ DOMAIN (heap'[base_ptr']) = 0 .. Doubled(capacity) - 1
        /\ elements' <= capacity'
    BY <1>1, <1>2, <1>3, GrantedInv
  <1>5. TypeOK'
    BY <1>1, <1>3, <1>4, ByteVecAssumption DEF IInv, TypeOK, Value
  <1>6. BlockMatchesFields'
    BY <1>4 DEF BlockMatchesFields
  <1>. QED BY <1>5, <1>6 DEF IInv

LEMMA AppendFailInv ==
  ASSUME IInv, AppendFail  PROVE IInv'
  <1>1. typesize # 0 /\ typesize' = 0 /\ elements' = elements
        /\ ReserveRefused(Doubled(capacity))
    BY DEF AppendFail, AppendReturn
  <1>2. base_ptr \in live
    BY <1>1 DEF IInv, BlockMatchesFields
  <1>3. Doubled(capacity) \in Nat /\ Doubled(capacity) >= capacity
    BY DEF IInv, TypeOK, Doubled
  <1>. QED BY <1>1, <1>2, <1>3, RefusedInv

LEMMA AppendCopyInv ==
  ASSUME IInv, AppendCopy  PROVE IInv'
  <1>1. /\ typesize # 0 /\ ~Full /\ typesize' = 0
        /\ heap' = [heap EXCEPT ![base_ptr] = Written(heap[base_ptr])]
        /\ elements' = elements + typesize
        /\ UNCHANGED <<base_ptr, capacity, live>>
    BY DEF AppendCopy, AppendReturn
  <1>2. /\ base_ptr \in live /\ live = {base_ptr} /\ base_ptr \in Addr /\ DOMAIN heap = Addr
        /\ DOMAIN (heap[base_ptr]) = 0 .. capacity - 1
    BY <1>1 DEF IInv, TypeOK, BlockMatchesFields
  <1>3. elements \in Nat /\ capacity \in Nat /\ typesize \in Nat
    BY ByteVecAssumption DEF IInv, TypeOK
  <1>4. elements' \in Nat /\ elements' <= capacity'
    BY <1>1, <1>3 DEF Full
  <1>5. DOMAIN heap' = Addr /\ heap'[base_ptr] = Written(heap[base_ptr])
    BY <1>1, <1>2
  <1>6. DOMAIN (heap'[base_ptr']) = 0 .. capacity' - 1
    BY <1>1, <1>2, <1>5 DEF Written
  <1>7. TypeOK'
    BY <1>1, <1>3, <1>4, <1>5 DEF IInv, TypeOK
  <1>8. BlockMatchesFields'
    BY <1>1, <1>2, <1>4, <1>6 DEF BlockMatchesFields
  <1>. QED BY <1>7, <1>8 DEF IInv

LEMMA FreeVecInv ==
  ASSUME IInv, FreeVec  PROVE IInv'
  <1>1. /\ base_ptr \in live /\ typesize' = 0 /\ value' = value /\ typesize = 0
        /\ live' = live \ {base_ptr}
        /\ heap' = [heap EXCEPT ![base_ptr] = Empty]
        /\ base_ptr' = NULL /\ elements' = 0 /\ capacity' = 0
    BY DEF FreeVec, Ready
  <1>2. live' = {} /\ DOMAIN heap' = Addr
    BY <1>1 DEF IInv, TypeOK, BlockMatchesFields
  <1>. QED BY <1>1, <1>2 DEF IInv, TypeOK, BlockMatchesFields

LEMMA NextInv == IInv /\ [Next]_vars => IInv'
  <1>. SUFFICES ASSUME IInv, [Next]_vars  PROVE IInv'
    OBVIOUS
  <1>1. ASSUME UNCHANGED vars  PROVE IInv'
    BY <1>1 DEF IInv, TypeOK, BlockMatchesFields, Value, vars
  <1>2. CASE Dangling
    BY <1>1, <1>2 DEF Dangling
  <1>. QED BY <1>1, <1>2, NewInv, ReserveInv, AppendCallInv, AppendGrowInv,
              AppendFailInv, AppendCopyInv, FreeVecInv DEF Next

\* A vector with capacity has its block and the block is as the fields say, for
\* memory, values and growth of any size (MemoryMatchesFields).
THEOREM MemoryMatches == Spec => []MemoryMatchesFields
  <1>1. IInv => MemoryMatchesFields
    BY DEF IInv, TypeOK, BlockMatchesFields, MemoryMatchesFields
  <1>. QED BY <1>1, InitInv, NextInv, PTL DEF Spec

\* No append writes past the memory of the vector.
THEOREM CopyStaysInside == Spec => []CopyFits
  <1>1. IInv => CopyFits
    <2>. SUFFICES ASSUME IInv, typesize # 0, ~Full
                  PROVE  /\ base_ptr \in live
                         /\ elements .. elements + typesize - 1 \subseteq DOMAIN heap[base_ptr]
      BY DEF CopyFits
    <2>1. base_ptr \in live /\ DOMAIN heap[base_ptr] = 0 .. capacity - 1
      BY DEF IInv, BlockMatchesFields
    <2>2. elements \in Nat /\ capacity \in Nat /\ typesize \in Nat
      BY ByteVecAssumption DEF IInv, TypeOK
    <2>. QED BY <2>1, <2>2 DEF Full
  <1>. QED BY <1>1, InitInv, NextInv, PTL DEF Spec

-----------------------------------------------------------------------------
(* The refinement                                                          *)

\* Growing or moving the memory cannot be seen in the contents.
LEMMA GrantedKeepsContents ==
  ASSUME IInv, base_ptr \in live, NEW n \in Nat, n >= capacity,
         ReserveGranted(n), UNCHANGED elements
  PROVE  Contents' = Contents
  <1>1. /\ live' = {base_ptr'}
        /\ heap'[base_ptr'] = Resized(heap[base_ptr], capacity, n)
    BY GrantedInv
  <1>2. elements \in Nat /\ capacity \in Nat /\ elements <= capacity
    BY DEF IInv, TypeOK, BlockMatchesFields
  <1>3. \A i \in 0 .. elements - 1 : heap'[base_ptr'][i] = heap[base_ptr][i]
    BY <1>1, <1>2 DEF Resized
  <1>4. Contents' = [i \in 0 .. elements - 1 |-> heap'[base_ptr'][i]]
    BY <1>1 DEF Contents
  <1>5. Contents = [i \in 0 .. elements - 1 |-> heap[base_ptr][i]]
    BY DEF Contents
  <1>. QED BY <1>3, <1>4, <1>5

\* Nor can a growth that is refused: the block that is lost at capacity zero was
\* empty.
LEMMA RefusedKeepsContents ==
  ASSUME IInv, base_ptr \in live, NEW n \in Nat, n >= capacity,
         ReserveRefused(n), UNCHANGED elements
  PROVE  Contents' = Contents
  <1>1. base_ptr' = base_ptr /\ heap' = heap
        /\ live' = IF n = 0 THEN live \ {base_ptr} ELSE live
    BY DEF ReserveRefused
  <1>2. elements \in Nat /\ capacity \in Nat /\ elements <= capacity
    BY DEF IInv, TypeOK, BlockMatchesFields
  <1>3. CASE n # 0
    BY <1>1, <1>3 DEF Contents
  <1>4. CASE n = 0
    <2>1. elements = 0 /\ 0 .. elements - 1 = {}
      BY <1>2, <1>4
    <2>2. Contents = [i \in {} |-> heap[base_ptr][i]]
      BY <2>1 DEF Contents
    <2>3. Contents' = [i \in {} |-> Garbage]
      BY <1>1, <1>4, <2>1 DEF Contents, Empty
    <2>. QED BY <2>2, <2>3
  <1>. QED BY <1>3, <1>4

\* The memcpy adds the whole value behind what is there.
LEMMA CopyAdds ==
  ASSUME IInv, AppendCopy  PROVE Log!Add
  <1>1. /\ typesize # 0 /\ ~Full /\ typesize' = 0
        /\ heap' = [heap EXCEPT ![base_ptr] = Written(heap[base_ptr])]
        /\ elements' = elements + typesize
        /\ UNCHANGED <<base_ptr, capacity, live>>
    BY DEF AppendCopy, AppendReturn
  <1>2. /\ base_ptr \in live /\ base_ptr \in Addr /\ DOMAIN heap = Addr
        /\ DOMAIN heap[base_ptr] = 0 .. capacity - 1
    BY <1>1 DEF IInv, TypeOK, BlockMatchesFields
  <1>3. elements \in Nat /\ capacity \in Nat /\ typesize \in Nat
        /\ elements + typesize < capacity
    BY <1>1, ByteVecAssumption DEF IInv, TypeOK, Full
  <1>4. heap'[base_ptr] = Written(heap[base_ptr])
    BY <1>1, <1>2
  <1>5. Contents' = [i \in 0 .. elements + typesize - 1 |-> Written(heap[base_ptr])[i]]
    <2>1. base_ptr' \in live'
      BY <1>1, <1>2
    <2>2. Contents' = [i \in 0 .. elements' - 1 |-> heap'[base_ptr'][i]]
      BY <2>1 DEF Contents
    <2>3. heap'[base_ptr'] = Written(heap[base_ptr])
      BY <1>1, <1>4
    <2>4. elements' - 1 = elements + typesize - 1
      BY <1>1, <1>3
    <2>. QED BY <2>2, <2>3, <2>4
  <1>6. Contents = [i \in 0 .. elements - 1 |-> heap[base_ptr][i]]
    BY <1>2 DEF Contents
  <1>7. \A i \in 0 .. elements + typesize - 1 :
          Written(heap[base_ptr])[i] =
            IF i < elements THEN Contents[i] ELSE value[i - elements]
    BY <1>2, <1>3, <1>6 DEF Written
  <1>8. Contents' = [i \in 0 .. elements + typesize - 1 |->
                       IF i < elements THEN Contents[i] ELSE value[i - elements]]
    BY <1>5, <1>7
  <1>. QED BY <1>1, <1>8 DEF Log!Add

LEMMA StepRefines ==
  ASSUME IInv, [Next]_vars
  PROVE  [Log!Next]_<<Contents, elements, value, typesize>>
  <1>. DEFINE Stutter == UNCHANGED <<Contents, elements, value, typesize>>
  <1>1. CASE UNCHANGED vars
    BY <1>1 DEF vars, Contents, Empty
  <1>2. ASSUME NEW n \in AllocBytes, New(n)  PROVE Log!Clear
    <2>1. typesize = 0 /\ typesize' = 0 /\ elements' = 0 /\ base_ptr' \in live'
      BY <1>2, ByteVecAssumption DEF New, IInv, TypeOK, BlockMatchesFields
    <2>2. DOMAIN Contents' = {}
      BY <2>1 DEF Contents
    <2>. QED BY <2>1, <2>2 DEF Log!Clear
  <1>3. ASSUME NEW n \in AllocBytes, Reserve(n)  PROVE Stutter
    <2>1. /\ base_ptr \in live /\ UNCHANGED <<elements, value, typesize>>
          /\ ReserveGranted(capacity + n) \/ ReserveRefused(capacity + n)
      BY <1>3 DEF Reserve, Ready
    <2>2. capacity + n \in Nat /\ capacity + n >= capacity
      BY ByteVecAssumption DEF IInv, TypeOK
    <2>3. Contents' = Contents
      BY <2>1, <2>2, GrantedKeepsContents, RefusedKeepsContents
    <2>. QED BY <2>1, <2>3
  <1>4. ASSUME NEW n \in Sizes, NEW v \in Value(n), AppendCall(n, v)  PROVE Log!Request
    <2>1. /\ typesize = 0 /\ typesize' = n /\ value' = v
          /\ UNCHANGED <<base_ptr, elements, capacity, live, heap>>
      BY <1>4 DEF AppendCall, Ready
    <2>2. Contents' = Contents
      BY <2>1 DEF Contents, Empty
    <2>. QED BY <2>1, <2>2 DEF Log!Request, Log!Value, Value
  <1>5. ASSUME AppendGrow  PROVE Stutter
    <2>1. /\ typesize # 0 /\ UNCHANGED <<elements, value, typesize>>
          /\ ReserveGranted(Doubled(capacity))
      BY <1>5 DEF AppendGrow
    <2>2. base_ptr \in live
      BY <2>1 DEF IInv, BlockMatchesFields
    <2>3. Doubled(capacity) \in Nat /\ Doubled(capacity) >= capacity
      BY DEF IInv, TypeOK, Doubled
    <2>4. Contents' = Contents
      BY <2>1, <2>2, <2>3, GrantedKeepsContents
    <2>. QED BY <2>1, <2>4
  <1>6. ASSUME AppendFail  PROVE Log!Refuse
    <2>1. /\ typesize # 0 /\ typesize' = 0 /\ elements' = elements
          /\ ReserveRefused(Doubled(capacity))
      BY <1>6 DEF AppendFail, AppendReturn
    <2>2. base_ptr \in live
      BY <2>1 DEF IInv, BlockMatchesFields
    <2>3. Doubled(capacity) \in Nat /\ Doubled(capacity) >= capacity
      BY DEF IInv, TypeOK, Doubled
    <2>4. Contents' = Contents
      BY <2>1, <2>2, <2>3, RefusedKeepsContents
    <2>. QED BY <2>1, <2>4 DEF Log!Refuse
  <1>7. ASSUME FreeVec  PROVE Log!Clear
    <2>1. typesize = 0 /\ typesize' = 0 /\ elements' = 0 /\ base_ptr' = NULL
          /\ live' = live \ {base_ptr}
      BY <1>7 DEF FreeVec, Ready
    <2>2. NULL \notin live
      BY ByteVecAssumption DEF IInv, TypeOK
    <2>3. DOMAIN Contents' = {}
      BY <2>1, <2>2 DEF Contents, Empty
    <2>. QED BY <2>1, <2>3 DEF Log!Clear
  <1>8. ASSUME Dangling  PROVE Stutter
    BY <1>8 DEF Dangling, vars, Contents, Empty
  <1>. QED BY <1>1, <1>2, <1>3, <1>4, <1>5, <1>6, <1>7, <1>8, CopyAdds DEF Next, Log!Next

\* Seen from outside an ntrb_bytevec is a log of bytes, for values of any size.
THEOREM Refines == Spec => ImplementsLog
  <1>1. Init => Log!Init
    <2>. SUFFICES ASSUME Init  PROVE Log!Init
      OBVIOUS
    <2>1. DOMAIN Contents = {}
      BY DEF Init, Contents, Empty
    <2>. QED BY <2>1 DEF Init, Log!Init
  <1>2. IInv /\ [Next]_vars => [Log!Next]_<<Contents, elements, value, typesize>>
    BY StepRefines
  <1>. QED BY <1>1, <1>2, InitInv, NextInv, PTL DEF Spec, ImplementsLog, Log!Spec
=============================================================================
