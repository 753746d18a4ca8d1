------------------------------- MODULE ByteVec -------------------------------
(***************************************************************************)
(* The growing array ntrb_bytevec (src/bytevec.c) in the hands of a caller *)
(* that makes, fills and frees one vector after the other.  One action is  *)
(* one call, except that append takes a step for every realloc it needs.   *)
(***************************************************************************)
EXTENDS Integers

CONSTANTS
    Byte,        \* the bytes of the values
    Sizes,       \* typesize: the sizes of the values
    AllocBytes,  \* the sizes vectors are made with or enlarged by
    Addr,        \* the addresses malloc and realloc can return
    MaxMemory,   \* bound: larger blocks cannot be had
    Garbage,     \* a byte nobody has written
    NULL

ASSUME ByteVecAssumption ==
    /\ Sizes \subseteq Nat \ {0} /\ AllocBytes \subseteq Nat /\ MaxMemory \in Nat
    /\ NULL \notin Addr /\ Garbage \notin Byte

VARIABLES
    base_ptr, elements, capacity,   \* the fields of the vector
    live,      \* the addresses that are allocated
    heap,      \* Addr -> the bytes there, from index 0; none where nothing is live
    value,     \* append: the value that is being added
    typesize   \* append: its size; 0: no append in progress

vars == <<base_ptr, elements, capacity, live, heap, value, typesize>>

Empty == [i \in 0 .. -1 |-> Garbage]
Value(size) == [0 .. size - 1 -> Byte]

\* A valid vector between two calls.
Ready == base_ptr \in live /\ typesize = 0

Init ==
    /\ base_ptr = NULL /\ elements = 0 /\ capacity = 0
    /\ live = {}
    /\ heap = [a \in Addr |-> Empty]
    /\ value = Empty /\ typesize = 0

\* Malloc of zero bytes returns NULL or a block like any other; after NULL there
\* is no vector, and the caller may try again.
New(n) ==
    /\ base_ptr = NULL /\ n <= MaxMemory
    /\ \E a \in Addr \ live :
         /\ base_ptr' = a
         /\ live' = live \cup {a}
         /\ heap' = [heap EXCEPT ![a] = [i \in 0 .. n - 1 |-> Garbage]]
    /\ elements' = 0 /\ capacity' = n
    /\ UNCHANGED <<value, typesize>>

\* A mutation of Resized: the block is new and the old bytes are left behind.
Resized_fresh(bytes, old, n) == [i \in 0 .. n - 1 |-> Garbage]

\* The block of old bytes enlarged to n.
Resized(bytes, old, n) == [i \in 0 .. n - 1 |-> IF i < old THEN bytes[i] ELSE Garbage]

\* A realloc that succeeds, in place or not.
ReserveGranted(n) ==
    /\ n > 0 /\ n <= MaxMemory
    /\ \E a \in (Addr \ live) \cup {base_ptr} :
         /\ base_ptr' = a
         /\ live' = (live \ {base_ptr}) \cup {a}
         /\ heap' = [heap EXCEPT ![base_ptr] = Empty,
                                 ![a] = Resized(heap[base_ptr], capacity, n)]
    /\ capacity' = n

\* A mutation of ReserveRefused: the capacity is counted before the test.
ReserveRefused_counts(n) ==
    /\ live' = IF n = 0 THEN live \ {base_ptr} ELSE live
    /\ capacity' = n
    /\ UNCHANGED <<base_ptr, heap>>

\* A realloc that fails, and one to zero bytes: that frees the block and returns
\* NULL, which looks like the failure (C library of Linux and Windows).
ReserveRefused(n) ==
    /\ live' = IF n = 0 THEN live \ {base_ptr} ELSE live
    /\ UNCHANGED <<base_ptr, capacity, heap>>

Reserve(n) ==
    /\ Ready
    /\ ReserveGranted(capacity + n) \/ ReserveRefused(capacity + n)
    /\ UNCHANGED <<elements, value, typesize>>

-----------------------------------------------------------------------------
AppendCall(size, v) ==
    /\ Ready
    /\ typesize' = size /\ value' = v
    /\ UNCHANGED <<base_ptr, elements, capacity, live, heap>>

AppendReturn == typesize' = 0 /\ value' = Empty

\* A mutation of Full: the size of the value is left out.
Full_of_elements == elements >= capacity

\* The condition of the loop.
Full == elements + typesize >= capacity

\* A mutation of Doubled: half as much again, which is nothing for one byte.
Doubled_half(n) == n + n \div 2

Doubled(n) == 2 * n

AppendGrow ==
    /\ typesize # 0 /\ Full
    /\ ReserveGranted(Doubled(capacity))
    /\ UNCHANGED <<elements, value, typesize>>

AppendFail ==
    /\ typesize # 0 /\ Full
    /\ ReserveRefused(Doubled(capacity))
    /\ AppendReturn
    /\ UNCHANGED elements

\* The bytes of a block after the memcpy.
Written(bytes) ==
    [i \in DOMAIN bytes |-> IF i \in elements .. elements + typesize - 1
                            THEN value[i - elements] ELSE bytes[i]]

AppendCopy ==
    /\ typesize # 0 /\ ~Full
    /\ heap' = [heap EXCEPT ![base_ptr] = Written(@)]
    /\ elements' = elements + typesize
    /\ AppendReturn
    /\ UNCHANGED <<base_ptr, capacity, live>>

FreeVec ==
    /\ Ready
    /\ live' = live \ {base_ptr}
    /\ heap' = [heap EXCEPT ![base_ptr] = Empty]
    /\ base_ptr' = NULL /\ elements' = 0 /\ capacity' = 0
    /\ UNCHANGED <<value, typesize>>

\* The caller is left with a pointer to memory that is gone: what another call
\* does is undefined, free included.
Dangling == base_ptr \notin live \cup {NULL} /\ UNCHANGED vars

Next ==
    \/ \E n \in AllocBytes : New(n) \/ Reserve(n)
    \/ \E size \in Sizes : \E v \in Value(size) : AppendCall(size, v)
    \/ AppendGrow \/ AppendFail \/ AppendCopy
    \/ FreeVec \/ Dangling

\* The loop of append runs on; the caller need not.
Spec == Init /\ [][Next]_vars /\ WF_vars(AppendGrow \/ AppendFail \/ AppendCopy)

-----------------------------------------------------------------------------
(* Properties                                                              *)

TypeOK ==
    /\ base_ptr \in Addr \cup {NULL} /\ elements \in Nat /\ capacity \in Nat
    /\ live \subseteq Addr
    /\ DOMAIN heap = Addr
    /\ typesize \in Sizes \cup {0}
    /\ typesize # 0 => value \in Value(typesize) /\ base_ptr # NULL

\* Whatever grew, moved or was refused, a vector with capacity has its block, as
\* large as the capacity and holding all its elements, and no other block is left
\* allocated (bytevec.c:22-57).  A vector of capacity zero may be without one:
\* see UsableUntilFreed.
MemoryMatchesFields ==
    /\ live \subseteq {base_ptr}
    /\ capacity > 0 => base_ptr \in live
    /\ base_ptr \in live => DOMAIN heap[base_ptr] = 0 .. capacity - 1
    /\ elements <= capacity

\* Whatever grew, moved or was refused before, the bytes an append copies go to
\* memory that is allocated and has room for all of them.
CopyFits ==
    typesize # 0 /\ ~Full =>
      /\ base_ptr \in live
      /\ elements .. elements + typesize - 1 \subseteq DOMAIN heap[base_ptr]

\* Seen from outside the vector is a log of bytes: a value is added whole or not
\* at all, whatever moved in between.  This is about the contents: of the rest of
\* the state, which bytevec.h:88 says a refused append leaves unchanged too, the
\* capacity and the place do change when a growth before the refused one was
\* granted (bytevec.c:43-46).
Contents == IF base_ptr \in live THEN [i \in 0 .. elements - 1 |-> heap[base_ptr][i]]
            ELSE Empty
Log == INSTANCE ByteLog WITH log <- Contents, length <- elements, size <- typesize
ImplementsLog == Log!Spec

\* The loop of append ends, with the value added or refused.
AppendReturns == typesize # 0 ~> typesize = 0

-----------------------------------------------------------------------------
(* What the header says and the code does not keep                         *)

\* A vector that has been made is usable until it is freed, also when it was made
\* with zero bytes, and a growth that fails leaves it as it was (bytevec.h:65, 72).
\* At capacity zero realloc is asked for zero bytes, frees the block, and its NULL
\* is taken for a refusal: base_ptr is left dangling (bytevec.c:33-35).
UsableUntilFreed == base_ptr # NULL => base_ptr \in live
=============================================================================
