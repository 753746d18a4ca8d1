------------------------------ MODULE MemDebug ------------------------------
(***************************************************************************)
(* The memory debugger (src/alloc.c with its container                     *)
(* src/_alloc_bytevec.c): ntrb_malloc, ntrb_realloc and ntrb_free of a     *)
(* build with NTRB_MEMDEBUG, which keep a record of the live allocations.  *)
(* The record is only touched under the write side of its lock, so what a  *)
(* call does under the lock is one step; malloc and realloc themselves run *)
(* before the lock is taken, and are steps of their own.                   *)
(***************************************************************************)
EXTENDS Integers, Sequences, FiniteSets

CONSTANTS
    Ptr,          \* addresses malloc and realloc can return
    Thread,       \* the threads that allocate
    Site,         \* what an entry tells of an allocation: size, file and line
    RecordFails,  \* growing the record may fail for want of memory
    NULL          \* the null pointer

ASSUME MemDebugAssumption ==
    /\ NULL \notin Ptr \cup Site
    /\ IsFiniteSet(Thread)
    /\ RecordFails \in BOOLEAN

VARIABLES
    heap,      \* Ptr -> the Site that allocated it last, or NULL: not allocated
    record,    \* _ntrb_memdebug_alloc_data: entries and holes, in order
    capacity,  \* the room of the record, in entries
    module,    \* "fresh", "on" (initialised) or "off"
    pc,        \* Thread -> "idle", or the call that waits for the lock
    call,      \* Thread -> the pointers and the site of that call
    missed,    \* an allocation could not be entered in the record (history)
    reused     \* an address was handed out while a realloc that gave it up was
               \* waiting for the lock (history)

vars == <<heap, record, capacity, module, pc, call, missed, reused>>

Hole        == [ptr |-> NULL, site |-> NULL]
Entry(p, s) == [ptr |-> p, site |-> s]
NoCall      == [old |-> NULL, new |-> NULL, site |-> NULL]

Slots(p) == {i \in 1 .. Len(record) : record[i].ptr = p}
First(S) == CHOOSE i \in S : \A j \in S : i <= j

\* The pointer is on its way into the record, or out of it.
Arriving(p) == \E t \in Thread : pc[t] \in {"add", "replace"} /\ call[t].new = p
Leaving(p)  == {t \in Thread : pc[t] = "replace" /\ call[t].old = p}
Freeing(p)  == \E t \in Thread : pc[t] = "free" /\ call[t].old = p

\* A correct caller passes on pointers whose call has returned and that no
\* other thread is freeing.
Owned(p) == heap[p] # NULL /\ ~Arriving(p) /\ ~Freeing(p)

Await(t, what, old, new, s) ==
    /\ pc' = [pc EXCEPT ![t] = what]
    /\ call' = [call EXCEPT ![t] = [old |-> old, new |-> new, site |-> s]]

Return(t) ==
    /\ pc' = [pc EXCEPT ![t] = "idle"]
    /\ call' = [call EXCEPT ![t] = NoCall]

-----------------------------------------------------------------------------
Init ==
    /\ heap = [p \in Ptr |-> NULL]
    /\ record = <<>>
    /\ capacity = 0
    /\ module = "fresh"
    /\ pc = [t \in Thread |-> "idle"]
    /\ call = [t \in Thread |-> NoCall]
    /\ missed = FALSE
    /\ reused = FALSE

\* main initialises the module before it starts a thread.
MemdebugInit ==
    /\ module = "fresh"
    /\ module' = "on"
    /\ capacity' = 1
    /\ UNCHANGED <<heap, record, pc, call, missed, reused>>

\* main uninitialises it when the threads that allocate have ended.
MemdebugUninit ==
    /\ module = "on"
    /\ \A t \in Thread : pc[t] = "idle"
    /\ module' = "off"
    /\ record' = <<>>
    /\ capacity' = 0
    /\ UNCHANGED <<heap, pc, call, missed, reused>>

-----------------------------------------------------------------------------
(* _ntrb_memdebug_malloc and _calloc, and realloc of NULL                  *)

\* malloc itself.  When it fails the call returns NULL and changes nothing.
Malloc(t, p, s) ==
    /\ module = "on"
    /\ pc[t] = "idle"
    /\ heap[p] = NULL
    /\ heap' = [heap EXCEPT ![p] = s]
    /\ reused' = (reused \/ Leaving(p) # {})
    /\ Await(t, "add", NULL, p, s)
    /\ UNCHANGED <<record, capacity, module, missed>>

\* A mutation of Grown: the room for the new entry itself is not counted.
Grown_without_new(n, c) == IF n > c THEN 2 * c ELSE c

\* The capacity with room for one more entry than n: the container is doubled
\* as long as n + 1 reaches it, which for n < c is once at most.
Grown(n, c) == IF n + 1 >= c THEN 2 * c ELSE c

\* The first hole takes the entry.
AddToUnusedSpace(t) ==
    /\ pc[t] = "add"
    /\ Slots(NULL) # {}
    /\ record' = [record EXCEPT ![First(Slots(NULL))] = Entry(call[t].new, call[t].site)]
    /\ Return(t)
    /\ UNCHANGED <<heap, capacity, module, missed, reused>>

\* Without a hole the entry is appended.
AppendElement(t) ==
    /\ pc[t] = "add"
    /\ Slots(NULL) = {}
    /\ capacity' = Grown(Len(record), capacity)
    /\ record' = Append(record, Entry(call[t].new, call[t].site))
    /\ Return(t)
    /\ UNCHANGED <<heap, module, missed, reused>>

\* The container cannot grow: the allocation is good but not recorded.
AppendFails(t) ==
    /\ pc[t] = "add"
    /\ Slots(NULL) = {}
    /\ RecordFails
    /\ Grown(Len(record), capacity) # capacity
    /\ missed' = TRUE
    /\ Return(t)
    /\ UNCHANGED <<heap, record, capacity, module, reused>>

AddElement(t) == AddToUnusedSpace(t) \/ AppendElement(t) \/ AppendFails(t)

-----------------------------------------------------------------------------
(* _ntrb_memdebug_realloc of a pointer, to a size above zero               *)

\* realloc resizes in place or moves the block, and then p is free to be given
\* to another thread before this one has the lock.
Realloc(t, p, q, s) ==
    /\ module = "on"
    /\ pc[t] = "idle"
    /\ Owned(p)
    /\ q = p \/ heap[q] = NULL
    /\ heap' = [heap EXCEPT ![p] = NULL, ![q] = s]
    /\ reused' = (reused \/ Leaving(q) # {})
    /\ Await(t, "replace", p, q, s)
    /\ UNCHANGED <<record, capacity, module, missed>>

\* A mutation of PtrIndex: the record is searched for the new pointer.
PtrIndex_of_new(c) == Slots(c.new)

\* Where _ntrb_memdebug_ptr_index finds the old pointer: in the first of these.
PtrIndex(c) == Slots(c.old)

\* A mutation of ReplaceElement: the entry is left alone when the block has not
\* moved.
ReplaceElement_moved(t) ==
    /\ pc[t] = "replace"
    /\ record' = IF PtrIndex(call[t]) = {} \/ call[t].new = call[t].old THEN record
                 ELSE [record EXCEPT ![First(PtrIndex(call[t]))] =
                                        Entry(call[t].new, call[t].site)]
    /\ Return(t)
    /\ UNCHANGED <<heap, capacity, module, missed, reused>>

\* The entry of the old pointer is overwritten; if there is none the caller is
\* warned and the record is left alone.
ReplaceElement(t) ==
    /\ pc[t] = "replace"
    /\ record' = IF PtrIndex(call[t]) = {} THEN record
                 ELSE [record EXCEPT ![First(PtrIndex(call[t]))] =
                                        Entry(call[t].new, call[t].site)]
    /\ Return(t)
    /\ UNCHANGED <<heap, capacity, module, missed, reused>>

-----------------------------------------------------------------------------
(* _ntrb_memdebug_free                                                     *)

Free(t, p) ==
    /\ module = "on"
    /\ pc[t] = "idle"
    /\ Owned(p)
    /\ Await(t, "free", p, NULL, NULL)
    /\ UNCHANGED <<heap, record, capacity, module, missed, reused>>

\* A mutation of Removed: the record is shortened whatever entry is removed.
Removed_shortens(r, i) == SubSeq([r EXCEPT ![i] = Hole], 1, Len(r) - 1)

\* A mutation of Removed: only the pointer of the entry is cleared.
Removed_ptr_only(r, i) ==
    IF i = Len(r) THEN SubSeq(r, 1, i - 1) ELSE [r EXCEPT ![i].ptr = NULL]

\* The entry becomes a hole; at the end of the record it is dropped.
Removed(r, i) == IF i = Len(r) THEN SubSeq(r, 1, i - 1) ELSE [r EXCEPT ![i] = Hole]

\* The pointer is in the record: its entry is removed and the memory released.
FreeElement(t) == LET p == call[t].old IN
    /\ pc[t] = "free"
    /\ Slots(p) # {}
    /\ record' = Removed(record, First(Slots(p)))
    /\ heap' = [heap EXCEPT ![p] = NULL]
    /\ Return(t)
    /\ UNCHANGED <<capacity, module, missed, reused>>

\* It is not: "Prevented freeing unallocated", and the memory is kept.
FreePrevented(t) ==
    /\ pc[t] = "free"
    /\ Slots(call[t].old) = {}
    /\ Return(t)
    /\ UNCHANGED <<heap, record, capacity, module, missed, reused>>

-----------------------------------------------------------------------------
Call(t) ==
    \/ \E p \in Ptr, s \in Site : Malloc(t, p, s)
    \/ \E p, q \in Ptr, s \in Site : Realloc(t, p, q, s)
    \/ \E p \in Ptr : Free(t, p)
    \/ AddElement(t) \/ ReplaceElement(t) \/ FreeElement(t) \/ FreePrevented(t)

Terminated == module = "off" /\ UNCHANGED vars

Next == MemdebugInit \/ MemdebugUninit \/ (\E t \in Thread : Call(t)) \/ Terminated

Spec == Init /\ [][Next]_vars

-----------------------------------------------------------------------------
(* Properties                                                              *)

\* The variables keep their types, and an entry is a hole in all its fields or
\* in none.
TypeOK ==
    /\ heap \in [Ptr -> Site \cup {NULL}]
    /\ record \in Seq([ptr : Ptr, site : Site] \cup {Hole})
    /\ capacity \in Nat
    /\ module \in {"fresh", "on", "off"}
    /\ pc \in [Thread -> {"idle", "add", "replace", "free"}]
    /\ call \in [Thread -> [old : Ptr \cup {NULL}, new : Ptr \cup {NULL}, site : Site \cup {NULL}]]
    /\ missed \in BOOLEAN
    /\ reused \in BOOLEAN

\* The record never holds more entries than its memory has room for, whatever
\* holes were filled, entries dropped and growths refused before
\* (_ntrb_alloc_bytevec_append writes at elements without a further test).
RecordInBounds == Len(record) <= capacity

\* While the module is on, the record has one entry for every live pointer,
\* but for those whose call has not got the lock yet; and an entry to spare for
\* every realloc that still has to overwrite one, also when its old address has
\* been handed out again in the meantime.
RecordMatchesHeap ==
    module = "on" /\ ~missed =>
      \A p \in Ptr :
        Cardinality(Slots(p)) =
          (IF heap[p] # NULL /\ ~Arriving(p) THEN 1 ELSE 0) + Cardinality(Leaving(p))

\* As long as every allocation could be recorded, ntrb_free releases the memory
\* of every pointer a correct caller passes it and refuses none.
FreeReleases ==
    [][\A t \in Thread :
         pc[t] = "free" /\ pc'[t] = "idle" /\ ~missed => heap'[call[t].old] = NULL]_vars

\* When no call is in progress, each entry tells the size and the place of the
\* call that allocated its pointer last (alloc.h:217), whatever threads have
\* allocated, resized and freed before.  The exception is an address that was
\* handed out while the realloc that gave it up was still waiting for the lock:
\* that realloc then overwrites the entry of the new owner (alloc.c:132).
EntryTellsSite ==
    (module = "on" /\ ~reused /\ \A t \in Thread : pc[t] = "idle") =>
      \A i \in 1 .. Len(record) :
        record[i].ptr # NULL => record[i].site = heap[record[i].ptr]
=============================================================================
