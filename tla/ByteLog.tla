------------------------------- MODULE ByteLog -------------------------------
(***************************************************************************)
(* What an ntrb_bytevec promises (src/include/ntrb/bytevec.h): a log of    *)
(* bytes.  A value is added whole at its end or not at all, and no growth  *)
(* of the memory behind it can be seen.                                    *)
(***************************************************************************)
EXTENDS Integers

CONSTANTS
    Byte,   \* the bytes of the values
    Sizes   \* the sizes of the values

VARIABLES
    log, length,   \* the bytes in the order they were added, from index 0
    value, size    \* the value that is being added; size 0: none

Value(n) == [0 .. n - 1 -> Byte]

Init == length = 0 /\ DOMAIN log = {} /\ size = 0

Request ==
    /\ size = 0 /\ size' \in Sizes /\ value' \in Value(size')
    /\ UNCHANGED <<log, length>>

\* The value goes behind what is there, and what is there stays.
Add ==
    /\ size # 0 /\ size' = 0
    /\ length' = length + size
    /\ log' = [i \in 0 .. length + size - 1 |-> IF i < length THEN log[i] ELSE value[i - length]]

Refuse == size # 0 /\ size' = 0 /\ UNCHANGED <<log, length>>

\* The vector is freed, and another one can be made.
Clear == size = 0 /\ size' = 0 /\ length' = 0 /\ DOMAIN log' = {}

Next == Request \/ Add \/ Refuse \/ Clear

Spec == Init /\ [][Next]_<<log, length, value, size>>
=============================================================================
