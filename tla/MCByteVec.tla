------------------------------ MODULE MCByteVec ------------------------------
(* Instances of ByteVec for TLC.                                           *)
EXTENDS ByteVec
=============================================================================
