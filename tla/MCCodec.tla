------------------------------ MODULE MCCodec ------------------------------
(* The instance of Codec that TLC checks: bytes of two bits, so that       *)
(* packet_size wraps at 16, and texts on both sides of recv_buffer's       *)
(* capacity and of the wrap: announced as 0, 1, 4 (an empty body), 5 and 7 *)
(* bytes.                                                                  *)
EXTENDS Codec

MCTexts == {[i \in 1 .. n |-> i % Base] : n \in {0, 3, 4, 5, 11, 12, 15, 16, 18}}
=============================================================================
