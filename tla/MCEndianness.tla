---------------------------- MODULE MCEndianness ----------------------------
(* The instances of Endianness that TLC checks. *)
EXTENDS Endianness, TLC

Connections == Permutations(Conn)

(* "This is from the client. #0" and "... #10", with their headers.        *)
MCSizes == {39, 40}
=============================================================================
