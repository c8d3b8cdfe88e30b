---------------------------- MODULE MCConnection ----------------------------
(* The instances of Connection that TLC checks. *)
EXTENDS Connection

(* What misread bytes decode to: a packet_size below the header's own      *)
(* length, a packet without a body, a body of one cell.                    *)
MCGarbledSizes == {0, HeaderLen, HeaderLen + 1}

(* Bounds on the exploration.  Behaviours are followed up to the first     *)
(* overlapping write, or as long as one direction has had none.            *)
NoOverlap == \A c \in Conn : ~overlapped[c]
OneSided  == \E c \in Conn : ~overlapped[c]
=============================================================================
