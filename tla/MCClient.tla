------------------------------ MODULE MCClient ------------------------------
(* The instance of Client that TLC checks: a name that resolves to any one, *)
(* two or three endpoints of two families.                                 *)
EXTENDS Client

MCAnswers == UNION {[1 .. n -> Endpoint] : n \in 1 .. 3}
=============================================================================
