----------------------------- MODULE ByteStream -----------------------------
(***************************************************************************)
(* bytestream.hpp: a std::stringstream that is written and read in whole   *)
(* values.  It keeps everything written since it was last set, the bytes   *)
(* already read included, and a failbit that nothing in the program ever   *)
(* clears.                                                                 *)
(***************************************************************************)
EXTENDS Integers, Sequences

CONSTANT SizeMod    \* 2^width of size_t

ASSUME ByteStreamAssumption == SizeMod \in Nat \ {0}

(* buf: the characters; get, put: the positions; fail: failbit.            *)
Stream == [buf : Seq(Nat), get : Nat, put : Nat, fail : BOOLEAN]
EmptyStream == [buf |-> <<>>, get |-> 0, put |-> 0, fail |-> FALSE]

Zeros(n) == [i \in 1 .. n |-> 0]
Least(m, n) == IF m < n THEN m ELSE n

(* buffer(v), and clear() with v empty: str(v) sets both positions to the  *)
(* start and leaves the failbit as it is.                                  *)
Set(s, v) == [buf |-> v, get |-> 0, put |-> 0, fail |-> s.fail]
Clear(s) == Set(s, <<>>)

(* buffer(): str() is all of the characters, whether read or not; the      *)
(* stream is cleared.                                                      *)
Contents(s) == s.buf

(* count(): the position of the end; tellg of a failed stream is -1.       *)
Count(s) == IF s.fail THEN SizeMod - 1 ELSE Len(s.buf)

(* operator<<: characters overwrite what is at the put position; a failed  *)
(* stream takes none.                                                      *)
Push(s, d) ==
    IF s.fail THEN s
    ELSE [s EXCEPT !.buf = SubSeq(@, 1, s.put) \o d
                               \o SubSeq(@, s.put + Len(d) + 1, Len(@)),
                   !.put = @ + Len(d)]

(* operator>> into n zeroed bytes: what is there is read, and when it is   *)
(* too little failbit is set.                                              *)
Pulled(s, n) ==
    LET k == IF s.fail THEN 0 ELSE Least(n, Len(s.buf) - s.get)
    IN  SubSeq(s.buf, s.get + 1, s.get + k) \o Zeros(n - k)
AfterPull(s, n) ==
    LET k == IF s.fail THEN 0 ELSE Least(n, Len(s.buf) - s.get)
    IN  [s EXCEPT !.get = @ + k, !.fail = @ \/ k < n]
=============================================================================
