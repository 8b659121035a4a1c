--------------------------- MODULE MCSessionQueue ---------------------------
(***************************************************************************)
(* A small instance of SessionQueue: three operations on one session, the  *)
(* first of which makes two calls of its own (as reset does), and one      *)
(* operation on another session.                                           *)
(***************************************************************************)
EXTENDS SessionQueue

CONSTANTS
    s1, s2,         \* sessions
    r1, r2, r3, q1, \* calls from outside
    k1, k2          \* calls made by r1's operation

MCCalls == {r1, r2, r3, k1, k2, q1}
MCSessionOf == [c \in MCCalls |-> IF c = q1 THEN s2 ELSE s1]
MCParentOf == [c \in MCCalls |-> IF c \in {k1, k2} THEN r1 ELSE NoCall]
=============================================================================
