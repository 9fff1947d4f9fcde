------------------------------ MODULE MCSigHub ------------------------------
(* An instance of SigHub whose users share an id, so that one replaces the  *)
(* other; nobody joins under the other ids.                                 *)
EXTENDS SigHub

CONSTANT p1

MCIdOf == [u \in Users |-> p1]
=============================================================================
