--------------------------- MODULE MCAuthSessions ---------------------------
(***************************************************************************)
(* A small instance of AuthSessions; requests are interchangeable.         *)
(***************************************************************************)
EXTENDS AuthSessions, TLC

Symmetry == Permutations(Requests)
=============================================================================
