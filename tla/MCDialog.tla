------------------------------ MODULE MCDialog ------------------------------
(* A service with a script of a text and two option questions (as "server"   *)
(* has, in another order), and one with a single text question.              *)
EXTENDS Dialog

CONSTANTS vps, billing

Scripts == [s \in {vps, billing} |-> IF s = vps THEN <<0, 2, 1>> ELSE <<0>>]
=============================================================================
