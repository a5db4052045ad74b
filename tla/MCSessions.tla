----------------------------- MODULE MCSessions -----------------------------
(* An instance of Sessions for TLC: the commands that edit the tokens. *)
EXTENDS Sessions

CONSTANTS s1, b1, c1, c2, h1, h2, k1, none
=============================================================================
