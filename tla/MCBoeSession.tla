---------------------------- MODULE MCBoeSession ----------------------------
(* Instances of BoeSession for TLC. *)
EXTENDS BoeSession, TLC

\* Contents of uninitialised orders: a token that was left over, or none, and
\* quantities that look like an order's.
MCResidue == [token : Tokens, remaining_qty : {1}, executed_qty : {0}]
MCNothing == {[token |-> NoToken, remaining_qty |-> 1, executed_qty |-> 0]}

TokenSymmetry == Permutations(Tokens)
=============================================================================
