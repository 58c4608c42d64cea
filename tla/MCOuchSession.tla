---------------------------- MODULE MCOuchSession ----------------------------
(* Instances of OuchSession for TLC. *)
EXTENDS OuchSession, TLC

\* Contents of uninitialised orders: one that looks like an order, and two
\* with quantities no order can have, for a replace that is made and for one
\* that is refused.
MCGarbage ==
    {[remaining_qty |-> 1, executed_qty |-> 0, min_qty |-> 0, side |-> "B", state |-> "Live"],
     [remaining_qty |-> -1, executed_qty |-> -2, min_qty |-> 1, side |-> "?", state |-> "Dead"],
     [remaining_qty |-> -1, executed_qty |-> 3, min_qty |-> 0, side |-> "B", state |-> "Live"]}

NoGarbage ==
    {[remaining_qty |-> 0, executed_qty |-> 0, min_qty |-> 0, side |-> "B", state |-> "Live"]}

TokenSymmetry == Permutations(Tokens)
=============================================================================
