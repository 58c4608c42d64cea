--------------------------- MODULE BehaviorManager ---------------------------
(***************************************************************************)
(* The BehaviorManager: what the administrator allows the markets to do.   *)
(* Every action has one of three behaviours, default (always yes), random  *)
(* (yes with a probability) and count (yes a number of times), and         *)
(* "bm execute" leaves a quantity for one execution.  The module has the   *)
(* administrator's commands as actions; consulting the manager, which      *)
(* changes it, is an operator that a market's action contains.             *)
(***************************************************************************)
EXTENDS Integers

CONSTANTS
    Counts,     \* times the administrator sets
    Probs,      \* probabilities the administrator sets, in percent
    ExeQtys     \* quantities of "bm execute"

ASSUME BehaviorAssumption ==
    /\ Counts \subseteq Nat
    /\ Probs \subseteq 0 .. 100
    /\ ExeQtys \subseteq Nat \ {0}

VARIABLES
    behavior,   \* which of _db, _rb and _cb each action's pointer points to
    prob,       \* RandomBehavior: probability per action
    times,      \* CountBehavior: remaining times per action
    exe_qty     \* -1 for random quantities, otherwise what the next one gets

bm_vars == <<behavior, prob, times, exe_qty>>

\* No session asks about "logout", but the administrator may command it.
Operations == {"login", "logout", "new_order", "modify_order", "replace_order",
               "cancel_order", "execution"}
Kinds == {"default", "random", "count"}
RandomQty == -1

BehaviorTypeOK ==
    /\ behavior \in [Operations -> Kinds]
    /\ prob \in [Operations -> 0 .. 100]
    /\ times \in [Operations -> Nat]
    /\ exe_qty \in Nat \cup {RandomQty}

BehaviorInit ==
    /\ behavior = [a \in Operations |-> "default"]
    /\ prob = [a \in Operations |-> 100]
    /\ times = [a \in Operations |-> 0]
    /\ exe_qty = RandomQty

-----------------------------------------------------------------------------
(***************************************************************************)
(* Consultations.                                                          *)
(***************************************************************************)

\* (rand() % 100) < prob * 100
random_answers(p) == {r < p : r \in 0 .. 99}

answers(a) ==
    CASE behavior[a] = "default" -> {TRUE}
      [] behavior[a] = "random"  -> random_answers(prob[a])
      [] behavior[a] = "count"   -> {times[a] > 0}

BugCountNotUsed(a, yes) == times
BugCountBelowZero(a, yes) ==
    IF behavior[a] = "count" THEN [times EXCEPT ![a] = @ - 1] ELSE times

\* A yes of a CountBehavior uses up one of its times.
times_after(a, yes) ==
    IF yes /\ behavior[a] = "count" THEN [times EXCEPT ![a] = @ - 1] ELSE times

\* The manager is asked about a and answers yes or no.
consult(a, yes) ==
    /\ yes \in answers(a)
    /\ times' = times_after(a, yes)
    /\ UNCHANGED <<behavior, prob>>

BugQtyKept(q) == q

\* What execution_qty() leaves in exe_qty when it returns q.
qty_after(q) == IF q = RandomQty THEN RandomQty ELSE 0

-----------------------------------------------------------------------------
(***************************************************************************)
(* The administrator's commands.  Ill-formed ones change nothing.          *)
(***************************************************************************)

\* Commands about executions also take back the quantity of "bm execute".
exe_qty_after_set(a) == IF a = "execution" THEN RandomQty ELSE exe_qty

set_to_default(a) ==
    /\ behavior' = [behavior EXCEPT ![a] = "default"]
    /\ exe_qty' = exe_qty_after_set(a)
    /\ UNCHANGED <<prob, times>>

set_count(a, x) ==
    /\ behavior' = [behavior EXCEPT ![a] = "count"]
    /\ times' = [times EXCEPT ![a] = x]
    /\ exe_qty' = exe_qty_after_set(a)
    /\ UNCHANGED prob

set_random(a, p) ==
    /\ behavior' = [behavior EXCEPT ![a] = "random"]
    /\ prob' = [prob EXCEPT ![a] = p]
    /\ exe_qty' = exe_qty_after_set(a)
    /\ UNCHANGED times

\* "bm reset" and "bm set reset": reset_to_default does not touch exe_qty.
reset ==
    /\ behavior' = [a \in Operations |-> "default"]
    /\ UNCHANGED <<prob, times, exe_qty>>

set_execution_qty(qty) ==
    /\ behavior' = [behavior EXCEPT !["execution"] = "default"]
    /\ exe_qty' = qty
    /\ UNCHANGED <<prob, times>>
=============================================================================
