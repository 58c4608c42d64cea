----------------------------- MODULE MarketQuota -----------------------------
(***************************************************************************)
(* The OUCH and the BOE session under one BehaviorManager.  The sessions   *)
(* are reduced to what they ask the manager, when, and whether the request *)
(* then takes effect: the number of active orders, the cancels that wait   *)
(* for the next tick, and the loops of the tick.  Both sessions use up the *)
(* same quotas.                                                            *)
(***************************************************************************)
EXTENDS BehaviorManager

CONSTANTS
    Commanded,   \* operations the administrator gives commands about
    MaxOrders,   \* bound: active orders of a session
    MaxCancels,  \* bound: queued cancels of a session
    MaxEffects   \* bound: effects counted per operation
ASSUME QuotaAssumption ==
    /\ Commanded \subseteq Operations
    /\ MaxOrders \in Nat /\ MaxCancels \in Nat /\ MaxEffects \in Nat
    /\ \A x \in Counts : x < MaxEffects

VARIABLES
    logged_in,       \* the sessions that are logged in
    orders,          \* number of active orders of each session
    finished,        \* TRUE once BOE has an order in finished_orders
    pending_cancel,  \* number of queued cancels of each session
    phase,           \* per session: "idle", "cancel" or "execution"
    visit,           \* iterations the execution loop still makes
    \* ghosts: what happened since the last command about the operation
    quota,           \* x of the last "bm set count", or Unlimited
    effects,         \* times an operation with a quota took effect
    refused,         \* TRUE when the manager refused one with a quota
    granted_qty,     \* quantity of the last "bm execute", or Unlimited
    spent_qty,       \* shares the executions were given of it
    all_default      \* TRUE from "bm reset" to the next command

session_vars == <<logged_in, orders, finished, pending_cancel, phase, visit>>
ghosts == <<quota, effects, refused, granted_qty, spent_qty, all_default>>
vars == <<bm_vars, session_vars, ghosts>>

Sessions == {"OUCH", "BOE"}
Unlimited == -1

Init ==
    /\ BehaviorInit
    /\ logged_in = {}
    /\ orders = [s \in Sessions |-> 0]
    /\ finished = FALSE
    /\ pending_cancel = [s \in Sessions |-> 0]
    /\ phase = [s \in Sessions |-> "idle"]
    /\ visit = 0
    /\ quota = [a \in Operations |-> Unlimited]
    /\ effects = [a \in Operations |-> 0]
    /\ refused = [a \in Operations |-> FALSE]
    /\ granted_qty = Unlimited /\ spent_qty = 0
    /\ all_default = FALSE

\* Handlers never interleave, so one starts only when none is in progress.
Idle == \A s \in Sessions : phase[s] = "idle"

\* The manager is asked about a, answers yes or no, and a yes may or may not
\* lead to an effect.  The ghosts follow the operations with a quota only.
ask(a, yes, effect) ==
    /\ consult(a, yes)
    /\ effect => yes
    /\ IF quota[a] = Unlimited
       THEN UNCHANGED <<effects, refused>>
       ELSE /\ effects' = [effects EXCEPT ![a] = IF effect /\ @ < MaxEffects THEN @ + 1 ELSE @]
            /\ refused' = [refused EXCEPT ![a] = @ \/ ~yes]
    /\ UNCHANGED <<quota, granted_qty, all_default>>

not_asked == UNCHANGED <<bm_vars, ghosts>>
no_quantity == UNCHANGED <<exe_qty, spent_qty>>

-----------------------------------------------------------------------------
(***************************************************************************)
(* Packets.                                                                *)
(***************************************************************************)

\* OUCH looks at the session state first, BOE asks the manager first.
login(s) ==
    /\ Idle
    /\ s = "OUCH" => s \notin logged_in
    /\ \E yes \in BOOLEAN :
         LET accepted == yes /\ s \notin logged_in
         IN  /\ ask("login", yes, accepted)
             /\ logged_in' = IF accepted THEN logged_in \cup {s} ELSE logged_in
    /\ no_quantity
    /\ UNCHANGED <<orders, finished, pending_cancel, phase, visit>>

\* OUCH wants a login and, after a yes, ignores a token it has seen before;
\* BOE refuses a token it has before it asks.
enter_order(s) ==
    /\ Idle /\ orders[s] < MaxOrders
    /\ s = "OUCH" => s \in logged_in
    /\ \E yes, accepted \in BOOLEAN :
         /\ ask("new_order", yes, accepted)
         /\ s = "BOE" => accepted = yes
         /\ orders' = IF accepted THEN [orders EXCEPT ![s] = @ + 1] ELSE orders
    /\ no_quantity
    /\ UNCHANGED <<logged_in, finished, pending_cancel, phase, visit>>

\* modify_order and replace_order ask once, when the request arrives.  BOE
\* lets a modify of a finished order pass as well.
change_order(s, a) ==
    /\ Idle
    /\ \/ a = "modify_order" /\ orders[s] > 0
       \/ a = "modify_order" /\ s = "BOE" /\ finished
       \/ a = "replace_order" /\ s = "OUCH"
    /\ \E yes \in BOOLEAN : ask(a, yes, yes)
    /\ no_quantity
    /\ UNCHANGED session_vars

queue_cancel(s) ==
    /\ pending_cancel[s] < MaxCancels
    /\ pending_cancel' = [pending_cancel EXCEPT ![s] = @ + 1]

ouch_cancel_order ==
    /\ Idle /\ orders["OUCH"] > 0 /\ pending_cancel["OUCH"] < MaxCancels
    /\ \E yes \in BOOLEAN :
         /\ ask("cancel_order", yes, FALSE)
         /\ IF yes THEN queue_cancel("OUCH") ELSE UNCHANGED pending_cancel
    /\ no_quantity
    /\ UNCHANGED <<logged_in, orders, finished, phase, visit>>

\* BOE queues a cancel without asking.  For an unknown token it creates an
\* order, and asks when the quantity of that order happens to be positive.
boe_cancel_order ==
    /\ Idle
    /\ \/ /\ orders["BOE"] > 0
          /\ queue_cancel("BOE")
          /\ not_asked
          /\ UNCHANGED orders
       \/ /\ orders["BOE"] < MaxOrders
          /\ orders' = [orders EXCEPT !["BOE"] = @ + 1]
          /\ \/ not_asked
             \/ \E yes \in BOOLEAN : ask("cancel_order", yes, FALSE) /\ no_quantity
          /\ UNCHANGED pending_cancel
    /\ UNCHANGED <<logged_in, finished, phase, visit>>

disconnect(s) ==
    /\ Idle /\ s \in logged_in
    /\ logged_in' = logged_in \ {s}
    /\ not_asked
    /\ UNCHANGED <<orders, finished, pending_cancel, phase, visit>>

-----------------------------------------------------------------------------
(***************************************************************************)
(* A tick: cancel_logic asks about every queued cancel whose order is      *)
(* still active, execution_logic asks about every active order.            *)
(***************************************************************************)
market_logic(s) ==
    /\ Idle
    /\ phase' = [phase EXCEPT ![s] = "cancel"]
    /\ not_asked
    /\ UNCHANGED <<logged_in, orders, finished, pending_cancel, visit>>

\* An OUCH cancel may also only reduce the order, or be too large to do even
\* that.  The order leaves the map at the end of the loop; the model takes it
\* out at once, so an order is left over for every cancel that still finds one.
cancel_logic(s) ==
    /\ phase[s] = "cancel" /\ pending_cancel[s] > 0
    /\ pending_cancel' = [pending_cancel EXCEPT ![s] = @ - 1]
    /\ \/ /\ not_asked
          /\ UNCHANGED orders
       \/ /\ orders[s] > 0
          /\ \E yes, canceled \in BOOLEAN :
               /\ ask("cancel_order", yes, canceled)
               /\ s = "BOE" => canceled = yes
               /\ \/ s = "OUCH" /\ UNCHANGED orders
                  \/ canceled /\ orders' = [orders EXCEPT ![s] = @ - 1]
                  \/ ~canceled /\ UNCHANGED orders
          /\ no_quantity
    /\ UNCHANGED <<logged_in, finished, phase, visit>>

cancel_logic_ends(s) ==
    /\ phase[s] = "cancel" /\ pending_cancel[s] = 0
    /\ phase' = [phase EXCEPT ![s] = "execution"]
    /\ visit' = orders[s]
    /\ not_asked
    /\ UNCHANGED <<logged_in, orders, finished, pending_cancel>>

\* After a yes OUCH cancels, finishes or executes the order; it never asks
\* for execution_qty().
ouch_execution_logic ==
    /\ phase["OUCH"] = "execution" /\ visit > 0
    /\ visit' = visit - 1
    /\ \E yes, executed \in BOOLEAN :
         /\ ask("execution", yes, executed)
         /\ \/ UNCHANGED orders
            \/ yes /\ ~executed /\ orders' = [orders EXCEPT !["OUCH"] = @ - 1]
    /\ no_quantity
    /\ UNCHANGED <<logged_in, finished, pending_cancel, phase>>

\* After a yes BOE finishes the order or asks for execution_qty(), where 0
\* means that nothing is executed.
boe_execution_logic ==
    /\ phase["BOE"] = "execution" /\ visit > 0
    /\ visit' = visit - 1
    /\ \E yes \in BOOLEAN :
         \/ /\ ask("execution", yes, FALSE)
            /\ orders' = IF yes THEN [orders EXCEPT !["BOE"] = @ - 1] ELSE orders
            /\ finished' = (finished \/ yes)
            /\ no_quantity
         \/ /\ yes
            /\ ask("execution", yes, exe_qty # 0)
            /\ exe_qty' = qty_after(exe_qty)
            /\ spent_qty' = IF exe_qty > 0 /\ spent_qty <= granted_qty
                            THEN spent_qty + exe_qty ELSE spent_qty
            /\ UNCHANGED <<orders, finished>>
    /\ UNCHANGED <<logged_in, pending_cancel, phase>>

execution_logic_ends(s) ==
    /\ phase[s] = "execution" /\ visit = 0
    /\ phase' = [phase EXCEPT ![s] = "idle"]
    /\ not_asked
    /\ UNCHANGED <<logged_in, orders, finished, pending_cancel, visit>>

-----------------------------------------------------------------------------
(***************************************************************************)
(* The administrator's commands, with what the ghosts forget.              *)
(***************************************************************************)
commanded(as, x) ==
    /\ Idle
    /\ quota' = [a \in Operations |-> IF a \in as THEN x ELSE quota[a]]
    /\ effects' = [a \in Operations |-> IF a \in as THEN 0 ELSE effects[a]]
    /\ refused' = [a \in Operations |-> refused[a] /\ a \notin as]
    /\ UNCHANGED session_vars

\* "bm set default", "bm set random" and "bm set count"
set_action(a) ==
    /\ \/ commanded({a}, Unlimited) /\ set_to_default(a)
       \/ \E p \in Probs : commanded({a}, Unlimited) /\ set_random(a, p)
       \/ \E x \in Counts : commanded({a}, x) /\ set_count(a, x)
    /\ IF a = "execution" THEN granted_qty' = Unlimited /\ spent_qty' = 0
       ELSE UNCHANGED <<granted_qty, spent_qty>>
    /\ all_default' = FALSE

bm_reset ==
    /\ commanded(Operations, Unlimited)
    /\ reset
    /\ all_default' = TRUE
    /\ UNCHANGED <<granted_qty, spent_qty>>

bm_execute(qty) ==
    /\ commanded({"execution"}, Unlimited)
    /\ set_execution_qty(qty)
    /\ granted_qty' = qty /\ spent_qty' = 0
    /\ all_default' = FALSE

\* Every session's cancel_all empties its map of active orders.
bm_cancel_all ==
    /\ Idle
    /\ orders' = [s \in Sessions |-> 0]
    /\ not_asked
    /\ UNCHANGED <<logged_in, finished, pending_cancel, phase, visit>>

Next ==
    \/ \E s \in Sessions :
         \/ login(s) \/ enter_order(s) \/ disconnect(s)
         \/ \E a \in {"modify_order", "replace_order"} : change_order(s, a)
         \/ market_logic(s) \/ cancel_logic(s) \/ cancel_logic_ends(s)
         \/ execution_logic_ends(s)
    \/ ouch_cancel_order \/ boe_cancel_order
    \/ ouch_execution_logic \/ boe_execution_logic
    \/ \E a \in Commanded : set_action(a)
    \/ bm_reset
    \/ \E qty \in ExeQtys : bm_execute(qty)
    \/ bm_cancel_all

Spec == Init /\ [][Next]_vars

-----------------------------------------------------------------------------
(***************************************************************************)
(* Properties.                                                             *)
(***************************************************************************)

\* Type correctness of the manager and of the sessions.
TypeOK ==
    /\ BehaviorTypeOK
    /\ logged_in \subseteq Sessions
    /\ orders \in [Sessions -> Nat]
    /\ finished \in BOOLEAN
    /\ pending_cancel \in [Sessions -> Nat]
    /\ phase \in [Sessions -> {"idle", "cancel", "execution"}]
    /\ visit \in Nat
    /\ quota \in [Operations -> Nat \cup {Unlimited}]
    /\ effects \in [Operations -> Nat]
    /\ refused \in [Operations -> BOOLEAN]
    /\ granted_qty \in Nat \cup {Unlimited} /\ spent_qty \in Nat
    /\ all_default \in BOOLEAN

\* After "bm set count a x" the operation a takes effect at most x times, in
\* the two sessions together, until the next command about it.
QuotaNeverExceeded ==
    \A a \in Operations : quota[a] # Unlimited => effects[a] <= quota[a]

\* What makes it so: an operation with a quota is counted, and the times that
\* are left and the effects it had do not add up to more than the quota.
QuotaAccounted ==
    \A a \in Operations : quota[a] # Unlimited =>
        /\ behavior[a] = "count"
        /\ times[a] + effects[a] <= quota[a]

\* A quantity of "bm execute" is handed out at most once, to one order of the
\* session that asks first, whatever commands about other operations follow.
ExecuteOnce == granted_qty # Unlimited => spent_qty <= granted_qty

-----------------------------------------------------------------------------
(***************************************************************************)
(* What the code says of itself and does not do.                           *)
(***************************************************************************)

\* "allow new_order/modify_order/execution... x times" (CountBehavior): the
\* manager refuses a cancel only after x cancels.
CancelsAllowedXTimes ==
    quota["cancel_order"] # Unlimited /\ refused["cancel_order"]
    => effects["cancel_order"] = quota["cancel_order"]

\* "all set to default", the answer to "bm reset": executions have their
\* default quantity again.
ResetMeansDefault == all_default => exe_qty = RandomQty
=============================================================================
