-------------------------- MODULE MarketQuotaProofs --------------------------
(***************************************************************************)
(* Proofs about MarketQuota, for any commands, bounds and numbers of       *)
(* orders: the quotas and the quantity of "bm execute" are never exceeded. *)
(***************************************************************************)
EXTENDS MarketQuota, TLAPS

(***************************************************************************)
(* The inductive invariant in three parts that no action mixes: what the   *)
(* manager counts, the quantity of "bm execute", and the sessions, of      *)
(* which at most one is in a tick and visits no more orders than there are. *)
(***************************************************************************)
CountsOK ==
    /\ behavior \in [Operations -> Kinds]
    /\ prob \in [Operations -> 0 .. 100]
    /\ times \in [Operations -> Nat]
    /\ quota \in [Operations -> Nat \cup {Unlimited}]
    /\ effects \in [Operations -> Nat]
    /\ refused \in [Operations -> BOOLEAN]
    /\ QuotaAccounted

\* Without a grant the quantity is random, with one it is what is left of it.
QuantityOK ==
    /\ granted_qty \in Nat \cup {Unlimited}
    /\ spent_qty \in Nat
    /\ IF granted_qty = Unlimited
       THEN exe_qty = RandomQty
       ELSE exe_qty \in Nat /\ spent_qty + exe_qty <= granted_qty

SessionsOK ==
    /\ logged_in \subseteq Sessions
    /\ orders \in [Sessions -> Nat]
    /\ finished \in BOOLEAN
    /\ pending_cancel \in [Sessions -> Nat]
    /\ phase \in [Sessions -> {"idle", "cancel", "execution"}]
    /\ visit \in Nat
    /\ \A s, r \in Sessions : phase[s] # "idle" /\ phase[r] # "idle" => s = r
    /\ \A s \in Sessions : phase[s] = "execution" => visit <= orders[s]

IInv == CountsOK /\ QuantityOK /\ SessionsOK /\ all_default \in BOOLEAN

-----------------------------------------------------------------------------
(* The three parts together say at least what the properties say.          *)
LEMMA InvImplies == IInv => TypeOK /\ QuotaNeverExceeded /\ ExecuteOnce
<1> SUFFICES ASSUME IInv PROVE TypeOK /\ QuotaNeverExceeded /\ ExecuteOnce
  OBVIOUS
<1>1. exe_qty \in Nat \cup {RandomQty}
  BY DEF IInv, QuantityOK
<1>2. TypeOK
  BY <1>1 DEF IInv, CountsOK, QuantityOK, SessionsOK, TypeOK, BehaviorTypeOK
<1>3. QuotaNeverExceeded
  <2> SUFFICES ASSUME NEW a \in Operations, quota[a] # Unlimited
               PROVE  effects[a] <= quota[a]
    BY DEF QuotaNeverExceeded
  <2>1. times[a] \in Nat /\ effects[a] \in Nat /\ quota[a] \in Nat
    BY DEF IInv, CountsOK
  <2>2. times[a] + effects[a] <= quota[a]
    BY DEF IInv, CountsOK, QuotaAccounted
  <2> QED
    BY <2>1, <2>2
<1>4. ExecuteOnce
  BY DEF IInv, QuantityOK, ExecuteOnce
<1> QED
  BY <1>2, <1>3, <1>4

(* The BehaviorManager's constructor leaves everything at its default.     *)
LEMMA InitInv == Init => IInv
<1> SUFFICES ASSUME Init PROVE IInv
  OBVIOUS
<1> USE DEF Init, BehaviorInit
<1>1. CountsOK
  <2>1. refused \in [Operations -> BOOLEAN]
    BY Zenon
  <2>2. QuotaAccounted
    BY DEF QuotaAccounted
  <2>3. \A a \in Operations : behavior[a] \in Kinds /\ quota[a] \in Nat \cup {Unlimited}
    BY DEF Kinds
  <2> QED
    BY <2>1, <2>2, <2>3 DEF CountsOK
<1>2. QuantityOK
  BY DEF QuantityOK, Unlimited, RandomQty
<1>3. SessionsOK
  BY DEF SessionsOK
<1> QED
  BY <1>1, <1>2, <1>3 DEF IInv

(* A yes of a CountBehavior uses up the time that its effect needs.        *)
LEMMA AskCounts ==
    ASSUME CountsOK, NEW a \in Operations, NEW yes \in BOOLEAN, NEW effect \in BOOLEAN,
           ask(a, yes, effect)
    PROVE  CountsOK'
<1>1. /\ behavior' = behavior /\ prob' = prob /\ quota' = quota
      /\ times' = times_after(a, yes) /\ yes \in answers(a) /\ (effect => yes)
  BY DEF ask, consult
<1>2. yes /\ behavior[a] = "count" => times[a] > 0
  BY <1>1 DEF answers
<1>3. times' \in [Operations -> Nat]
  BY <1>1, <1>2 DEF CountsOK, times_after
<1>4. MaxEffects \in Nat
  BY QuotaAssumption
<1>5. effects' \in [Operations -> Nat]
  BY <1>4 DEF CountsOK, ask
<1>6. refused' \in [Operations -> BOOLEAN]
  BY Zenon DEF CountsOK, ask
<1>7. QuotaAccounted'
  <2> SUFFICES ASSUME NEW b \in Operations, quota[b] # Unlimited
               PROVE  behavior[b] = "count" /\ times'[b] + effects'[b] <= quota[b]
    BY <1>1 DEF QuotaAccounted
  <2>1. /\ behavior[b] = "count" /\ times[b] + effects[b] <= quota[b]
        /\ times[b] \in Nat /\ effects[b] \in Nat /\ quota[b] \in Nat
    BY DEF CountsOK, QuotaAccounted
  <2>2. CASE b # a
    <3>1. times'[b] = times[b]
      BY <1>1, <2>2 DEF times_after, CountsOK
    <3>2. effects'[b] = effects[b]
      BY <2>2 DEF ask, CountsOK
    <3> QED
      BY <2>1, <3>1, <3>2
  <2>3. CASE b = a
    <3>1. times'[b] = IF yes THEN times[b] - 1 ELSE times[b]
      BY <1>1, <2>1, <2>3 DEF times_after, CountsOK
    <3>2. effects'[b] = IF effect /\ effects[b] < MaxEffects THEN effects[b] + 1 ELSE effects[b]
      BY <2>3 DEF ask, CountsOK
    <3> QED
      BY <1>1, <2>1, <3>1, <3>2
  <2> QED
    BY <2>2, <2>3
<1> QED
  BY <1>1, <1>3, <1>5, <1>6, <1>7 DEF CountsOK

(* A consultation that involves no quantity changes the sessions at most.  *)
LEMMA AskStep ==
    ASSUME IInv, NEW a \in Operations, NEW yes \in BOOLEAN, NEW effect \in BOOLEAN,
           ask(a, yes, effect), no_quantity, SessionsOK'
    PROVE  IInv'
<1>1. CountsOK'
  BY AskCounts DEF IInv
<1>2. QuantityOK'
  BY DEF IInv, QuantityOK, ask, no_quantity
<1>3. all_default' \in BOOLEAN
  BY Zenon DEF IInv, ask
<1> QED
  BY <1>1, <1>2, <1>3 DEF IInv

(* A step that does not ask changes the sessions at most.                  *)
LEMMA NotAskedStep == ASSUME IInv, not_asked, SessionsOK' PROVE IInv'
<1>1. CountsOK'
  BY DEF IInv, CountsOK, QuotaAccounted, not_asked, bm_vars, ghosts
<1>2. QuantityOK'
  BY DEF IInv, QuantityOK, not_asked, bm_vars, ghosts
<1>3. all_default' = all_default
  BY DEF not_asked, ghosts
<1> QED
  BY <1>1, <1>2, <1>3 DEF IInv

-----------------------------------------------------------------------------
(* login preserves the invariant.                                          *)
LEMMA LoginStep == ASSUME IInv, NEW s \in Sessions, login(s) PROVE IInv'
<1>1. SessionsOK'
  BY DEF IInv, SessionsOK, Sessions, Idle, login
<1>2. PICK yes \in BOOLEAN : ask("login", yes, yes /\ s \notin logged_in)
  BY Zenon DEF login
<1>3. "login" \in Operations /\ (yes /\ s \notin logged_in) \in BOOLEAN /\ no_quantity
  BY DEF Operations, login
<1> QED
  BY <1>1, <1>2, <1>3, AskStep

(* enter_order preserves the invariant.                                    *)
LEMMA EnterStep == ASSUME IInv, NEW s \in Sessions, enter_order(s) PROVE IInv'
<1>1. SessionsOK'
  BY DEF IInv, SessionsOK, Sessions, Idle, enter_order
<1>2. PICK yes \in BOOLEAN, accepted \in BOOLEAN : ask("new_order", yes, accepted)
  BY Zenon DEF enter_order
<1>3. "new_order" \in Operations /\ no_quantity
  BY DEF Operations, enter_order
<1> QED
  BY <1>1, <1>2, <1>3, AskStep

(* modify_order and replace_order preserve the invariant.                  *)
LEMMA ChangeStep ==
    ASSUME IInv, NEW s \in Sessions, NEW a \in {"modify_order", "replace_order"},
           change_order(s, a)
    PROVE  IInv'
<1>1. SessionsOK'
  BY DEF IInv, SessionsOK, Sessions, Idle, change_order, session_vars
<1>2. PICK yes \in BOOLEAN : ask(a, yes, yes)
  BY Zenon DEF change_order
<1>3. a \in Operations /\ no_quantity
  BY DEF Operations, change_order
<1> QED
  BY <1>1, <1>2, <1>3, AskStep

(* OUCH cancel_order preserves the invariant.                              *)
LEMMA OuchCancelStep == ASSUME IInv, ouch_cancel_order PROVE IInv'
<1>1. SessionsOK'
  BY DEF IInv, SessionsOK, Sessions, Idle, ouch_cancel_order, queue_cancel
<1>2. PICK yes \in BOOLEAN : ask("cancel_order", yes, FALSE)
  BY Zenon DEF ouch_cancel_order
<1>3. "cancel_order" \in Operations /\ no_quantity
  BY DEF Operations, ouch_cancel_order
<1> QED
  BY <1>1, <1>2, <1>3, AskStep

(* BOE cancel_order preserves the invariant, whatever order it creates.    *)
LEMMA BoeCancelStep == ASSUME IInv, boe_cancel_order PROVE IInv'
<1>1. SessionsOK'
  <2>1. orders' \in [Sessions -> Nat] /\ pending_cancel' \in [Sessions -> Nat]
    <3>1. orders' = orders \/ orders' = [orders EXCEPT !["BOE"] = @ + 1]
      BY DEF boe_cancel_order
    <3>2. \/ pending_cancel' = pending_cancel
          \/ pending_cancel' = [pending_cancel EXCEPT !["BOE"] = @ + 1]
      BY DEF boe_cancel_order, queue_cancel
    <3> QED
      BY <3>1, <3>2 DEF IInv, SessionsOK
  <2>2. Idle /\ UNCHANGED <<logged_in, finished, phase, visit>>
    BY DEF boe_cancel_order
  <2> QED
    BY <2>1, <2>2 DEF IInv, SessionsOK, Idle
<1>2. CASE not_asked
  BY <1>1, <1>2, NotAskedStep
<1>3. CASE \E yes \in BOOLEAN : ask("cancel_order", yes, FALSE) /\ no_quantity
  <2>1. PICK yes \in BOOLEAN : ask("cancel_order", yes, FALSE) /\ no_quantity
    BY <1>3, Zenon
  <2> QED
    BY <1>1, <2>1, AskStep DEF Operations
<1> QED
  BY <1>2, <1>3, Zenon DEF boe_cancel_order

(* The steps of the tick that ask nothing, and disconnect.                 *)
LEMMA QuietStep ==
    ASSUME IInv, NEW s \in Sessions,
           \/ disconnect(s) \/ market_logic(s)
           \/ cancel_logic_ends(s) \/ execution_logic_ends(s)
    PROVE  IInv'
<1>1. SessionsOK'
  <2>1. CASE disconnect(s)
    BY <2>1 DEF IInv, SessionsOK, disconnect
  <2>2. CASE market_logic(s)
    BY <2>2 DEF IInv, SessionsOK, Idle, market_logic
  <2>3. ASSUME phase[s] # "idle" PROVE \A r \in Sessions \ {s} : phase[r] = "idle"
    BY <2>3 DEF IInv, SessionsOK
  <2>4. CASE cancel_logic_ends(s)
    <3>1. \A r \in Sessions \ {s} : phase'[r] = "idle"
      BY <2>3, <2>4 DEF IInv, SessionsOK, cancel_logic_ends
    <3>2. visit' = orders[s] /\ orders' = orders /\ orders[s] \in Nat
      BY <2>4 DEF IInv, SessionsOK, cancel_logic_ends
    <3> QED
      BY <2>4, <3>1, <3>2 DEF IInv, SessionsOK, cancel_logic_ends
  <2>5. CASE execution_logic_ends(s)
    <3>1. \A r \in Sessions : phase'[r] = "idle"
      BY <2>3, <2>5 DEF IInv, SessionsOK, execution_logic_ends
    <3> QED
      BY <2>5, <3>1 DEF IInv, SessionsOK, execution_logic_ends
  <2> QED
    BY <2>1, <2>2, <2>4, <2>5
<1>2. not_asked
  BY Zenon DEF disconnect, market_logic, cancel_logic_ends, execution_logic_ends
<1> QED
  BY <1>1, <1>2, NotAskedStep

(* An iteration of cancel_logic preserves the invariant.                   *)
LEMMA CancelLogicStep == ASSUME IInv, NEW s \in Sessions, cancel_logic(s) PROVE IInv'
<1>1. SessionsOK'
  <2>1. orders' \in [Sessions -> Nat]
    <3>1. orders' = orders \/ (orders[s] > 0 /\ orders' = [orders EXCEPT ![s] = @ - 1])
      BY DEF cancel_logic
    <3> QED
      BY <3>1 DEF IInv, SessionsOK
  <2>2. pending_cancel' \in [Sessions -> Nat]
    BY DEF IInv, SessionsOK, cancel_logic
  <2>3. phase[s] = "cancel" /\ UNCHANGED <<logged_in, finished, phase, visit>>
    BY DEF cancel_logic
  <2>4. \A r \in Sessions : phase[r] # "execution"
    BY <2>3 DEF IInv, SessionsOK
  <2>5. \A q, r \in Sessions : phase'[q] # "idle" /\ phase'[r] # "idle" => q = r
    BY <2>3 DEF IInv, SessionsOK
  <2>6. \A r \in Sessions : phase'[r] = "execution" => visit' <= orders'[r]
    BY <2>3, <2>4
  <2>7. /\ logged_in' \subseteq Sessions
        /\ visit' \in Nat /\ finished' \in BOOLEAN
        /\ phase' \in [Sessions -> {"idle", "cancel", "execution"}]
    BY <2>3 DEF IInv, SessionsOK
  <2> QED
    BY <2>1, <2>2, <2>5, <2>6, <2>7 DEF SessionsOK
<1>2. CASE not_asked
  BY <1>1, <1>2, NotAskedStep
<1>3. CASE ~ not_asked
  <2>1. PICK yes \in BOOLEAN, canceled \in BOOLEAN : ask("cancel_order", yes, canceled)
    BY <1>3, Zenon DEF cancel_logic
  <2>2. no_quantity
    BY <1>3, Zenon DEF cancel_logic
  <2> QED
    BY <1>1, <2>1, <2>2, AskStep DEF Operations
<1> QED
  BY <1>2, <1>3

(* An iteration of the OUCH execution_logic preserves the invariant.       *)
LEMMA OuchExecutionStep == ASSUME IInv, ouch_execution_logic PROVE IInv'
<1>1. SessionsOK'
  <2>1. /\ phase["OUCH"] = "execution" /\ visit > 0 /\ visit' = visit - 1
        /\ orders' = orders \/ orders' = [orders EXCEPT !["OUCH"] = @ - 1]
        /\ UNCHANGED <<logged_in, finished, pending_cancel, phase>>
    BY DEF ouch_execution_logic
  <2>2. "OUCH" \in Sessions /\ visit <= orders["OUCH"] /\ orders["OUCH"] \in Nat /\ visit \in Nat
    BY <2>1 DEF IInv, SessionsOK, Sessions
  <2>3. orders' \in [Sessions -> Nat] /\ visit' \in Nat /\ visit' <= orders'["OUCH"]
    BY <2>1, <2>2 DEF IInv, SessionsOK
  <2>4. \A r \in Sessions : phase[r] = "execution" => r = "OUCH"
    BY <2>1, <2>2 DEF IInv, SessionsOK
  <2> QED
    BY <2>1, <2>3, <2>4 DEF IInv, SessionsOK
<1>2. PICK yes \in BOOLEAN, executed \in BOOLEAN : ask("execution", yes, executed)
  BY Zenon DEF ouch_execution_logic
<1>3. no_quantity
  BY DEF ouch_execution_logic
<1> QED
  BY <1>1, <1>2, <1>3, AskStep DEF Operations

(* An iteration of the BOE execution_logic preserves the invariant: what   *)
(* execution_qty() hands out is taken off what is left.                    *)
LEMMA BoeExecutionStep == ASSUME IInv, boe_execution_logic PROVE IInv'
<1>1. SessionsOK'
  <2>1. /\ phase["BOE"] = "execution" /\ visit > 0 /\ visit' = visit - 1
        /\ orders' = orders \/ orders' = [orders EXCEPT !["BOE"] = @ - 1]
        /\ UNCHANGED <<logged_in, pending_cancel, phase>>
    BY DEF boe_execution_logic
  <2>5. finished' \in BOOLEAN
    BY DEF IInv, SessionsOK, boe_execution_logic
  <2>2. "BOE" \in Sessions /\ visit <= orders["BOE"] /\ orders["BOE"] \in Nat /\ visit \in Nat
    BY <2>1 DEF IInv, SessionsOK, Sessions
  <2>3. orders' \in [Sessions -> Nat] /\ visit' \in Nat /\ visit' <= orders'["BOE"]
    BY <2>1, <2>2 DEF IInv, SessionsOK
  <2>4. \A r \in Sessions : phase[r] = "execution" => r = "BOE"
    BY <2>1, <2>2 DEF IInv, SessionsOK
  <2> QED
    BY <2>1, <2>3, <2>4, <2>5 DEF IInv, SessionsOK
<1>2. PICK yes \in BOOLEAN :
         \/ ask("execution", yes, FALSE) /\ no_quantity
         \/ /\ ask("execution", yes, exe_qty # 0)
            /\ exe_qty' = qty_after(exe_qty)
            /\ spent_qty' = IF exe_qty > 0 /\ spent_qty <= granted_qty
                            THEN spent_qty + exe_qty ELSE spent_qty
  BY Zenon DEF boe_execution_logic
<1>3. "execution" \in Operations /\ (exe_qty # 0) \in BOOLEAN
  BY DEF Operations
<1>4. CASE ask("execution", yes, FALSE) /\ no_quantity
  BY <1>1, <1>3, <1>4, AskStep
<1>5. CASE /\ ask("execution", yes, exe_qty # 0)
           /\ exe_qty' = qty_after(exe_qty)
           /\ spent_qty' = IF exe_qty > 0 /\ spent_qty <= granted_qty
                           THEN spent_qty + exe_qty ELSE spent_qty
  <2>1. CountsOK'
    BY <1>3, <1>5, AskCounts DEF IInv
  <2>2. granted_qty' = granted_qty /\ all_default' = all_default
    BY <1>5 DEF ask
  <2>3. QuantityOK'
    BY <1>5, <2>2 DEF IInv, QuantityOK, qty_after, RandomQty, Unlimited
  <2> QED
    BY <1>1, <2>1, <2>2, <2>3 DEF IInv
<1> QED
  BY <1>2, <1>4, <1>5

-----------------------------------------------------------------------------
(* "bm cancel_all" preserves the invariant.                                *)
LEMMA CancelAllStep == ASSUME IInv, bm_cancel_all PROVE IInv'
<1>1. SessionsOK'
  BY DEF IInv, SessionsOK, Sessions, Idle, bm_cancel_all
<1>2. not_asked
  BY DEF bm_cancel_all
<1> QED
  BY <1>1, <1>2, NotAskedStep

(* What a command does to the ghosts keeps the accounts: an operation has  *)
(* a quota only when it is counted and has just been given that many times. *)
LEMMA CommandCounts ==
    ASSUME CountsOK, NEW as \in SUBSET Operations, NEW x \in Nat \cup {Unlimited},
           commanded(as, x),
           behavior' \in [Operations -> Kinds],
           prob' \in [Operations -> 0 .. 100],
           times' \in [Operations -> Nat],
           \A a \in Operations \ as : behavior'[a] = behavior[a] /\ times'[a] = times[a],
           x # Unlimited => \A a \in as : behavior'[a] = "count" /\ times'[a] = x
    PROVE  CountsOK'
<1>1. quota' \in [Operations -> Nat \cup {Unlimited}]
  BY DEF CountsOK, commanded
<1>2. effects' \in [Operations -> Nat]
  BY DEF CountsOK, commanded
<1>3. refused' \in [Operations -> BOOLEAN]
  BY Zenon DEF CountsOK, commanded
<1>4. QuotaAccounted'
  <2> SUFFICES ASSUME NEW a \in Operations, quota'[a] # Unlimited
               PROVE  behavior'[a] = "count" /\ times'[a] + effects'[a] <= quota'[a]
    BY DEF QuotaAccounted
  <2>1. CASE a \in as
    <3>1. quota'[a] = x /\ effects'[a] = 0
      BY <2>1 DEF commanded
    <3>2. x # Unlimited /\ x \in Nat
      BY <3>1
    <3>3. behavior'[a] = "count" /\ times'[a] = x
      BY <2>1, <3>2
    <3> QED
      BY <3>1, <3>2, <3>3
  <2>2. CASE a \notin as
    <3>1. quota'[a] = quota[a] /\ effects'[a] = effects[a]
      BY <2>2 DEF commanded
    <3> QED
      BY <2>2, <3>1 DEF CountsOK, QuotaAccounted
  <2> QED
    BY <2>1, <2>2
<1> QED
  BY <1>1, <1>2, <1>3, <1>4 DEF CountsOK

(* A command leaves the sessions alone.                                    *)
LEMMA CommandSessions ==
    ASSUME SessionsOK, NEW as, NEW x, commanded(as, x) PROVE SessionsOK'
  BY DEF SessionsOK, commanded, session_vars

(* "bm set default", "bm set random" and "bm set count" preserve it.       *)
LEMMA SetActionStep == ASSUME IInv, NEW a \in Operations, set_action(a) PROVE IInv'
<1>1. exe_qty' = IF a = "execution" THEN RandomQty ELSE exe_qty
  BY DEF set_action, set_to_default, set_random, set_count, exe_qty_after_set
<1>2. QuantityOK'
  BY <1>1 DEF IInv, QuantityOK, set_action, RandomQty, Unlimited
<1>3. all_default' \in BOOLEAN
  BY DEF set_action
<1>4. CASE commanded({a}, Unlimited) /\ set_to_default(a)
  <2>1. CountsOK'
    BY <1>4, CommandCounts DEF IInv, CountsOK, set_to_default, Kinds
  <2> QED
    BY <1>2, <1>3, <1>4, <2>1, CommandSessions DEF IInv
<1>5. CASE \E p \in Probs : commanded({a}, Unlimited) /\ set_random(a, p)
  <2>1. PICK p \in Probs : commanded({a}, Unlimited) /\ set_random(a, p)
    BY <1>5
  <2>2. p \in 0 .. 100
    BY BehaviorAssumption
  <2>3. CountsOK'
    BY <2>1, <2>2, CommandCounts DEF IInv, CountsOK, set_random, Kinds
  <2> QED
    BY <1>2, <1>3, <2>1, <2>3, CommandSessions DEF IInv
<1>6. CASE \E x \in Counts : commanded({a}, x) /\ set_count(a, x)
  <2>1. PICK x \in Counts : commanded({a}, x) /\ set_count(a, x)
    BY <1>6
  <2>2. x \in Nat
    BY BehaviorAssumption
  <2>3. CountsOK'
    BY <2>1, <2>2, CommandCounts DEF IInv, CountsOK, set_count, Kinds
  <2> QED
    BY <1>2, <1>3, <2>1, <2>3, CommandSessions DEF IInv
<1> QED
  BY <1>4, <1>5, <1>6 DEF set_action

(* "bm reset" preserves it: it touches no quantity.                        *)
LEMMA ResetStep == ASSUME IInv, bm_reset PROVE IInv'
<1>1. CountsOK'
  <2>1. /\ behavior' \in [Operations -> Kinds]
        /\ prob' \in [Operations -> 0 .. 100]
        /\ times' \in [Operations -> Nat]
    BY DEF IInv, CountsOK, bm_reset, reset, Kinds
  <2> QED
    BY <2>1, CommandCounts DEF IInv, bm_reset
<1>2. QuantityOK'
  BY DEF IInv, QuantityOK, bm_reset, reset
<1>3. all_default' \in BOOLEAN
  BY DEF bm_reset
<1> QED
  BY <1>1, <1>2, <1>3, CommandSessions DEF IInv, bm_reset

(* "bm execute" preserves it: all of the quantity is left.                 *)
LEMMA ExecuteStep == ASSUME IInv, NEW qty \in ExeQtys, bm_execute(qty) PROVE IInv'
<1>1. qty \in Nat
  BY BehaviorAssumption
<1>2. CountsOK'
  <2>1. /\ behavior' \in [Operations -> Kinds]
        /\ prob' = prob /\ times' = times
        /\ \A a \in Operations \ {"execution"} : behavior'[a] = behavior[a]
    BY DEF IInv, CountsOK, bm_execute, set_execution_qty, Kinds
  <2>2. {"execution"} \in SUBSET Operations
    BY DEF Operations
  <2> QED
    BY <2>1, <2>2, CommandCounts DEF IInv, CountsOK, bm_execute
<1>3. QuantityOK'
  BY <1>1 DEF QuantityOK, bm_execute, set_execution_qty, Unlimited
<1>4. all_default' \in BOOLEAN
  BY DEF bm_execute
<1> QED
  BY <1>2, <1>3, <1>4, CommandSessions DEF IInv, bm_execute

-----------------------------------------------------------------------------
(* Every step preserves the invariant.                                     *)
LEMMA NextInv == IInv /\ [Next]_vars => IInv'
<1> SUFFICES ASSUME IInv, [Next]_vars PROVE IInv'
  OBVIOUS
<1>1. CASE UNCHANGED vars
  BY <1>1 DEF IInv, CountsOK, QuantityOK, SessionsOK, QuotaAccounted, vars, bm_vars,
              session_vars, ghosts
<1>2. CASE \E s \in Sessions :
             \/ login(s) \/ enter_order(s) \/ disconnect(s)
             \/ \E a \in {"modify_order", "replace_order"} : change_order(s, a)
             \/ market_logic(s) \/ cancel_logic(s) \/ cancel_logic_ends(s)
             \/ execution_logic_ends(s)
  BY <1>2, LoginStep, EnterStep, QuietStep, ChangeStep, CancelLogicStep
<1>3. CASE ouch_cancel_order \/ boe_cancel_order \/ ouch_execution_logic \/ boe_execution_logic
  BY <1>3, OuchCancelStep, BoeCancelStep, OuchExecutionStep, BoeExecutionStep
<1>4. CASE \E a \in Commanded : set_action(a)
  BY <1>4, SetActionStep, QuotaAssumption
<1>5. CASE bm_reset \/ bm_cancel_all \/ \E qty \in ExeQtys : bm_execute(qty)
  BY <1>5, ResetStep, CancelAllStep, ExecuteStep
<1> QED
  BY <1>1, <1>2, <1>3, <1>4, <1>5, Zenon DEF Next

(* The invariant holds in every behaviour of the two sessions.             *)
THEOREM Invariance == Spec => []IInv
  BY InitInv, NextInv, PTL DEF Spec

(* Every value of the manager and the sessions stays in its type; no count *)
(* of remaining times goes below zero.                                     *)
THEOREM TypeCorrect == Spec => []TypeOK
  BY Invariance, InvImplies, PTL

(* After "bm set count a x" the operation a takes effect at most x times,  *)
(* however the two sessions share the count.                               *)
THEOREM QuotasHold == Spec => []QuotaNeverExceeded
  BY Invariance, InvImplies, PTL

(* The quantity of a "bm execute" is never handed out twice.               *)
THEOREM ExecutedOnce == Spec => []ExecuteOnce
  BY Invariance, InvImplies, PTL
=============================================================================
