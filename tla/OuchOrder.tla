------------------------------ MODULE OuchOrder ------------------------------
(***************************************************************************)
(* The orders of the OUCH market: the record an Ouch_Order is reduced to,  *)
(* the tests the session makes on it (expired, still_active), the way each *)
(* request changes it, and the integer conversions that happen when a      *)
(* quantity is written into a message.  Price, symbol, firm and the other  *)
(* fields that are only copied into messages are left out.                 *)
(***************************************************************************)
EXTENDS Integers

CONSTANTS
    Tokens,       \* order tokens the client uses
    NoToken,      \* stands for the bytes of a token that was never written
    MAX_SHARES,   \* 999999 in the code
    UINT32,       \* 2^32 in the code
    MarketTif,    \* 99998 in the code: TimeInForce::Market
    SystemTif     \* 99999 in the code: TimeInForce::System

\* The literal 1000000 of the validate_* functions: one more than MAX_SHARES.
MAX_QTY == MAX_SHARES + 1

ASSUME OrderAssumption ==
    /\ NoToken \notin Tokens
    /\ MAX_SHARES \in Nat \ {0}
    /\ UINT32 \in Nat
    /\ MAX_QTY < UINT32
    /\ MarketTif \in Nat \ {0}
    /\ SystemTif \in Nat \ {0}

-----------------------------------------------------------------------------
(***************************************************************************)
(* Integer conversions.  Here and below, an operator named Bug... is a      *)
(* plausible mistake in the definition that follows it; nothing uses it.   *)
(***************************************************************************)

BugNoConversion(x) == x

\* int64_t stored into uint32_t
U32(x) == IF x \in 0 .. UINT32 - 1 THEN x ELSE x % UINT32

\* int64_t stored into int32_t
S32(x) == IF 2 * (x % UINT32) < UINT32 THEN x % UINT32 ELSE (x % UINT32) - UINT32

-----------------------------------------------------------------------------
(***************************************************************************)
(* Types.  remain_time_in_force is recomputed from time_in_force whenever  *)
(* it is read, so it is not stored.  The field genuine is a ghost: TRUE    *)
(* for an order that came out of parse_order, FALSE for one that           *)
(* operator[] of the order map created with uninitialised fields.          *)
(***************************************************************************)
Ioc == 0
Sides == {"B", "S", "T", "E"}
AnySide == Sides \cup {"?"}
OrderStates == {"Live", "Dead"}

Ouch_Order == [token           : Tokens \cup {NoToken},
               remaining_qty   : Int,
               executed_qty    : Int,
               time_in_force   : Nat,
               recv_order_time : Nat,
               min_qty         : Nat,
               side            : AnySide,
               state           : OrderStates,
               genuine         : BOOLEAN]

\* The uninitialised fields of a default-constructed Ouch_Order.
GarbageFields == [remaining_qty : Int, executed_qty : Int, min_qty : Nat,
                  side : AnySide, state : OrderStates]

Ouch_CancelOrderReq  == [token : Tokens, qty : 0 .. MAX_QTY]
Ouch_ModifyOrderReq  == [token : Tokens, req_qty : 0 .. MAX_QTY, new_side : AnySide]
Ouch_ReplaceOrderReq == [existing_token : Tokens, new_token : Tokens,
                         qty : 1 .. MAX_QTY, time_in_force : Nat]

\* Which quantities the validate_* functions let through.
validate_enter_order(qty)   == qty \in 1 .. MAX_QTY
validate_replace_order(qty) == qty \in 1 .. MAX_QTY
validate_cancel_order(qty)  == qty \in 0 .. MAX_QTY
validate_modify_order(qty)  == qty \in 0 .. MAX_QTY

-----------------------------------------------------------------------------
(***************************************************************************)
(* Construction of orders.                                                 *)
(***************************************************************************)

\* Ouch_Order(EnterOrder*): order() stamps the clock, parse_order copies.
parse_order(token, qty, tif, min_qty, side, now) ==
    [token |-> token, remaining_qty |-> qty, executed_qty |-> 0,
     time_in_force |-> tif, recv_order_time |-> now, min_qty |-> min_qty,
     side |-> side, state |-> "Live", genuine |-> TRUE]

\* Ouch_Order(): only order() assigns anything, the rest is what g says.
default_order(g, now) ==
    [token |-> NoToken, remaining_qty |-> g.remaining_qty,
     executed_qty |-> g.executed_qty, time_in_force |-> 0,
     recv_order_time |-> now, min_qty |-> g.min_qty,
     side |-> g.side, state |-> g.state, genuine |-> FALSE]

-----------------------------------------------------------------------------
(***************************************************************************)
(* Tests on an order.                                                      *)
(***************************************************************************)

\* remain_time_in_force as expired() leaves it at clock reading now
remain_time_in_force(o, now) ==
    IF o.time_in_force \in {Ioc, MarketTif, SystemTif}
    THEN S32(o.time_in_force)
    ELSE S32(o.time_in_force - (now - o.recv_order_time))

expired(o, now) == remain_time_in_force(o, now) <= 0

BugLastShareDead(o, now) == ~ (o.remaining_qty <= 1 \/ expired(o, now) \/ o.state = "Dead")

still_active(o, now) == ~ (o.remaining_qty <= 0 \/ expired(o, now) \/ o.state = "Dead")

\* The switch of modify_logic: its cases fall through.
side_allows(old, new) ==
    /\ old = "S"               => new \in {"T", "E"}
    /\ old \in {"S", "E"}      => new \in {"T", "S"}
    /\ old \in {"S", "E", "T"} => new \in {"E", "S"}

-----------------------------------------------------------------------------
(***************************************************************************)
(* How requests and fills change an order.                                 *)
(***************************************************************************)
BugReplaceKeepsToken(o, ro) ==
    [o EXCEPT !.remaining_qty = ro.qty - o.executed_qty,
              !.time_in_force = ro.time_in_force]

replaced(o, ro) ==
    [o EXCEPT !.token = ro.new_token,
              !.remaining_qty = ro.qty - o.executed_qty,
              !.time_in_force = ro.time_in_force]

BugModifyForgetsFills(o, mo) ==
    [o EXCEPT !.side = mo.new_side, !.remaining_qty = mo.req_qty]

modified(o, mo) ==
    [o EXCEPT !.side = mo.new_side,
              !.remaining_qty = mo.req_qty - o.executed_qty]

\* A fill of at most rnd shares, refused when it exceeds a nonzero min_qty.
fill_qty(o, rnd) == IF rnd <= o.remaining_qty THEN rnd ELSE o.remaining_qty

BugMinQtyZero(o, rnd) == fill_qty(o, rnd) <= o.min_qty
fill_allowed(o, rnd) == o.min_qty = 0 \/ fill_qty(o, rnd) <= o.min_qty

BugFillUncapped(o, rnd) ==
    [o EXCEPT !.remaining_qty = @ - rnd, !.executed_qty = @ + rnd]

filled(o, rnd) ==
    [o EXCEPT !.remaining_qty = @ - fill_qty(o, rnd),
              !.executed_qty  = @ + fill_qty(o, rnd)]
=============================================================================
