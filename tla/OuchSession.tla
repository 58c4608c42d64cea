----------------------------- MODULE OuchSession -----------------------------
(***************************************************************************)
(* The OUCH market of the simulator (class ouch_session): one client       *)
(* session with its order book, the three queues of pending requests, and  *)
(* the market_logic the timer runs over them.                              *)
(*                                                                         *)
(* The program is single threaded: a read of the socket, a timer tick, an  *)
(* administrator's cancel_all and a disconnect are handlers that never     *)
(* interleave.  The variable phase says which handler is running and in    *)
(* which of its loops; one iteration of a loop is one step, and a handler  *)
(* starts only in phase "idle".  The answers of the BehaviorManager are    *)
(* any member of Grants.                                                   *)
(***************************************************************************)
EXTENDS OuchOrder, Sequences, Functions

CONSTANTS
    Grants,       \* answers the BehaviorManager may give, {TRUE} by default
    EnterQtys, CancelQtys, ModifyQtys, ReplaceQtys,  \* quantities in requests
    Tifs,         \* time_in_force of EnterOrder and ReplaceOrder
    MinQtys,      \* min_qty of EnterOrder
    EnterSides,   \* sides of EnterOrder
    ModifySides,  \* new_side of ModifyOrder, which is not validated
    RandQtys,     \* values of (1 + rand() % 10) * 100
    Garbage,      \* contents of uninitialised orders
    MaxPending,   \* bound: requests in the three pending queues
    MaxOut,       \* bound: messages queued when a packet is handled
    MaxTime       \* bound: seconds on the clock

ASSUME SessionAssumption ==
    /\ Grants \subseteq BOOLEAN
    /\ EnterQtys \subseteq Nat /\ CancelQtys \subseteq Nat
    /\ ModifyQtys \subseteq Nat /\ ReplaceQtys \subseteq Nat
    /\ Tifs \subseteq Nat /\ MinQtys \subseteq Nat
    /\ EnterSides \subseteq Sides /\ ModifySides \subseteq AnySide
    /\ RandQtys \subseteq Nat \ {0}
    /\ Garbage \subseteq GarbageFields
    /\ MaxPending \in Nat /\ MaxOut \in Nat /\ MaxTime \in Nat

VARIABLES
    \* fields of session and ouch_session
    state, active_orders, finished_orders,
    pending_cancel, pending_modify, pending_replace,
    pending_out_messages, last_send_heartbeat,
    \* whether the server has a client, whose accept armed the timer
    connected,
    \* the clock, time(NULL)
    now,
    \* the handler in progress: its loop, the index of the next request, the
    \* local done_tokens and the orders its iteration of the map still visits
    phase, cursor, done_tokens, todo,
    \* ghost: open and executed shares per token, as a client computes them
    \* that applies every message in the order it is queued
    book

session_vars == <<state, last_send_heartbeat>>
queues == <<pending_cancel, pending_modify, pending_replace>>
out == <<pending_out_messages, book>>
vars == <<state, active_orders, finished_orders, pending_cancel,
          pending_modify, pending_replace, pending_out_messages,
          last_send_heartbeat, connected, now, phase, cursor, done_tokens,
          todo, book>>

NotLoggedIn == "N"
LoggedIn == "L"
Phases == {"idle", "read", "cancel", "modify", "replace", "execution", "send",
           "cancel_all"}

-----------------------------------------------------------------------------
(***************************************************************************)
(* Messages to the client: the fields that carry state.                    *)
(***************************************************************************)
Message ==
         [type : {"LoginAccepted", "ServerHeartbeat"}]
    \cup [type : {"LoginRejected"}, reason : {"NotAuthorized", "SessionNotAvailable"}]
    \cup [type : {"OrderRejected"}, token : Tokens, reason : {"ExceededConfiguredSafety", "Other"}]
    \cup [type : {"CancelReject"}, token : Tokens]
    \cup [type : {"OrderAccepted"}, token : Tokens, qty : Nat]
    \cup [type : {"OrderCanceled"}, token : Tokens, decrement_qty : Nat,
          reason : {"UserRequested", "SystemCancel", "TimeOut", "IOC"}]
    \cup [type : {"OrderModified"}, token : Tokens, shares : Nat]
    \cup [type : {"Executed"}, token : Tokens, executed_qty : Nat]
    \cup [type : {"OrderReplaced"}, token : Tokens, orig_token : Tokens, qty : Nat]

construct_login_accepted == [type |-> "LoginAccepted"]
construct_login_rejected(r) == [type |-> "LoginRejected", reason |-> r]
construct_heartbeat == [type |-> "ServerHeartbeat"]
construct_order_rejected(r, t) == [type |-> "OrderRejected", token |-> t, reason |-> r]
BugCancelRejectedBlank(t) == [type |-> "CancelReject", token |-> NoToken]
construct_cancel_rejected(t) == [type |-> "CancelReject", token |-> t]
construct_order_accepted(o) ==
    [type |-> "OrderAccepted", token |-> o.token, qty |-> U32(o.remaining_qty)]
construct_order_canceled(dec, r, t) ==
    [type |-> "OrderCanceled", token |-> t, decrement_qty |-> U32(dec), reason |-> r]
construct_order_modified(rem, mo) ==
    [type |-> "OrderModified", token |-> mo.token, shares |-> U32(rem)]
construct_order_executed(o, rnd) ==
    [type |-> "Executed", token |-> o.token, executed_qty |-> U32(fill_qty(o, rnd))]
BugReplacedReportsTotal(ro, o) ==
    [type |-> "OrderReplaced", token |-> o.token,
     orig_token |-> ro.existing_token, qty |-> U32(ro.qty)]
construct_order_replaced(ro, o) ==
    [type |-> "OrderReplaced", token |-> o.token,
     orig_token |-> ro.existing_token, qty |-> U32(o.remaining_qty)]

Reduce(open, q) == IF q <= open THEN open - q ELSE 0

\* Executed shares are counted up to MAX_QTY, all an order can have; above
\* that the count only says "more than any order".
LedgerLimit == MAX_QTY + 1
Count(n) == IF n < LedgerLimit THEN n ELSE LedgerLimit

\* What a client believes after message m: the protocol's reading of it.
client_view(b, m) ==
    CASE m.type = "OrderAccepted" ->
           [b EXCEPT ![m.token] = [open |-> m.qty, executed |-> 0]]
      [] m.type = "OrderCanceled" ->
           [b EXCEPT ![m.token].open = Reduce(@, m.decrement_qty)]
      [] m.type = "OrderModified" ->
           [b EXCEPT ![m.token].open = m.shares]
      [] m.type = "Executed" ->
           [b EXCEPT ![m.token] = [open |-> Reduce(@.open, m.executed_qty),
                                   executed |-> Count(@.executed + m.executed_qty)]]
      [] m.type = "OrderReplaced" ->
           [t \in Tokens |->
              IF t = m.token
              THEN [open |-> m.qty, executed |-> b[m.orig_token].executed]
              ELSE IF t = m.orig_token THEN [open |-> 0, executed |-> 0] ELSE b[t]]
      [] OTHER -> b

push(m) ==
    /\ pending_out_messages' = Append(pending_out_messages, m)
    /\ book' = client_view(book, m)

-----------------------------------------------------------------------------
(***************************************************************************)
(* The map of active orders.                                               *)
(***************************************************************************)
put(orders, t, o) ==
    [k \in DOMAIN orders \cup {t} |-> IF k = t THEN o ELSE orders[k]]
erase(orders, ts) == Restrict(orders, DOMAIN orders \ ts)

BugMoveLeavesOldKey(orders, old, new, o) == put(orders, new, o)

\* swap(active_orders[old], active_orders[new]); active_orders.erase(old)
move(orders, old, new, o) == erase(put(orders, new, o), {old})

-----------------------------------------------------------------------------
Init ==
    /\ state = NotLoggedIn
    /\ active_orders = [t \in {} |-> t]
    /\ finished_orders = {}
    /\ pending_cancel = <<>> /\ pending_modify = <<>> /\ pending_replace = <<>>
    /\ pending_out_messages = <<>>
    /\ now = 0 /\ last_send_heartbeat = 0 /\ connected = FALSE
    /\ phase = "idle" /\ cursor = 1 /\ done_tokens = {} /\ todo = {}
    /\ book = [t \in Tokens |-> [open |-> 0, executed |-> 0]]

-----------------------------------------------------------------------------
(***************************************************************************)
(* TCPServer::accept, and SoupBinTCPServer::read: any number of packets,   *)
(* then send.  A packet that fails its validation, or that its handler     *)
(* ignores, changes nothing and is not a step.  Client heartbeats only     *)
(* store a time nobody reads.                                              *)
(***************************************************************************)
accept ==
    /\ phase = "idle" /\ ~connected
    /\ connected' = TRUE
    /\ UNCHANGED <<session_vars, active_orders, finished_orders, queues, now,
                   phase, cursor, done_tokens, todo, out>>

Reading ==
    /\ connected
    /\ phase \in {"idle", "read"}
    /\ phase' = "read"
    /\ Len(pending_out_messages) < MaxOut
    /\ UNCHANGED <<connected, now, cursor, done_tokens, todo, last_send_heartbeat>>

handle_login_request ==
    /\ Reading
    /\ \/ /\ state # NotLoggedIn
          /\ push(construct_login_rejected("SessionNotAvailable"))
          /\ UNCHANGED state
       \/ /\ state = NotLoggedIn
          /\ \E granted \in Grants :
               IF granted
               THEN /\ state' = LoggedIn
                    /\ push(construct_login_accepted)
               ELSE /\ push(construct_login_rejected("NotAuthorized"))
                    /\ UNCHANGED state
    /\ UNCHANGED <<active_orders, finished_orders, queues>>

handle_logout_request ==
    /\ Reading
    /\ state' = NotLoggedIn
    /\ UNCHANGED <<active_orders, finished_orders, queues, out>>

reject_order(t, qty) ==
    /\ Reading
    /\ validate_enter_order(qty)
    /\ \/ /\ qty > MAX_SHARES
          /\ push(construct_order_rejected("ExceededConfiguredSafety", t))
       \/ /\ qty <= MAX_SHARES
          /\ state # LoggedIn \/ FALSE \in Grants
          /\ push(construct_order_rejected("Other", t))
    /\ UNCHANGED <<state, active_orders, finished_orders, queues>>

accept_order(t, qty, tif, min_qty, side) ==
    LET new_order == parse_order(t, qty, tif, min_qty, side, now)
    IN  /\ Reading
        /\ validate_enter_order(qty)
        /\ qty <= MAX_SHARES
        /\ state = LoggedIn /\ TRUE \in Grants
        /\ t \notin DOMAIN active_orders /\ t \notin finished_orders
        /\ active_orders' = put(active_orders, t, new_order)
        /\ push(construct_order_accepted(new_order))
        /\ UNCHANGED <<state, finished_orders, queues>>

enter_order ==
    \E t \in Tokens, qty \in EnterQtys :
        \/ reject_order(t, qty)
        \/ \E tif \in Tifs, min_qty \in MinQtys, side \in EnterSides :
             accept_order(t, qty, tif, min_qty, side)

MayQueue == Len(pending_cancel) + Len(pending_modify) + Len(pending_replace) < MaxPending

\* cancel_order, modify_order and replace_order only queue the request, and
\* only when the BehaviorManager says yes; otherwise nothing changes.
cancel_order(t, qty) ==
    /\ Reading
    /\ validate_cancel_order(qty)
    /\ t \in DOMAIN active_orders
    /\ TRUE \in Grants
    /\ MayQueue
    /\ pending_cancel' = Append(pending_cancel, [token |-> t, qty |-> qty])
    /\ UNCHANGED <<state, active_orders, finished_orders, pending_modify, pending_replace, out>>

modify_order(t, qty, side) ==
    /\ Reading
    /\ validate_modify_order(qty)
    /\ t \in DOMAIN active_orders
    /\ TRUE \in Grants
    /\ MayQueue
    /\ pending_modify' = Append(pending_modify, [token |-> t, req_qty |-> qty, new_side |-> side])
    /\ UNCHANGED <<state, active_orders, finished_orders, pending_cancel, pending_replace, out>>

\* Neither the session state nor the existence of the order is looked at.
replace_order(existing, new, qty, tif) ==
    /\ Reading
    /\ validate_replace_order(qty)
    /\ TRUE \in Grants
    /\ MayQueue
    /\ pending_replace' = Append(pending_replace,
                            [existing_token |-> existing, new_token |-> new,
                             qty |-> qty, time_in_force |-> tif])
    /\ UNCHANGED <<state, active_orders, finished_orders, pending_cancel, pending_modify, out>>

handle_packet ==
    \/ handle_login_request
    \/ handle_logout_request
    \/ enter_order
    \/ \E t \in Tokens, qty \in CancelQtys : cancel_order(t, qty)
    \/ \E t \in Tokens, qty \in ModifyQtys, side \in ModifySides : modify_order(t, qty, side)
    \/ \E t, u \in Tokens, qty \in ReplaceQtys, tif \in Tifs : replace_order(t, u, qty, tif)

\* SoupBinTCPServer::send ends both a read and a tick.
send ==
    /\ phase \in {"read", "send"}
    /\ phase' = "idle"
    /\ pending_out_messages' = <<>>
    /\ UNCHANGED <<session_vars, active_orders, finished_orders, queues,
                   connected, now, cursor, done_tokens, todo, book>>

-----------------------------------------------------------------------------
(***************************************************************************)
(* TCPServer::process: market_logic runs heartbeat, cancel, modify,        *)
(* replace and execution in this order, then send.                         *)
(***************************************************************************)
enter_loop(p) ==
    /\ phase' = p
    /\ cursor' = 1
    /\ done_tokens' = {}
    /\ UNCHANGED connected

\* The start of a tick: heartbeat_logic.
market_logic ==
    /\ phase = "idle"
    /\ enter_loop("cancel")
    /\ IF state = LoggedIn /\ now - last_send_heartbeat >= 1
       THEN /\ last_send_heartbeat' = now
            /\ push(construct_heartbeat)
       ELSE UNCHANGED <<last_send_heartbeat, out>>
    /\ UNCHANGED <<state, active_orders, finished_orders, queues, now, todo>>

\* One iteration over pending_cancel.
cancel_logic ==
    /\ phase = "cancel" /\ cursor <= Len(pending_cancel)
    /\ cursor' = cursor + 1
    /\ LET co == pending_cancel[cursor]
           curr_qty == U32(active_orders[co.token].remaining_qty)
           found == co.token \in DOMAIN active_orders
       IN  \/ /\ ~ found \/ FALSE \in Grants
              /\ push(construct_cancel_rejected(co.token))
              /\ UNCHANGED <<active_orders, done_tokens>>
           \/ /\ found /\ TRUE \in Grants
              /\ co.qty = 0
              /\ done_tokens' = done_tokens \cup {co.token}
              /\ push(construct_order_canceled(curr_qty, "UserRequested", co.token))
              /\ UNCHANGED active_orders
           \/ /\ found /\ TRUE \in Grants
              /\ co.qty > 0 /\ co.qty >= curr_qty
              /\ UNCHANGED <<active_orders, done_tokens, out>>
           \/ /\ found /\ TRUE \in Grants
              /\ co.qty > 0 /\ co.qty < curr_qty
              /\ active_orders' = [active_orders EXCEPT ![co.token].remaining_qty = co.qty]
              /\ push(construct_order_canceled(curr_qty - co.qty, "UserRequested", co.token))
              /\ UNCHANGED done_tokens
    /\ UNCHANGED <<session_vars, finished_orders, queues, connected, now, phase, todo>>

cancel_logic_ends ==
    /\ phase = "cancel" /\ cursor > Len(pending_cancel)
    /\ pending_cancel' = <<>>
    /\ active_orders' = erase(active_orders, done_tokens)
    /\ enter_loop("modify")
    /\ UNCHANGED <<session_vars, finished_orders, pending_modify, pending_replace, now, todo, out>>

\* One iteration over pending_modify.
modify_logic ==
    /\ phase = "modify" /\ cursor <= Len(pending_modify)
    /\ cursor' = cursor + 1
    /\ LET mo == pending_modify[cursor]
           target_order == active_orders[mo.token]
           applies == /\ mo.token \in DOMAIN active_orders
                      /\ side_allows(target_order.side, mo.new_side)
       IN  \/ /\ ~ applies
              /\ UNCHANGED <<active_orders, done_tokens, out>>
           \/ /\ applies
              /\ target_order.executed_qty >= mo.req_qty
              /\ done_tokens' = done_tokens \cup {target_order.token}
              /\ push(construct_order_modified(0, mo))
              /\ UNCHANGED active_orders
           \/ /\ applies
              /\ target_order.executed_qty < mo.req_qty
              /\ active_orders' = [active_orders EXCEPT ![mo.token] = modified(@, mo)]
              /\ push(construct_order_modified(modified(target_order, mo).remaining_qty, mo))
              /\ UNCHANGED done_tokens
    /\ UNCHANGED <<session_vars, finished_orders, queues, connected, now, phase, todo>>

\* pending_modify is not cleared: every tick applies every modify again.
modify_logic_ends ==
    /\ phase = "modify" /\ cursor > Len(pending_modify)
    /\ active_orders' = erase(active_orders, done_tokens)
    /\ enter_loop("replace")
    /\ UNCHANGED <<session_vars, finished_orders, queues, now, todo, out>>

\* One iteration over pending_replace.  active_orders[existing_token] comes
\* before the test that the order exists, so the order always exists: for an
\* unknown token it is a new one with uninitialised fields.
replace_logic ==
    /\ phase = "replace" /\ cursor <= Len(pending_replace)
    /\ cursor' = cursor + 1
    /\ \E g \in Garbage :
       LET ro == pending_replace[cursor]
           t == ro.existing_token
           target_order == IF t \in DOMAIN active_orders THEN active_orders[t]
                           ELSE default_order(g, now)
           new_order == replaced(target_order, ro)
           refused == ro.qty > MAX_SHARES \/ ro.qty <= target_order.executed_qty
       IN  \/ /\ refused
              /\ active_orders' = put(active_orders, t, target_order)
              /\ done_tokens' = done_tokens \cup {t}
              /\ push(construct_order_canceled(target_order.remaining_qty, "SystemCancel", t))
           \/ /\ ~ refused
              /\ active_orders' = move(active_orders, t, ro.new_token, new_order)
              /\ push(construct_order_replaced(ro, new_order))
              /\ UNCHANGED done_tokens
    /\ UNCHANGED <<session_vars, finished_orders, queues, connected, now, phase, todo>>

replace_logic_ends ==
    /\ phase = "replace" /\ cursor > Len(pending_replace)
    /\ pending_replace' = <<>>
    /\ active_orders' = erase(active_orders, done_tokens)
    /\ enter_loop("execution")
    /\ todo' = DOMAIN active_orders'
    /\ UNCHANGED <<session_vars, finished_orders, pending_cancel, pending_modify, now, out>>

\* An order that is out of time is canceled before the test for IOC orders is
\* reached; as the time of an IOC order is 0, that test never succeeds.
cancel_reason(o) == IF expired(o, now) THEN "TimeOut" ELSE "IOC"

\* One iteration over active_orders, whose iteration order is unspecified.
\* The clock is read twice, by expired() and again by still_active(): later
\* is the second reading.
execution_logic(t) ==
    LET o == active_orders[t]
    IN  /\ phase = "execution" /\ t \in todo
        /\ todo' = todo \ {t}
        /\ \/ /\ FALSE \in Grants
              /\ UNCHANGED <<active_orders, finished_orders, done_tokens, now, out>>
           \/ /\ TRUE \in Grants
              /\ expired(o, now) \/ o.time_in_force = Ioc
              /\ push(construct_order_canceled(o.remaining_qty, cancel_reason(o), o.token))
              /\ done_tokens' = done_tokens \cup {t}
              /\ UNCHANGED <<active_orders, finished_orders, now>>
           \/ /\ TRUE \in Grants
              /\ ~ (expired(o, now) \/ o.time_in_force = Ioc)
              /\ \E later \in {now, now + 1} \cap (0 .. MaxTime) :
                   /\ now' = later
                   /\ IF still_active(o, later)
                      THEN \E rnd \in RandQtys :
                             /\ UNCHANGED <<finished_orders, done_tokens>>
                             /\ IF fill_allowed(o, rnd)
                                THEN /\ active_orders' = [active_orders EXCEPT ![t] = filled(@, rnd)]
                                     /\ push(construct_order_executed(o, rnd))
                                ELSE UNCHANGED <<active_orders, out>>
                      ELSE /\ finished_orders' = finished_orders \cup {t}
                           /\ done_tokens' = done_tokens \cup {t}
                           /\ active_orders' = [active_orders EXCEPT ![t].state = "Dead"]
                           /\ UNCHANGED out
        /\ UNCHANGED <<session_vars, queues, connected, phase, cursor>>

execution_logic_ends ==
    /\ phase = "execution" /\ todo = {}
    /\ active_orders' = erase(active_orders, done_tokens)
    /\ enter_loop("send")
    /\ UNCHANGED <<session_vars, finished_orders, queues, now, todo, out>>

-----------------------------------------------------------------------------
(***************************************************************************)
(* cancel_all, called by the administrator.  Nothing is sent before the    *)
(* next read or tick.  The code has no done_tokens here, it clears the map *)
(* at the end; the model notes in it which orders the loop has passed.     *)
(***************************************************************************)
cancel_all ==
    /\ phase = "idle"
    /\ enter_loop("cancel_all")
    /\ todo' = DOMAIN active_orders
    /\ UNCHANGED <<session_vars, active_orders, finished_orders, queues, now, out>>

BugCancelAllSilent(t) ==
    /\ phase = "cancel_all" /\ t \in todo
    /\ todo' = todo \ {t}
    /\ done_tokens' = done_tokens \cup {t}
    /\ UNCHANGED <<session_vars, active_orders, finished_orders, queues, connected, now,
                   phase, cursor, out>>

cancel_all_order(t) ==
    LET o == active_orders[t]
    IN  /\ phase = "cancel_all" /\ t \in todo
        /\ todo' = todo \ {t}
        /\ done_tokens' = done_tokens \cup {t}
        /\ IF still_active(o, now)
           THEN push(construct_order_canceled(o.remaining_qty, "SystemCancel", o.token))
           ELSE UNCHANGED out
        /\ UNCHANGED <<session_vars, active_orders, finished_orders, queues, connected, now,
                       phase, cursor>>

cancel_all_ends ==
    /\ phase = "cancel_all" /\ todo = {}
    /\ active_orders' = erase(active_orders, DOMAIN active_orders)
    /\ enter_loop("idle")
    /\ UNCHANGED <<session_vars, finished_orders, queues, now, todo, out>>

\* TCPServer::reconnect cancels the timer and resets the session state.
disconnect ==
    /\ phase = "idle" /\ connected
    /\ connected' = FALSE
    /\ state' = NotLoggedIn
    /\ UNCHANGED <<last_send_heartbeat, active_orders, finished_orders, queues,
                   now, phase, cursor, done_tokens, todo, out>>

Tick ==
    /\ now < MaxTime
    /\ now' = now + 1
    /\ UNCHANGED <<session_vars, active_orders, finished_orders, queues,
                   connected, phase, cursor, done_tokens, todo, out>>

\* A step of a handler that has started.
HandlerStep ==
    \/ cancel_logic  \/ cancel_logic_ends
    \/ modify_logic  \/ modify_logic_ends
    \/ replace_logic \/ replace_logic_ends
    \/ \E t \in Tokens : execution_logic(t)
    \/ execution_logic_ends
    \/ \E t \in Tokens : cancel_all_order(t)
    \/ cancel_all_ends
    \/ send

Next ==
    \/ accept
    \/ handle_packet
    \/ market_logic
    \/ HandlerStep
    \/ cancel_all
    \/ disconnect
    \/ Tick

\* A started handler runs to its end, its sends included, as long as the client
\* reads what it is sent.  While a client stays, the timer that its accept armed
\* keeps coming, and is served in its turn however many reads there are; when
\* the client has gone, nothing is promised.
Fairness == WF_vars(HandlerStep) /\ (<>[]connected => SF_vars(market_logic))

Spec == Init /\ [][Next]_vars /\ Fairness

-----------------------------------------------------------------------------
(***************************************************************************)
(* Properties.                                                             *)
(***************************************************************************)

\* Type correctness, with the facts about the loop variables that every
\* handler relies on: no done_tokens and no orders to visit outside a loop.
TypeOK ==
    /\ state \in {NotLoggedIn, LoggedIn}
    /\ DOMAIN active_orders \subseteq Tokens
    /\ active_orders \in [DOMAIN active_orders -> Ouch_Order]
    /\ finished_orders \subseteq Tokens
    /\ pending_cancel \in Seq(Ouch_CancelOrderReq)
    /\ pending_modify \in Seq(Ouch_ModifyOrderReq)
    /\ pending_replace \in Seq(Ouch_ReplaceOrderReq)
    /\ pending_out_messages \in Seq(Message)
    /\ now \in Nat /\ last_send_heartbeat \in Nat
    /\ phase \in Phases /\ cursor \in Nat \ {0}
    /\ done_tokens \subseteq Tokens
    /\ phase \in {"idle", "read", "send"} => done_tokens = {}
    /\ todo \subseteq DOMAIN active_orders
    /\ connected \in BOOLEAN
    /\ state = LoggedIn \/ phase = "read" => connected
    /\ phase \notin {"execution", "cancel_all"} => todo = {}
    /\ book \in [Tokens -> [open : Nat, executed : 0 .. LedgerLimit]]

\* The map of active orders is keyed by the token of its orders: the loops
\* erase by key in one place and by token in another, and the messages carry
\* the token.  Only an order that replace_logic is about to erase may differ.
KeyIsToken ==
    \A t \in DOMAIN active_orders :
        active_orders[t].token = t \/ (phase = "replace" /\ t \in done_tokens)

\* The quantities of an order a client entered never go negative and never
\* add up to more than the largest quantity of a request, whatever fills,
\* cancels, modifies and chains of replaces happen in whatever order.
QtySound ==
    \A t \in DOMAIN active_orders : active_orders[t].genuine =>
        /\ active_orders[t].remaining_qty >= 0
        /\ active_orders[t].executed_qty >= 0
        /\ active_orders[t].remaining_qty + active_orders[t].executed_qty <= MAX_QTY

\* A client that applies the messages in the order they are queued agrees
\* with the market about every order it entered: on the executed shares
\* always, on the open shares unless a loop has marked the order as done and
\* the client has been told that nothing of it is open.
ClientAgrees ==
    \A t \in DOMAIN active_orders : active_orders[t].genuine =>
        /\ book[t].executed = active_orders[t].executed_qty
        /\ \/ book[t].open = active_orders[t].remaining_qty
           \/ t \in done_tokens /\ book[t].open = 0

\* When cancel_logic or execution_logic erases an order, the client has been
\* told that nothing of it is open.  The exception is the deadline that falls
\* between the two readings of the clock in one iteration of execution_logic.
ErasedIsClosed ==
    \A t \in DOMAIN active_orders \cap done_tokens :
        active_orders[t].genuine =>
            /\ phase = "cancel" => book[t].open = 0
            /\ phase = "execution" =>
                  \/ book[t].open = 0
                  \/ \E s \in 0 .. now : expired(active_orders[t], s)

\* What the loops rely on: they visit no order they have marked as done,
\* cancel_all passes every order before it clears the map, and
\* an order a client entered is dead only when execution_logic has marked it.
LoopsConsistent ==
    /\ phase \in {"execution", "cancel_all"} => todo \cap done_tokens = {}
    /\ phase = "cancel_all" => DOMAIN active_orders \subseteq todo \cup done_tokens
    /\ \A t \in DOMAIN active_orders : active_orders[t].genuine =>
          active_orders[t].state = "Live" \/ (phase = "execution" /\ t \in done_tokens)

\* The inductive invariant: the five together.
IInv == TypeOK /\ KeyIsToken /\ QtySound /\ ClientAgrees /\ ErasedIsClosed /\ LoopsConsistent

\* Every queued cancel leaves the queue while the client stays, and when the
\* queue is emptied, each of its cancels has had an answer of its own, except
\* those that leave no less of the order than there is: to these the code says
\* nothing.
answers(t) ==
    SelectSeq(pending_out_messages,
              LAMBDA m : \/ m.type = "CancelReject" /\ m.token = t
                         \/ m.type = "OrderCanceled" /\ m.token = t /\ m.reason = "UserRequested")
no_smaller(c) ==
    c.qty > 0 /\ c.token \in DOMAIN active_orders
              /\ active_orders[c.token].remaining_qty <= c.qty
CancelsAnswered ==
    /\ pending_cancel # <<>> ~> pending_cancel = <<>> \/ ~connected
    /\ [][ pending_cancel # <<>> /\ pending_cancel' = <<>> =>
             \A t \in Tokens :
                 Len(answers(t)) >= Len(SelectSeq(pending_cancel,
                                         LAMBDA c : c.token = t /\ ~no_smaller(c))) ]_vars

\* Under the default behaviour, while its client stays, an order does not stay
\* active for ever, even though every modify is applied at every tick.  Only a
\* minimum quantity keeps one, when it refuses a fill the market may draw.
OrdersLeave ==
    \A t \in Tokens :
        t \in DOMAIN active_orders ~>
            \/ t \notin DOMAIN active_orders
            \/ LET o == active_orders[t]
               IN  \E rnd \in RandQtys : 0 < o.min_qty /\ o.min_qty < fill_qty(o, rnd)
            \/ ~connected

-----------------------------------------------------------------------------
(***************************************************************************)
(* The session implements OrderLifecycle.                                  *)
(***************************************************************************)
Genuine == {t \in DOMAIN active_orders : active_orders[t].genuine}

\* What the client asked for: modifies keep the token, replaces change it.
Requests ==
         {[kind |-> "resize", no |-> i,
           from |-> pending_modify[i].token, to |-> pending_modify[i].token] :
              i \in DOMAIN pending_modify}
    \cup {[kind |-> "rename", no |-> i,
           from |-> pending_replace[i].existing_token, to |-> pending_replace[i].new_token] :
              i \in DOMAIN pending_replace}

Lifecycle == INSTANCE OrderLifecycle WITH
    Residual <- {},
    orders <- [t \in Genuine |-> [open |-> active_orders[t].remaining_qty,
                                  executed |-> active_orders[t].executed_qty]],
    ledger <- book,
    requests <- Requests,
    ending <- done_tokens,
    unfit  <- {t \in Genuine : \E s \in 0 .. now : expired(active_orders[t], s)},
    strays <- DOMAIN active_orders \ Genuine,
    misled <- {}

\* Whatever a handler does to the book of orders and tells the client about it
\* is one step of OrderLifecycle: an order the client believes open is lost
\* only in one of the ways that are listed there.
ImplementsLifecycle == Lifecycle!Spec

=============================================================================
