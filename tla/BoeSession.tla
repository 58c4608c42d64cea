------------------------------ MODULE BoeSession ------------------------------
(***************************************************************************)
(* The BOE market of the simulator (class boe_session).  As in OuchSession *)
(* the handlers never interleave, phase says which loop of which handler   *)
(* is running, and one iteration of a loop is one step.  BOE orders do not *)
(* expire, so there is no clock; whether a heartbeat is due is a choice.   *)
(* The sequence number, the price and the fields only copied into messages *)
(* are left out.                                                           *)
(***************************************************************************)
EXTENDS Integers, Sequences, Functions

CONSTANTS
    Tokens,      \* order tokens the client uses
    NoToken,     \* stands for bytes that are no token the client uses
    LimitQty,    \* 1000000 in the code, the most still_active accepts
    Grants,      \* answers the BehaviorManager may give, {TRUE} by default
    EnterQtys, ModifyQtys,  \* quantities in requests, which are not validated
    ExecutionQtys, \* what execution_qty() and the random default come to
    Garbage,     \* contents of uninitialised orders
    MaxPending,  \* bound: requests in the two pending queues
    MaxOut       \* bound: messages queued when a packet is handled

\* The fields of an order that its default constructor leaves uninitialised.
\* The bytes of the token may be those of an order that was erased.
GarbageFields == [token : Tokens \cup {NoToken}, remaining_qty : Int, executed_qty : Int]

ASSUME BoeAssumption ==
    /\ NoToken \notin Tokens
    /\ LimitQty \in Nat \ {0}
    /\ Grants \subseteq BOOLEAN
    /\ EnterQtys \subseteq Nat /\ ModifyQtys \subseteq Nat
    /\ ExecutionQtys \subseteq Nat
    /\ Garbage \subseteq GarbageFields
    /\ MaxPending \in Nat /\ MaxOut \in Nat

VARIABLES
    state, active_orders, finished_orders, pending_cancel, pending_modify,
    pending_out_messages,
    connected,   \* whether there is a client, whose accept armed the timer
    phase, cursor, done_tokens, todo,   \* the handler in progress
    \* ghosts: leaves and executed shares as a client computes them, and the
    \* names under which it was told of an order nobody entered
    book, misled

queues == <<pending_cancel, pending_modify>>
out == <<pending_out_messages, book, misled>>
vars == <<state, active_orders, finished_orders, pending_cancel,
          pending_modify, pending_out_messages, connected, phase, cursor,
          done_tokens, todo, book, misled>>

NotLoggedIn == "N"
LoggedIn == "L"

\* The field genuine is a ghost: FALSE for an order that operator[] created.
Boe_Order == [token : Tokens \cup {NoToken}, remaining_qty : Int,
              executed_qty : Int, genuine : BOOLEAN]
Boe_ModifyOrderReq == [token : Tokens, orig_token : Tokens, qty : Nat]

parse_order(t, qty) ==
    [token |-> t, remaining_qty |-> qty, executed_qty |-> 0, genuine |-> TRUE]
default_order(g) ==
    [token |-> g.token, remaining_qty |-> g.remaining_qty,
     executed_qty |-> g.executed_qty, genuine |-> FALSE]

\* Here and below, an operator named Bug... is a plausible mistake in the
\* definition that follows it; nothing uses it.
BugZeroStaysActive(o) == o.remaining_qty >= 0 /\ o.remaining_qty <= LimitQty
BugLastShareDead(o) == o.remaining_qty > 1 /\ o.remaining_qty <= LimitQty
still_active(o) == o.remaining_qty > 0 /\ o.remaining_qty <= LimitQty

Rest(qty, o) == IF o.executed_qty >= qty THEN 0 ELSE qty - o.executed_qty

BugModifyKeepsToken(o, mo) ==
    [o EXCEPT !.remaining_qty = Rest(mo.qty, o)]
modified(o, mo) ==
    [o EXCEPT !.token = mo.token, !.remaining_qty = Rest(mo.qty, o)]

last_shares(o, qty) == IF qty < o.remaining_qty THEN qty ELSE o.remaining_qty

BugFillUncapped(o, qty) ==
    [o EXCEPT !.remaining_qty = @ - qty, !.executed_qty = @ + qty]
filled(o, qty) ==
    [o EXCEPT !.remaining_qty = @ - last_shares(o, qty),
              !.executed_qty = @ + last_shares(o, qty)]

-----------------------------------------------------------------------------
(***************************************************************************)
(* Messages to the client, and what a client makes of them.  OrderModified *)
(* carries the new total and the leaves, whose difference is executed.     *)
(***************************************************************************)
Message ==
         [type : {"LoginResponse"}, status : {"Accepted", "SessionDisabled", "SessionInUse"}]
    \cup [type : {"ServerHeartbeat"}]
    \cup [type : {"OrderRejected", "OrderCanceled"}, token : Tokens \cup {NoToken}]
    \cup [type : {"CancelRejected", "ModifyRejected"}, token : Tokens \cup {NoToken},
          reason : {"TooLateToCancel", "ClordidDoesntMatchAKnownOrder", "UnforeseenReason"}]
    \cup [type : {"OrderAck"}, token : Tokens, leaves_qty : Nat]
    \cup [type : {"OrderModified"}, token : Tokens \cup {NoToken}, leaves_qty : Int, qty : Int]
    \cup [type : {"OrderExecution"}, token : Tokens \cup {NoToken}, last_shares : Int, leaves_qty : Int]

construct_login_response(s) == [type |-> "LoginResponse", status |-> s]
construct_heartbeat == [type |-> "ServerHeartbeat"]
construct_order_rejected(t) == [type |-> "OrderRejected", token |-> t]
construct_order_canceled(t) == [type |-> "OrderCanceled", token |-> t]
BugCancelRejectedBlank(t, r) == [type |-> "CancelRejected", token |-> NoToken, reason |-> r]
construct_cancel_rejected(t, r) == [type |-> "CancelRejected", token |-> t, reason |-> r]
construct_modify_rejected(t, r) == [type |-> "ModifyRejected", token |-> t, reason |-> r]
construct_order_accepted(o) ==
    [type |-> "OrderAck", token |-> o.token, leaves_qty |-> o.remaining_qty]
construct_order_modified(o) ==
    [type |-> "OrderModified", token |-> o.token, leaves_qty |-> o.remaining_qty,
     qty |-> o.remaining_qty + o.executed_qty]
BugExecutionReportsOldLeaves(o, qty) ==
    [type |-> "OrderExecution", token |-> o.token, last_shares |-> last_shares(o, qty),
     leaves_qty |-> o.remaining_qty]
construct_order_executed(o, qty) ==
    [type |-> "OrderExecution", token |-> o.token, last_shares |-> last_shares(o, qty),
     leaves_qty |-> filled(o, qty).remaining_qty]

client_view(b, m) ==
    IF m.type \notin {"OrderAck", "OrderCanceled", "OrderModified", "OrderExecution"}
       \/ m.token \notin Tokens
    THEN b
    ELSE [b EXCEPT ![m.token] =
            CASE m.type = "OrderAck" -> [leaves |-> m.leaves_qty, executed |-> 0]
              [] m.type = "OrderCanceled" -> [@ EXCEPT !.leaves = 0]
              [] m.type = "OrderModified" ->
                   [leaves |-> m.leaves_qty, executed |-> m.qty - m.leaves_qty]
              [] m.type = "OrderExecution" ->
                   [leaves |-> m.leaves_qty, executed |-> @.executed + m.last_shares]]

push(m) ==
    /\ pending_out_messages' = Append(pending_out_messages, m)
    /\ book' = client_view(book, m)
    /\ UNCHANGED misled

Nothing == [leaves |-> 0, executed |-> 0]

\* Message m is about order o and bears its token.  An order nobody entered
\* misleads the client about that name, until a message states afresh all
\* there is to know of an order with the name; what the client makes of it in
\* between is not followed.
push_about(o, m) ==
    /\ pending_out_messages' = Append(pending_out_messages, m)
    /\ book' = IF o.genuine THEN client_view(book, m)
               ELSE [t \in Tokens |-> IF t = m.token THEN Nothing ELSE book[t]]
    /\ misled' = IF ~o.genuine THEN misled \cup ({m.token} \cap Tokens)
                 ELSE IF m.type \in {"OrderAck", "OrderModified"} THEN misled \ {m.token}
                 ELSE misled

put(orders, t, o) == [k \in DOMAIN orders \cup {t} |-> IF k = t THEN o ELSE orders[k]]
erase(orders, ts) == Restrict(orders, DOMAIN orders \ ts)

BugMoveLeavesOldKey(orders, old, new, o) == put(orders, new, o)

\* The order is erased under its old key and stored under the new one.
move(orders, old, new, o) == put(erase(orders, {old}), new, o)

Init ==
    /\ state = NotLoggedIn
    /\ active_orders = [t \in {} |-> t] /\ finished_orders = {}
    /\ pending_cancel = <<>> /\ pending_modify = <<>>
    /\ pending_out_messages = <<>>
    /\ connected = FALSE
    /\ phase = "idle" /\ cursor = 1 /\ done_tokens = {} /\ todo = {}
    /\ misled = {}
    /\ book = [t \in Tokens |-> Nothing]

-----------------------------------------------------------------------------
(***************************************************************************)
(* TCPServer::accept and BOEServer::read.  Orders need no login.           *)
(***************************************************************************)
accept ==
    /\ phase = "idle" /\ ~connected
    /\ connected' = TRUE
    /\ UNCHANGED <<state, active_orders, finished_orders, queues, phase, cursor,
                   done_tokens, todo, out>>

Reading ==
    /\ connected
    /\ phase \in {"idle", "read"}
    /\ phase' = "read"
    /\ Len(pending_out_messages) < MaxOut
    /\ UNCHANGED <<connected, cursor, done_tokens, todo>>

handle_login_request ==
    /\ Reading
    /\ \E granted \in Grants :
         \/ /\ ~granted
            /\ push(construct_login_response("SessionDisabled"))
            /\ UNCHANGED state
         \/ /\ granted /\ state # NotLoggedIn
            /\ push(construct_login_response("SessionInUse"))
            /\ UNCHANGED state
         \/ /\ granted /\ state = NotLoggedIn
            /\ push(construct_login_response("Accepted"))
            /\ state' = LoggedIn
    /\ UNCHANGED <<active_orders, finished_orders, queues>>

enter_order(t, qty) ==
    /\ Reading
    /\ \/ /\ t \in DOMAIN active_orders \/ FALSE \in Grants
          /\ push(construct_order_rejected(t))
          /\ UNCHANGED active_orders
       \/ /\ t \notin DOMAIN active_orders /\ TRUE \in Grants
          /\ active_orders' = put(active_orders, t, parse_order(t, qty))
          /\ push_about(parse_order(t, qty), construct_order_accepted(parse_order(t, qty)))
    /\ UNCHANGED <<state, finished_orders, queues>>

MayQueue == Len(pending_cancel) + Len(pending_modify) < MaxPending

\* The second test reads active_orders[t], which creates the order when there
\* is none: the third test of the code, for an unknown order, never succeeds.
cancel_order(t) ==
    /\ Reading
    /\ \E g \in Garbage :
       LET known == t \in DOMAIN active_orders
           o == IF known THEN active_orders[t] ELSE default_order(g)
           too_late == o.remaining_qty <= 0 \/ t \in finished_orders
       IN  \/ /\ known /\ o.remaining_qty > 0
              /\ MayQueue
              /\ pending_cancel' = Append(pending_cancel, t)
              /\ UNCHANGED <<active_orders, out>>
           \/ /\ ~ (known /\ o.remaining_qty > 0)
              /\ active_orders' = put(active_orders, t, o)
              /\ \/ /\ too_late
                    /\ push(construct_cancel_rejected(t, "TooLateToCancel"))
                 \/ /\ ~too_late /\ FALSE \in Grants
                    /\ push(construct_cancel_rejected(t, "UnforeseenReason"))
                 \/ /\ ~too_late /\ TRUE \in Grants
                    /\ UNCHANGED out
              /\ UNCHANGED pending_cancel
    /\ UNCHANGED <<state, finished_orders, pending_modify>>

modify_order(orig, new, qty) ==
    LET known == orig \in DOMAIN active_orders \cup finished_orders
    IN  /\ Reading
        /\ \/ /\ ~known
              /\ push(construct_modify_rejected(orig, "ClordidDoesntMatchAKnownOrder"))
              /\ UNCHANGED pending_modify
           \/ /\ known /\ FALSE \in Grants
              /\ push(construct_modify_rejected(orig, "UnforeseenReason"))
              /\ UNCHANGED pending_modify
           \/ /\ known /\ TRUE \in Grants
              /\ MayQueue
              /\ pending_modify' = Append(pending_modify,
                                     [token |-> new, orig_token |-> orig, qty |-> qty])
              /\ UNCHANGED out
        /\ UNCHANGED <<state, active_orders, finished_orders, pending_cancel>>

handle_packet ==
    \/ handle_login_request
    \/ \E t \in Tokens, qty \in EnterQtys : enter_order(t, qty)
    \/ \E t \in Tokens : cancel_order(t)
    \/ \E t, u \in Tokens, qty \in ModifyQtys : modify_order(t, u, qty)

send ==
    /\ phase \in {"read", "send"}
    /\ phase' = "idle"
    /\ pending_out_messages' = <<>>
    /\ UNCHANGED <<state, active_orders, finished_orders, queues, connected,
                   cursor, done_tokens, todo, book, misled>>

-----------------------------------------------------------------------------
(***************************************************************************)
(* market_logic: heartbeat, cancel, modify and execution, then send.       *)
(***************************************************************************)
enter_loop(p) ==
    /\ phase' = p
    /\ cursor' = 1
    /\ done_tokens' = {}
    /\ UNCHANGED connected

market_logic ==
    /\ phase = "idle"
    /\ enter_loop("cancel")
    /\ \/ UNCHANGED out
       \/ state = LoggedIn /\ push(construct_heartbeat)
    /\ UNCHANGED <<state, active_orders, finished_orders, queues, todo>>

cancel_logic ==
    /\ phase = "cancel" /\ cursor <= Len(pending_cancel)
    /\ cursor' = cursor + 1
    /\ LET t == pending_cancel[cursor]
       IN  \/ /\ t \notin DOMAIN active_orders
              /\ push(construct_cancel_rejected(t, "TooLateToCancel"))
              /\ UNCHANGED done_tokens
           \/ /\ t \in DOMAIN active_orders /\ FALSE \in Grants
              /\ push(construct_cancel_rejected(t, "UnforeseenReason"))
              /\ UNCHANGED done_tokens
           \/ /\ t \in DOMAIN active_orders /\ TRUE \in Grants
              /\ push(construct_order_canceled(t))
              /\ done_tokens' = done_tokens \cup {t}
    /\ UNCHANGED <<state, active_orders, finished_orders, queues, connected, phase, todo>>

cancel_logic_ends ==
    /\ phase = "cancel" /\ cursor > Len(pending_cancel)
    /\ pending_cancel' = <<>>
    /\ active_orders' = erase(active_orders, done_tokens)
    /\ enter_loop("modify")
    /\ UNCHANGED <<state, finished_orders, pending_modify, todo, out>>

\* The order moves to its new token, where the map may hold another order,
\* which is lost.  A modify that keeps the token erases its own order: the
\* order that is acknowledged is then a new one with uninitialised fields.
\* done_tokens gets the token the order had before.
modify_logic ==
    /\ phase = "modify" /\ cursor <= Len(pending_modify)
    /\ cursor' = cursor + 1
    /\ LET mo == pending_modify[cursor]
           o == active_orders[mo.orig_token]
       IN  \/ /\ mo.orig_token \notin DOMAIN active_orders
              /\ UNCHANGED <<active_orders, done_tokens, out>>
           \/ /\ mo.orig_token \in DOMAIN active_orders
              /\ done_tokens' = IF o.executed_qty >= mo.qty THEN done_tokens \cup {o.token}
                                ELSE done_tokens
              /\ \E g \in Garbage :
                 LET moved == IF mo.token = mo.orig_token THEN default_order(g)
                              ELSE modified(o, mo)
                 IN  /\ active_orders' = move(active_orders, mo.orig_token, mo.token, moved)
                     /\ push_about(moved, construct_order_modified(moved))
    /\ UNCHANGED <<state, finished_orders, queues, connected, phase, todo>>

BugVisitsErasedOrders ==
    /\ phase = "modify" /\ cursor > Len(pending_modify)
    /\ active_orders' = erase(active_orders, done_tokens)
    /\ enter_loop("execution")
    /\ todo' = DOMAIN active_orders
    /\ UNCHANGED <<state, finished_orders, queues, out>>

\* pending_modify is not cleared: every tick applies every modify again.
modify_logic_ends ==
    /\ phase = "modify" /\ cursor > Len(pending_modify)
    /\ active_orders' = erase(active_orders, done_tokens)
    /\ enter_loop("execution")
    /\ todo' = DOMAIN active_orders'
    /\ UNCHANGED <<state, finished_orders, queues, out>>

\* One iteration over active_orders, whose iteration order is unspecified.
execution_logic(t) ==
    LET o == active_orders[t]
    IN  /\ phase = "execution" /\ t \in todo
        /\ todo' = todo \ {t}
        /\ \/ /\ FALSE \in Grants
              /\ UNCHANGED <<active_orders, finished_orders, done_tokens, out>>
           \/ /\ TRUE \in Grants /\ still_active(o)
              /\ \E qty \in ExecutionQtys :
                   IF qty = 0 THEN UNCHANGED <<active_orders, out>>
                   ELSE /\ active_orders' = [active_orders EXCEPT ![t] = filled(@, qty)]
                        /\ push_about(o, construct_order_executed(o, qty))
              /\ UNCHANGED <<finished_orders, done_tokens>>
           \/ /\ TRUE \in Grants /\ ~ still_active(o)
              /\ finished_orders' = finished_orders \cup {t}
              /\ done_tokens' = done_tokens \cup {t}
              /\ UNCHANGED <<active_orders, out>>
        /\ UNCHANGED <<state, queues, connected, phase, cursor>>

execution_logic_ends ==
    /\ phase = "execution" /\ todo = {}
    /\ active_orders' = erase(active_orders, done_tokens)
    /\ enter_loop("send")
    /\ UNCHANGED <<state, finished_orders, queues, todo, out>>

-----------------------------------------------------------------------------
(***************************************************************************)
(* The administrator's cancel_all, and the end of a connection.  As in     *)
(* OuchSession, done_tokens holds the orders the loop has passed.          *)
(***************************************************************************)
cancel_all ==
    /\ phase = "idle"
    /\ enter_loop("cancel_all")
    /\ todo' = DOMAIN active_orders
    /\ UNCHANGED <<state, active_orders, finished_orders, queues, out>>

BugCancelAllSilent(t) ==
    /\ phase = "cancel_all" /\ t \in todo
    /\ todo' = todo \ {t}
    /\ done_tokens' = done_tokens \cup {t}
    /\ UNCHANGED <<state, active_orders, finished_orders, queues, connected, phase, cursor, out>>

cancel_all_order(t) ==
    /\ phase = "cancel_all" /\ t \in todo
    /\ todo' = todo \ {t}
    /\ done_tokens' = done_tokens \cup {t}
    /\ IF still_active(active_orders[t])
       THEN push_about(active_orders[t], construct_order_canceled(active_orders[t].token))
       ELSE UNCHANGED out
    /\ UNCHANGED <<state, active_orders, finished_orders, queues, connected, phase, cursor>>

cancel_all_ends ==
    /\ phase = "cancel_all" /\ todo = {}
    /\ active_orders' = erase(active_orders, DOMAIN active_orders)
    /\ enter_loop("idle")
    /\ UNCHANGED <<state, finished_orders, queues, todo, out>>

\* TCPServer::reconnect cancels the timer and resets the session state.
disconnect ==
    /\ phase = "idle" /\ connected
    /\ connected' = FALSE
    /\ state' = NotLoggedIn
    /\ UNCHANGED <<active_orders, finished_orders, queues, phase, cursor,
                   done_tokens, todo, out>>

HandlerStep ==
    \/ cancel_logic \/ cancel_logic_ends
    \/ modify_logic \/ modify_logic_ends
    \/ \E t \in Tokens : execution_logic(t)
    \/ execution_logic_ends
    \/ \E t \in Tokens : cancel_all_order(t)
    \/ cancel_all_ends
    \/ send

Next == accept \/ handle_packet \/ market_logic \/ HandlerStep \/ cancel_all \/ disconnect

\* As in OuchSession: a handler that started runs to its end, and while a
\* client stays the timer keeps coming.
Fairness == WF_vars(HandlerStep) /\ (<>[]connected => SF_vars(market_logic))

Spec == Init /\ [][Next]_vars /\ Fairness

-----------------------------------------------------------------------------
(***************************************************************************)
(* Properties.                                                             *)
(***************************************************************************)
Genuine == {t \in DOMAIN active_orders : active_orders[t].genuine}

\* Type correctness, and what the loops rely on: no loop leaves its marks
\* behind, and none visits an order it has marked as done.
TypeOK ==
    /\ state \in {NotLoggedIn, LoggedIn}
    /\ DOMAIN active_orders \subseteq Tokens
    /\ active_orders \in [DOMAIN active_orders -> Boe_Order]
    /\ finished_orders \subseteq Tokens
    /\ pending_cancel \in Seq(Tokens)
    /\ pending_modify \in Seq(Boe_ModifyOrderReq)
    /\ pending_out_messages \in Seq(Message)
    /\ phase \in {"idle", "read", "cancel", "modify", "execution", "send", "cancel_all"}
    /\ cursor \in Nat \ {0}
    /\ done_tokens \subseteq Tokens \cup {NoToken}
    /\ phase \in {"idle", "read", "send"} => done_tokens = {}
    /\ todo \subseteq DOMAIN active_orders
    /\ todo \cap done_tokens = {}
    /\ phase \notin {"execution", "cancel_all"} => todo = {}
    /\ phase = "cancel_all" => DOMAIN active_orders \subseteq todo \cup done_tokens
    /\ connected \in BOOLEAN
    /\ state = LoggedIn \/ phase = "read" => connected
    /\ misled \subseteq Tokens
    /\ book \in [Tokens -> [leaves : Int, executed : Int]]

\* The token of an order that operator[] created: left over in memory.
Residual == {g.token : g \in Garbage} \cap Tokens

\* An order a client entered is in the map under the token it carries, after
\* any chain of modifies that renames it and reuses the names.  Only an order
\* nobody entered may carry another name, one left over in memory.
KeyIsToken ==
    \A t \in DOMAIN active_orders :
        \/ active_orders[t].token = t
        \/ t \notin Genuine /\ active_orders[t].token \in Residual \cup {NoToken}

\* Its quantities are never negative.
QtySound ==
    \A t \in Genuine :
        active_orders[t].remaining_qty >= 0 /\ active_orders[t].executed_qty >= 0

\* A client that applies the messages in order agrees with the market about
\* the leaves and the executed shares of every order it entered, also when
\* orders are renamed onto each other, except for an order whose end it has
\* just been told, and which is still in the map until its loop ends, and
\* except for a name it was told wrong things about, because an order nobody
\* entered bore it.
ClientAgrees ==
    \A t \in Genuine \ misled :
        /\ book[t].executed = active_orders[t].executed_qty
        /\ \/ book[t].leaves = active_orders[t].remaining_qty
           \/ /\ phase \in {"cancel", "cancel_all"} /\ t \in done_tokens
              /\ book[t].leaves = 0

\* The inductive invariant: the four together.
IInv == TypeOK /\ KeyIsToken /\ QtySound /\ ClientAgrees

\* Every queued cancel leaves the queue while the client stays, and when the
\* queue is emptied, each of its cancels has had an answer of its own.
answers(t) ==
    SelectSeq(pending_out_messages,
              LAMBDA m : m.type \in {"OrderCanceled", "CancelRejected"} /\ m.token = t)
CancelsAnswered ==
    /\ pending_cancel # <<>> ~> pending_cancel = <<>> \/ ~connected
    /\ [][ pending_cancel # <<>> /\ pending_cancel' = <<>> =>
             \A t \in Tokens :
                 Len(answers(t)) >= Len(SelectSeq(pending_cancel, LAMBDA c : c = t)) ]_vars

\* Under the default behaviour, while a client stays, a token stays active for
\* ever only when a modify, which is applied at every tick, keeps putting an
\* order under it.
OrdersLeave ==
    \A t \in Tokens :
        t \in DOMAIN active_orders ~>
            \/ t \notin DOMAIN active_orders
            \/ \E i \in DOMAIN pending_modify : pending_modify[i].token = t
            \/ ~connected

-----------------------------------------------------------------------------
(***************************************************************************)
(* The session implements OrderLifecycle.                                  *)
(***************************************************************************)
\* What the client asked for: every modify gives its order a token.
Requests ==
    {[kind |-> "rename", no |-> i,
      from |-> pending_modify[i].orig_token, to |-> pending_modify[i].token] :
         i \in DOMAIN pending_modify}

Lifecycle == INSTANCE OrderLifecycle WITH
    orders <- [t \in Genuine |-> [open |-> active_orders[t].remaining_qty,
                                  executed |-> active_orders[t].executed_qty]],
    ledger <- [t \in Tokens |-> [open |-> book[t].leaves, executed |-> book[t].executed]],
    requests <- Requests,
    ending <- done_tokens \cap Tokens,
    unfit  <- {t \in Genuine : active_orders[t].remaining_qty > LimitQty},
    strays <- DOMAIN active_orders \ Genuine

\* Whatever a handler does to the book of orders and tells the client about it
\* is one step of OrderLifecycle: an order the client believes open is lost
\* only in one of the ways that are listed there.
ImplementsLifecycle == Lifecycle!Spec

-----------------------------------------------------------------------------
\* "change the key in the map" (modify_logic): the order whose modification is
\* acknowledged is in the map under its new token.
ModifiedIsActive ==
    [][ phase = "modify" /\ cursor' = cursor + 1 =>
          LET mo == pending_modify[cursor]
          IN  mo.orig_token \in Genuine =>
                mo.token \in DOMAIN active_orders' /\ active_orders'[mo.token].genuine ]_vars
=============================================================================
