------------------------- MODULE OuchLifecycleProofs -------------------------
(***************************************************************************)
(* OuchSession implements OrderLifecycle: the initial state of the session *)
(* is one of the abstract specification, and each step of the session is   *)
(* one of its steps or changes nothing it can see.                         *)
(***************************************************************************)
EXTENDS OuchSessionProofs

-----------------------------------------------------------------------------
(* The abstract state, as Lifecycle's refinement mapping defines it. *)

Shares(t) == [open |-> active_orders[t].remaining_qty,
              executed |-> active_orders[t].executed_qty]
Late == {t \in Genuine : \E s \in 0 .. now : expired(active_orders[t], s)}
Strays == DOMAIN active_orders \ Genuine

AbstractStep == Lifecycle!Next \/ UNCHANGED Lifecycle!lifecycle_vars

(* Each action of the abstract specification is a step of it.              *)
LEMMA Steps ==
    /\ \A t \in Tokens :
          (\/ Lifecycle!Enter(t) \/ Lifecycle!Fill(t) \/ Lifecycle!Trim(t) \/ Lifecycle!Restate(t)
           \/ Lifecycle!AnnounceEnd(t) \/ Lifecycle!Retire(t) \/ Lifecycle!Mislay(t))
          => AbstractStep
    /\ \A t, u \in Tokens :
          Lifecycle!Rename(t, u) \/ Lifecycle!Supplant(t, u) \/ Lifecycle!Stray(t, u)
          => AbstractStep
    /\ \A t, u, s \in Tokens : Lifecycle!StrayMoves(t, u, s) => AbstractStep
    /\ Lifecycle!Ask \/ Lifecycle!Drop \/ Lifecycle!Lapse => AbstractStep
  BY DEF AbstractStep, Lifecycle!Next

(* The deadline of an order depends on no other fields than these two.     *)
LEMMA SameDeadline ==
    ASSUME NEW o, NEW p, p.time_in_force = o.time_in_force, p.recv_order_time = o.recv_order_time,
           NEW s
    PROVE  expired(p, s) = expired(o, s)
  BY DEF expired, remain_time_in_force

(* Orders that keep their deadlines only become late.                      *)
LEMMA LateGrows ==
    ASSUME TypeOK, TypeOK', now' >= now, NEW k \in Genuine, k \in Genuine',
           active_orders'[k].time_in_force = active_orders[k].time_in_force,
           active_orders'[k].recv_order_time = active_orders[k].recv_order_time
    PROVE  /\ k \in Late => k \in Late'
           /\ now' = now => (k \in Late <=> k \in Late')
<1>1. \A s : expired(active_orders'[k], s) = expired(active_orders[k], s)
  BY SameDeadline
<1>2. now \in Nat /\ now' \in Nat /\ 0 .. now \subseteq 0 .. now'
  BY DEF TypeOK
<1>3. (\E s \in 0 .. now : expired(active_orders[k], s))
        => \E s \in 0 .. now' : expired(active_orders'[k], s)
  BY <1>1, <1>2
<1>4. now' = now => ((\E s \in 0 .. now : expired(active_orders[k], s))
                      <=> \E s \in 0 .. now' : expired(active_orders'[k], s))
  BY <1>1
<1> QED
  BY <1>3, <1>4 DEF Late

(* The requests of the client are those of two of the queues.              *)
LEMMA SameRequests ==
    ASSUME UNCHANGED <<pending_modify, pending_replace>>
    PROVE  UNCHANGED Requests
  BY DEF Requests

LEMMA RequestsType == ASSUME TypeOK' PROVE Requests' \subseteq Lifecycle!Request
<1>0. /\ pending_modify' \in Seq(Ouch_ModifyOrderReq)
      /\ pending_replace' \in Seq(Ouch_ReplaceOrderReq)
  BY DEF TypeOK
<1>1. \A i \in DOMAIN pending_modify' : i \in Nat /\ pending_modify'[i].token \in Tokens
  <2>1. \A i \in DOMAIN pending_modify' : i \in Nat /\ pending_modify'[i] \in Ouch_ModifyOrderReq
    BY <1>0
  <2> QED
    BY <2>1 DEF Ouch_ModifyOrderReq
<1>2. \A i \in DOMAIN pending_replace' :
         /\ i \in Nat
         /\ pending_replace'[i].existing_token \in Tokens /\ pending_replace'[i].new_token \in Tokens
  <2>1. \A i \in DOMAIN pending_replace' : i \in Nat /\ pending_replace'[i] \in Ouch_ReplaceOrderReq
    BY <1>0
  <2> QED
    BY <2>1 DEF Ouch_ReplaceOrderReq
<1> QED
  BY <1>1, <1>2 DEF Requests, Lifecycle!Request

(* A step of the session that changes neither the orders nor what the      *)
(* client knows and asks for is at most a step of the clock.               *)
LEMMA Stutters ==
    ASSUME UNCHANGED <<active_orders, book, done_tokens, now, Requests>>
    PROVE  AbstractStep
  BY DEF AbstractStep, Lifecycle!lifecycle_vars, Genuine

(* The clock alone only makes orders late.                                 *)
LEMMA Lapses ==
    ASSUME TypeOK, TypeOK', UNCHANGED <<active_orders, book, done_tokens, Requests>>, now' >= now
    PROVE  AbstractStep
<1>1. Genuine' = Genuine
  BY DEF Genuine
<1>2. Late \subseteq Late' /\ Late' \subseteq Genuine'
  BY <1>1, LateGrows DEF Late
<1>3. Lifecycle!TimePasses
  BY <1>2 DEF Lifecycle!TimePasses, Late
<1>4. Lifecycle!Lapse
  BY <1>1, <1>3 DEF Lifecycle!Lapse
<1> QED
  BY <1>4, Steps

(* An order nobody entered, under the token t, comes to be, changes or is   *)
(* marked, and nothing else happens.                                       *)
Strayed(t) ==
    /\ now' >= now /\ UNCHANGED Requests
    /\ t \notin Genuine /\ t \notin Genuine' /\ t \in DOMAIN active_orders'
    /\ \A k \in Tokens \ {t} :
          /\ k \in DOMAIN active_orders' <=> k \in DOMAIN active_orders
          /\ k \in DOMAIN active_orders => active_orders'[k] = active_orders[k]
          /\ book'[k] = book[k]
    /\ done_tokens' \in {done_tokens, done_tokens \cup {t}}

(* That is a step of the abstract specification.                           *)
LEMMA StrayStep ==
    ASSUME TypeOK, TypeOK', NEW t \in Tokens, Strayed(t)
    PROVE  AbstractStep
<1> USE DEF Strayed
<1>1. DOMAIN active_orders \subseteq Tokens /\ DOMAIN active_orders' \subseteq Tokens
  BY DEF TypeOK
<1>2. Genuine' = Genuine
  BY <1>1 DEF Genuine
<1>3. \A k \in Genuine : Shares(k)' = Shares(k) /\ active_orders'[k] = active_orders[k]
  BY <1>1, <1>2 DEF Shares, Genuine
<1>4. [k \in Genuine |-> Shares(k)]' = [k \in Genuine |-> Shares(k)]
  BY <1>2, <1>3
<1>5. Strays' = Strays \cup {t}
  BY <1>1, <1>2 DEF Strays, Genuine
<1>6. Late \cap Genuine' \subseteq Late' /\ Late' \subseteq Genuine'
  BY <1>2, <1>3, LateGrows DEF Late
<1>7. Lifecycle!Told({t}) /\ Lifecycle!Misled({t})
  BY DEF Lifecycle!Told, Lifecycle!Misled
<1>8. Lifecycle!TimePasses
  BY <1>6 DEF Lifecycle!TimePasses, Late
<1>9. Lifecycle!Stray(t, t)
  BY <1>4, <1>5, <1>7, <1>8 DEF Lifecycle!Stray, Shares, Strays
<1> QED
  BY <1>9, Steps

-----------------------------------------------------------------------------
(* Steps that several handlers make. *)

(* An order is marked as done and its end is announced.                    *)
LEMMA CloseRefines ==
    ASSUME IInv, IInv', now' = now, NEW t \in Tokens,
           DOMAIN active_orders' = DOMAIN active_orders \cup {t},
           \A k \in DOMAIN active_orders : active_orders'[k] = active_orders[k],
           t \notin DOMAIN active_orders => ~ active_orders'[t].genuine,
           \A k \in Tokens \ {t} : book'[k] = book[k],
           book'[t].executed = book[t].executed,
           active_orders'[t].genuine => book'[t].open = 0,
           done_tokens' = done_tokens \cup {t}, UNCHANGED Requests
    PROVE  AbstractStep
<1>1. TypeOK /\ TypeOK' /\ now \in Nat
  BY DEF IInv, TypeOK
<1>2. Genuine' = Genuine
  BY DEF Genuine
<1>3. CASE t \in Genuine
  <2>1. book' = [book EXCEPT ![t].open = 0]
    BY <1>1, <1>3 DEF TypeOK, Genuine
  <2>2. \A k \in Genuine : active_orders'[k] = active_orders[k] /\ Shares(k)' = Shares(k)
    BY DEF Genuine, Shares
  <2>3. [k \in Genuine |-> Shares(k)]' = [k \in Genuine |-> Shares(k)]
    BY <1>2, <2>2
  <2>4. Late' = Late
    BY <1>1, <1>2, <2>2, LateGrows DEF Late
  <2>5. Strays' = Strays
    BY <1>2, <1>3 DEF Strays, Genuine
  <2>6. Lifecycle!AnnounceEnd(t)
    BY <1>3, <2>1, <2>3, <2>4, <2>5 DEF Lifecycle!AnnounceEnd, Shares, Late, Strays
  <2> QED
    BY <2>6, Steps
<1>4. CASE t \notin Genuine
  <2>1. Strayed(t)
    BY <1>1, <1>2, <1>4 DEF Strayed
  <2> QED
    BY <1>1, <2>1, StrayStep
<1> QED
  BY <1>3, <1>4

(* A loop that comes to an order which is closed, or out of time, marks it *)
(* without a word; execution_logic also sets its state.                    *)
LEMMA RetireRefines ==
    ASSUME IInv, IInv', now' >= now, NEW t \in DOMAIN active_orders,
           active_orders[t].genuine => active_orders[t].state = "Live",
           ~ still_active(active_orders[t], now'),
           \/ UNCHANGED active_orders
           \/ active_orders' = [active_orders EXCEPT ![t].state = "Dead"],
           UNCHANGED <<book, Requests>>, done_tokens' = done_tokens \cup {t}
    PROVE  AbstractStep
<1> DEFINE o == active_orders[t]
<1>1. TypeOK /\ TypeOK' /\ now \in Nat /\ now' \in Nat
  BY DEF IInv, TypeOK
<1>2. t \in Tokens /\ o \in Ouch_Order
  BY <1>1 DEF TypeOK
<1>3. /\ DOMAIN active_orders' = DOMAIN active_orders
      /\ \A k \in DOMAIN active_orders \ {t} : active_orders'[k] = active_orders[k]
      /\ active_orders'[t].remaining_qty = o.remaining_qty
      /\ active_orders'[t].executed_qty = o.executed_qty
      /\ active_orders'[t].genuine = o.genuine
      /\ active_orders'[t].time_in_force = o.time_in_force
      /\ active_orders'[t].recv_order_time = o.recv_order_time
  <2>1. CASE UNCHANGED active_orders
    BY <2>1
  <2>2. CASE active_orders' = [active_orders EXCEPT ![t].state = "Dead"]
    <3>1. active_orders'[t] = [o EXCEPT !.state = "Dead"]
      BY <2>2
    <3>2. /\ DOMAIN active_orders' = DOMAIN active_orders
          /\ \A k \in DOMAIN active_orders \ {t} : active_orders'[k] = active_orders[k]
      BY <2>2
    <3> QED
      BY <1>2, <3>1, <3>2 DEF Ouch_Order
  <2> QED
    BY <2>1, <2>2
<1>4. Genuine' = Genuine /\ Strays' = Strays
  BY <1>3 DEF Genuine, Strays
<1>5. CASE o.genuine
  <2>1. t \in Genuine
    BY <1>5 DEF Genuine
  <2>2. \A k \in Genuine : Shares(k)' = Shares(k)
    BY <1>3 DEF Shares, Genuine
  <2>3. [k \in Genuine |-> Shares(k)]' = [k \in Genuine |-> Shares(k)]
    BY <1>4, <2>2
  <2>4. Late \subseteq Late' /\ Late' \subseteq Genuine'
    <3>1. \A k \in Genuine :
            /\ active_orders'[k].time_in_force = active_orders[k].time_in_force
            /\ active_orders'[k].recv_order_time = active_orders[k].recv_order_time
      BY <1>3 DEF Genuine
    <3> QED
      BY <1>1, <1>4, <3>1, LateGrows DEF Late
  <2>5. book[t].open = 0 \/ t \in Late'
    <3>1. CASE expired(o, now')
      <4>1. expired(active_orders'[t], now')
        BY <1>3, <3>1, SameDeadline
      <4>2. now' \in 0 .. now'
        BY <1>1
      <4> QED
        BY <1>4, <2>1, <4>1, <4>2 DEF Late
    <3>2. CASE o.remaining_qty <= 0
      BY <1>2, <1>5, <3>2 DEF IInv, QtySound, ClientAgrees, Ouch_Order
    <3> QED
      BY <1>5, <3>1, <3>2 DEF still_active
  <2>6. Lifecycle!TimePasses
    BY <2>4 DEF Lifecycle!TimePasses, Late
  <2>7. Lifecycle!Retire(t)
    BY <1>4, <2>1, <2>3, <2>5, <2>6 DEF Lifecycle!Retire, Shares, Late, Strays
  <2> QED
    BY <1>2, <2>7, Steps
<1>6. CASE ~ o.genuine
  <2>1. t \notin Genuine
    BY <1>6 DEF Genuine
  <2>2. Strayed(t)
    BY <1>1, <1>2, <1>3, <1>4, <2>1 DEF Strayed
  <2> QED
    BY <1>1, <1>2, <2>2, StrayStep
<1> QED
  BY <1>5, <1>6

(* A loop ends by dropping what it has marked, and nothing else.           *)
LEMMA DropRefines ==
    ASSUME IInv, IInv', UNCHANGED <<book, now>>, done_tokens' = {}, Requests' \subseteq Requests,
           DOMAIN active_orders' = DOMAIN active_orders \ done_tokens,
           \A k \in DOMAIN active_orders' : active_orders'[k] = active_orders[k]
    PROVE  AbstractStep
<1>1. TypeOK /\ TypeOK' /\ now \in Nat
  BY DEF IInv, TypeOK
<1>2. Genuine' = Genuine \ done_tokens /\ Strays' = Strays \ done_tokens
  BY DEF Genuine, Strays
<1>3. \A k \in Genuine' : Shares(k)' = Shares(k) /\ active_orders'[k] = active_orders[k]
  BY DEF Shares, Genuine
<1>4. [k \in Genuine |-> Shares(k)]' = Lifecycle!Without([k \in Genuine |-> Shares(k)], done_tokens)
  BY <1>2, <1>3 DEF Lifecycle!Without, Lifecycle!Restrict
<1>5. Late' = Late \ done_tokens
  BY <1>1, <1>2, <1>3, LateGrows DEF Late
<1>6. Lifecycle!Drop
  BY <1>2, <1>4, <1>5 DEF Lifecycle!Drop, Shares, Strays, Late
<1> QED
  BY <1>6, Steps
-----------------------------------------------------------------------------
(* The handlers of packets, and send. *)

(* The steps that only concern the session, the queues or the clock.       *)
LEMMA QuietRefines ==
    ASSUME IInv, IInv',
           \/ handle_login_request \/ handle_logout_request
           \/ \E t \in Tokens, qty \in Nat : reject_order(t, qty) \/ cancel_order(t, qty)
           \/ accept \/ send \/ market_logic \/ cancel_all \/ disconnect \/ Tick
    PROVE  AbstractStep
<1>1. UNCHANGED <<active_orders, done_tokens>> /\ now' >= now
  <2>1. now \in Nat /\ (phase \in {"idle", "read", "send"} => done_tokens = {})
    BY DEF IInv, TypeOK
  <2>2. CASE send \/ handle_logout_request
    BY <2>1, <2>2 DEF send, handle_logout_request, Reading
  <2>7. CASE accept \/ disconnect
    BY <2>1, <2>7 DEF accept, disconnect
  <2>8. CASE market_logic
    BY <2>1, <2>8 DEF market_logic, enter_loop
  <2>3. CASE handle_login_request
    BY <2>1, <2>3 DEF handle_login_request, Reading
  <2>4. CASE cancel_all \/ Tick
    BY <2>1, <2>4 DEF cancel_all, enter_loop, Tick
  <2>5. CASE \E t \in Tokens, qty \in Nat : reject_order(t, qty)
    BY <2>1, <2>5 DEF reject_order, Reading
  <2>6. CASE \E t \in Tokens, qty \in Nat : cancel_order(t, qty)
    BY <2>1, <2>6 DEF cancel_order, Reading
  <2> QED
    BY <2>2, <2>3, <2>4, <2>5, <2>6, <2>7, <2>8
<1>2. UNCHANGED book
  <2>1. CASE handle_login_request
    <3>1. \E m \in Message : push(m) /\ m.type \in {"LoginAccepted", "LoginRejected"}
      BY <2>1 DEF handle_login_request, Message, construct_login_accepted, construct_login_rejected
    <3> QED
      BY <3>1, PushType, SessionMessages DEF IInv
  <2>2. CASE \E t \in Tokens, qty \in Nat : reject_order(t, qty)
    <3>1. \A t \in Tokens, r \in {"ExceededConfiguredSafety", "Other"} :
             /\ construct_order_rejected(r, t) \in Message
             /\ construct_order_rejected(r, t).type = "OrderRejected"
      BY DEF Message, construct_order_rejected
    <3>2. \E m \in Message : push(m) /\ m.type = "OrderRejected"
      BY <2>2, <3>1 DEF reject_order
    <3> QED
      BY <3>2, PushType, SessionMessages DEF IInv
  <2>3. CASE market_logic
    <3>1. construct_heartbeat \in Message /\ construct_heartbeat.type = "ServerHeartbeat"
      BY DEF construct_heartbeat, Message
    <3> QED
      BY <2>3, <3>1, PushType, SessionMessages DEF IInv, market_logic, out
  <2>4. CASE \/ handle_logout_request \/ accept \/ send \/ cancel_all \/ disconnect \/ Tick
             \/ \E t \in Tokens, qty \in Nat : cancel_order(t, qty)
    BY <2>4 DEF handle_logout_request, accept, send, cancel_all, disconnect, Tick, cancel_order, out
  <2> QED
    BY <2>1, <2>2, <2>3, <2>4
<1>3. UNCHANGED <<pending_modify, pending_replace>>
  BY DEF handle_login_request, handle_logout_request, reject_order, cancel_order, accept, send,
         market_logic, cancel_all, disconnect, Tick, queues
<1> QED
  BY <1>1, <1>2, <1>3, SameRequests, Lapses DEF IInv

(* The client asks for a modify or a replace.                              *)
LEMMA AskRefines ==
    ASSUME IInv, IInv',
           \/ \E t \in Tokens, qty \in Nat, side \in AnySide : modify_order(t, qty, side)
           \/ \E t, u \in Tokens, qty \in Nat, tif \in Nat : replace_order(t, u, qty, tif)
    PROVE  AbstractStep
<1>1. UNCHANGED <<active_orders, book, done_tokens, now>>
  BY DEF modify_order, replace_order, Reading, out
<1>2. /\ \A i \in DOMAIN pending_modify :
            i \in DOMAIN pending_modify' /\ pending_modify'[i] = pending_modify[i]
      /\ \A i \in DOMAIN pending_replace :
            i \in DOMAIN pending_replace' /\ pending_replace'[i] = pending_replace[i]
  <2>1. pending_modify \in Seq(Ouch_ModifyOrderReq) /\ pending_replace \in Seq(Ouch_ReplaceOrderReq)
    BY DEF IInv, TypeOK
  <2>2. \/ UNCHANGED pending_modify
        \/ \E r : pending_modify' = Append(pending_modify, r)
    BY DEF modify_order, replace_order
  <2>3. \/ UNCHANGED pending_replace
        \/ \E r : pending_replace' = Append(pending_replace, r)
    BY DEF modify_order, replace_order
  <2>4. \A i \in DOMAIN pending_modify :
           i \in DOMAIN pending_modify' /\ pending_modify'[i] = pending_modify[i]
    BY <2>1, <2>2
  <2>5. \A i \in DOMAIN pending_replace :
           i \in DOMAIN pending_replace' /\ pending_replace'[i] = pending_replace[i]
    BY <2>1, <2>3
  <2> QED
    BY <2>4, <2>5
<1>3. Requests \subseteq Requests'
  BY <1>2 DEF Requests
<1>4. UNCHANGED <<Genuine, Strays, Late>>
  BY <1>1 DEF Genuine, Strays, Late
<1>5. Lifecycle!Ask
  BY <1>1, <1>3, <1>4, RequestsType DEF Lifecycle!Ask, IInv, Genuine
<1> QED
  BY <1>5, Steps

(* An order is accepted.                                                   *)
LEMMA AcceptRefines ==
    ASSUME IInv, IInv', NEW t \in Tokens, NEW qty, NEW tif \in Tifs, NEW min_qty \in MinQtys,
           NEW side \in EnterSides, accept_order(t, qty, tif, min_qty, side)
    PROVE  AbstractStep
<1>1. TypeOK /\ TypeOK' /\ now \in Nat /\ now' = now /\ UNCHANGED <<done_tokens, Requests>>
  BY SameRequests DEF IInv, TypeOK, accept_order, Reading, queues
<1>2. qty \in 1 .. MAX_QTY /\ t \notin DOMAIN active_orders
  BY DEF accept_order, validate_enter_order
<1>3. /\ DOMAIN active_orders' = DOMAIN active_orders \cup {t}
      /\ active_orders'[t].genuine
      /\ active_orders'[t].remaining_qty = qty /\ active_orders'[t].executed_qty = 0
      /\ \A k \in DOMAIN active_orders \ {t} : active_orders'[k] = active_orders[k]
      /\ book'[t] = [open |-> qty, executed |-> 0]
      /\ \A k \in Tokens \ {t} : book'[k] = book[k]
  BY <1>1, <1>2, AcceptFacts DEF accept_order
<1>4. t \notin Genuine /\ Genuine' = Genuine \cup {t} /\ Strays' = Strays
  BY <1>2, <1>3 DEF Genuine, Strays
<1>5. \A k \in Genuine : Shares(k)' = Shares(k) /\ active_orders'[k] = active_orders[k]
  BY <1>2, <1>3 DEF Shares, Genuine
<1>6. Shares(t)' = book'[t]
  BY <1>3 DEF Shares
<1>7. [k \in Genuine |-> Shares(k)]' = Lifecycle!With([k \in Genuine |-> Shares(k)], t, book'[t])
  BY <1>4, <1>5, <1>6 DEF Lifecycle!With
<1>8. Lifecycle!Told({t})
  BY <1>3 DEF Lifecycle!Told
<1>9. \A k \in Genuine : k \in Late <=> k \in Late'
  BY <1>1, <1>4, <1>5, LateGrows
<1>10. Lifecycle!Resized(t)
  BY <1>4, <1>9 DEF Lifecycle!Resized, Late
<1>11. book'[t].open >= 0 /\ book'[t].executed = 0
  BY <1>2, <1>3, QtyNat
<1>12. Lifecycle!Enter(t)
  BY <1>1, <1>2, <1>4, <1>7, <1>8, <1>10, <1>11 DEF Lifecycle!Enter, Shares, Strays, Genuine
<1> QED
  BY <1>12, Steps

-----------------------------------------------------------------------------
(* The loops of market_logic and cancel_all. *)

(* An iteration of cancel_logic announces an end, trims the order, or      *)
(* does nothing.                                                           *)
LEMMA CancelRefines == ASSUME IInv, IInv', cancel_logic PROVE AbstractStep
<1> DEFINE co == pending_cancel[cursor]
<1>1. TypeOK /\ TypeOK' /\ now \in Nat /\ now' = now /\ UNCHANGED Requests
  BY SameRequests DEF IInv, TypeOK, cancel_logic, queues
<1>2. PICK t \in Tokens, qty \in 0 .. MAX_QTY : t = co.token /\ qty = co.qty
  <2>1. co \in Ouch_CancelOrderReq
    BY DEF IInv, TypeOK, cancel_logic
  <2> QED
    BY <2>1 DEF Ouch_CancelOrderReq
<1> DEFINE o == active_orders[t]
<1>3. CASE /\ push(construct_cancel_rejected(t))
           /\ UNCHANGED <<active_orders, done_tokens>>
  <2>1. construct_cancel_rejected(t) \in Message /\ construct_cancel_rejected(t).type = "CancelReject"
    BY <1>2 DEF construct_cancel_rejected, Message
  <2>2. UNCHANGED book
    BY <1>1, <1>3, <2>1, PushType, SessionMessages
  <2> QED
    BY <1>1, <1>3, <2>2, Stutters
<1>4. CASE UNCHANGED <<active_orders, done_tokens, out>>
  BY <1>1, <1>4, Stutters DEF out
<1>5. CASE /\ t \in DOMAIN active_orders
           /\ done_tokens' = done_tokens \cup {t}
           /\ push(construct_order_canceled(U32(o.remaining_qty), "UserRequested", t))
           /\ UNCHANGED active_orders
  <2>1. /\ \A k \in Tokens \ {t} : book'[k] = book[k]
        /\ book'[t].executed = book[t].executed
        /\ o.genuine => book'[t].open = 0
    BY <1>5, ClosedEffect
  <2> QED
    BY <1>1, <1>2, <1>5, <2>1, CloseRefines
<1>6. CASE /\ t \in DOMAIN active_orders
           /\ qty > 0 /\ qty < U32(o.remaining_qty)
           /\ active_orders' = [active_orders EXCEPT ![t].remaining_qty = qty]
           /\ push(construct_order_canceled(U32(o.remaining_qty) - qty, "UserRequested", t))
           /\ UNCHANGED done_tokens
  <2>1. qty \in 1 .. MAX_QTY /\ o \in Ouch_Order
    BY <1>6, QtyNat, OrderQty
  <2>2. /\ DOMAIN active_orders' = DOMAIN active_orders
        /\ active_orders'[t] = [o EXCEPT !.remaining_qty = qty]
        /\ \A k \in DOMAIN active_orders \ {t} : active_orders'[k] = active_orders[k]
        /\ \A k \in Tokens \ {t} : book'[k] = book[k]
        /\ book'[t].executed = book[t].executed
    BY <1>6, <2>1, TrimFacts
  <2>3. o.genuine => /\ o.remaining_qty \in 0 .. MAX_QTY
                     /\ qty < o.remaining_qty
                     /\ book'[t].open = Reduce(book[t].open, o.remaining_qty - qty)
    BY <1>6, <2>1, TrimFacts
  <2>4. /\ active_orders'[t].remaining_qty = qty
        /\ active_orders'[t].executed_qty = o.executed_qty
        /\ active_orders'[t].genuine = o.genuine
        /\ active_orders'[t].time_in_force = o.time_in_force
        /\ active_orders'[t].recv_order_time = o.recv_order_time
    BY <2>1, <2>2 DEF Ouch_Order
  <2>5. Genuine' = Genuine /\ Strays' = Strays
    BY <2>2, <2>4 DEF Genuine, Strays
  <2>6. CASE t \in Genuine
    <3> DEFINE n == o.remaining_qty - qty
    <3>1. n \in 1 .. Shares(t).open - 1 /\ o.remaining_qty - n = qty
      BY <2>1, <2>3, <2>6, QtyNat DEF Genuine, Shares
    <3>2. book'[t].open = Lifecycle!Less(book[t].open, n)
      BY <2>3, <2>6 DEF Genuine, Lifecycle!Less, Reduce
    <3>3. Shares(t)' = [Shares(t) EXCEPT !.open = Shares(t).open - n]
      BY <2>4, <3>1 DEF Shares
    <3> HIDE DEF n
    <3>4. book' = [book EXCEPT ![t].open = Lifecycle!Less(@, n)]
      <4>1. book \in Book /\ book' \in Book
        BY <1>1 DEF TypeOK, Book
      <4>2. \A k \in Tokens : book'[k] = [book EXCEPT ![t].open = Lifecycle!Less(@, n)][k]
        BY <2>2, <3>2, <4>1 DEF Book
      <4> QED
        BY <4>1, <4>2 DEF Book
    <3>5. \A k \in Genuine \ {t} : Shares(k)' = Shares(k)
      BY <2>2 DEF Genuine, Shares
    <3>6. [k \in Genuine |-> Shares(k)]' = [[k \in Genuine |-> Shares(k)] EXCEPT ![t].open = @ - n]
      BY <2>5, <2>6, <3>3, <3>5
    <3>7. Late' = Late
      <4>1. \A k \in Genuine :
              /\ active_orders'[k].time_in_force = active_orders[k].time_in_force
              /\ active_orders'[k].recv_order_time = active_orders[k].recv_order_time
        BY <2>2, <2>4 DEF Genuine
      <4> QED
        BY <1>1, <2>5, <4>1, LateGrows DEF Late
    <3>8. Lifecycle!Trim(t)
      BY <1>1, <1>6, <2>5, <2>6, <3>1, <3>4, <3>6, <3>7 DEF Lifecycle!Trim, Shares, Strays, Late
    <3> QED
      BY <1>2, <3>8, Steps
  <2>7. CASE t \notin Genuine
    <3>1. Strayed(t)
      BY <1>1, <1>6, <2>2, <2>5, <2>7 DEF Strayed
    <3> QED
      BY <1>1, <1>2, <3>1, StrayStep
  <2> QED
    BY <2>6, <2>7
<1> QED
  BY <1>2, <1>3, <1>4, <1>5, <1>6 DEF cancel_logic

(* An order that modify_logic has marked is the subject of a modify before *)
(* the one it has come to.                                                 *)
MarkedByModify ==
    phase = "modify" =>
        \A t \in done_tokens :
            \E j \in DOMAIN pending_modify : j < cursor /\ pending_modify[j].token = t

LEMMA MarksInit == Init => MarkedByModify
  BY DEF Init, MarkedByModify

LEMMA MarksNext == IInv /\ MarkedByModify /\ [Next]_vars => MarkedByModify'
<1> SUFFICES ASSUME IInv, MarkedByModify, [Next]_vars, phase' = "modify"
             PROVE  \A t \in done_tokens' :
                       \E j \in DOMAIN pending_modify' : j < cursor' /\ pending_modify'[j].token = t
  BY DEF MarkedByModify
<1>1. CASE UNCHANGED <<phase, cursor, done_tokens, pending_modify>>
  BY <1>1 DEF MarkedByModify
<1>2. CASE cancel_logic_ends
  BY <1>2 DEF cancel_logic_ends, enter_loop
<1>3. CASE modify_logic
  <2>1. /\ phase = "modify" /\ cursor \in DOMAIN pending_modify /\ cursor \in Nat
        /\ cursor' = cursor + 1 /\ UNCHANGED pending_modify
        /\ \A j \in DOMAIN pending_modify : j \in Nat
    BY <1>3 DEF modify_logic, IInv, TypeOK, queues
  <2>2. done_tokens' \subseteq done_tokens \cup {pending_modify[cursor].token}
    BY <1>3, <2>1 DEF modify_logic, IInv, KeyIsToken
  <2> QED
    BY <2>1, <2>2 DEF MarkedByModify
<1>4. CASE handle_packet
  BY <1>4 DEF handle_packet, handle_login_request, handle_logout_request, enter_order, reject_order,
              accept_order, cancel_order, modify_order, replace_order, Reading
<1>5. CASE HandlerStep
  BY <1>1, <1>2, <1>3, <1>5 DEF HandlerStep, cancel_logic, modify_logic_ends, replace_logic,
     replace_logic_ends, execution_logic, execution_logic_ends, cancel_all_order, cancel_all_ends,
     send, enter_loop
<1>6. CASE Tick \/ UNCHANGED vars
  BY <1>1, <1>6 DEF Tick, vars, queues
<1>7. CASE accept \/ market_logic \/ cancel_all \/ disconnect
  BY <1>7 DEF accept, market_logic, cancel_all, disconnect, enter_loop
<1> QED
  BY <1>4, <1>5, <1>6, <1>7 DEF Next

(* The requests about an order, as the abstract specification knows them.  *)
LEMMA Resizes ==
    ASSUME NEW i \in DOMAIN pending_modify, NEW t, pending_modify[i].token = t,
           t \in done_tokens =>
              \E j \in DOMAIN pending_modify : j < i /\ pending_modify[j].token = t
    PROVE  \E r \in Requests :
              /\ r.kind = "resize" /\ r.from = t
              /\ t \in done_tokens =>
                   \E s \in Requests : s.kind = "resize" /\ s.from = t /\ s.no < r.no
<1> DEFINE Resize(j) == [kind |-> "resize", no |-> j,
                         from |-> pending_modify[j].token, to |-> pending_modify[j].token]
<1>1. \A j \in DOMAIN pending_modify : Resize(j) \in Requests
  BY DEF Requests
<1>2. \A j : Resize(j).kind = "resize" /\ Resize(j).from = pending_modify[j].token /\ Resize(j).no = j
  OBVIOUS
<1> HIDE DEF Resize
<1> QED
  BY <1>1, <1>2

LEMMA Renames ==
    ASSUME cursor \in DOMAIN pending_replace, NEW t, NEW u,
           t = pending_replace[cursor].existing_token, u = pending_replace[cursor].new_token
    PROVE  Lifecycle!Asked(t, u)
<1> DEFINE r == [kind |-> "rename", no |-> cursor,
                 from |-> pending_replace[cursor].existing_token,
                 to |-> pending_replace[cursor].new_token]
<1>1. r \in Requests
  BY DEF Requests
<1> QED
  BY <1>1 DEF Lifecycle!Asked

(* An iteration of modify_logic announces an end, restates the order, or   *)
(* does nothing.                                                           *)
LEMMA ModifyRefines == ASSUME IInv, IInv', MarkedByModify, modify_logic PROVE AbstractStep
<1>1. TypeOK /\ TypeOK' /\ now \in Nat /\ now' = now /\ phase = "modify" /\ UNCHANGED Requests
  BY SameRequests DEF IInv, TypeOK, modify_logic, queues
<1>2. PICK mo \in Ouch_ModifyOrderReq : mo = pending_modify[cursor] /\ cursor \in DOMAIN pending_modify
  BY DEF IInv, TypeOK, modify_logic
<1>3. PICK t \in Tokens : t = mo.token
  BY DEF Ouch_ModifyOrderReq
<1> DEFINE o == active_orders[t]
<1>4. CASE UNCHANGED <<active_orders, done_tokens, out>>
  BY <1>1, <1>4, Stutters DEF out
<1>5. CASE /\ t \in DOMAIN active_orders
           /\ done_tokens' = done_tokens \cup {o.token}
           /\ push(construct_order_modified(0, mo))
           /\ UNCHANGED active_orders
  <2>1. o.token = t
    BY <1>1, <1>5 DEF IInv, KeyIsToken
  <2>2. /\ \A k \in Tokens \ {t} : book'[k] = book[k]
        /\ book'[t].executed = book[t].executed
        /\ book'[t].open = 0
    <3>1. U32(0) = 0
      BY U32Exact, QtyNat
    <3> QED
      BY <1>1, <1>3, <1>5, <3>1, ModifiedEffect
  <2>3. /\ done_tokens' = done_tokens \cup {t}
        /\ DOMAIN active_orders' = DOMAIN active_orders \cup {t}
    BY <1>5, <2>1
  <2> QED
    BY <1>1, <1>5, <2>2, <2>3, CloseRefines
<1>6. CASE /\ t \in DOMAIN active_orders
           /\ o.executed_qty < mo.req_qty
           /\ active_orders' = [active_orders EXCEPT ![t] = modified(@, mo)]
           /\ push(construct_order_modified(modified(o, mo).remaining_qty, mo))
           /\ UNCHANGED done_tokens
  <2> DEFINE left == mo.req_qty - o.executed_qty
  <2>1. o \in Ouch_Order
    BY <1>6, OrderQty
  <2>2. /\ DOMAIN active_orders' = DOMAIN active_orders
        /\ active_orders'[t] = [o EXCEPT !.side = mo.new_side, !.remaining_qty = left]
        /\ \A k \in DOMAIN active_orders \ {t} : active_orders'[k] = active_orders[k]
        /\ \A k \in Tokens \ {t} : book'[k] = book[k]
        /\ book'[t].executed = book[t].executed
    BY <1>3, <1>6, RestateFacts
  <2>3. o.genuine => left \in 1 .. MAX_QTY /\ book'[t].open = left
    BY <1>3, <1>6, RestateFacts
  <2>4. /\ active_orders'[t].remaining_qty = left
        /\ active_orders'[t].executed_qty = o.executed_qty
        /\ active_orders'[t].genuine = o.genuine
        /\ active_orders'[t].time_in_force = o.time_in_force
        /\ active_orders'[t].recv_order_time = o.recv_order_time
    BY <2>1, <2>2 DEF Ouch_Order
  <2>5. Genuine' = Genuine /\ Strays' = Strays
    BY <2>2, <2>4 DEF Genuine, Strays
  <2> HIDE DEF left
  <2>6. CASE t \in Genuine
    <3>1. left > 0 /\ book'[t].open = left /\ book'[t].executed = o.executed_qty
      BY <2>2, <2>3, <2>6, QtyNat DEF Genuine, IInv, ClientAgrees
    <3>2. Shares(t)' = book'[t] /\ Shares(t).executed = o.executed_qty
      BY <1>1, <2>4, <3>1 DEF Shares, TypeOK
    <3>3. \A k \in Genuine \ {t} : Shares(k)' = Shares(k)
      BY <2>2 DEF Genuine, Shares
    <3>4. [k \in Genuine |-> Shares(k)]' = [[k \in Genuine |-> Shares(k)] EXCEPT ![t] = book'[t]]
      BY <2>5, <2>6, <3>2, <3>3
    <3>5. Lifecycle!Told({t})
      BY <2>2 DEF Lifecycle!Told
    <3>6. Late' = Late
      <4>1. \A k \in Genuine :
              /\ active_orders'[k].time_in_force = active_orders[k].time_in_force
              /\ active_orders'[k].recv_order_time = active_orders[k].recv_order_time
        BY <2>2, <2>4 DEF Genuine
      <4> QED
        BY <1>1, <2>5, <4>1, LateGrows DEF Late
    <3>7. \E r \in Requests :
             /\ r.kind = "resize" /\ r.from = t
             /\ t \in done_tokens =>
                  \E s \in Requests : s.kind = "resize" /\ s.from = t /\ s.no < r.no
      BY <1>1, <1>2, <1>3, Resizes DEF MarkedByModify
    <3>8. Lifecycle!Restate(t)
      BY <1>1, <1>6, <2>5, <2>6, <3>1, <3>2, <3>4, <3>5, <3>6, <3>7
         DEF Lifecycle!Restate, Shares, Strays, Late
    <3> QED
      BY <3>8, Steps
  <2>7. CASE t \notin Genuine
    <3>1. Strayed(t)
      BY <1>1, <1>6, <2>2, <2>5, <2>7 DEF Strayed
    <3> QED
      BY <1>1, <3>1, StrayStep
  <2> QED
    BY <2>6, <2>7
<1> QED
  BY <1>2, <1>3, <1>4, <1>5, <1>6 DEF modify_logic

(* An iteration of replace_logic announces an end, renames an order, loses *)
(* one that keeps its token, or moves an order nobody entered.             *)
LEMMA ReplaceRefines == ASSUME IInv, IInv', replace_logic PROVE AbstractStep
<1>1. TypeOK /\ TypeOK' /\ now \in Nat /\ now' = now /\ UNCHANGED Requests
  BY SameRequests DEF IInv, TypeOK, replace_logic, queues
<1>2. PICK g \in Garbage, ro \in Ouch_ReplaceOrderReq, t \in Tokens, u \in Tokens :
         /\ cursor \in DOMAIN pending_replace /\ ro = pending_replace[cursor]
         /\ Refused(t, g) \/ Replaced(ro, t, u, g)
  BY ReplaceCases
<1>3. CASE Refused(t, g)
  <2>1. /\ DOMAIN active_orders' = DOMAIN active_orders \cup {t}
        /\ \A k \in DOMAIN active_orders : active_orders'[k] = active_orders[k]
        /\ t \notin DOMAIN active_orders => ~ active_orders'[t].genuine
        /\ \A k \in Tokens \ {t} : book'[k] = book[k]
        /\ book'[t].executed = book[t].executed
        /\ active_orders'[t].genuine => book'[t].open = 0
    BY <1>3, RefuseFacts
  <2>2. done_tokens' = done_tokens \cup {t}
    BY <1>3 DEF Refused
  <2> QED
    BY <1>1, <2>1, <2>2, CloseRefines
<1>4. CASE Replaced(ro, t, u, g)
  <2>1. UNCHANGED done_tokens
    BY <1>4 DEF Replaced
  <2>2. /\ DOMAIN active_orders' = (DOMAIN active_orders \cup {u}) \ {t}
        /\ \A k \in DOMAIN active_orders \ {t, u} : active_orders'[k] = active_orders[k]
    BY <1>4, ReplaceMoves
  <2>3. /\ \A k \in Tokens \ {t, u} : book'[k] = book[k]
        /\ book'[u].executed = book[t].executed
    BY <1>4, ReplaceFacts
  <2>4. u # t =>
          /\ book'[t] = [open |-> 0, executed |-> 0]
          /\ active_orders'[u].genuine <=> t \in Genuine
          /\ active_orders'[u].genuine =>
                /\ active_orders'[u].remaining_qty \in 1 .. MAX_QTY
                /\ active_orders'[u].executed_qty = active_orders[t].executed_qty
                /\ book'[u].open = active_orders'[u].remaining_qty
    BY <1>4, ReplaceFacts DEF Genuine
  <2>5. DOMAIN active_orders \subseteq Tokens /\ DOMAIN active_orders' \subseteq Tokens
    BY <1>1 DEF TypeOK
  <2>9. Lifecycle!Asked(t, u)
    BY <1>2, <1>4, Renames DEF Replaced
  \* The order keeps its token, and is lost.
  <2>6. CASE u = t /\ t \in Genuine
    <3>1. Genuine' = Genuine \ {t} /\ Strays' = Strays
      BY <2>2, <2>6 DEF Genuine, Strays
    <3>2. \A k \in Genuine' : Shares(k)' = Shares(k) /\ active_orders'[k] = active_orders[k]
      BY <2>2, <2>6, <3>1 DEF Genuine, Shares
    <3>3. [k \in Genuine |-> Shares(k)]' = Lifecycle!Without([k \in Genuine |-> Shares(k)], {t})
      BY <3>1, <3>2 DEF Lifecycle!Without, Lifecycle!Restrict
    <3>4. Lifecycle!Told({t})
      BY <2>3, <2>6 DEF Lifecycle!Told
    <3>5. Late \cap Genuine' \subseteq Late' /\ Late' \subseteq Genuine'
      BY <1>1, <3>1, <3>2, LateGrows DEF Late
    <3>6. Lifecycle!TimePasses
      BY <3>5 DEF Lifecycle!TimePasses, Late
    <3>7. Lifecycle!Mislay(t)
      BY <1>1, <2>1, <2>3, <2>6, <2>9, <3>1, <3>3, <3>4, <3>6 DEF Lifecycle!Mislay, Shares, Strays
    <3> QED
      BY <3>7, Steps
  \* The order gets a new token.
  <2>7. CASE u # t /\ t \in Genuine
    <3>1. /\ Genuine' = (Genuine \ {t}) \cup {u}
          /\ Strays' = Strays \ {u}
      BY <2>2, <2>4, <2>7 DEF Genuine, Strays
    <3>2. /\ book'[u].open = active_orders'[u].remaining_qty /\ book'[u].open \in 1 .. MAX_QTY
          /\ book'[u].executed = active_orders'[u].executed_qty
          /\ book'[u].executed = Shares(t).executed
      BY <2>3, <2>4, <2>7 DEF IInv, ClientAgrees, Genuine, Shares
    <3>3. Shares(u)' = book'[u]
      BY <1>1, <3>2 DEF Shares, TypeOK
    <3>4. \A k \in Genuine \ {t, u} : Shares(k)' = Shares(k) /\ active_orders'[k] = active_orders[k]
      BY <2>2 DEF Genuine, Shares
    <3>5. [k \in Genuine |-> Shares(k)]' =
             Lifecycle!With(Lifecycle!Without([k \in Genuine |-> Shares(k)], {t}), u, book'[u])
      BY <2>7, <3>1, <3>3, <3>4 DEF Lifecycle!With, Lifecycle!Without, Lifecycle!Restrict
    <3>6. Lifecycle!Told({t, u}) /\ book'[t] = Lifecycle!NoShares
      BY <2>3, <2>4, <2>7 DEF Lifecycle!Told, Lifecycle!NoShares
    <3>7. \A k \in Genuine \ {t, u} : k \in Late <=> k \in Late'
      BY <1>1, <3>1, <3>4, LateGrows
    <3>8. Lifecycle!Resized(u)
      BY <2>7, <3>1, <3>7 DEF Lifecycle!Resized, Late
    <3>9. book'[u].open >= 0 /\ book'[u].open # 0
      BY <3>2, QtyNat
    <3>10. Lifecycle!Rename(t, u)
      BY <1>1, <2>1, <2>7, <2>9, <3>1, <3>2, <3>5, <3>6, <3>8, <3>9
         DEF Lifecycle!Rename, Shares, Strays
    <3> QED
      BY <3>10, Steps
  \* Nobody entered the order.
  <2>8. CASE t \notin Genuine
    <3>1. Genuine' = Genuine \ {u}
      BY <2>2, <2>4, <2>8 DEF Genuine
    <3>2. Strays' = IF u = t THEN Strays \ {t} ELSE (Strays \ {t}) \cup {u}
      BY <2>2, <2>5, <2>8, <3>1 DEF Strays, Genuine
    <3>3. \A k \in Genuine' : Shares(k)' = Shares(k) /\ active_orders'[k] = active_orders[k]
      BY <2>2, <2>8, <3>1 DEF Genuine, Shares
    <3>4. [k \in Genuine |-> Shares(k)]' = Lifecycle!Without([k \in Genuine |-> Shares(k)], {u})
      BY <3>1, <3>3 DEF Lifecycle!Without, Lifecycle!Restrict
    <3>5. Late \cap Genuine' \subseteq Late' /\ Late' \subseteq Genuine'
      BY <1>1, <3>1, <3>3, LateGrows DEF Late
    <3>6. Lifecycle!TimePasses
      BY <3>5 DEF Lifecycle!TimePasses, Late
    <3>7. Lifecycle!Told({t, u, u}) /\ Lifecycle!Misled({t, u, u})
      BY <2>3 DEF Lifecycle!Told, Lifecycle!Misled
    <3>8. Lifecycle!StrayMoves(t, u, t)
      BY <1>1, <2>1, <2>8, <2>9, <3>2, <3>4, <3>6, <3>7 DEF Lifecycle!StrayMoves, Shares, Strays
    <3> QED
      BY <3>8, Steps
  <2> QED
    BY <2>6, <2>7, <2>8
<1> QED
  BY <1>2, <1>3, <1>4

(* A fill moves shares from open to executed, in the market and in the     *)
(* client's book.                                                          *)
LEMMA FillRefines ==
    ASSUME IInv, IInv', NEW t \in DOMAIN active_orders, t \notin done_tokens, now' >= now,
           NEW rnd \in RandQtys, active_orders[t].remaining_qty > 0,
           active_orders' = [active_orders EXCEPT ![t] = filled(@, rnd)],
           push(construct_order_executed(active_orders[t], rnd)), UNCHANGED <<done_tokens, Requests>>
    PROVE  AbstractStep
<1> DEFINE o == active_orders[t]
           n == fill_qty(o, rnd)
<1>1. TypeOK /\ TypeOK' /\ t \in Tokens /\ o.remaining_qty \in Int /\ o.executed_qty \in Int
  BY OrderQty DEF IInv
<1>2. /\ DOMAIN active_orders' = DOMAIN active_orders
      /\ \A k \in DOMAIN active_orders \ {t} : active_orders'[k] = active_orders[k]
      /\ active_orders'[t].genuine = o.genuine
      /\ active_orders'[t].time_in_force = o.time_in_force
      /\ active_orders'[t].recv_order_time = o.recv_order_time
      /\ \A k \in Tokens \ {t} : book'[k] = book[k]
  BY FillFacts
<1>3. /\ n \in 1 .. o.remaining_qty
      /\ active_orders'[t].remaining_qty = o.remaining_qty - n
      /\ active_orders'[t].executed_qty = o.executed_qty + n
      /\ o.genuine => /\ book'[t].open = book[t].open - n
                      /\ book'[t].executed = book[t].executed + n
  BY FillFacts
<1> HIDE DEF n
<1>4. Genuine' = Genuine /\ Strays' = Strays
  BY <1>2 DEF Genuine, Strays
<1>5. CASE t \in Genuine
  <2>1. Shares(t)' = [open |-> Shares(t).open - n, executed |-> Shares(t).executed + n]
    BY <1>3 DEF Shares
  <2>2. \A k \in Genuine \ {t} : Shares(k)' = Shares(k)
    BY <1>2 DEF Genuine, Shares
  <2>3. [k \in Genuine |-> Shares(k)]' =
          [[k \in Genuine |-> Shares(k)] EXCEPT ![t] = [open |-> @.open - n, executed |-> @.executed + n]]
    BY <1>4, <1>5, <2>1, <2>2
  <2>4. book' = [book EXCEPT ![t] = [open |-> @.open - n, executed |-> @.executed + n]]
    <3>1. book \in Book /\ book' \in Book
      BY <1>1 DEF TypeOK, Book
    <3>2. book'[t] = [open |-> book[t].open - n, executed |-> book[t].executed + n]
      BY <1>1, <1>3, <1>5, <3>1 DEF Book, Genuine
    <3> QED
      BY <1>1, <1>2, <3>1, <3>2 DEF Book
  <2>5. Late \subseteq Late' /\ Late' \subseteq Genuine'
    <3>1. \A k \in Genuine :
            /\ active_orders'[k].time_in_force = active_orders[k].time_in_force
            /\ active_orders'[k].recv_order_time = active_orders[k].recv_order_time
      BY <1>2 DEF Genuine
    <3> QED
      BY <1>1, <1>4, <3>1, LateGrows DEF Late
  <2>6. Lifecycle!TimePasses
    BY <2>5 DEF Lifecycle!TimePasses, Late
  <2>7. n \in 1 .. Shares(t).open
    BY <1>3 DEF Shares
  <2>8. Lifecycle!Told({t})
    BY <1>2 DEF Lifecycle!Told
  <2>9. book'[t] = [open |-> book[t].open - n, executed |-> book[t].executed + n]
    BY <1>1, <2>4 DEF TypeOK
  <2>10. Lifecycle!Fill(t)
    BY <1>4, <1>5, <2>3, <2>6, <2>7, <2>8, <2>9 DEF Lifecycle!Fill, Shares, Strays
  <2> QED
    BY <1>1, <2>10, Steps
<1>6. CASE t \notin Genuine
  <2>1. Strayed(t)
    BY <1>2, <1>4, <1>6 DEF Strayed
  <2> QED
    BY <1>1, <2>1, StrayStep
<1> QED
  BY <1>5, <1>6

(* An iteration of execution_logic fills an order, announces its end,      *)
(* retires it, or only reads the clock.                                    *)
LEMMA ExecutionRefines ==
    ASSUME IInv, IInv', NEW t \in Tokens, execution_logic(t)
    PROVE  AbstractStep
<1> DEFINE o == active_orders[t]
<1>1. TypeOK /\ TypeOK' /\ now \in Nat /\ now' >= now /\ UNCHANGED Requests
  <2>1. now' = now \/ now' = now + 1
    BY DEF execution_logic
  <2>2. now \in Nat
    BY DEF IInv, TypeOK
  <2> QED
    BY <2>1, <2>2, SameRequests DEF IInv, execution_logic, queues
<1>2. /\ phase = "execution" /\ t \in DOMAIN active_orders /\ t \notin done_tokens
      /\ o.genuine => o.state = "Live"
      /\ o.token = t
  BY DEF execution_logic, IInv, TypeOK, LoopsConsistent, KeyIsToken
<1>3. o.remaining_qty \in Int
  BY <1>2, OrderQty
<1>4. CASE UNCHANGED <<active_orders, done_tokens, out>>
  BY <1>1, <1>4, Lapses DEF out
<1>5. CASE /\ push(construct_order_canceled(o.remaining_qty, cancel_reason(o), o.token))
           /\ done_tokens' = done_tokens \cup {t}
           /\ UNCHANGED <<active_orders, now>>
  <2>1. cancel_reason(o) \in {"UserRequested", "SystemCancel", "TimeOut", "IOC"}
    BY DEF cancel_reason
  <2>2. push(construct_order_canceled(o.remaining_qty, cancel_reason(o), t))
    BY <1>2, <1>5
  <2>3. /\ \A k \in Tokens \ {t} : book'[k] = book[k]
        /\ book'[t].executed = book[t].executed
        /\ o.genuine => book'[t].open = 0
    BY <1>2, <2>1, <2>2, ClosedEffect
  <2> QED
    BY <1>1, <1>2, <1>5, <2>3, CloseRefines
<1>6. CASE /\ still_active(o, now')
           /\ \E rnd \in RandQtys :
                /\ active_orders' = [active_orders EXCEPT ![t] = filled(@, rnd)]
                /\ push(construct_order_executed(o, rnd))
           /\ UNCHANGED done_tokens
  <2>1. o.remaining_qty > 0
    BY <1>3, <1>6 DEF still_active
  <2> QED
    BY <1>1, <1>2, <1>6, <2>1, FillRefines
<1>7. CASE /\ ~ still_active(o, now')
           /\ done_tokens' = done_tokens \cup {t}
           /\ active_orders' = [active_orders EXCEPT ![t].state = "Dead"]
           /\ UNCHANGED out
  BY <1>1, <1>2, <1>7, RetireRefines DEF out
<1> QED
  BY <1>4, <1>5, <1>6, <1>7 DEF execution_logic

(* The loops end by dropping what they have marked; cancel_all has marked  *)
(* every order.                                                            *)
LEMMA EndsRefine ==
    ASSUME IInv, IInv',
           \/ cancel_logic_ends \/ modify_logic_ends \/ replace_logic_ends
           \/ execution_logic_ends \/ cancel_all_ends
    PROVE  AbstractStep
<1>1. done_tokens' = {} /\ UNCHANGED <<book, now>>
  BY DEF cancel_logic_ends, modify_logic_ends, replace_logic_ends, execution_logic_ends,
         cancel_all_ends, enter_loop, out
<1>2. Requests' \subseteq Requests
  <2>1. UNCHANGED pending_modify /\ (UNCHANGED pending_replace \/ pending_replace' = <<>>)
    BY DEF cancel_logic_ends, modify_logic_ends, replace_logic_ends, execution_logic_ends,
           cancel_all_ends, queues
  <2> QED
    BY <2>1 DEF Requests
<1>3. CASE cancel_logic_ends \/ modify_logic_ends \/ replace_logic_ends \/ execution_logic_ends
  <2>1. active_orders' = erase(active_orders, done_tokens)
    BY <1>3 DEF cancel_logic_ends, modify_logic_ends, replace_logic_ends, execution_logic_ends
  <2>2. /\ DOMAIN active_orders' = DOMAIN active_orders \ done_tokens
        /\ \A k \in DOMAIN active_orders' : active_orders'[k] = active_orders[k]
    BY <2>1, EraseDone DEF IInv, TypeOK
  <2> QED
    BY <1>1, <1>2, <2>2, DropRefines
<1>4. CASE cancel_all_ends
  <2>1. DOMAIN active_orders \subseteq done_tokens
    BY <1>4 DEF cancel_all_ends, IInv, LoopsConsistent
  <2>2. DOMAIN active_orders' = {}
    BY <1>4 DEF cancel_all_ends, erase, Restrict
  <2> QED
    BY <1>1, <1>2, <2>1, <2>2, DropRefines
<1> QED
  BY <1>3, <1>4

(* An iteration of cancel_all announces an end, or marks without a word.   *)
LEMMA CancelAllRefines ==
    ASSUME IInv, IInv', NEW t \in Tokens, cancel_all_order(t)
    PROVE  AbstractStep
<1> DEFINE o == active_orders[t]
<1>1. /\ t \in DOMAIN active_orders /\ now \in Nat /\ now' = now
      /\ UNCHANGED <<active_orders, Requests>> /\ done_tokens' = done_tokens \cup {t}
      /\ o.genuine => o.state = "Live"
      /\ o.token = t
  BY SameRequests DEF cancel_all_order, IInv, TypeOK, LoopsConsistent, KeyIsToken, queues
<1>2. CASE push(construct_order_canceled(o.remaining_qty, "SystemCancel", o.token))
  <2>1. /\ \A k \in Tokens \ {t} : book'[k] = book[k]
        /\ book'[t].executed = book[t].executed
        /\ o.genuine => book'[t].open = 0
    BY <1>1, <1>2, ClosedEffect
  <2> QED
    BY <1>1, <2>1, CloseRefines
<1>3. CASE ~ still_active(o, now) /\ UNCHANGED out
  BY <1>1, <1>3, RetireRefines DEF out
<1> QED
  BY <1>2, <1>3 DEF cancel_all_order

-----------------------------------------------------------------------------
(* The initial state of the session is one of the abstract specification.  *)
LEMMA InitRefines == Init => Lifecycle!Init
<1> SUFFICES ASSUME Init PROVE Lifecycle!Init
  OBVIOUS
<1>1. Genuine = {} /\ DOMAIN active_orders = {} /\ Requests = {}
  BY DEF Init, Genuine, Requests
<1> QED
  BY <1>1 DEF Init, Lifecycle!Init, Lifecycle!NoShares

(* Every step of the session is a step of the abstract specification, or   *)
(* changes nothing that it can see.                                        *)
LEMMA NextRefines == IInv /\ IInv' /\ MarkedByModify /\ [Next]_vars => AbstractStep
<1> SUFFICES ASSUME IInv, IInv', MarkedByModify, [Next]_vars PROVE AbstractStep
  OBVIOUS
<1>1. CASE handle_packet
  <2>1. /\ EnterQtys \subseteq Nat /\ CancelQtys \subseteq Nat /\ ModifyQtys \subseteq Nat
        /\ ReplaceQtys \subseteq Nat /\ Tifs \subseteq Nat /\ ModifySides \subseteq AnySide
    BY SessionAssumption
  <2>2. CASE enter_order
    <3>1. CASE \E t \in Tokens, qty \in EnterQtys : reject_order(t, qty)
      BY <2>1, <3>1, QuietRefines
    <3>2. CASE \E t \in Tokens, qty \in EnterQtys, tif \in Tifs, min_qty \in MinQtys,
                  side \in EnterSides : accept_order(t, qty, tif, min_qty, side)
      BY <3>2, AcceptRefines
    <3> QED
      BY <2>2, <3>1, <3>2 DEF enter_order
  <2>3. CASE \E t \in Tokens, qty \in CancelQtys : cancel_order(t, qty)
    BY <2>1, <2>3, QuietRefines
  <2>4. CASE \E t \in Tokens, qty \in ModifyQtys, side \in ModifySides : modify_order(t, qty, side)
    BY <2>1, <2>4, AskRefines
  <2>5. CASE \E t, u \in Tokens, qty \in ReplaceQtys, tif \in Tifs : replace_order(t, u, qty, tif)
    BY <2>1, <2>5, AskRefines
  <2> QED
    BY <1>1, <2>2, <2>3, <2>4, <2>5, QuietRefines DEF handle_packet
<1>2. CASE HandlerStep
  <2>1. CASE \E t \in Tokens : execution_logic(t)
    BY <2>1, ExecutionRefines
  <2>2. CASE \E t \in Tokens : cancel_all_order(t)
    BY <2>2, CancelAllRefines
  <2> QED
    BY <1>2, <2>1, <2>2, CancelRefines, ModifyRefines, ReplaceRefines, EndsRefine, QuietRefines
       DEF HandlerStep
<1>3. CASE UNCHANGED vars
  BY <1>3, SameRequests, Stutters DEF vars, queues
<1> QED
  BY <1>1, <1>2, <1>3, QuietRefines DEF Next

(* However fills, cancels, modifies and chains of replaces interleave with *)
(* the clock, whatever a handler does to the book of orders and tells the  *)
(* client about it is one step of OrderLifecycle: an order that the client *)
(* believes open is lost only when its time is over, when the client asked *)
(* to give its name to another order or to replace it by one of the same   *)
(* name, or when it was restated by, or renamed to, what an earlier        *)
(* request of the same tick had ended.                                     *)
THEOREM Refinement == Spec => ImplementsLifecycle
<1>1. AbstractStep => [Lifecycle!Next]_(Lifecycle!lifecycle_vars)
  BY DEF AbstractStep
<1> QED
  BY <1>1, InitRefines, MarksInit, MarksNext, NextRefines, Invariance, PTL
     DEF Spec, ImplementsLifecycle, Lifecycle!Spec
=============================================================================
