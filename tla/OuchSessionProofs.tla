-------------------------- MODULE OuchSessionProofs --------------------------
(***************************************************************************)
(* The inductive invariant of OuchSession and the properties it implies,   *)
(* for every set of tokens, every quantity limit and every other value of  *)
(* the constants.                                                          *)
(***************************************************************************)
EXTENDS OuchSession, SequenceTheorems, TLAPS

-----------------------------------------------------------------------------
(* Conversions. *)

(* A quantity no larger than the limit of a request is written into a      *)
(* message unchanged, and whatever is written is a natural number.         *)
LEMMA U32Exact ==
    ASSUME NEW x \in Int
    PROVE  /\ U32(x) \in Nat
           /\ x \in 0 .. MAX_QTY => U32(x) = x
<1>1. UINT32 \in Nat /\ MAX_QTY \in Nat /\ MAX_QTY < UINT32
  BY OrderAssumption DEF MAX_QTY
<1>2. x % UINT32 \in 0 .. UINT32 - 1
  BY <1>1
<1> QED
  BY <1>1, <1>2 DEF U32

(* A quantity that fits a request is a quantity of the messages.           *)
LEMMA QtyNat == MAX_QTY \in Nat /\ MAX_SHARES \in Nat /\ MAX_QTY = MAX_SHARES + 1
  BY OrderAssumption DEF MAX_QTY

(* A fill takes between one share and all that remain.                     *)
LEMMA FillBounds ==
    ASSUME NEW o \in Ouch_Order, NEW rnd \in RandQtys, o.remaining_qty > 0
    PROVE  /\ fill_qty(o, rnd) \in 1 .. o.remaining_qty
           /\ filled(o, rnd) \in Ouch_Order
           /\ filled(o, rnd) = [o EXCEPT !.remaining_qty = o.remaining_qty - fill_qty(o, rnd),
                                        !.executed_qty = o.executed_qty + fill_qty(o, rnd)]
<1>1. rnd \in Nat /\ rnd > 0
  BY SessionAssumption
<1>2. o.remaining_qty \in Int /\ o.executed_qty \in Int
  BY DEF Ouch_Order
<1>3. fill_qty(o, rnd) \in 1 .. o.remaining_qty
  BY <1>1, <1>2 DEF fill_qty
<1>4. filled(o, rnd) = [o EXCEPT !.remaining_qty = o.remaining_qty - fill_qty(o, rnd),
                                !.executed_qty = o.executed_qty + fill_qty(o, rnd)]
  BY DEF filled, Ouch_Order
<1>5. o.remaining_qty - fill_qty(o, rnd) \in Int /\ o.executed_qty + fill_qty(o, rnd) \in Int
  BY <1>2, <1>3
<1>6. filled(o, rnd) \in Ouch_Order
  BY <1>4, <1>5 DEF Ouch_Order
<1> QED
  BY <1>3, <1>4, <1>6

-----------------------------------------------------------------------------
(* Messages. *)

Book == [Tokens -> [open : Nat, executed : 0 .. LedgerLimit]]

(* A client's ledger stays well formed whatever message it applies.        *)
LEMMA ViewType ==
    ASSUME NEW b \in Book, NEW m \in Message
    PROVE  client_view(b, m) \in Book
<1>1. LedgerLimit \in Nat
  BY QtyNat DEF LedgerLimit
<1>2. \A x, q \in Nat : Reduce(x, q) \in Nat /\ Count(x) \in 0 .. LedgerLimit
  BY <1>1 DEF Reduce, Count
<1>3. CASE m.type = "OrderAccepted"
  BY <1>1, <1>3 DEF client_view, Book, Message
<1>4. CASE m.type = "OrderCanceled"
  BY <1>2, <1>4 DEF client_view, Book, Message
<1>5. CASE m.type = "OrderModified"
  BY <1>2, <1>5 DEF client_view, Book, Message
<1>6. CASE m.type = "Executed"
  <2>1. m.token \in Tokens /\ m.executed_qty \in Nat
    BY <1>6 DEF Message
  <2>2. b[m.token].open \in Nat /\ b[m.token].executed \in 0 .. LedgerLimit
    BY <2>1 DEF Book
  <2>3. b[m.token].executed + m.executed_qty \in Nat
    BY <2>1, <2>2, <1>1
  <2>4. [open |-> Reduce(b[m.token].open, m.executed_qty),
         executed |-> Count(b[m.token].executed + m.executed_qty)]
         \in [open : Nat, executed : 0 .. LedgerLimit]
    BY <2>1, <2>2, <2>3, <1>2
  <2> QED
    BY <1>6, <2>1, <2>4 DEF client_view, Book
<1>7. CASE m.type = "OrderReplaced"
  BY <1>1, <1>7 DEF client_view, Book, Message
<1>8. CASE m.type \notin {"OrderAccepted", "OrderCanceled", "OrderModified", "Executed", "OrderReplaced"}
  BY <1>8 DEF client_view
<1> QED
  BY <1>3, <1>4, <1>5, <1>6, <1>7, <1>8

(* What each message changes in the ledger of the client.                  *)
LEMMA ViewAccepted ==
    ASSUME NEW b \in Book, NEW t \in Tokens, NEW q \in Nat
    PROVE  client_view(b, [type |-> "OrderAccepted", token |-> t, qty |-> q])
             = [b EXCEPT ![t] = [open |-> q, executed |-> 0]]
  BY DEF client_view

(* The same for OrderCanceled, which takes its decrement off.              *)
LEMMA ViewCanceled ==
    ASSUME NEW b \in Book, NEW t \in Tokens, NEW q \in Nat, NEW r
    PROVE  client_view(b, [type |-> "OrderCanceled", token |-> t, decrement_qty |-> q, reason |-> r])
             = [b EXCEPT ![t].open = Reduce(@, q)]
  BY DEF client_view

(* The same for OrderModified, which sets the open shares.                 *)
LEMMA ViewModified ==
    ASSUME NEW b \in Book, NEW t \in Tokens, NEW q \in Nat
    PROVE  client_view(b, [type |-> "OrderModified", token |-> t, shares |-> q])
             = [b EXCEPT ![t].open = q]
  BY DEF client_view

(* The same for Executed, which moves shares from open to executed.        *)
LEMMA ViewExecuted ==
    ASSUME NEW b \in Book, NEW t \in Tokens, NEW q \in Nat
    PROVE  client_view(b, [type |-> "Executed", token |-> t, executed_qty |-> q])
             = [b EXCEPT ![t] = [open |-> Reduce(@.open, q), executed |-> Count(@.executed + q)]]
  BY DEF client_view

(* The same for OrderReplaced, which moves the entry of the old token.     *)
LEMMA ViewReplaced ==
    ASSUME NEW b \in Book, NEW t \in Tokens, NEW u \in Tokens, NEW q \in Nat
    PROVE  client_view(b, [type |-> "OrderReplaced", token |-> t, orig_token |-> u, qty |-> q])
             = [k \in Tokens |->
                  IF k = t THEN [open |-> q, executed |-> b[u].executed]
                  ELSE IF k = u THEN [open |-> 0, executed |-> 0] ELSE b[k]]
  BY DEF client_view

(* Queueing a message keeps the queue and the ledger well formed.          *)
LEMMA PushType ==
    ASSUME TypeOK, NEW m \in Message, push(m)
    PROVE  /\ pending_out_messages' \in Seq(Message)
           /\ book' \in Book
           /\ book' = client_view(book, m)
  BY ViewType DEF push, TypeOK, Book

(* The messages that only concern the session leave the ledger alone.      *)
LEMMA SessionMessages ==
    ASSUME NEW m \in Message,
           m.type \in {"LoginAccepted", "LoginRejected", "ServerHeartbeat", "OrderRejected", "CancelReject"}
    PROVE  client_view(book, m) = book
  BY DEF client_view

-----------------------------------------------------------------------------
(* The initial state. *)

(* The state ouch_session::init leaves satisfies the invariant.            *)
LEMMA InitInv == Init => IInv
<1> SUFFICES ASSUME Init PROVE IInv
  OBVIOUS
<1>1. DOMAIN active_orders = {}
  BY DEF Init
<1>2. 0 \in 0 .. LedgerLimit
  BY QtyNat DEF LedgerLimit
<1>3. state \in {NotLoggedIn, LoggedIn} /\ state # LoggedIn
  BY DEF Init, NotLoggedIn, LoggedIn
<1>4. connected \in BOOLEAN
  BY Zenon DEF Init
<1>5. TypeOK
  BY <1>1, <1>2, <1>3, <1>4 DEF Init, TypeOK, Phases
<1> QED
  BY <1>1, <1>5 DEF Init, IInv, KeyIsToken, QtySound, ClientAgrees, ErasedIsClosed, LoopsConsistent

-----------------------------------------------------------------------------
(* Steps that touch no order: the invariant follows from type correctness. *)

(* No order is marked as done while packets are read or nothing runs.      *)
LEMMA QuietOutsideLoops ==
    ASSUME IInv, TypeOK', UNCHANGED <<active_orders, book>>, done_tokens = {}, done_tokens' = {},
           phase' # "replace", phase' = "cancel_all" => DOMAIN active_orders \subseteq todo'
    PROVE  IInv'
  BY DEF IInv, KeyIsToken, QtySound, ClientAgrees, ErasedIsClosed, LoopsConsistent

(* handle_login_request preserves the invariant.                           *)
LEMMA LoginStep == ASSUME IInv, handle_login_request PROVE IInv'
<1> USE DEF IInv
<1>1. done_tokens = {} /\ done_tokens' = {} /\ phase' = "read" /\ UNCHANGED active_orders
  BY DEF handle_login_request, Reading, TypeOK
<1>2. \E m \in Message : push(m) /\ m.type \in {"LoginAccepted", "LoginRejected"}
  BY DEF handle_login_request, Message, construct_login_accepted, construct_login_rejected
<1>3. UNCHANGED book /\ pending_out_messages' \in Seq(Message)
  BY <1>2, PushType, SessionMessages
<1>4. TypeOK'
  BY <1>1, <1>3 DEF handle_login_request, Reading, TypeOK, Phases, queues, LoggedIn
<1> QED
  BY <1>1, <1>3, <1>4, QuietOutsideLoops

(* handle_logout_request preserves the invariant.                          *)
LEMMA LogoutStep == ASSUME IInv, handle_logout_request PROVE IInv'
<1> USE DEF IInv
<1>1. done_tokens = {} /\ done_tokens' = {} /\ phase' = "read"
  BY DEF handle_logout_request, Reading, TypeOK
<1>2. TypeOK'
  BY <1>1 DEF handle_logout_request, Reading, TypeOK, Phases, queues, out
<1> QED
  BY <1>1, <1>2, QuietOutsideLoops DEF handle_logout_request, out

(* Rejecting an order in enter_order preserves the invariant.              *)
LEMMA RejectStep ==
    ASSUME IInv, NEW t \in Tokens, NEW qty, reject_order(t, qty)
    PROVE  IInv'
<1> USE DEF IInv
<1>1. done_tokens = {} /\ done_tokens' = {} /\ phase' = "read" /\ UNCHANGED active_orders
  BY DEF reject_order, Reading, TypeOK
<1>2. \E m \in Message : push(m) /\ m.type = "OrderRejected"
  <2>1. \A r \in {"ExceededConfiguredSafety", "Other"} :
           /\ construct_order_rejected(r, t) \in Message
           /\ construct_order_rejected(r, t).type = "OrderRejected"
    BY DEF Message, construct_order_rejected
  <2> QED
    BY <2>1 DEF reject_order
<1>3. UNCHANGED book /\ pending_out_messages' \in Seq(Message)
  BY <1>2, PushType, SessionMessages
<1>4. TypeOK'
  BY <1>1, <1>3 DEF reject_order, Reading, TypeOK, Phases, queues
<1> QED
  BY <1>1, <1>3, <1>4, QuietOutsideLoops

(* Queueing a cancel preserves the invariant.                              *)
LEMMA QueueCancelStep ==
    ASSUME IInv, NEW t \in Tokens, NEW qty, cancel_order(t, qty)
    PROVE  IInv'
<1> USE DEF IInv
<1>1. done_tokens = {} /\ done_tokens' = {} /\ phase' = "read" /\ UNCHANGED <<active_orders, book>>
  BY DEF cancel_order, Reading, TypeOK, out
<1>2. [token |-> t, qty |-> qty] \in Ouch_CancelOrderReq
  BY DEF cancel_order, validate_cancel_order, Ouch_CancelOrderReq
<1>3. TypeOK'
  BY <1>1, <1>2 DEF cancel_order, Reading, TypeOK, Phases, out
<1> QED
  BY <1>1, <1>3, QuietOutsideLoops

(* Queueing a modify preserves the invariant.                              *)
LEMMA QueueModifyStep ==
    ASSUME IInv, NEW t \in Tokens, NEW qty, NEW side \in ModifySides, modify_order(t, qty, side)
    PROVE  IInv'
<1> USE DEF IInv
<1>1. done_tokens = {} /\ done_tokens' = {} /\ phase' = "read" /\ UNCHANGED <<active_orders, book>>
  BY DEF modify_order, Reading, TypeOK, out
<1>2. [token |-> t, req_qty |-> qty, new_side |-> side] \in Ouch_ModifyOrderReq
  BY SessionAssumption DEF modify_order, validate_modify_order, Ouch_ModifyOrderReq
<1>3. TypeOK'
  BY <1>1, <1>2 DEF modify_order, Reading, TypeOK, Phases, out
<1> QED
  BY <1>1, <1>3, QuietOutsideLoops

(* Queueing a replace preserves the invariant.                             *)
LEMMA QueueReplaceStep ==
    ASSUME IInv, NEW t \in Tokens, NEW u \in Tokens, NEW qty, NEW tif \in Tifs,
           replace_order(t, u, qty, tif)
    PROVE  IInv'
<1> USE DEF IInv
<1>1. done_tokens = {} /\ done_tokens' = {} /\ phase' = "read" /\ UNCHANGED <<active_orders, book>>
  BY DEF replace_order, Reading, TypeOK, out
<1>2. [existing_token |-> t, new_token |-> u, qty |-> qty, time_in_force |-> tif] \in Ouch_ReplaceOrderReq
  BY SessionAssumption DEF replace_order, validate_replace_order, Ouch_ReplaceOrderReq
<1>3. TypeOK'
  BY <1>1, <1>2 DEF replace_order, Reading, TypeOK, Phases, out
<1> QED
  BY <1>1, <1>3, QuietOutsideLoops

(* Sending the queued messages preserves the invariant.                    *)
LEMMA SendStep == ASSUME IInv, send PROVE IInv'
<1> USE DEF IInv
<1>1. done_tokens = {} /\ done_tokens' = {} /\ phase' = "idle" /\ UNCHANGED <<active_orders, book>>
  BY DEF send, TypeOK
<1>2. TypeOK'
  BY <1>1 DEF send, TypeOK, Phases, session_vars, queues
<1> QED
  BY <1>1, <1>2, QuietOutsideLoops

(* The start of a tick, heartbeat_logic, preserves the invariant.          *)
LEMMA TickStartStep == ASSUME IInv, market_logic PROVE IInv'
<1> USE DEF IInv
<1>1. /\ done_tokens = {} /\ done_tokens' = {} /\ phase' = "cancel" /\ cursor' = 1
      /\ UNCHANGED <<active_orders, connected>>
  BY DEF market_logic, enter_loop, TypeOK
<1>2. construct_heartbeat \in Message /\ construct_heartbeat.type = "ServerHeartbeat"
  BY DEF construct_heartbeat, Message
<1>3. UNCHANGED book /\ pending_out_messages' \in Seq(Message)
  BY <1>2, PushType, SessionMessages DEF market_logic, out, TypeOK
<1>4. last_send_heartbeat' \in Nat
  BY DEF market_logic, TypeOK
<1>5. TypeOK'
  BY <1>1, <1>3, <1>4 DEF market_logic, TypeOK, Phases, queues
<1> QED
  BY <1>1, <1>3, <1>5, QuietOutsideLoops

(* The start of cancel_all preserves the invariant.                        *)
LEMMA CancelAllStartStep == ASSUME IInv, cancel_all PROVE IInv'
<1> USE DEF IInv
<1>1. /\ done_tokens = {} /\ done_tokens' = {} /\ phase' = "cancel_all" /\ cursor' = 1
      /\ UNCHANGED <<active_orders, connected, book>>
  BY DEF cancel_all, enter_loop, TypeOK, out
<1>2. TypeOK'
  BY <1>1 DEF cancel_all, TypeOK, Phases, session_vars, queues, out
<1> QED
  BY <1>1, <1>2, QuietOutsideLoops DEF cancel_all

(* A disconnect preserves the invariant: it only resets the state.         *)
LEMMA DisconnectStep == ASSUME IInv, disconnect PROVE IInv'
<1> USE DEF IInv
<1>1. done_tokens = {} /\ done_tokens' = {} /\ phase' = "idle" /\ UNCHANGED <<active_orders, book>>
  BY DEF disconnect, TypeOK, out
<1>2. state' \in {NotLoggedIn, LoggedIn} /\ state' # LoggedIn /\ phase' # "read"
  BY <1>1 DEF disconnect, NotLoggedIn, LoggedIn
<1>3. connected' \in BOOLEAN
  BY Zenon DEF disconnect
<1>4. TypeOK'
  BY <1>1, <1>2, <1>3 DEF disconnect, TypeOK, queues, out
<1> QED
  BY <1>1, <1>4, QuietOutsideLoops

(* A client that comes preserves the invariant: nothing else changes.      *)
LEMMA ClientComesStep == ASSUME IInv, accept PROVE IInv'
<1> USE DEF IInv
<1>1. done_tokens = {} /\ done_tokens' = {} /\ phase' = "idle" /\ UNCHANGED <<active_orders, book>>
  BY DEF accept, TypeOK, out
<1>2. TypeOK'
  BY <1>1 DEF accept, TypeOK, session_vars, queues, out
<1> QED
  BY <1>1, <1>2, QuietOutsideLoops

(* Time passes: an order past its deadline has been past it before.        *)
LEMMA ClockStep == ASSUME IInv, Tick PROVE IInv'
<1> USE DEF IInv
<1>1. now' = now + 1 /\ now \in Nat
  BY DEF Tick, TypeOK
<1>2. UNCHANGED <<state, active_orders, finished_orders, pending_cancel, pending_modify,
                  pending_replace, pending_out_messages, last_send_heartbeat,
                  connected, phase, cursor, done_tokens, todo, book>>
  BY DEF Tick, session_vars, queues, out
<1>3. TypeOK'
  BY <1>1, <1>2 DEF TypeOK
<1>4. KeyIsToken' /\ QtySound' /\ ClientAgrees' /\ LoopsConsistent'
  BY <1>2 DEF KeyIsToken, QtySound, ClientAgrees, LoopsConsistent
<1>5. 0 .. now \subseteq 0 .. now'
  BY <1>1
<1>6. ErasedIsClosed'
  BY <1>2, <1>5 DEF ErasedIsClosed, expired, remain_time_in_force, S32
<1> QED
  BY <1>3, <1>4, <1>6

-----------------------------------------------------------------------------
(* The map of active orders. *)

(* erase removes orders and leaves the others as they are.                 *)
LEMMA EraseFacts ==
    ASSUME NEW orders, orders \in [DOMAIN orders -> Ouch_Order], NEW ts
    PROVE  /\ DOMAIN erase(orders, ts) = DOMAIN orders \ ts
           /\ erase(orders, ts) \in [DOMAIN erase(orders, ts) -> Ouch_Order]
           /\ \A k \in DOMAIN orders \ ts : erase(orders, ts)[k] = orders[k]
  BY DEF erase, Restrict

(* The same of the active orders and the done_tokens of a loop.            *)
LEMMA EraseDone ==
    ASSUME active_orders \in [DOMAIN active_orders -> Ouch_Order]
    PROVE  LET rest == erase(active_orders, done_tokens)
           IN  /\ DOMAIN rest = DOMAIN active_orders \ done_tokens
               /\ rest \in [DOMAIN rest -> Ouch_Order]
               /\ \A k \in DOMAIN active_orders \ done_tokens : rest[k] = active_orders[k]
  BY EraseFacts, Zenon

(* A loop ends by erasing the orders it has marked as done.                *)
LEMMA LoopEnds ==
    ASSUME IInv, TypeOK', active_orders' = erase(active_orders, done_tokens),
           done_tokens' = {}, phase' # "cancel_all", UNCHANGED book
    PROVE  IInv'
<1> USE DEF IInv
<1>1. active_orders \in [DOMAIN active_orders -> Ouch_Order]
  BY DEF TypeOK
<1>2. DOMAIN active_orders' = DOMAIN active_orders \ done_tokens
  BY <1>1, EraseDone
<1>3. \A k \in DOMAIN active_orders' : k \notin done_tokens /\ active_orders'[k] = active_orders[k]
  <2>1. \A k \in DOMAIN active_orders \ done_tokens :
            erase(active_orders, done_tokens)[k] = active_orders[k]
    BY <1>1, EraseDone
  <2> QED
    BY <1>2, <2>1
<1>4. KeyIsToken' /\ QtySound' /\ ClientAgrees'
  BY <1>2, <1>3 DEF KeyIsToken, QtySound, ClientAgrees
<1>5. ErasedIsClosed' /\ LoopsConsistent'
  BY <1>2, <1>3 DEF ErasedIsClosed, LoopsConsistent
<1> QED
  BY <1>4, <1>5

(* The end of cancel_logic preserves the invariant.                        *)
LEMMA CancelEndsStep == ASSUME IInv, cancel_logic_ends PROVE IInv'
<1>1. active_orders \in [DOMAIN active_orders -> Ouch_Order] /\ DOMAIN active_orders \subseteq Tokens
  BY DEF IInv, TypeOK
<1>2. /\ DOMAIN active_orders' \subseteq DOMAIN active_orders
      /\ active_orders' \in [DOMAIN active_orders' -> Ouch_Order]
  BY <1>1, EraseDone DEF cancel_logic_ends
<1>3. TypeOK'
  BY <1>1, <1>2 DEF cancel_logic_ends, enter_loop, IInv, TypeOK, Phases, session_vars, out
<1>4. /\ active_orders' = erase(active_orders, done_tokens) /\ done_tokens' = {}
      /\ phase' # "cancel_all" /\ UNCHANGED book
  BY DEF cancel_logic_ends, enter_loop, out
<1> QED
  BY <1>3, <1>4, LoopEnds

(* The end of modify_logic preserves the invariant.                        *)
LEMMA ModifyEndsStep == ASSUME IInv, modify_logic_ends PROVE IInv'
<1>1. active_orders \in [DOMAIN active_orders -> Ouch_Order] /\ DOMAIN active_orders \subseteq Tokens
  BY DEF IInv, TypeOK
<1>2. /\ DOMAIN active_orders' \subseteq DOMAIN active_orders
      /\ active_orders' \in [DOMAIN active_orders' -> Ouch_Order]
  BY <1>1, EraseDone DEF modify_logic_ends
<1>3. TypeOK'
  BY <1>1, <1>2 DEF modify_logic_ends, enter_loop, IInv, TypeOK, Phases, session_vars, queues, out
<1>4. /\ active_orders' = erase(active_orders, done_tokens) /\ done_tokens' = {}
      /\ phase' # "cancel_all" /\ UNCHANGED book
  BY DEF modify_logic_ends, enter_loop, out
<1> QED
  BY <1>3, <1>4, LoopEnds

(* The end of replace_logic preserves the invariant.                       *)
LEMMA ReplaceEndsStep == ASSUME IInv, replace_logic_ends PROVE IInv'
<1>1. active_orders \in [DOMAIN active_orders -> Ouch_Order] /\ DOMAIN active_orders \subseteq Tokens
  BY DEF IInv, TypeOK
<1>2. /\ DOMAIN active_orders' \subseteq DOMAIN active_orders
      /\ active_orders' \in [DOMAIN active_orders' -> Ouch_Order]
  BY <1>1, EraseDone DEF replace_logic_ends
<1>3. TypeOK'
  BY <1>1, <1>2 DEF replace_logic_ends, enter_loop, IInv, TypeOK, Phases, session_vars, out
<1>4. /\ active_orders' = erase(active_orders, done_tokens) /\ done_tokens' = {}
      /\ phase' # "cancel_all" /\ UNCHANGED book
  BY DEF replace_logic_ends, enter_loop, out
<1> QED
  BY <1>3, <1>4, LoopEnds

(* The end of execution_logic preserves the invariant.                     *)
LEMMA ExecutionEndsStep == ASSUME IInv, execution_logic_ends PROVE IInv'
<1>1. active_orders \in [DOMAIN active_orders -> Ouch_Order] /\ DOMAIN active_orders \subseteq Tokens
  BY DEF IInv, TypeOK
<1>2. /\ DOMAIN active_orders' \subseteq DOMAIN active_orders
      /\ active_orders' \in [DOMAIN active_orders' -> Ouch_Order]
  BY <1>1, EraseDone DEF execution_logic_ends
<1>3. TypeOK'
  BY <1>1, <1>2 DEF execution_logic_ends, enter_loop, IInv, TypeOK, Phases, session_vars, queues, out
<1>4. /\ active_orders' = erase(active_orders, done_tokens) /\ done_tokens' = {}
      /\ phase' # "cancel_all" /\ UNCHANGED book
  BY DEF execution_logic_ends, enter_loop, out
<1> QED
  BY <1>3, <1>4, LoopEnds

(* The end of cancel_all preserves the invariant: the map is empty.        *)
LEMMA CancelAllEndsStep == ASSUME IInv, cancel_all_ends PROVE IInv'
<1> USE DEF IInv
<1>1. active_orders \in [DOMAIN active_orders -> Ouch_Order]
  BY DEF TypeOK
<1>2. /\ DOMAIN active_orders' = DOMAIN active_orders \ DOMAIN active_orders
      /\ active_orders' \in [DOMAIN active_orders' -> Ouch_Order]
  BY <1>1, EraseFacts DEF cancel_all_ends
<1>3. TypeOK'
  BY <1>2 DEF cancel_all_ends, enter_loop, TypeOK, Phases, session_vars, queues, out
<1> QED
  BY <1>2, <1>3 DEF cancel_all_ends, enter_loop, KeyIsToken, QtySound, ClientAgrees,
                   ErasedIsClosed, LoopsConsistent

-----------------------------------------------------------------------------
(* Steps that change an order. *)

(* An order is accepted: it is in the map, and the client knows its size.  *)
LEMMA AcceptFacts ==
    ASSUME TypeOK, NEW t \in Tokens, NEW qty \in 1 .. MAX_QTY, NEW tif \in Tifs,
           NEW min_qty \in MinQtys, NEW side \in EnterSides,
           active_orders' = put(active_orders, t, parse_order(t, qty, tif, min_qty, side, now)),
           push(construct_order_accepted(parse_order(t, qty, tif, min_qty, side, now)))
    PROVE  /\ DOMAIN active_orders' = DOMAIN active_orders \cup {t}
           /\ active_orders' \in [DOMAIN active_orders' -> Ouch_Order]
           /\ active_orders'[t].token = t /\ active_orders'[t].genuine
           /\ active_orders'[t].remaining_qty = qty /\ active_orders'[t].executed_qty = 0
           /\ active_orders'[t].state = "Live"
           /\ \A k \in DOMAIN active_orders \ {t} : active_orders'[k] = active_orders[k]
           /\ book' \in Book /\ pending_out_messages' \in Seq(Message)
           /\ book'[t] = [open |-> qty, executed |-> 0]
           /\ \A k \in Tokens \ {t} : book'[k] = book[k]
<1> DEFINE o == parse_order(t, qty, tif, min_qty, side, now)
<1>1. qty \in Nat /\ U32(qty) = qty
  BY QtyNat, U32Exact
<1>2. /\ o \in Ouch_Order /\ o.token = t /\ o.remaining_qty = qty /\ o.executed_qty = 0
      /\ o.state = "Live" /\ o.genuine
  BY <1>1, SessionAssumption DEF parse_order, Ouch_Order, OrderStates, AnySide, TypeOK
<1>3. push(construct_order_accepted(o)) /\ active_orders' = put(active_orders, t, o)
  OBVIOUS
<1> HIDE DEF o
<1>4. construct_order_accepted(o) = [type |-> "OrderAccepted", token |-> t, qty |-> qty]
  BY <1>1, <1>2 DEF construct_order_accepted
<1>5. construct_order_accepted(o) \in Message
  BY <1>1, <1>4 DEF Message
<1>6. /\ book' = [book EXCEPT ![t] = [open |-> qty, executed |-> 0]]
      /\ book' \in Book /\ pending_out_messages' \in Seq(Message)
  BY <1>1, <1>3, <1>4, <1>5, PushType, ViewAccepted DEF TypeOK, Book
<1>7. /\ DOMAIN active_orders' = DOMAIN active_orders \cup {t}
      /\ active_orders' \in [DOMAIN active_orders' -> Ouch_Order]
      /\ active_orders'[t] = o
      /\ \A k \in DOMAIN active_orders \ {t} : active_orders'[k] = active_orders[k]
  <2>1. active_orders \in [DOMAIN active_orders -> Ouch_Order]
    BY DEF TypeOK
  <2> QED
    BY <1>2, <1>3, <2>1 DEF put
<1>8. book'[t] = [open |-> qty, executed |-> 0] /\ \A k \in Tokens \ {t} : book'[k] = book[k]
  BY <1>6 DEF TypeOK, Book
<1> QED
  BY <1>2, <1>6, <1>7, <1>8

(* Accepting an order in enter_order preserves the invariant.              *)
LEMMA AcceptStep ==
    ASSUME IInv, NEW t \in Tokens, NEW qty, NEW tif \in Tifs, NEW min_qty \in MinQtys,
           NEW side \in EnterSides, accept_order(t, qty, tif, min_qty, side)
    PROVE  IInv'
<1> USE DEF IInv
<1>1. qty \in 1 .. MAX_QTY /\ qty >= 0 /\ qty + 0 <= MAX_QTY
  BY QtyNat DEF accept_order, validate_enter_order
<1>2. /\ DOMAIN active_orders' = DOMAIN active_orders \cup {t}
      /\ active_orders' \in [DOMAIN active_orders' -> Ouch_Order]
      /\ active_orders'[t].token = t /\ active_orders'[t].genuine
      /\ active_orders'[t].remaining_qty = qty /\ active_orders'[t].executed_qty = 0
      /\ active_orders'[t].state = "Live"
      /\ \A k \in DOMAIN active_orders \ {t} : active_orders'[k] = active_orders[k]
      /\ book' \in Book /\ pending_out_messages' \in Seq(Message)
      /\ book'[t] = [open |-> qty, executed |-> 0]
      /\ \A k \in Tokens \ {t} : book'[k] = book[k]
  BY <1>1, AcceptFacts DEF accept_order
<1>3. done_tokens = {} /\ done_tokens' = {} /\ phase' = "read" /\ todo' = {}
  BY DEF accept_order, Reading, TypeOK
<1>4. TypeOK'
  BY <1>2, <1>3 DEF accept_order, Reading, TypeOK, Phases, queues, Book
<1>5. KeyIsToken' /\ QtySound'
  BY <1>1, <1>2, <1>3 DEF KeyIsToken, QtySound
<1>6. ClientAgrees'
  BY <1>2, <1>3 DEF ClientAgrees, TypeOK
<1>7. ErasedIsClosed' /\ LoopsConsistent'
  BY <1>2, <1>3 DEF ErasedIsClosed, LoopsConsistent
<1> QED
  BY <1>4, <1>5, <1>6, <1>7

(* An OrderCanceled takes its decrement off the open shares of its token.  *)
LEMMA CanceledEffect ==
    ASSUME TypeOK, NEW t \in Tokens, NEW dec \in Int,
           NEW r \in {"UserRequested", "SystemCancel", "TimeOut", "IOC"},
           push(construct_order_canceled(dec, r, t))
    PROVE  /\ book' \in Book /\ pending_out_messages' \in Seq(Message)
           /\ \A k \in Tokens \ {t} : book'[k] = book[k]
           /\ book'[t].executed = book[t].executed
           /\ book'[t].open = Reduce(book[t].open, U32(dec))
<1>1. U32(dec) \in Nat
  BY U32Exact
<1>2. construct_order_canceled(dec, r, t)
        = [type |-> "OrderCanceled", token |-> t, decrement_qty |-> U32(dec), reason |-> r]
  BY DEF construct_order_canceled
<1>3. construct_order_canceled(dec, r, t) \in Message
  BY <1>1, <1>2 DEF Message
<1>4. book \in Book
  BY DEF TypeOK, Book
<1>5. book' = [book EXCEPT ![t].open = Reduce(@, U32(dec))]
  <2>1. book' = client_view(book, construct_order_canceled(dec, r, t))
    BY <1>3, PushType
  <2> QED
    BY <1>1, <1>2, <1>4, <2>1, ViewCanceled
<1> QED
  BY <1>3, <1>4, <1>5, PushType DEF Book

(* An OrderModified sets the open shares of its token.                     *)
LEMMA ModifiedEffect ==
    ASSUME TypeOK, NEW mo \in Ouch_ModifyOrderReq, NEW rem \in Int,
           push(construct_order_modified(rem, mo))
    PROVE  /\ book' \in Book /\ pending_out_messages' \in Seq(Message)
           /\ \A k \in Tokens \ {mo.token} : book'[k] = book[k]
           /\ book'[mo.token].executed = book[mo.token].executed
           /\ book'[mo.token].open = U32(rem)
<1>1. U32(rem) \in Nat /\ mo.token \in Tokens
  BY U32Exact DEF Ouch_ModifyOrderReq
<1>2. construct_order_modified(rem, mo)
        = [type |-> "OrderModified", token |-> mo.token, shares |-> U32(rem)]
  BY DEF construct_order_modified
<1>3. construct_order_modified(rem, mo) \in Message
  BY <1>1, <1>2 DEF Message
<1>4. book \in Book
  BY DEF TypeOK, Book
<1>5. book' = [book EXCEPT ![mo.token].open = U32(rem)]
  <2>1. book' = client_view(book, construct_order_modified(rem, mo))
    BY <1>3, PushType
  <2> QED
    BY <1>1, <1>2, <1>4, <2>1, ViewModified
<1> QED
  BY <1>1, <1>3, <1>4, <1>5, PushType DEF Book

(* An Executed moves shares from open to executed.                         *)
LEMMA ExecutedEffect ==
    ASSUME TypeOK, NEW o \in Ouch_Order, o.token \in Tokens, o.remaining_qty > 0,
           NEW rnd \in RandQtys, push(construct_order_executed(o, rnd))
    PROVE  /\ book' \in Book /\ pending_out_messages' \in Seq(Message)
           /\ \A k \in Tokens \ {o.token} : book'[k] = book[k]
           /\ book'[o.token].open = Reduce(book[o.token].open, U32(fill_qty(o, rnd)))
           /\ book'[o.token].executed = Count(book[o.token].executed + U32(fill_qty(o, rnd)))
<1>1. U32(fill_qty(o, rnd)) \in Nat
  <2>1. fill_qty(o, rnd) \in Int
    <3>1. fill_qty(o, rnd) \in 1 .. o.remaining_qty
      BY FillBounds
    <3> QED
      BY <3>1
  <2> QED
    BY <2>1, U32Exact
<1>2. construct_order_executed(o, rnd)
        = [type |-> "Executed", token |-> o.token, executed_qty |-> U32(fill_qty(o, rnd))]
  BY DEF construct_order_executed
<1>3. construct_order_executed(o, rnd) \in Message
  BY <1>1, <1>2 DEF Message
<1>4. book \in Book
  BY DEF TypeOK, Book
<1>5. book' = [book EXCEPT ![o.token] =
                 [open |-> Reduce(@.open, U32(fill_qty(o, rnd))),
                  executed |-> Count(@.executed + U32(fill_qty(o, rnd)))]]
  <2>1. book' = client_view(book, construct_order_executed(o, rnd))
    BY <1>3, PushType
  <2> QED
    BY <1>1, <1>2, <1>4, <2>1, ViewExecuted
<1> QED
  BY <1>3, <1>4, <1>5, PushType DEF Book

(* An OrderReplaced moves a ledger entry to the new token.                 *)
LEMMA ReplacedEffect ==
    ASSUME TypeOK, NEW ro \in Ouch_ReplaceOrderReq, NEW o \in Ouch_Order,
           o.token = ro.new_token, push(construct_order_replaced(ro, o))
    PROVE  /\ book' \in Book /\ pending_out_messages' \in Seq(Message)
           /\ \A k \in Tokens \ {ro.existing_token, ro.new_token} : book'[k] = book[k]
           /\ book'[ro.new_token] = [open |-> U32(o.remaining_qty),
                                     executed |-> book[ro.existing_token].executed]
           /\ ro.new_token # ro.existing_token =>
                book'[ro.existing_token] = [open |-> 0, executed |-> 0]
<1>1. /\ U32(o.remaining_qty) \in Nat
      /\ ro.existing_token \in Tokens /\ ro.new_token \in Tokens
  BY U32Exact DEF Ouch_ReplaceOrderReq, Ouch_Order
<1>2. construct_order_replaced(ro, o)
        = [type |-> "OrderReplaced", token |-> ro.new_token,
           orig_token |-> ro.existing_token, qty |-> U32(o.remaining_qty)]
  BY DEF construct_order_replaced
<1>3. construct_order_replaced(ro, o) \in Message
  BY <1>1, <1>2 DEF Message
<1>4. book \in Book
  BY DEF TypeOK, Book
<1>5. book' = [k \in Tokens |->
                 IF k = ro.new_token
                 THEN [open |-> U32(o.remaining_qty), executed |-> book[ro.existing_token].executed]
                 ELSE IF k = ro.existing_token THEN [open |-> 0, executed |-> 0] ELSE book[k]]
  <2>1. book' = client_view(book, construct_order_replaced(ro, o))
    BY <1>3, PushType
  <2> QED
    BY <1>1, <1>2, <1>4, <2>1, ViewReplaced
<1> QED
  BY <1>1, <1>3, <1>5, PushType

-----------------------------------------------------------------------------
(* The iterations of the loops of market_logic and cancel_all. *)

(* An iteration that leaves the map, the ledger and the marks alone.       *)
LEMMA QuietIteration ==
    ASSUME IInv, TypeOK', UNCHANGED <<active_orders, book, done_tokens, todo, phase, now>>
    PROVE  IInv'
  BY DEF IInv, KeyIsToken, QtySound, ClientAgrees, ErasedIsClosed, LoopsConsistent

(* What the invariant says of the quantities of one order.                 *)
LEMMA OrderQty ==
    ASSUME IInv, NEW t \in DOMAIN active_orders
    PROVE  /\ t \in Tokens
           /\ active_orders[t] \in Ouch_Order
           /\ active_orders[t].remaining_qty \in Int /\ active_orders[t].executed_qty \in Int
           /\ U32(active_orders[t].remaining_qty) \in Nat
           /\ active_orders[t].genuine =>
                 /\ active_orders[t].remaining_qty \in 0 .. MAX_QTY
                 /\ active_orders[t].executed_qty \in 0 .. MAX_QTY
                 /\ active_orders[t].remaining_qty + active_orders[t].executed_qty <= MAX_QTY
                 /\ U32(active_orders[t].remaining_qty) = active_orders[t].remaining_qty
<1>1. t \in Tokens /\ active_orders[t] \in Ouch_Order
  BY DEF IInv, TypeOK
<1>2. active_orders[t].remaining_qty \in Int /\ active_orders[t].executed_qty \in Int
  BY <1>1 DEF Ouch_Order
<1>3. active_orders[t].genuine =>
         /\ active_orders[t].remaining_qty \in 0 .. MAX_QTY
         /\ active_orders[t].executed_qty \in 0 .. MAX_QTY
         /\ active_orders[t].remaining_qty + active_orders[t].executed_qty <= MAX_QTY
  BY <1>2, QtyNat DEF IInv, QtySound
<1> QED
  BY <1>1, <1>2, <1>3, U32Exact

(* An OrderCanceled for all that remains of an order: the client knows     *)
(* that nothing of it is open.                                             *)
LEMMA ClosedEffect ==
    ASSUME IInv, NEW t \in DOMAIN active_orders,
           NEW dec \in {active_orders[t].remaining_qty, U32(active_orders[t].remaining_qty)},
           NEW r \in {"UserRequested", "SystemCancel", "TimeOut", "IOC"},
           push(construct_order_canceled(dec, r, t))
    PROVE  /\ book' \in Book /\ pending_out_messages' \in Seq(Message)
           /\ \A k \in Tokens \ {t} : book'[k] = book[k]
           /\ book'[t].executed = book[t].executed
           /\ active_orders[t].genuine => book'[t].open = 0
<1> DEFINE o == active_orders[t]
<1>1. t \in Tokens /\ o.remaining_qty \in Int /\ U32(o.remaining_qty) \in Nat /\ dec \in Int
  BY OrderQty
<1>2. /\ book' \in Book /\ pending_out_messages' \in Seq(Message)
      /\ \A k \in Tokens \ {t} : book'[k] = book[k]
      /\ book'[t].executed = book[t].executed
      /\ book'[t].open = Reduce(book[t].open, U32(dec))
  BY <1>1, CanceledEffect DEF IInv
<1>3. U32(dec) \in Nat
  BY <1>1, U32Exact
<1>4. o.genuine => U32(dec) = o.remaining_qty
  BY OrderQty
<1>5. o.genuine => book[t].open \in {o.remaining_qty, 0}
  BY DEF IInv, ClientAgrees
<1>6. o.genuine => book'[t].open = 0
  BY <1>1, <1>2, <1>3, <1>4, <1>5 DEF Reduce
<1> QED
  BY <1>2, <1>6

(* A partial cancel: what is left of the order is what the client computes. *)
LEMMA TrimFacts ==
    ASSUME IInv, NEW t \in DOMAIN active_orders, NEW qty \in 1 .. MAX_QTY,
           qty < U32(active_orders[t].remaining_qty),
           active_orders' = [active_orders EXCEPT ![t].remaining_qty = qty],
           push(construct_order_canceled(U32(active_orders[t].remaining_qty) - qty, "UserRequested", t))
    PROVE  /\ DOMAIN active_orders' = DOMAIN active_orders
           /\ active_orders' \in [DOMAIN active_orders' -> Ouch_Order]
           /\ active_orders'[t] = [active_orders[t] EXCEPT !.remaining_qty = qty]
           /\ \A k \in DOMAIN active_orders \ {t} : active_orders'[k] = active_orders[k]
           /\ book' \in Book /\ pending_out_messages' \in Seq(Message)
           /\ \A k \in Tokens \ {t} : book'[k] = book[k]
           /\ book'[t].executed = book[t].executed
           /\ active_orders[t].genuine =>
                 /\ active_orders[t].remaining_qty \in 0 .. MAX_QTY
                 /\ qty < active_orders[t].remaining_qty
                 /\ book'[t].open = Reduce(book[t].open, active_orders[t].remaining_qty - qty)
                 /\ book'[t].open = IF book[t].open = 0 THEN 0 ELSE qty
<1> DEFINE o == active_orders[t]
<1>1. /\ t \in Tokens /\ o \in Ouch_Order /\ o.remaining_qty \in Int
      /\ U32(o.remaining_qty) \in Nat
  BY OrderQty
<1>2. qty \in Nat /\ U32(o.remaining_qty) - qty \in Int
  BY <1>1, QtyNat
<1>3. /\ book' \in Book /\ pending_out_messages' \in Seq(Message)
      /\ \A k \in Tokens \ {t} : book'[k] = book[k]
      /\ book'[t].executed = book[t].executed
      /\ book'[t].open = Reduce(book[t].open, U32(U32(o.remaining_qty) - qty))
  BY <1>1, <1>2, CanceledEffect DEF IInv
<1>4. /\ DOMAIN active_orders' = DOMAIN active_orders
      /\ active_orders' \in [DOMAIN active_orders' -> Ouch_Order]
      /\ active_orders'[t] = [o EXCEPT !.remaining_qty = qty]
      /\ \A k \in DOMAIN active_orders \ {t} : active_orders'[k] = active_orders[k]
  <2>1. [o EXCEPT !.remaining_qty = qty] \in Ouch_Order
    BY <1>1, <1>2 DEF Ouch_Order
  <2>2. active_orders \in [DOMAIN active_orders -> Ouch_Order]
    BY DEF IInv, TypeOK
  <2> QED
    BY <2>1, <2>2
<1>5. o.genuine => /\ o.remaining_qty \in 0 .. MAX_QTY /\ qty < o.remaining_qty
                   /\ U32(U32(o.remaining_qty) - qty) = o.remaining_qty - qty
  <2>1. o.genuine => o.remaining_qty \in 0 .. MAX_QTY /\ U32(o.remaining_qty) = o.remaining_qty
    BY OrderQty
  <2>2. o.genuine => o.remaining_qty - qty \in 0 .. MAX_QTY
    BY <1>2, <2>1, QtyNat
  <2> QED
    BY <1>2, <2>1, <2>2, U32Exact
<1>6. o.genuine => book[t].open \in {o.remaining_qty, 0}
  BY DEF IInv, ClientAgrees
<1>7. o.genuine => book'[t].open = IF book[t].open = 0 THEN 0 ELSE qty
  BY <1>1, <1>2, <1>3, <1>5, <1>6 DEF Reduce
<1> QED
  BY <1>3, <1>4, <1>5, <1>7

(* An iteration of cancel_logic preserves the invariant.                   *)
LEMMA CancelStep == ASSUME IInv, cancel_logic PROVE IInv'
<1> USE DEF IInv
<1> DEFINE co == pending_cancel[cursor]
           t == co.token
           o == active_orders[t]
<1>1. /\ phase = "cancel" /\ cursor \in Nat \ {0} /\ cursor' = cursor + 1
      /\ UNCHANGED <<session_vars, finished_orders, queues, connected, now, phase, todo>>
  BY DEF cancel_logic, TypeOK
<1>2. co \in Ouch_CancelOrderReq
  BY <1>1 DEF cancel_logic, TypeOK
<1>3. t \in Tokens /\ co.qty \in 0 .. MAX_QTY
  BY <1>2 DEF Ouch_CancelOrderReq
<1>4. TypeOK' \/ ~ (/\ DOMAIN active_orders' = DOMAIN active_orders
                    /\ active_orders' \in [DOMAIN active_orders' -> Ouch_Order]
                    /\ done_tokens' \subseteq Tokens
                    /\ book' \in Book /\ pending_out_messages' \in Seq(Message))
  BY <1>1 DEF TypeOK, session_vars, queues, Book
<1> HIDE DEF co
<1>5. CASE /\ push(construct_cancel_rejected(t))
           /\ UNCHANGED <<active_orders, done_tokens>>
  <2>1. construct_cancel_rejected(t) \in Message /\ construct_cancel_rejected(t).type = "CancelReject"
    BY <1>3 DEF construct_cancel_rejected, Message
  <2>2. UNCHANGED book /\ book' \in Book /\ pending_out_messages' \in Seq(Message)
    BY <1>5, <2>1, PushType, SessionMessages
  <2>3. TypeOK'
    BY <1>4, <1>5, <2>2 DEF TypeOK
  <2> QED
    BY <1>1, <1>5, <2>2, <2>3, QuietIteration
<1>6. CASE UNCHANGED <<active_orders, done_tokens, out>>
  <2>1. TypeOK'
    BY <1>4, <1>6 DEF TypeOK, Book, out
  <2> QED
    BY <1>1, <1>6, <2>1, QuietIteration DEF out
<1>7. CASE /\ t \in DOMAIN active_orders
           /\ done_tokens' = done_tokens \cup {t}
           /\ push(construct_order_canceled(U32(o.remaining_qty), "UserRequested", t))
           /\ UNCHANGED active_orders
  <2>1. /\ book' \in Book /\ pending_out_messages' \in Seq(Message)
        /\ \A k \in Tokens \ {t} : book'[k] = book[k]
        /\ book'[t].executed = book[t].executed
        /\ o.genuine => book'[t].open = 0
    BY <1>7, ClosedEffect
  <2>2. TypeOK'
    BY <1>3, <1>4, <1>7, <2>1 DEF TypeOK
  <2>3. KeyIsToken' /\ QtySound' /\ LoopsConsistent'
    BY <1>1, <1>7 DEF KeyIsToken, QtySound, LoopsConsistent
  <2>4. ClientAgrees'
    BY <1>7, <2>1 DEF ClientAgrees, TypeOK
  <2>5. ErasedIsClosed'
    BY <1>1, <1>7, <2>1 DEF ErasedIsClosed, TypeOK
  <2> QED
    BY <2>2, <2>3, <2>4, <2>5
<1>8. CASE /\ t \in DOMAIN active_orders
           /\ co.qty > 0 /\ co.qty < U32(o.remaining_qty)
           /\ active_orders' = [active_orders EXCEPT ![t].remaining_qty = co.qty]
           /\ push(construct_order_canceled(U32(o.remaining_qty) - co.qty, "UserRequested", t))
           /\ UNCHANGED done_tokens
  <2>1. co.qty \in 1 .. MAX_QTY
    BY <1>3, <1>8, QtyNat
  <2>2. o \in Ouch_Order /\ o.executed_qty \in Int
    BY <1>8, OrderQty
  <2>3. /\ DOMAIN active_orders' = DOMAIN active_orders
        /\ active_orders' \in [DOMAIN active_orders' -> Ouch_Order]
        /\ active_orders'[t] = [o EXCEPT !.remaining_qty = co.qty]
        /\ \A k \in DOMAIN active_orders \ {t} : active_orders'[k] = active_orders[k]
        /\ book' \in Book /\ pending_out_messages' \in Seq(Message)
        /\ \A k \in Tokens \ {t} : book'[k] = book[k]
        /\ book'[t].executed = book[t].executed
    BY <1>8, <2>1, TrimFacts
  <2>4. o.genuine => /\ o.remaining_qty \in 0 .. MAX_QTY
                     /\ co.qty < o.remaining_qty
                     /\ book'[t].open = IF book[t].open = 0 THEN 0 ELSE co.qty
    BY <1>8, <2>1, TrimFacts
  <2>5. /\ active_orders'[t].remaining_qty = co.qty
        /\ active_orders'[t].executed_qty = o.executed_qty
        /\ active_orders'[t].token = o.token
        /\ active_orders'[t].state = o.state
        /\ active_orders'[t].genuine = o.genuine
    BY <2>2, <2>3 DEF Ouch_Order
  <2>6. TypeOK'
    BY <1>4, <1>8, <2>3 DEF TypeOK
  <2>7. KeyIsToken' /\ LoopsConsistent'
    BY <1>1, <1>8, <2>3, <2>5 DEF KeyIsToken, LoopsConsistent
  <2>8. QtySound'
    <3>1. o.genuine => /\ co.qty >= 0
                       /\ o.executed_qty >= 0
                       /\ co.qty + o.executed_qty <= MAX_QTY
      BY <1>3, <1>8, <2>1, <2>2, <2>4, QtyNat DEF QtySound
    <3> QED
      BY <3>1, <2>3, <2>5 DEF QtySound
  <2>9. ClientAgrees'
    <3>1. o.genuine => \/ book'[t].open = co.qty
                       \/ t \in done_tokens /\ book'[t].open = 0
      BY <1>8, <2>1, <2>4, QtyNat DEF ClientAgrees
    <3> QED
      BY <1>8, <2>3, <2>5, <3>1 DEF ClientAgrees, TypeOK
  <2>10. ErasedIsClosed'
    <3>1. o.genuine /\ t \in done_tokens => book'[t].open = 0
      BY <1>1, <1>8, <2>4 DEF ErasedIsClosed
    <3> QED
      BY <1>1, <1>8, <2>3, <2>5, <3>1 DEF ErasedIsClosed, TypeOK
  <2> QED
    BY <2>6, <2>7, <2>8, <2>9, <2>10
<1> QED
  BY <1>5, <1>6, <1>7, <1>8 DEF cancel_logic, co

(* A modify is applied: the order keeps what it has executed, and the      *)
(* client knows what is left of it.                                        *)
LEMMA RestateFacts ==
    ASSUME IInv, NEW mo \in Ouch_ModifyOrderReq, mo.token \in DOMAIN active_orders,
           active_orders[mo.token].executed_qty < mo.req_qty,
           active_orders' = [active_orders EXCEPT ![mo.token] = modified(@, mo)],
           push(construct_order_modified(modified(active_orders[mo.token], mo).remaining_qty, mo))
    PROVE  /\ DOMAIN active_orders' = DOMAIN active_orders
           /\ active_orders' \in [DOMAIN active_orders' -> Ouch_Order]
           /\ active_orders'[mo.token].remaining_qty
                = mo.req_qty - active_orders[mo.token].executed_qty
           /\ active_orders'[mo.token]
                = [active_orders[mo.token] EXCEPT
                     !.side = mo.new_side,
                     !.remaining_qty = mo.req_qty - active_orders[mo.token].executed_qty]
           /\ \A k \in DOMAIN active_orders \ {mo.token} : active_orders'[k] = active_orders[k]
           /\ book' \in Book /\ pending_out_messages' \in Seq(Message)
           /\ \A k \in Tokens \ {mo.token} : book'[k] = book[k]
           /\ book'[mo.token].executed = book[mo.token].executed
           /\ active_orders[mo.token].genuine =>
                 /\ active_orders[mo.token].executed_qty >= 0
                 /\ mo.req_qty - active_orders[mo.token].executed_qty \in 1 .. MAX_QTY
                 /\ book'[mo.token].open = mo.req_qty - active_orders[mo.token].executed_qty
<1> DEFINE t == mo.token
           o == active_orders[t]
           n == modified(o, mo)
           left == mo.req_qty - o.executed_qty
<1>1. /\ o \in Ouch_Order /\ o.executed_qty \in Int
      /\ o.genuine => o.executed_qty \in 0 .. MAX_QTY
  BY OrderQty
<1>2. mo.req_qty \in 0 .. MAX_QTY /\ mo.new_side \in AnySide
  BY DEF Ouch_ModifyOrderReq
<1>3. left \in Int
  BY <1>1, <1>2, QtyNat
<1>4. n = [o EXCEPT !.side = mo.new_side, !.remaining_qty = left] /\ n \in Ouch_Order
      /\ n.remaining_qty = left
  BY <1>1, <1>2, <1>3 DEF modified, Ouch_Order
<1>5. o.genuine => left \in 1 .. MAX_QTY /\ U32(left) = left
  <2>1. o.genuine => left \in 1 .. MAX_QTY
    BY <1>1, <1>2, QtyNat
  <2>2. left \in 1 .. MAX_QTY => left \in 0 .. MAX_QTY
    BY QtyNat
  <2> QED
    BY <1>3, <2>1, <2>2, U32Exact
<1>6. push(construct_order_modified(left, mo))
  BY <1>4
<1>7. /\ book' \in Book /\ pending_out_messages' \in Seq(Message)
      /\ \A k \in Tokens \ {t} : book'[k] = book[k]
      /\ book'[t].executed = book[t].executed
      /\ book'[t].open = U32(left)
  BY <1>3, <1>6, ModifiedEffect DEF IInv
<1>8. active_orders' = [active_orders EXCEPT ![t] = n]
  OBVIOUS
<1> HIDE DEF n, left
<1>9. /\ DOMAIN active_orders' = DOMAIN active_orders
      /\ active_orders' \in [DOMAIN active_orders' -> Ouch_Order]
      /\ active_orders'[t] = n
      /\ \A k \in DOMAIN active_orders \ {t} : active_orders'[k] = active_orders[k]
  <2>1. active_orders \in [DOMAIN active_orders -> Ouch_Order]
    BY DEF IInv, TypeOK
  <2> QED
    BY <1>4, <1>8, <2>1
<1>10. o.genuine => o.executed_qty >= 0
  BY <1>1, QtyNat
<1> QED
  BY <1>4, <1>5, <1>7, <1>9, <1>10 DEF left

(* An iteration of modify_logic preserves the invariant.                   *)
LEMMA ModifyStep == ASSUME IInv, modify_logic PROVE IInv'
<1> USE DEF IInv
<1> DEFINE mo == pending_modify[cursor]
           t == mo.token
           o == active_orders[t]
<1>1. /\ phase = "modify" /\ cursor \in Nat \ {0} /\ cursor' = cursor + 1
      /\ UNCHANGED <<session_vars, finished_orders, queues, connected, now, phase, todo>>
  BY DEF modify_logic, TypeOK
<1>2. mo \in Ouch_ModifyOrderReq
  BY <1>1 DEF modify_logic, TypeOK
<1>3. t \in Tokens /\ mo.req_qty \in 0 .. MAX_QTY /\ mo.new_side \in AnySide
  BY <1>2 DEF Ouch_ModifyOrderReq
<1>4. TypeOK' \/ ~ (/\ DOMAIN active_orders' = DOMAIN active_orders
                    /\ active_orders' \in [DOMAIN active_orders' -> Ouch_Order]
                    /\ done_tokens' \subseteq Tokens
                    /\ book' \in Book /\ pending_out_messages' \in Seq(Message))
  BY <1>1 DEF TypeOK, session_vars, queues, Book
<1> HIDE DEF mo
<1>5. CASE UNCHANGED <<active_orders, done_tokens, out>>
  <2>1. TypeOK'
    BY <1>4, <1>5 DEF TypeOK, Book, out
  <2> QED
    BY <1>1, <1>5, <2>1, QuietIteration DEF out
<1>6. CASE /\ t \in DOMAIN active_orders
           /\ done_tokens' = done_tokens \cup {o.token}
           /\ push(construct_order_modified(0, mo))
           /\ UNCHANGED active_orders
  <2>1. o.token = t
    BY <1>1, <1>6 DEF KeyIsToken
  <2>2. /\ book' \in Book /\ pending_out_messages' \in Seq(Message)
        /\ \A k \in Tokens \ {t} : book'[k] = book[k]
        /\ book'[t].executed = book[t].executed
        /\ book'[t].open = 0
    <3>1. U32(0) = 0
      BY U32Exact, QtyNat
    <3> QED
      BY <1>2, <1>6, <3>1, ModifiedEffect
  <2>3. TypeOK'
    BY <1>3, <1>4, <1>6, <2>1, <2>2 DEF TypeOK
  <2>4. KeyIsToken' /\ QtySound' /\ LoopsConsistent' /\ ErasedIsClosed'
    BY <1>1, <1>6 DEF KeyIsToken, QtySound, LoopsConsistent, ErasedIsClosed
  <2>5. ClientAgrees'
    BY <1>6, <2>1, <2>2 DEF ClientAgrees, TypeOK
  <2> QED
    BY <2>3, <2>4, <2>5
<1>7. CASE /\ t \in DOMAIN active_orders
           /\ o.executed_qty < mo.req_qty
           /\ active_orders' = [active_orders EXCEPT ![t] = modified(@, mo)]
           /\ push(construct_order_modified(modified(o, mo).remaining_qty, mo))
           /\ UNCHANGED done_tokens
  <2>1. o \in Ouch_Order /\ o.executed_qty \in Int
    BY <1>7, OrderQty
  <2>2. /\ DOMAIN active_orders' = DOMAIN active_orders
        /\ active_orders' \in [DOMAIN active_orders' -> Ouch_Order]
        /\ active_orders'[t] = [o EXCEPT !.side = mo.new_side,
                                        !.remaining_qty = mo.req_qty - o.executed_qty]
        /\ \A k \in DOMAIN active_orders \ {t} : active_orders'[k] = active_orders[k]
        /\ book' \in Book /\ pending_out_messages' \in Seq(Message)
        /\ \A k \in Tokens \ {t} : book'[k] = book[k]
        /\ book'[t].executed = book[t].executed
    BY <1>2, <1>7, RestateFacts
  <2>3. o.genuine => /\ o.executed_qty >= 0
                     /\ mo.req_qty - o.executed_qty \in 1 .. MAX_QTY
                     /\ book'[t].open = mo.req_qty - o.executed_qty
    BY <1>2, <1>7, RestateFacts
  <2>4. /\ active_orders'[t].remaining_qty = mo.req_qty - o.executed_qty
        /\ active_orders'[t].executed_qty = o.executed_qty
        /\ active_orders'[t].token = o.token
        /\ active_orders'[t].state = o.state
        /\ active_orders'[t].genuine = o.genuine
    BY <2>1, <2>2 DEF Ouch_Order
  <2>5. TypeOK'
    BY <1>4, <1>7, <2>2 DEF TypeOK
  <2>6. KeyIsToken' /\ LoopsConsistent' /\ ErasedIsClosed'
    BY <1>1, <1>7, <2>2, <2>4 DEF KeyIsToken, LoopsConsistent, ErasedIsClosed
  <2>7. QtySound'
    <3>1. o.genuine => /\ active_orders'[t].remaining_qty >= 0
                       /\ active_orders'[t].executed_qty >= 0
                       /\ active_orders'[t].remaining_qty + active_orders'[t].executed_qty <= MAX_QTY
      BY <1>3, <2>1, <2>3, <2>4, QtyNat
    <3> QED
      BY <2>2, <2>4, <3>1 DEF QtySound
  <2>8. ClientAgrees'
    BY <1>7, <2>2, <2>3, <2>4 DEF ClientAgrees, TypeOK
  <2> QED
    BY <2>5, <2>6, <2>7, <2>8
<1> QED
  BY <1>5, <1>6, <1>7 DEF modify_logic, mo

(* The order a replace is about: an unknown token gets a new one.          *)
Target(t, g) == IF t \in DOMAIN active_orders THEN active_orders[t] ELSE default_order(g, now)

(* The target is an order of the map, or one nobody entered.               *)
LEMMA TargetFacts ==
    ASSUME IInv, NEW t \in Tokens, NEW g \in Garbage
    PROVE  /\ Target(t, g) \in Ouch_Order
           /\ Target(t, g).remaining_qty \in Int /\ Target(t, g).executed_qty \in Int
           /\ t \notin DOMAIN active_orders => ~ Target(t, g).genuine
           /\ t \in DOMAIN active_orders => Target(t, g) = active_orders[t]
<1>1. default_order(g, now) \in Ouch_Order /\ ~ default_order(g, now).genuine
  BY SessionAssumption DEF default_order, Ouch_Order, GarbageFields, IInv, TypeOK
<1>2. Target(t, g) \in Ouch_Order
  BY <1>1 DEF Target, IInv, TypeOK
<1> QED
  BY <1>1, <1>2 DEF Target, Ouch_Order

(* The two outcomes of a replace: the order t is marked as done, or it     *)
(* moves to the token u.                                                   *)
Refused(t, g) ==
    /\ active_orders' = put(active_orders, t, Target(t, g))
    /\ done_tokens' = done_tokens \cup {t}
    /\ push(construct_order_canceled(Target(t, g).remaining_qty, "SystemCancel", t))
Replaced(ro, t, u, g) ==
    /\ t = ro.existing_token /\ u = ro.new_token
    /\ ro.qty > Target(t, g).executed_qty
    /\ active_orders' = move(active_orders, t, u, replaced(Target(t, g), ro))
    /\ push(construct_order_replaced(ro, replaced(Target(t, g), ro)))
    /\ UNCHANGED done_tokens

(* What an iteration of replace_logic does, by its outcome.                *)
LEMMA ReplaceCases ==
    ASSUME IInv, replace_logic
    PROVE  \E g \in Garbage, ro \in Ouch_ReplaceOrderReq, t, u \in Tokens :
              /\ cursor \in DOMAIN pending_replace /\ ro = pending_replace[cursor]
              /\ Refused(t, g) \/ Replaced(ro, t, u, g)
<1> DEFINE r == pending_replace[cursor]
<1>1. r \in Ouch_ReplaceOrderReq /\ cursor \in DOMAIN pending_replace
  BY DEF replace_logic, IInv, TypeOK
<1>2. PICK t \in Tokens, u \in Tokens : t = r.existing_token /\ u = r.new_token
  BY <1>1 DEF Ouch_ReplaceOrderReq
<1>3. PICK g \in Garbage :
        LET ro == pending_replace[cursor]
            k == ro.existing_token
            target_order == IF k \in DOMAIN active_orders THEN active_orders[k]
                            ELSE default_order(g, now)
            new_order == replaced(target_order, ro)
            refused == ro.qty > MAX_SHARES \/ ro.qty <= target_order.executed_qty
        IN  \/ /\ refused
               /\ active_orders' = put(active_orders, k, target_order)
               /\ done_tokens' = done_tokens \cup {k}
               /\ push(construct_order_canceled(target_order.remaining_qty, "SystemCancel", k))
            \/ /\ ~ refused
               /\ active_orders' = move(active_orders, k, ro.new_token, new_order)
               /\ push(construct_order_replaced(ro, new_order))
               /\ UNCHANGED done_tokens
  BY DEF replace_logic
<1>4. \/ /\ active_orders' = put(active_orders, t, Target(t, g))
         /\ done_tokens' = done_tokens \cup {t}
         /\ push(construct_order_canceled(Target(t, g).remaining_qty, "SystemCancel", t))
      \/ /\ ~ (r.qty <= Target(t, g).executed_qty)
         /\ active_orders' = move(active_orders, t, u, replaced(Target(t, g), r))
         /\ push(construct_order_replaced(r, replaced(Target(t, g), r)))
         /\ UNCHANGED done_tokens
  BY <1>2, <1>3 DEF Target
<1>5. r.qty \in Int /\ Target(t, g).executed_qty \in Int
  BY <1>1, TargetFacts, QtyNat DEF Ouch_ReplaceOrderReq
<1>6. Refused(t, g) \/ Replaced(r, t, u, g)
  <2> HIDE DEF r
  <2> QED
    BY <1>2, <1>4, <1>5 DEF Refused, Replaced
<1> QED
  BY <1>1, <1>6

(* A replace is refused: the map is as it was, but for an order nobody     *)
(* entered, and the client knows that nothing of the order is open.        *)
LEMMA RefuseFacts ==
    ASSUME IInv, NEW t \in Tokens, NEW g \in Garbage, Refused(t, g)
    PROVE  /\ DOMAIN active_orders' = DOMAIN active_orders \cup {t}
           /\ active_orders' \in [DOMAIN active_orders' -> Ouch_Order]
           /\ \A k \in DOMAIN active_orders : active_orders'[k] = active_orders[k]
           /\ t \notin DOMAIN active_orders => ~ active_orders'[t].genuine
           /\ book' \in Book /\ pending_out_messages' \in Seq(Message)
           /\ \A k \in Tokens \ {t} : book'[k] = book[k]
           /\ book'[t].executed = book[t].executed
           /\ active_orders'[t].genuine => book'[t].open = 0
<1> DEFINE o == Target(t, g)
<1>1. /\ o \in Ouch_Order /\ o.remaining_qty \in Int
      /\ t \notin DOMAIN active_orders => ~ o.genuine
      /\ t \in DOMAIN active_orders => o = active_orders[t]
  BY TargetFacts
<1>2. active_orders \in [DOMAIN active_orders -> Ouch_Order]
  BY DEF IInv, TypeOK
<1>3. active_orders' = put(active_orders, t, o)
  BY DEF Refused
<1>4. /\ book' \in Book /\ pending_out_messages' \in Seq(Message)
      /\ \A k \in Tokens \ {t} : book'[k] = book[k]
      /\ book'[t].executed = book[t].executed
  BY <1>1, CanceledEffect DEF IInv, Refused
<1>5. o.genuine => book'[t].open = 0
  <2>1. SUFFICES ASSUME t \in DOMAIN active_orders, active_orders[t].genuine
                 PROVE  book'[t].open = 0
    BY <1>1
  <2>2. push(construct_order_canceled(active_orders[t].remaining_qty, "SystemCancel", t))
    BY <1>1, <2>1 DEF Refused
  <2> QED
    BY <2>1, <2>2, ClosedEffect
<1> HIDE DEF o
<1>6. /\ DOMAIN active_orders' = DOMAIN active_orders \cup {t}
      /\ active_orders' \in [DOMAIN active_orders' -> Ouch_Order]
      /\ active_orders'[t] = o
      /\ \A k \in DOMAIN active_orders \ {t} : active_orders'[k] = active_orders[k]
  BY <1>1, <1>2, <1>3 DEF put
<1> QED
  BY <1>1, <1>4, <1>5, <1>6

(* A replace is accepted: the order leaves its token for the new one.      *)
LEMMA ReplaceMoves ==
    ASSUME IInv, NEW ro \in Ouch_ReplaceOrderReq, NEW g \in Garbage,
           NEW t \in Tokens, NEW u \in Tokens, Replaced(ro, t, u, g)
    PROVE  /\ DOMAIN active_orders' = (DOMAIN active_orders \cup {u}) \ {t}
           /\ active_orders' \in [DOMAIN active_orders' -> Ouch_Order]
           /\ \A k \in DOMAIN active_orders \ {t, u} : active_orders'[k] = active_orders[k]
           /\ u # t => active_orders'[u] = replaced(Target(t, g), ro)
<1> DEFINE o == Target(t, g)
           n == replaced(o, ro)
<1>1. /\ o \in Ouch_Order /\ o.executed_qty \in Int
      /\ ro.qty \in Int /\ ro.time_in_force \in Nat
  BY TargetFacts, QtyNat DEF Ouch_ReplaceOrderReq
<1> HIDE DEF o
<1>2. n \in Ouch_Order
  <2>1. ro.qty - o.executed_qty \in Int
    BY <1>1
  <2> QED
    BY <1>1, <2>1 DEF Replaced, replaced, Ouch_Order
<1>3. active_orders \in [DOMAIN active_orders -> Ouch_Order]
  BY DEF IInv, TypeOK
<1>4. active_orders' = move(active_orders, t, u, n)
  BY DEF Replaced, o
<1> HIDE DEF n
<1>5. active_orders' = [k \in (DOMAIN active_orders \cup {u}) \ {t} |->
                          IF k = u THEN n ELSE active_orders[k]]
  BY <1>4 DEF move, put, erase, Restrict
<1>6. /\ DOMAIN active_orders' = (DOMAIN active_orders \cup {u}) \ {t}
      /\ active_orders' \in [DOMAIN active_orders' -> Ouch_Order]
      /\ \A k \in DOMAIN active_orders \ {t, u} : active_orders'[k] = active_orders[k]
      /\ u # t => active_orders'[u] = n
  BY <1>2, <1>3, <1>5
<1> QED
  BY <1>6 DEF n, o

(* It takes its executed shares and its ledger entry along.                *)
LEMMA ReplaceFacts ==
    ASSUME IInv, NEW ro \in Ouch_ReplaceOrderReq, NEW g \in Garbage,
           NEW t \in Tokens, NEW u \in Tokens, Replaced(ro, t, u, g)
    PROVE  /\ book' \in Book /\ pending_out_messages' \in Seq(Message)
           /\ \A k \in Tokens \ {t, u} : book'[k] = book[k]
           /\ book'[u].executed = book[t].executed
           /\ u # t =>
                 /\ book'[t] = [open |-> 0, executed |-> 0]
                 /\ active_orders'[u].token = u
                 /\ active_orders'[u].genuine <=>
                       t \in DOMAIN active_orders /\ active_orders[t].genuine
                 /\ active_orders'[u].genuine =>
                       /\ active_orders'[u].state = active_orders[t].state
                       /\ active_orders'[u].remaining_qty \in 1 .. MAX_QTY
                       /\ active_orders'[u].executed_qty = active_orders[t].executed_qty
                       /\ active_orders'[u].executed_qty \in 0 .. MAX_QTY
                       /\ active_orders'[u].remaining_qty + active_orders'[u].executed_qty <= MAX_QTY
                       /\ book'[u].open = active_orders'[u].remaining_qty
<1> DEFINE o == Target(t, g)
           n == replaced(o, ro)
<1>1. ro.qty \in 1 .. MAX_QTY /\ ro.time_in_force \in Nat /\ u = ro.new_token /\ t = ro.existing_token
  BY DEF Ouch_ReplaceOrderReq, Replaced
<1>2. /\ o \in Ouch_Order /\ o.executed_qty \in Int
      /\ t \notin DOMAIN active_orders => ~ o.genuine
      /\ t \in DOMAIN active_orders => o = active_orders[t]
  BY TargetFacts
<1>3. push(construct_order_replaced(ro, n)) /\ ro.qty > o.executed_qty
  BY DEF Replaced
<1>4. u # t => active_orders'[u] = n
  BY ReplaceMoves
<1> HIDE DEF o
<1>5. ro.qty - o.executed_qty \in Int
  BY <1>1, <1>2, QtyNat
<1>6. /\ n \in Ouch_Order
      /\ n.token = u
      /\ n.remaining_qty = ro.qty - o.executed_qty
      /\ n.executed_qty = o.executed_qty
      /\ n.state = o.state
      /\ n.genuine = o.genuine
  BY <1>1, <1>2, <1>5 DEF replaced, Ouch_Order
<1> HIDE DEF n
<1>7. /\ book' \in Book /\ pending_out_messages' \in Seq(Message)
      /\ \A k \in Tokens \ {t, u} : book'[k] = book[k]
      /\ book'[u] = [open |-> U32(n.remaining_qty), executed |-> book[t].executed]
      /\ u # t => book'[t] = [open |-> 0, executed |-> 0]
  BY <1>1, <1>3, <1>6, ReplacedEffect DEF IInv
<1>8. n.genuine => /\ n.executed_qty \in 0 .. MAX_QTY
                   /\ n.executed_qty = active_orders[t].executed_qty /\ n.state = active_orders[t].state
  BY <1>2, <1>6, OrderQty
<1>9. n.genuine => /\ n.remaining_qty \in 1 .. MAX_QTY
                   /\ n.remaining_qty + n.executed_qty <= MAX_QTY
  BY <1>1, <1>2, <1>3, <1>6, <1>8, QtyNat
<1>10. n.genuine => U32(n.remaining_qty) = n.remaining_qty
  <2>1. n.genuine => n.remaining_qty \in 0 .. MAX_QTY
    BY <1>9, QtyNat
  <2> QED
    BY <1>5, <1>6, <2>1, U32Exact
<1>11. n.genuine => book'[u].open = n.remaining_qty
  BY <1>7, <1>10
<1>12. n.genuine <=> t \in DOMAIN active_orders /\ active_orders[t].genuine
  BY <1>2, <1>6
<1>13. ASSUME u # t
       PROVE  /\ book'[t] = [open |-> 0, executed |-> 0]
              /\ active_orders'[u].token = u
              /\ active_orders'[u].genuine <=>
                    t \in DOMAIN active_orders /\ active_orders[t].genuine
              /\ active_orders'[u].genuine =>
                    /\ active_orders'[u].state = active_orders[t].state
                    /\ active_orders'[u].remaining_qty \in 1 .. MAX_QTY
                    /\ active_orders'[u].executed_qty = active_orders[t].executed_qty
                    /\ active_orders'[u].executed_qty \in 0 .. MAX_QTY
                    /\ active_orders'[u].remaining_qty + active_orders'[u].executed_qty <= MAX_QTY
                    /\ book'[u].open = active_orders'[u].remaining_qty
  <2>1. active_orders'[u] = n /\ book'[t] = [open |-> 0, executed |-> 0]
    BY <1>4, <1>7, <1>13
  <2> QED
    BY <1>6, <1>8, <1>9, <1>11, <1>12, <2>1
<1>14. book'[u].executed = book[t].executed
  BY <1>7
<1> QED
  BY <1>7, <1>13, <1>14

(* An iteration of replace_logic preserves the invariant.                  *)
LEMMA ReplaceStep == ASSUME IInv, replace_logic PROVE IInv'
<1>1. /\ phase = "replace" /\ cursor \in Nat \ {0} /\ cursor' = cursor + 1
      /\ UNCHANGED <<session_vars, finished_orders, queues, connected, now, phase, todo>>
  BY DEF replace_logic, IInv, TypeOK
<1>2. TypeOK' \/ ~ (/\ DOMAIN active_orders' \subseteq Tokens
                    /\ active_orders' \in [DOMAIN active_orders' -> Ouch_Order]
                    /\ done_tokens' \subseteq Tokens
                    /\ book' \in Book /\ pending_out_messages' \in Seq(Message))
  BY <1>1 DEF IInv, TypeOK, session_vars, queues, Book
<1>3. DOMAIN active_orders \subseteq Tokens
  BY DEF IInv, TypeOK
<1>4. PICK g \in Garbage, ro \in Ouch_ReplaceOrderReq, t \in Tokens, u \in Tokens :
         Refused(t, g) \/ Replaced(ro, t, u, g)
  BY ReplaceCases
<1>5. CASE Refused(t, g)
  <2>1. /\ DOMAIN active_orders' = DOMAIN active_orders \cup {t}
        /\ active_orders' \in [DOMAIN active_orders' -> Ouch_Order]
        /\ \A k \in DOMAIN active_orders : active_orders'[k] = active_orders[k]
        /\ t \notin DOMAIN active_orders => ~ active_orders'[t].genuine
        /\ book' \in Book /\ pending_out_messages' \in Seq(Message)
        /\ \A k \in Tokens \ {t} : book'[k] = book[k]
        /\ book'[t].executed = book[t].executed
        /\ active_orders'[t].genuine => book'[t].open = 0
    BY <1>5, RefuseFacts
  <2>2. done_tokens' = done_tokens \cup {t}
    BY <1>5 DEF Refused
  <2>3. TypeOK'
    BY <1>2, <1>3, <2>2, <2>1 DEF IInv, TypeOK
  <2>4. KeyIsToken' /\ LoopsConsistent' /\ ErasedIsClosed'
    BY <1>1, <2>2, <2>1 DEF IInv, KeyIsToken, LoopsConsistent, ErasedIsClosed
  <2>5. QtySound'
    BY <2>1 DEF IInv, QtySound
  <2>6. ClientAgrees'
    BY <1>3, <2>2, <2>1 DEF IInv, ClientAgrees
  <2> QED
    BY <2>3, <2>4, <2>5, <2>6 DEF IInv
<1>6. CASE Replaced(ro, t, u, g)
  <2>1. UNCHANGED done_tokens
    BY <1>6 DEF Replaced
  <2>2. /\ DOMAIN active_orders' = (DOMAIN active_orders \cup {u}) \ {t}
        /\ active_orders' \in [DOMAIN active_orders' -> Ouch_Order]
        /\ \A k \in DOMAIN active_orders \ {t, u} : active_orders'[k] = active_orders[k]
    BY <1>6, ReplaceMoves
  <2>3. /\ book' \in Book /\ pending_out_messages' \in Seq(Message)
        /\ \A k \in Tokens \ {t, u} : book'[k] = book[k]
        /\ book'[u].executed = book[t].executed
    BY <1>6, ReplaceFacts
  <2>4. u # t =>
          /\ active_orders'[u].token = u
          /\ active_orders'[u].genuine <=> t \in DOMAIN active_orders /\ active_orders[t].genuine
          /\ active_orders'[u].genuine =>
                /\ active_orders'[u].state = active_orders[t].state
                /\ active_orders'[u].remaining_qty \in 1 .. MAX_QTY
                /\ active_orders'[u].executed_qty = active_orders[t].executed_qty
                /\ active_orders'[u].executed_qty \in 0 .. MAX_QTY
                /\ active_orders'[u].remaining_qty + active_orders'[u].executed_qty <= MAX_QTY
                /\ book'[u].open = active_orders'[u].remaining_qty
    BY <1>6, ReplaceFacts
  <2>5. TypeOK'
    BY <1>2, <1>3, <2>1, <2>2, <2>3 DEF IInv, TypeOK
  <2>6. KeyIsToken'
    BY <1>1, <2>1, <2>2, <2>4 DEF IInv, KeyIsToken
  <2>7. LoopsConsistent' /\ ErasedIsClosed'
    <3>1. u # t /\ active_orders'[u].genuine => active_orders'[u].state = "Live"
      BY <1>1, <2>4 DEF IInv, LoopsConsistent
    <3> QED
      BY <1>1, <2>1, <2>2, <3>1 DEF IInv, LoopsConsistent, ErasedIsClosed
  <2>8. QtySound'
    <3>1. u # t /\ active_orders'[u].genuine =>
            /\ active_orders'[u].remaining_qty >= 0 /\ active_orders'[u].executed_qty >= 0
            /\ active_orders'[u].remaining_qty + active_orders'[u].executed_qty <= MAX_QTY
      BY <2>4, QtyNat
    <3> QED
      BY <2>2, <3>1 DEF IInv, QtySound
  <2>9. ClientAgrees'
    <3>1. u # t /\ active_orders'[u].genuine =>
            /\ book'[u].executed = active_orders'[u].executed_qty
            /\ book'[u].open = active_orders'[u].remaining_qty
      BY <2>3, <2>4 DEF IInv, ClientAgrees
    <3> QED
      BY <1>3, <2>1, <2>2, <2>3, <3>1 DEF IInv, ClientAgrees
  <2> QED
    BY <2>5, <2>6, <2>7, <2>8, <2>9 DEF IInv
<1> QED
  BY <1>4, <1>5, <1>6

(* An order is filled: the shares leave it and reach the client together.  *)
LEMMA FillFacts ==
    ASSUME IInv, NEW t \in DOMAIN active_orders, t \notin done_tokens, NEW rnd \in RandQtys,
           active_orders[t].remaining_qty > 0,
           active_orders' = [active_orders EXCEPT ![t] = filled(@, rnd)],
           push(construct_order_executed(active_orders[t], rnd))
    PROVE  /\ DOMAIN active_orders' = DOMAIN active_orders
           /\ active_orders' \in [DOMAIN active_orders' -> Ouch_Order]
           /\ \A k \in DOMAIN active_orders \ {t} : active_orders'[k] = active_orders[k]
           /\ fill_qty(active_orders[t], rnd) \in 1 .. active_orders[t].remaining_qty
           /\ active_orders'[t].remaining_qty
                = active_orders[t].remaining_qty - fill_qty(active_orders[t], rnd)
           /\ active_orders'[t].executed_qty
                = active_orders[t].executed_qty + fill_qty(active_orders[t], rnd)
           /\ active_orders'[t].token = active_orders[t].token
           /\ active_orders'[t].state = active_orders[t].state
           /\ active_orders'[t].genuine = active_orders[t].genuine
           /\ active_orders'[t].time_in_force = active_orders[t].time_in_force
           /\ active_orders'[t].recv_order_time = active_orders[t].recv_order_time
           /\ book' \in Book /\ pending_out_messages' \in Seq(Message)
           /\ \A k \in Tokens \ {t} : book'[k] = book[k]
           /\ active_orders[t].genuine =>
                 /\ book[t].open = active_orders[t].remaining_qty
                 /\ book[t].executed = active_orders[t].executed_qty
                 /\ book'[t].open = book[t].open - fill_qty(active_orders[t], rnd)
                 /\ book'[t].executed = book[t].executed + fill_qty(active_orders[t], rnd)
<1> DEFINE o == active_orders[t]
           q == fill_qty(o, rnd)
           n == filled(o, rnd)
<1>1. /\ t \in Tokens /\ o \in Ouch_Order /\ o.token = t
      /\ o.remaining_qty \in Int /\ o.executed_qty \in Int
      /\ o.genuine => /\ o.remaining_qty \in 0 .. MAX_QTY /\ o.executed_qty \in 0 .. MAX_QTY
                      /\ o.remaining_qty + o.executed_qty <= MAX_QTY
  BY OrderQty DEF IInv, KeyIsToken
<1>2. o.genuine => book[t].open = o.remaining_qty /\ book[t].executed = o.executed_qty
  BY DEF IInv, ClientAgrees
<1>3. q \in 1 .. o.remaining_qty /\ n \in Ouch_Order
  BY <1>1, FillBounds
<1>4. /\ n.remaining_qty = o.remaining_qty - q /\ n.executed_qty = o.executed_qty + q
      /\ n.token = o.token /\ n.state = o.state /\ n.genuine = o.genuine
      /\ n.time_in_force = o.time_in_force /\ n.recv_order_time = o.recv_order_time
  BY <1>1 DEF filled, Ouch_Order
<1>5. /\ book' \in Book /\ pending_out_messages' \in Seq(Message)
      /\ \A k \in Tokens \ {t} : book'[k] = book[k]
      /\ book'[t].open = Reduce(book[t].open, U32(q))
      /\ book'[t].executed = Count(book[t].executed + U32(q))
  BY <1>1, ExecutedEffect DEF IInv
<1>6. active_orders' = [active_orders EXCEPT ![t] = n]
  OBVIOUS
<1> HIDE DEF q, n
<1>7. /\ DOMAIN active_orders' = DOMAIN active_orders
      /\ active_orders' \in [DOMAIN active_orders' -> Ouch_Order]
      /\ active_orders'[t] = n
      /\ \A k \in DOMAIN active_orders \ {t} : active_orders'[k] = active_orders[k]
  <2>1. active_orders \in [DOMAIN active_orders -> Ouch_Order]
    BY DEF IInv, TypeOK
  <2> QED
    BY <1>3, <1>6, <2>1
<1>8. o.genuine => q \in 0 .. MAX_QTY /\ U32(q) = q
  <2>1. o.genuine => q \in 0 .. MAX_QTY
    BY <1>1, <1>3, QtyNat
  <2> QED
    BY <1>3, <2>1, U32Exact
<1>9. o.genuine => book'[t].open = book[t].open - q /\ book'[t].executed = book[t].executed + q
  BY <1>1, <1>2, <1>3, <1>5, <1>8, QtyNat DEF Reduce, Count, LedgerLimit
<1> QED
  BY <1>2, <1>3, <1>4, <1>5, <1>7, <1>9 DEF q

(* An iteration of execution_logic preserves the invariant.                *)
LEMMA ExecutionStep == ASSUME IInv, NEW t \in Tokens, execution_logic(t) PROVE IInv'
<1> USE DEF IInv
<1> DEFINE o == active_orders[t]
<1>1. /\ phase = "execution" /\ t \in todo /\ todo' = todo \ {t}
      /\ t \in DOMAIN active_orders /\ t \notin done_tokens
      /\ UNCHANGED <<session_vars, queues, connected, phase, cursor>>
  BY DEF execution_logic, TypeOK, LoopsConsistent
<1>2. /\ now \in Nat /\ now' \in Nat /\ 0 .. now \subseteq 0 .. now' /\ now' \in 0 .. now'
  <2>1. now' = now \/ now' = now + 1
    BY DEF execution_logic
  <2> QED
    BY <2>1 DEF TypeOK
<1>3. active_orders \in [DOMAIN active_orders -> Ouch_Order] /\ DOMAIN active_orders \subseteq Tokens
  BY DEF TypeOK
<1>4. /\ o \in Ouch_Order /\ o.token = t
      /\ o.remaining_qty \in Int /\ o.executed_qty \in Int
      /\ o.genuine => /\ o.state = "Live"
                      /\ o.remaining_qty \in 0 .. MAX_QTY /\ o.executed_qty \in 0 .. MAX_QTY
                      /\ o.remaining_qty + o.executed_qty <= MAX_QTY
                      /\ book[t].open = o.remaining_qty /\ book[t].executed = o.executed_qty
                      /\ U32(o.remaining_qty) = o.remaining_qty
  BY <1>1, OrderQty DEF KeyIsToken, LoopsConsistent, ClientAgrees
<1>5. TypeOK' \/ ~ (/\ DOMAIN active_orders' = DOMAIN active_orders
                    /\ active_orders' \in [DOMAIN active_orders' -> Ouch_Order]
                    /\ done_tokens' \subseteq Tokens /\ finished_orders' \subseteq Tokens
                    /\ book' \in Book /\ pending_out_messages' \in Seq(Message))
  BY <1>1, <1>2 DEF TypeOK, session_vars, queues, Book
\* The iteration changes nothing but the clock.
<1>6. CASE UNCHANGED <<active_orders, finished_orders, done_tokens, out>>
  <2>1. TypeOK'
    BY <1>5, <1>6 DEF TypeOK, Book, out
  <2>2. KeyIsToken' /\ QtySound' /\ ClientAgrees' /\ LoopsConsistent'
    BY <1>1, <1>6 DEF KeyIsToken, QtySound, ClientAgrees, LoopsConsistent, out
  <2>3. ErasedIsClosed'
    BY <1>1, <1>2, <1>6 DEF ErasedIsClosed, expired, remain_time_in_force, S32, out
  <2> QED
    BY <2>1, <2>2, <2>3
\* The order is cancelled: past its deadline, or immediate-or-cancel.
<1>7. CASE /\ push(construct_order_canceled(o.remaining_qty, cancel_reason(o), o.token))
           /\ done_tokens' = done_tokens \cup {t}
           /\ UNCHANGED <<active_orders, finished_orders, now>>
  <2>1. cancel_reason(o) \in {"UserRequested", "SystemCancel", "TimeOut", "IOC"}
    BY DEF cancel_reason
  <2>2. push(construct_order_canceled(o.remaining_qty, cancel_reason(o), t))
    BY <1>4, <1>7
  <2>3. /\ book' \in Book /\ pending_out_messages' \in Seq(Message)
        /\ \A k \in Tokens \ {t} : book'[k] = book[k]
        /\ book'[t].executed = book[t].executed
        /\ o.genuine => book'[t].open = 0
    BY <1>1, <2>1, <2>2, ClosedEffect
  <2>4. TypeOK'
    BY <1>1, <1>3, <1>5, <1>7, <2>3 DEF TypeOK
  <2>5. KeyIsToken' /\ QtySound' /\ LoopsConsistent'
    BY <1>1, <1>7 DEF KeyIsToken, QtySound, LoopsConsistent
  <2>6. ClientAgrees'
    BY <1>3, <1>7, <2>3 DEF ClientAgrees
  <2>7. ErasedIsClosed'
    BY <1>1, <1>3, <1>7, <2>3 DEF ErasedIsClosed, expired, remain_time_in_force, S32
  <2> QED
    BY <2>4, <2>5, <2>6, <2>7
\* The order is filled, in part or completely.
<1>8. CASE /\ still_active(o, now')
           /\ \E rnd \in RandQtys :
                 /\ active_orders' = [active_orders EXCEPT ![t] = filled(@, rnd)]
                 /\ push(construct_order_executed(o, rnd))
           /\ UNCHANGED <<finished_orders, done_tokens>>
  <2>1. o.remaining_qty > 0
    BY <1>4, <1>8 DEF still_active
  <2>2. PICK rnd \in RandQtys :
                 /\ active_orders' = [active_orders EXCEPT ![t] = filled(@, rnd)]
                 /\ push(construct_order_executed(o, rnd))
    BY <1>8
  <2> DEFINE n == active_orders'[t]
             q == fill_qty(o, rnd)
  <2>3. /\ DOMAIN active_orders' = DOMAIN active_orders
        /\ active_orders' \in [DOMAIN active_orders' -> Ouch_Order]
        /\ \A k \in DOMAIN active_orders \ {t} : active_orders'[k] = active_orders[k]
        /\ n.token = o.token /\ n.state = o.state /\ n.genuine = o.genuine
        /\ n.time_in_force = o.time_in_force /\ n.recv_order_time = o.recv_order_time
        /\ book' \in Book /\ pending_out_messages' \in Seq(Message)
        /\ \A k \in Tokens \ {t} : book'[k] = book[k]
    BY <1>1, <2>1, <2>2, FillFacts
  <2>4. /\ q \in 1 .. o.remaining_qty
        /\ n.remaining_qty = o.remaining_qty - q /\ n.executed_qty = o.executed_qty + q
        /\ o.genuine => book'[t].open = book[t].open - q /\ book'[t].executed = book[t].executed + q
    BY <1>1, <2>1, <2>2, FillFacts
  <2> HIDE DEF q
  <2>5. TypeOK'
    BY <1>5, <1>8, <2>3 DEF TypeOK
  <2>6. KeyIsToken' /\ LoopsConsistent'
    BY <1>1, <1>8, <2>3 DEF KeyIsToken, LoopsConsistent
  <2>7. ErasedIsClosed'
    BY <1>1, <1>2, <1>3, <1>8, <2>3 DEF ErasedIsClosed, expired, remain_time_in_force, S32
  <2>8. QtySound'
    <3>1. n.genuine => /\ n.remaining_qty >= 0 /\ n.executed_qty >= 0
                       /\ n.remaining_qty + n.executed_qty <= MAX_QTY
      BY <1>4, <2>3, <2>4, QtyNat
    <3> QED
      BY <2>3, <3>1 DEF QtySound
  <2>9. ClientAgrees'
    <3>1. n.genuine => /\ book'[t].open = n.remaining_qty
                       /\ book'[t].executed = n.executed_qty
      BY <1>4, <2>3, <2>4
    <3> QED
      BY <1>3, <1>8, <2>3, <3>1 DEF ClientAgrees
  <2> QED
    BY <2>5, <2>6, <2>7, <2>8, <2>9
\* The order is finished: filled, or past its deadline at the second reading.
<1>9. CASE /\ ~ still_active(o, now')
           /\ finished_orders' = finished_orders \cup {t}
           /\ done_tokens' = done_tokens \cup {t}
           /\ active_orders' = [active_orders EXCEPT ![t].state = "Dead"]
           /\ UNCHANGED out
  <2> DEFINE n == [o EXCEPT !.state = "Dead"]
  <2>1. /\ n \in Ouch_Order
        /\ n.remaining_qty = o.remaining_qty /\ n.executed_qty = o.executed_qty
        /\ n.token = o.token /\ n.genuine = o.genuine
        /\ n.time_in_force = o.time_in_force /\ n.recv_order_time = o.recv_order_time
    BY <1>4 DEF Ouch_Order, OrderStates
  <2>2. active_orders' = [active_orders EXCEPT ![t] = n]
    BY <1>9
  <2> HIDE DEF n
  <2>3. /\ DOMAIN active_orders' = DOMAIN active_orders
        /\ active_orders' \in [DOMAIN active_orders' -> Ouch_Order]
        /\ active_orders'[t] = n
        /\ \A k \in DOMAIN active_orders \ {t} : active_orders'[k] = active_orders[k]
    BY <1>1, <1>3, <2>1, <2>2
  <2>4. book' = book /\ book \in Book
    BY <1>9 DEF out, TypeOK, Book
  <2>5. TypeOK'
    BY <1>1, <1>3, <1>5, <1>9, <2>3, <2>4 DEF TypeOK, out
  <2>6. KeyIsToken' /\ QtySound' /\ LoopsConsistent' /\ ClientAgrees'
    BY <1>1, <1>9, <2>1, <2>3, <2>4 DEF KeyIsToken, QtySound, LoopsConsistent, ClientAgrees
  <2>7. o.genuine => o.remaining_qty = 0 \/ expired(o, now')
    BY <1>4, <1>9 DEF still_active
  <2>8. expired(o, now') => expired(n, now')
    BY <2>1 DEF expired, remain_time_in_force, S32
  <2>9. ErasedIsClosed'
    <3>1. n.genuine => book'[t].open = 0 \/ \E s \in 0 .. now' : expired(n, s)
      BY <1>2, <1>4, <2>1, <2>4, <2>7, <2>8
    <3>2. \A k \in DOMAIN active_orders \cap done_tokens : active_orders[k].genuine =>
             book'[k].open = 0 \/ \E s \in 0 .. now' : expired(active_orders[k], s)
      BY <1>1, <1>2, <2>4 DEF ErasedIsClosed
    <3>3. ASSUME NEW k \in DOMAIN active_orders', k \in done_tokens', active_orders'[k].genuine
          PROVE  book'[k].open = 0 \/ \E s \in 0 .. now' : expired(active_orders'[k], s)
      <4>1. CASE k = t
        BY <2>3, <3>1, <3>3, <4>1
      <4>2. CASE k # t
        <5>1. active_orders'[k] = active_orders[k] /\ k \in DOMAIN active_orders \cap done_tokens
          BY <1>9, <2>3, <3>3, <4>2
        <5> QED
          BY <3>2, <3>3, <5>1
      <4> QED
        BY <4>1, <4>2
    <3>4. phase' = "execution"
      BY <1>1
    <3> QED
      BY <3>3, <3>4 DEF ErasedIsClosed, expired, remain_time_in_force, S32
  <2> QED
    BY <2>5, <2>6, <2>9
<1> QED
  BY <1>6, <1>7, <1>8, <1>9 DEF execution_logic

(* An iteration of cancel_all preserves the invariant.                     *)
LEMMA CancelAllStep == ASSUME IInv, NEW t \in Tokens, cancel_all_order(t) PROVE IInv'
<1> USE DEF IInv
<1> DEFINE o == active_orders[t]
<1>1. /\ phase = "cancel_all" /\ t \in todo /\ todo' = todo \ {t}
      /\ done_tokens' = done_tokens \cup {t}
      /\ UNCHANGED <<session_vars, active_orders, finished_orders, queues, connected, now,
                     phase, cursor>>
  BY DEF cancel_all_order
<1>2. t \in DOMAIN active_orders /\ o.remaining_qty \in Int /\ o.token = t
  BY <1>1, OrderQty DEF TypeOK, KeyIsToken
<1>3. /\ book' \in Book /\ pending_out_messages' \in Seq(Message)
      /\ \A k \in Tokens \ {t} : book'[k] = book[k]
      /\ book'[t].executed = book[t].executed
      /\ o.genuine => book'[t].open \in {book[t].open, 0}
  <2>1. CASE push(construct_order_canceled(o.remaining_qty, "SystemCancel", t))
    BY <1>2, <2>1, ClosedEffect
  <2>2. CASE UNCHANGED out
    BY <2>2 DEF out, TypeOK, Book
  <2> QED
    BY <1>2, <2>1, <2>2 DEF cancel_all_order
<1>4. TypeOK'
  BY <1>1, <1>3 DEF TypeOK, session_vars, queues, Book
<1>5. KeyIsToken' /\ QtySound' /\ ErasedIsClosed' /\ LoopsConsistent'
  BY <1>1 DEF KeyIsToken, QtySound, ErasedIsClosed, LoopsConsistent
<1>6. ClientAgrees'
  BY <1>1, <1>3 DEF ClientAgrees, TypeOK
<1> QED
  BY <1>4, <1>5, <1>6

-----------------------------------------------------------------------------
(* Every step preserves the invariant.                                     *)
LEMMA NextInv == IInv /\ [Next]_vars => IInv'
<1> SUFFICES ASSUME IInv, [Next]_vars PROVE IInv'
  OBVIOUS
<1>1. CASE handle_packet
  <2>1. CASE enter_order
    BY <2>1, RejectStep, AcceptStep DEF enter_order
  <2>2. CASE \E t \in Tokens, qty \in CancelQtys : cancel_order(t, qty)
    BY <2>2, QueueCancelStep
  <2>3. CASE \E t \in Tokens, qty \in ModifyQtys, side \in ModifySides : modify_order(t, qty, side)
    BY <2>3, QueueModifyStep
  <2>4. CASE \E t, u \in Tokens, qty \in ReplaceQtys, tif \in Tifs : replace_order(t, u, qty, tif)
    BY <2>4, QueueReplaceStep
  <2> QED
    BY <1>1, <2>1, <2>2, <2>3, <2>4, LoginStep, LogoutStep DEF handle_packet
<1>2. CASE HandlerStep
  <2>1. CASE \E t \in Tokens : execution_logic(t)
    BY <2>1, ExecutionStep
  <2>2. CASE \E t \in Tokens : cancel_all_order(t)
    BY <2>2, CancelAllStep
  <2> QED
    BY <1>2, <2>1, <2>2, CancelStep, CancelEndsStep, ModifyStep, ModifyEndsStep, ReplaceStep,
       ReplaceEndsStep, ExecutionEndsStep, CancelAllEndsStep, SendStep DEF HandlerStep
<1>3. CASE UNCHANGED vars
  BY <1>3 DEF vars, IInv, TypeOK, KeyIsToken, QtySound, ClientAgrees, ErasedIsClosed,
     LoopsConsistent, expired, remain_time_in_force, S32
<1> QED
  BY <1>1, <1>2, <1>3, ClientComesStep, TickStartStep, CancelAllStartStep, DisconnectStep, ClockStep DEF Next

(* The invariant holds in every behaviour of the session.                  *)
THEOREM Invariance == Spec => []IInv
<1> QED
  BY InitInv, NextInv, PTL DEF Spec

(* Every value stays in its type, and no loop leaves its bookkeeping behind. *)
THEOREM TypeCorrect == Spec => []TypeOK
<1>1. IInv => TypeOK
  BY DEF IInv
<1> QED
  BY <1>1, Invariance, PTL

(* The order map is keyed by the tokens of its orders, through every chain *)
(* of replaces.                                                            *)
THEOREM KeysAreTokens == Spec => []KeyIsToken
<1>1. IInv => KeyIsToken
  BY DEF IInv
<1> QED
  BY <1>1, Invariance, PTL

(* Executed and remaining shares of an order a client entered are never    *)
(* negative and never exceed together what a request may ask for.          *)
THEOREM QuantitiesSound == Spec => []QtySound
<1>1. IInv => QtySound
  BY DEF IInv
<1> QED
  BY <1>1, Invariance, PTL

(* A client that applies every message agrees with the market about every  *)
(* order it entered.                                                       *)
THEOREM ClientAgreement == Spec => []ClientAgrees
<1>1. IInv => ClientAgrees
  BY DEF IInv
<1> QED
  BY <1>1, Invariance, PTL

(* What cancel_logic and execution_logic erase has been reported closed,   *)
(* but for an order whose deadline has passed.                             *)
THEOREM NoSilentErase == Spec => []ErasedIsClosed
<1>1. IInv => ErasedIsClosed
  BY DEF IInv
<1> QED
  BY <1>1, Invariance, PTL
=============================================================================
