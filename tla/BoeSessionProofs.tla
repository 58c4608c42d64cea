--------------------------- MODULE BoeSessionProofs ---------------------------
(***************************************************************************)
(* The inductive invariant of BoeSession and the properties it implies,    *)
(* for every set of tokens, every limit and every contents of the memory   *)
(* an order is created from.                                               *)
(***************************************************************************)
EXTENDS BoeSession, SequenceTheorems, TLAPS

-----------------------------------------------------------------------------
(* Orders. *)

(* Every order that parse_order or operator[] makes is one.                *)
LEMMA NewOrders ==
    /\ \A t \in Tokens, qty \in Nat : parse_order(t, qty) \in Boe_Order
    /\ \A g \in Garbage : default_order(g) \in Boe_Order
  BY BoeAssumption DEF parse_order, default_order, Boe_Order, GarbageFields

(* An order that operator[] makes is nobody's, and its name is left over.  *)
LEMMA CreatedOrder ==
    ASSUME NEW g \in Garbage
    PROVE  default_order(g).token \in Residual \cup {NoToken} /\ ~ default_order(g).genuine
  BY BoeAssumption DEF default_order, Residual, GarbageFields

(* What modify_logic leaves of an order: never less than nothing.          *)
LEMMA ModifiedOrder ==
    ASSUME NEW o \in Boe_Order, NEW mo \in Boe_ModifyOrderReq
    PROVE  /\ modified(o, mo) \in Boe_Order
           /\ modified(o, mo).token = mo.token
           /\ modified(o, mo).executed_qty = o.executed_qty
           /\ modified(o, mo).genuine = o.genuine
           /\ o.executed_qty >= 0 => modified(o, mo).remaining_qty \in Nat
           /\ modified(o, mo).remaining_qty = 0 <=> o.executed_qty >= mo.qty
<1>1. mo.token \in Tokens /\ mo.qty \in Nat /\ o.executed_qty \in Int
  BY DEF Boe_Order, Boe_ModifyOrderReq
<1>2. /\ Rest(mo.qty, o) \in Int
      /\ o.executed_qty >= 0 => Rest(mo.qty, o) \in Nat
      /\ Rest(mo.qty, o) = 0 <=> o.executed_qty >= mo.qty
  BY <1>1 DEF Rest
<1>3. modified(o, mo) = [o EXCEPT !.token = mo.token, !.remaining_qty = Rest(mo.qty, o)]
  BY DEF modified
<1> QED
  BY <1>1, <1>2, <1>3 DEF Boe_Order

(* What a fill does to an order that has shares to trade.                  *)
LEMMA FilledOrder ==
    ASSUME NEW o \in Boe_Order, NEW qty \in Nat, o.remaining_qty > 0, qty # 0
    PROVE  /\ last_shares(o, qty) \in 1 .. o.remaining_qty
           /\ filled(o, qty) \in Boe_Order
           /\ filled(o, qty).token = o.token
           /\ filled(o, qty).genuine = o.genuine
           /\ filled(o, qty).remaining_qty = o.remaining_qty - last_shares(o, qty)
           /\ filled(o, qty).executed_qty = o.executed_qty + last_shares(o, qty)
<1>1. o.remaining_qty \in Int /\ o.executed_qty \in Int
  BY DEF Boe_Order
<1>2. last_shares(o, qty) \in 1 .. o.remaining_qty
  BY <1>1 DEF last_shares
<1>3. /\ o.remaining_qty - last_shares(o, qty) \in Int
      /\ o.executed_qty + last_shares(o, qty) \in Int
  BY <1>1, <1>2
<1>4. filled(o, qty) = [o EXCEPT !.remaining_qty = o.remaining_qty - last_shares(o, qty),
                                !.executed_qty = o.executed_qty + last_shares(o, qty)]
  BY DEF filled, Boe_Order
<1> QED
  BY <1>2, <1>3, <1>4 DEF Boe_Order

-----------------------------------------------------------------------------
(* The map of active orders. *)

(* erase removes orders and leaves the others as they are.                 *)
LEMMA EraseFacts ==
    ASSUME NEW orders, orders \in [DOMAIN orders -> Boe_Order], NEW ts
    PROVE  /\ DOMAIN erase(orders, ts) = DOMAIN orders \ ts
           /\ erase(orders, ts) \in [DOMAIN erase(orders, ts) -> Boe_Order]
           /\ \A k \in DOMAIN orders \ ts : erase(orders, ts)[k] = orders[k]
  BY DEF erase, Restrict

-----------------------------------------------------------------------------
(* Messages. *)

Book == [Tokens -> [leaves : Int, executed : Int]]

\* About every other name than u, the client knows what it knew, or it is
\* misled.
Elsewhere(u) ==
    \A k \in Tokens \ {u} : k \in misled' \/ (k \notin misled /\ book'[k] = book[k])

(* A client's ledger stays well formed whatever message it applies.        *)
LEMMA ViewType ==
    ASSUME NEW b \in Book, NEW m \in Message
    PROVE  client_view(b, m) \in Book
<1>1. CASE m.type \notin {"OrderAck", "OrderCanceled", "OrderModified", "OrderExecution"}
           \/ m.token \notin Tokens
  BY <1>1 DEF client_view
<1>2. CASE m.type = "OrderAck" /\ m.token \in Tokens
  BY <1>2 DEF client_view, Book, Message
<1>3. CASE m.type = "OrderCanceled" /\ m.token \in Tokens
  BY <1>3 DEF client_view, Book, Message
<1>4. CASE m.type = "OrderModified" /\ m.token \in Tokens
  <2>1. m.qty \in Int /\ m.leaves_qty \in Int
    BY <1>4 DEF Message
  <2> QED
    BY <1>4, <2>1 DEF client_view, Book
<1>5. CASE m.type = "OrderExecution" /\ m.token \in Tokens
  <2>1. m.last_shares \in Int /\ m.leaves_qty \in Int
    BY <1>5 DEF Message
  <2> QED
    BY <1>5, <2>1 DEF client_view, Book
<1> QED
  BY <1>1, <1>2, <1>3, <1>4, <1>5

(* Queueing a message keeps the queue and the ledger well formed.          *)
LEMMA PushType ==
    ASSUME TypeOK, NEW m \in Message, push(m)
    PROVE  /\ pending_out_messages' \in Seq(Message)
           /\ book' \in Book
           /\ book' = client_view(book, m)
           /\ UNCHANGED misled
  BY ViewType DEF push, TypeOK, Book

(* The same for a message about an order the client entered.               *)
LEMMA GenuineNews ==
    ASSUME TypeOK, NEW o, o.genuine, NEW m \in Message, push_about(o, m)
    PROVE  /\ pending_out_messages' \in Seq(Message)
           /\ book' \in Book
           /\ book' = client_view(book, m)
           /\ misled' = IF m.type \in {"OrderAck", "OrderModified"} THEN misled \ {m.token}
                        ELSE misled
           /\ misled' \subseteq Tokens
  BY ViewType DEF push_about, TypeOK, Book

(* A message about an order nobody entered touches one name, and misleads  *)
(* the client about it.                                                    *)
LEMMA StrayNews ==
    ASSUME TypeOK, NEW o, ~ o.genuine, NEW m \in Message, NEW s, s = m.token, push_about(o, m)
    PROVE  /\ pending_out_messages' \in Seq(Message)
           /\ book' \in Book
           /\ \A k \in Tokens \ {s} : book'[k] = book[k]
           /\ misled' = misled \cup ({s} \cap Tokens)
           /\ misled' \subseteq Tokens
           /\ Elsewhere(s)
<1>1. /\ pending_out_messages' = Append(pending_out_messages, m)
      /\ book' = [t \in Tokens |-> IF t = s THEN Nothing ELSE book[t]]
      /\ misled' = misled \cup ({s} \cap Tokens)
  BY DEF push_about
<1>2. /\ pending_out_messages \in Seq(Message) /\ misled \subseteq Tokens
      /\ book \in Book /\ Nothing \in [leaves : Int, executed : Int]
  BY DEF TypeOK, Book, Nothing
<1> QED
  BY <1>1, <1>2 DEF Book, Elsewhere

(* A message about the session, or that refuses a request, changes nothing *)
(* in the ledger.                                                          *)
LEMMA NoticePushed ==
    ASSUME TypeOK, NEW m \in Message, push(m),
           m.type \in {"LoginResponse", "ServerHeartbeat", "OrderRejected",
                       "CancelRejected", "ModifyRejected"}
    PROVE  /\ pending_out_messages' \in Seq(Message)
           /\ UNCHANGED <<book, misled>>
  BY PushType DEF client_view

(* The notices of the session are such messages.                           *)
LEMMA Notices ==
    /\ \A s \in {"Accepted", "SessionDisabled", "SessionInUse"} :
         /\ construct_login_response(s) \in Message
         /\ construct_login_response(s).type = "LoginResponse"
    /\ construct_heartbeat \in Message /\ construct_heartbeat.type = "ServerHeartbeat"
    /\ \A t \in Tokens :
         /\ construct_order_rejected(t) \in Message
         /\ construct_order_rejected(t).type = "OrderRejected"
         /\ \A r \in {"TooLateToCancel", "ClordidDoesntMatchAKnownOrder", "UnforeseenReason"} :
              /\ construct_cancel_rejected(t, r) \in Message
              /\ construct_cancel_rejected(t, r).type = "CancelRejected"
              /\ construct_modify_rejected(t, r) \in Message
              /\ construct_modify_rejected(t, r).type = "ModifyRejected"
<1>1. \A s \in {"Accepted", "SessionDisabled", "SessionInUse"} :
         /\ construct_login_response(s) \in Message
         /\ construct_login_response(s).type = "LoginResponse"
  BY DEF construct_login_response, Message
<1>2. construct_heartbeat \in Message /\ construct_heartbeat.type = "ServerHeartbeat"
  BY DEF construct_heartbeat, Message
<1>3. \A t \in Tokens : /\ construct_order_rejected(t) \in Message
                        /\ construct_order_rejected(t).type = "OrderRejected"
  BY DEF construct_order_rejected, Message
<1>4. \A t \in Tokens, r \in {"TooLateToCancel", "ClordidDoesntMatchAKnownOrder", "UnforeseenReason"} :
              /\ construct_cancel_rejected(t, r) \in Message
              /\ construct_cancel_rejected(t, r).type = "CancelRejected"
  BY DEF construct_cancel_rejected, Message
<1>5. \A t \in Tokens, r \in {"TooLateToCancel", "ClordidDoesntMatchAKnownOrder", "UnforeseenReason"} :
              /\ construct_modify_rejected(t, r) \in Message
              /\ construct_modify_rejected(t, r).type = "ModifyRejected"
  BY DEF construct_modify_rejected, Message
<1> QED
  BY <1>1, <1>2, <1>3, <1>4, <1>5

(* OrderAck opens the entry of its token.                                  *)
LEMMA AckEffect ==
    ASSUME TypeOK, NEW t \in Tokens, NEW qty \in Nat,
           push_about(parse_order(t, qty), construct_order_accepted(parse_order(t, qty)))
    PROVE  /\ pending_out_messages' \in Seq(Message)
           /\ book' \in Book
           /\ book'[t] = [leaves |-> qty, executed |-> 0]
           /\ \A k \in Tokens \ {t} : book'[k] = book[k]
           /\ misled' = misled \ {t} /\ misled' \subseteq Tokens
<1> DEFINE m == [type |-> "OrderAck", token |-> t, leaves_qty |-> qty]
<1>1. construct_order_accepted(parse_order(t, qty)) = m /\ m \in Message
  BY DEF construct_order_accepted, parse_order, Message
<1>2. client_view(book, m) = [book EXCEPT ![t] = [leaves |-> qty, executed |-> 0]]
  BY DEF client_view
<1>3. book \in Book
  BY DEF TypeOK, Book
<1>4. m.type = "OrderAck" /\ m.token = t /\ parse_order(t, qty).genuine
  BY DEF parse_order
<1> HIDE DEF m
<1>5. /\ pending_out_messages' \in Seq(Message) /\ book' \in Book
      /\ book' = client_view(book, m)
      /\ misled' = misled \ {t} /\ misled' \subseteq Tokens
  BY <1>1, <1>4, GenuineNews
<1> QED
  BY <1>2, <1>3, <1>5 DEF Book

(* OrderCanceled closes the entry of its token, when it carries one.       *)
LEMMA CanceledEffect ==
    ASSUME TypeOK, NEW t \in Tokens \cup {NoToken}, NEW o,
           \/ push(construct_order_canceled(t))
           \/ o.genuine /\ push_about(o, construct_order_canceled(t))
    PROVE  /\ pending_out_messages' \in Seq(Message)
           /\ book' \in Book
           /\ t \in Tokens => book'[t] = [leaves |-> 0, executed |-> book[t].executed]
           /\ \A k \in Tokens \ {t} : book'[k] = book[k]
           /\ UNCHANGED misled
<1> DEFINE m == [type |-> "OrderCanceled", token |-> t]
<1>1. construct_order_canceled(t) = m /\ m \in Message
  BY DEF construct_order_canceled, Message
<1>2. client_view(book, m) = IF t \in Tokens THEN [book EXCEPT ![t].leaves = 0] ELSE book
  BY DEF client_view
<1>3. book \in Book
  BY DEF TypeOK, Book
<1>5. m.type = "OrderCanceled"
  OBVIOUS
<1> HIDE DEF m
<1>4. /\ book' = (IF t \in Tokens THEN [book EXCEPT ![t].leaves = 0] ELSE book)
      /\ pending_out_messages' \in Seq(Message) /\ book' \in Book
      /\ UNCHANGED misled
  <2>1. /\ book' = client_view(book, m) /\ pending_out_messages' \in Seq(Message)
        /\ book' \in Book /\ UNCHANGED misled
    BY <1>1, <1>5, PushType, GenuineNews
  <2> QED
    BY <1>2, <2>1
<1> QED
  BY <1>3, <1>4 DEF Book

(* OrderModified tells the client the leaves and the executed shares.      *)
LEMMA ModifiedEffect ==
    ASSUME TypeOK, NEW o \in Boe_Order, push_about(o, construct_order_modified(o))
    PROVE  /\ pending_out_messages' \in Seq(Message)
           /\ book' \in Book /\ misled' \subseteq Tokens
           /\ \A k \in Tokens \ {o.token} : book'[k] = book[k]
           /\ o.genuine =>
                /\ misled' = misled \ {o.token}
                /\ o.token \in Tokens =>
                     book'[o.token] = [leaves |-> o.remaining_qty, executed |-> o.executed_qty]
           /\ ~ o.genuine => misled' = misled \cup ({o.token} \cap Tokens)
<1> DEFINE m == [type |-> "OrderModified", token |-> o.token, leaves_qty |-> o.remaining_qty,
                 qty |-> o.remaining_qty + o.executed_qty]
<1>1. /\ o.remaining_qty \in Int /\ o.executed_qty \in Int
      /\ o.token \in Tokens \cup {NoToken}
      /\ o.remaining_qty + o.executed_qty - o.remaining_qty = o.executed_qty
  BY DEF Boe_Order
<1>2. construct_order_modified(o) = m /\ m \in Message
  BY <1>1 DEF construct_order_modified, Message
<1>3. client_view(book, m) =
         IF o.token \in Tokens
         THEN [book EXCEPT ![o.token] = [leaves |-> o.remaining_qty, executed |-> o.executed_qty]]
         ELSE book
  <2>1. m.leaves_qty = o.remaining_qty /\ m.qty - m.leaves_qty = o.executed_qty
    BY <1>1
  <2>2. m.type = "OrderModified" /\ m.token = o.token
    OBVIOUS
  <2> HIDE DEF m
  <2>3. o.token \in Tokens =>
           client_view(book, m) = [book EXCEPT ![o.token] = [leaves |-> m.leaves_qty,
                                                            executed |-> m.qty - m.leaves_qty]]
    BY <2>2 DEF client_view
  <2>4. o.token \notin Tokens => client_view(book, m) = book
    BY <2>2 DEF client_view
  <2> QED
    BY <2>1, <2>3, <2>4
<1>4. book \in Book
  BY DEF TypeOK, Book
<1>5. m.type = "OrderModified" /\ m.token = o.token
  OBVIOUS
<1> HIDE DEF m
<1>6. CASE o.genuine
  <2>1. /\ book' = client_view(book, m)
        /\ pending_out_messages' \in Seq(Message) /\ book' \in Book
        /\ misled' = misled \ {o.token} /\ misled' \subseteq Tokens
    BY <1>2, <1>5, <1>6, GenuineNews
  <2>2. book' = (IF o.token \in Tokens
                 THEN [book EXCEPT ![o.token] =
                         [leaves |-> o.remaining_qty, executed |-> o.executed_qty]]
                 ELSE book)
    BY <1>3, <2>1
  <2> QED
    BY <1>4, <1>6, <2>1, <2>2 DEF Book
<1>7. CASE ~ o.genuine
  BY <1>2, <1>5, <1>7, StrayNews
<1> QED
  BY <1>6, <1>7

(* OrderExecution moves shares from the leaves to the executed shares.     *)
LEMMA ExecutedEffect ==
    ASSUME TypeOK, NEW o \in Boe_Order, NEW qty \in Nat, o.remaining_qty > 0, qty # 0,
           push_about(o, construct_order_executed(o, qty))
    PROVE  /\ pending_out_messages' \in Seq(Message)
           /\ book' \in Book /\ misled' \subseteq Tokens
           /\ \A k \in Tokens \ {o.token} : book'[k] = book[k]
           /\ o.genuine =>
                /\ misled' = misled
                /\ o.token \in Tokens =>
                     book'[o.token] = [leaves |-> filled(o, qty).remaining_qty,
                                       executed |-> book[o.token].executed + last_shares(o, qty)]
           /\ ~ o.genuine => misled' = misled \cup ({o.token} \cap Tokens)
<1> DEFINE l == filled(o, qty).remaining_qty
           n == last_shares(o, qty)
           m == [type |-> "OrderExecution", token |-> o.token, last_shares |-> n, leaves_qty |-> l]
<1>1. o.token \in Tokens \cup {NoToken} /\ l \in Int /\ n \in Int
  <2>1. filled(o, qty) \in Boe_Order /\ n \in 1 .. o.remaining_qty
    BY FilledOrder
  <2> QED
    BY <2>1 DEF Boe_Order
<1> HIDE DEF l, n
<1>2. construct_order_executed(o, qty) = m /\ m \in Message
  BY <1>1 DEF construct_order_executed, Message, l, n
<1>3. client_view(book, m) =
         IF o.token \in Tokens
         THEN [book EXCEPT ![o.token] = [leaves |-> l, executed |-> @.executed + n]]
         ELSE book
  BY DEF client_view
<1>4. book \in Book
  BY DEF TypeOK, Book
<1>5. m.type = "OrderExecution" /\ m.token = o.token
  OBVIOUS
<1> HIDE DEF m
<1>6. CASE o.genuine
  <2>1. /\ book' = client_view(book, m)
        /\ pending_out_messages' \in Seq(Message) /\ book' \in Book
        /\ misled' = misled /\ misled' \subseteq Tokens
    BY <1>2, <1>5, <1>6, GenuineNews
  <2>2. book' = (IF o.token \in Tokens
                 THEN [book EXCEPT ![o.token] = [leaves |-> l, executed |-> @.executed + n]]
                 ELSE book)
    BY <1>3, <2>1
  <2> QED
    BY <1>4, <1>6, <2>1, <2>2 DEF Book, l, n
<1>7. CASE ~ o.genuine
  BY <1>2, <1>5, <1>7, StrayNews
<1> QED
  BY <1>6, <1>7

-----------------------------------------------------------------------------
(* The initial state. *)

(* The state boe_session::init leaves satisfies the invariant.             *)
LEMMA InitInv == Init => IInv
<1> SUFFICES ASSUME Init PROVE IInv
  OBVIOUS
<1>1. DOMAIN active_orders = {}
  BY DEF Init
<1>3. book \in [Tokens -> [leaves : Int, executed : Int]]
  BY DEF Init, Nothing
<1>4. state = NotLoggedIn /\ state # LoggedIn /\ phase = "idle"
  BY DEF Init, NotLoggedIn, LoggedIn
<1>5. /\ active_orders \in [DOMAIN active_orders -> Boe_Order]
      /\ pending_cancel \in Seq(Tokens) /\ pending_modify \in Seq(Boe_ModifyOrderReq)
      /\ pending_out_messages \in Seq(Message)
  BY <1>1 DEF Init
<1>6. /\ todo = {} /\ done_tokens = {} /\ finished_orders = {} /\ misled = {}
      /\ cursor = 1
  BY DEF Init
<1>7. connected \in BOOLEAN
  BY Zenon DEF Init
<1>2. TypeOK
  BY <1>1, <1>3, <1>4, <1>5, <1>6, <1>7 DEF TypeOK
<1> QED
  BY <1>1, <1>2 DEF IInv, KeyIsToken, QtySound, ClientAgrees, Genuine

-----------------------------------------------------------------------------
(* What becomes of the invariant when a step changes no order, or one. *)

(* A step that changes no order outside the loops that cancel.             *)
LEMMA QuietStep ==
    ASSUME IInv, TypeOK', UNCHANGED <<active_orders, book, misled>>,
           done_tokens = {} \/ (phase' = phase /\ done_tokens \subseteq done_tokens')
    PROVE  IInv'
  BY DEF IInv, KeyIsToken, QtySound, ClientAgrees, Genuine, Residual

(* A step that changes what is under one key: the order that is there      *)
(* carries its key, and the client knows its leaves and executed shares.   *)
LEMMA OneOrder ==
    ASSUME IInv, TypeOK', NEW u \in Tokens,
           phase' = phase \/ done_tokens = {},
           done_tokens \subseteq done_tokens',
           DOMAIN active_orders' \subseteq DOMAIN active_orders \cup {u},
           Elsewhere(u),
           \A k \in DOMAIN active_orders' \ {u} : active_orders'[k] = active_orders[k],
           u \in DOMAIN active_orders' =>
             \/ /\ active_orders'[u].token \in Residual \cup {u, NoToken}
                /\ ~ active_orders'[u].genuine
             \/ /\ active_orders'[u].token = u
                /\ active_orders'[u].remaining_qty >= 0
                /\ active_orders'[u].executed_qty >= 0
                /\ \/ u \in misled'
                   \/ /\ book'[u].leaves = active_orders'[u].remaining_qty
                      /\ book'[u].executed = active_orders'[u].executed_qty
    PROVE  IInv'
<1>1. KeyIsToken'
  BY DEF IInv, KeyIsToken, Genuine, Residual
<1>2. QtySound'
  BY DEF IInv, QtySound, Genuine
<1>3. ClientAgrees'
  BY DEF IInv, TypeOK, ClientAgrees, Genuine, Elsewhere
<1> QED
  BY <1>1, <1>2, <1>3 DEF IInv

(* A step of a loop that cancels: order t is marked, and the client may be *)
(* told that nothing of t is left.                                         *)
LEMMA MarkedOrder ==
    ASSUME IInv, TypeOK', NEW t, UNCHANGED <<active_orders, phase>>,
           phase \in {"cancel", "cancel_all"}, done_tokens' = done_tokens \cup {t},
           Elsewhere(t),
           \/ t \notin Tokens \/ t \in misled'
           \/ /\ t \notin misled
              /\ \/ book'[t] = book[t]
                 \/ book'[t] = [leaves |-> 0, executed |-> book[t].executed]
    PROVE  IInv'
<1>1. KeyIsToken' /\ QtySound'
  BY DEF IInv, KeyIsToken, QtySound, Genuine, Residual
<1>2. ClientAgrees'
  BY DEF IInv, TypeOK, ClientAgrees, Genuine, Elsewhere
<1> QED
  BY <1>1, <1>2 DEF IInv

(* A loop ends by erasing the orders it has marked as done.                *)
LEMMA LoopEnds ==
    ASSUME IInv, TypeOK', UNCHANGED <<book, misled>>,
           DOMAIN active_orders' = DOMAIN active_orders \ done_tokens,
           \A k \in DOMAIN active_orders' : active_orders'[k] = active_orders[k]
    PROVE  IInv'
  BY DEF IInv, KeyIsToken, QtySound, ClientAgrees, Genuine, Residual

(* The orders that are left when the marked ones are erased.               *)
LEMMA EraseDone ==
    ASSUME TypeOK, active_orders' = erase(active_orders, done_tokens)
    PROVE  /\ DOMAIN active_orders' = DOMAIN active_orders \ done_tokens
           /\ DOMAIN active_orders' \subseteq Tokens
           /\ active_orders' \in [DOMAIN active_orders' -> Boe_Order]
           /\ \A k \in DOMAIN active_orders' : active_orders'[k] = active_orders[k]
<1>1. active_orders \in [DOMAIN active_orders -> Boe_Order] /\ DOMAIN active_orders \subseteq Tokens
  BY DEF TypeOK
<1>2. LET rest == erase(active_orders, done_tokens)
      IN  /\ DOMAIN rest = DOMAIN active_orders \ done_tokens
          /\ rest \in [DOMAIN rest -> Boe_Order]
          /\ \A k \in DOMAIN active_orders \ done_tokens : rest[k] = active_orders[k]
  BY <1>1, EraseFacts, Zenon
<1> QED
  BY <1>1, <1>2

-----------------------------------------------------------------------------
(* TCPServer::accept, BOEServer::read and send. *)

(* A client that comes preserves the invariant: nothing else changes.      *)
LEMMA ClientComesStep == ASSUME IInv, accept PROVE IInv'
<1> USE DEF IInv
<1>1. done_tokens = {} /\ UNCHANGED <<active_orders, book, misled>>
  BY DEF accept, TypeOK, out
<1>2. TypeOK'
  BY DEF accept, TypeOK, queues, out
<1> QED
  BY <1>1, <1>2, QuietStep

(* handle_login_request preserves the invariant.                           *)
LEMMA LoginStep == ASSUME IInv, handle_login_request PROVE IInv'
<1> USE DEF IInv
<1>1. /\ done_tokens = {} /\ done_tokens' = {} /\ phase' = "read"
      /\ todo = {} /\ UNCHANGED <<active_orders, todo>>
  BY DEF handle_login_request, Reading, TypeOK
<1>2. \E m \in Message : push(m) /\ m.type = "LoginResponse"
  BY Notices DEF handle_login_request
<1>3. UNCHANGED <<book, misled>> /\ pending_out_messages' \in Seq(Message)
  BY <1>2, NoticePushed
<1>4. TypeOK'
  BY <1>1, <1>3 DEF handle_login_request, Reading, TypeOK, queues, LoggedIn
<1> QED
  BY <1>1, <1>3, <1>4, QuietStep

(* An order is accepted: it is in the map, and the client knows its size.  *)
LEMMA AcceptFacts ==
    ASSUME TypeOK, NEW t \in Tokens, NEW qty \in Nat,
           active_orders' = put(active_orders, t, parse_order(t, qty)),
           push_about(parse_order(t, qty), construct_order_accepted(parse_order(t, qty)))
    PROVE  /\ DOMAIN active_orders' = DOMAIN active_orders \cup {t}
           /\ active_orders' \in [DOMAIN active_orders' -> Boe_Order]
           /\ active_orders'[t] = parse_order(t, qty)
           /\ \A k \in DOMAIN active_orders \ {t} : active_orders'[k] = active_orders[k]
           /\ book' \in Book /\ pending_out_messages' \in Seq(Message)
           /\ book'[t] = [leaves |-> qty, executed |-> 0]
           /\ \A k \in Tokens \ {t} : book'[k] = book[k]
           /\ misled' = misled \ {t} /\ misled' \subseteq Tokens
<1> DEFINE o == parse_order(t, qty)
<1>1. o \in Boe_Order /\ active_orders' = put(active_orders, t, o)
  BY NewOrders
<1>2. active_orders \in [DOMAIN active_orders -> Boe_Order]
  BY DEF TypeOK
<1>3. /\ book' \in Book /\ pending_out_messages' \in Seq(Message)
      /\ book'[t] = [leaves |-> qty, executed |-> 0]
      /\ \A k \in Tokens \ {t} : book'[k] = book[k]
      /\ misled' = misled \ {t} /\ misled' \subseteq Tokens
  BY AckEffect
<1> HIDE DEF o
<1>4. /\ DOMAIN active_orders' = DOMAIN active_orders \cup {t}
      /\ active_orders' \in [DOMAIN active_orders' -> Boe_Order]
      /\ active_orders'[t] = o
      /\ \A k \in DOMAIN active_orders \ {t} : active_orders'[k] = active_orders[k]
  BY <1>1, <1>2 DEF put
<1> QED
  BY <1>3, <1>4 DEF o

(* enter_order preserves the invariant.                                    *)
LEMMA EnterStep ==
    ASSUME IInv, NEW t \in Tokens, NEW qty \in Nat, enter_order(t, qty)
    PROVE  IInv'
<1> USE DEF IInv
<1>1. /\ done_tokens = {} /\ done_tokens' = {} /\ phase' = "read"
      /\ todo = {} /\ todo' = {}
      /\ UNCHANGED <<state, finished_orders, queues, connected, cursor>> /\ connected
  BY DEF enter_order, Reading, TypeOK
<1>2. TypeOK' \/ ~ (/\ DOMAIN active_orders' \subseteq Tokens
                    /\ active_orders' \in [DOMAIN active_orders' -> Boe_Order]
                    /\ book' \in Book /\ misled' \subseteq Tokens
                    /\ pending_out_messages' \in Seq(Message))
  BY <1>1 DEF TypeOK, queues, Book
<1>3. DOMAIN active_orders \subseteq Tokens
  BY DEF TypeOK
<1>4. CASE push(construct_order_rejected(t)) /\ UNCHANGED active_orders
  <2>1. UNCHANGED <<book, misled>> /\ pending_out_messages' \in Seq(Message)
    BY <1>4, Notices, NoticePushed
  <2>2. TypeOK'
    BY <1>2, <1>4, <2>1 DEF TypeOK, Book
  <2> QED
    BY <1>1, <1>4, <2>1, <2>2, QuietStep
<1>5. CASE /\ active_orders' = put(active_orders, t, parse_order(t, qty))
           /\ push_about(parse_order(t, qty), construct_order_accepted(parse_order(t, qty)))
  <2>1. /\ DOMAIN active_orders' = DOMAIN active_orders \cup {t}
        /\ active_orders' \in [DOMAIN active_orders' -> Boe_Order]
        /\ active_orders'[t] = parse_order(t, qty)
        /\ \A k \in DOMAIN active_orders \ {t} : active_orders'[k] = active_orders[k]
        /\ book' \in Book /\ pending_out_messages' \in Seq(Message)
        /\ book'[t] = [leaves |-> qty, executed |-> 0]
        /\ \A k \in Tokens \ {t} : book'[k] = book[k]
        /\ misled' = misled \ {t} /\ misled' \subseteq Tokens
    BY <1>5, AcceptFacts
  <2>2. /\ active_orders'[t].token = t
        /\ active_orders'[t].remaining_qty = qty /\ active_orders'[t].executed_qty = 0
    BY <2>1 DEF parse_order
  <2>3. TypeOK'
    BY <1>2, <1>3, <2>1
  <2>4. Elsewhere(t)
    BY <2>1 DEF Elsewhere
  <2> QED
    BY <1>1, <1>3, <2>1, <2>2, <2>3, <2>4, OneOrder
<1> QED
  BY <1>4, <1>5 DEF enter_order

(* A cancel request is queued, or reads active_orders[t]: then it may      *)
(* create an order that is nobody's.                                       *)
LEMMA CreateFacts ==
    ASSUME TypeOK, NEW t \in Tokens, cancel_order(t)
    PROVE  /\ pending_cancel' \in Seq(Tokens)
           /\ UNCHANGED <<book, misled>> /\ pending_out_messages' \in Seq(Message)
           /\ active_orders' \in [DOMAIN active_orders' -> Boe_Order]
           /\ \/ UNCHANGED active_orders
              \/ /\ t \notin DOMAIN active_orders
                 /\ DOMAIN active_orders' = DOMAIN active_orders \cup {t}
                 /\ \A k \in DOMAIN active_orders : active_orders'[k] = active_orders[k]
                 /\ active_orders'[t].token \in Residual \cup {NoToken}
                 /\ ~ active_orders'[t].genuine
<1>1. active_orders \in [DOMAIN active_orders -> Boe_Order]
  BY DEF TypeOK
<1>2. PICK g \in Garbage :
        \/ /\ pending_cancel' = Append(pending_cancel, t)
           /\ UNCHANGED <<active_orders, out>>
        \/ /\ active_orders' = put(active_orders, t, IF t \in DOMAIN active_orders
                                                     THEN active_orders[t] ELSE default_order(g))
           /\ \/ \E r \in {"TooLateToCancel", "UnforeseenReason"} : push(construct_cancel_rejected(t, r))
              \/ UNCHANGED out
           /\ UNCHANGED pending_cancel
  BY DEF cancel_order
<1>3. UNCHANGED <<book, misled>> /\ pending_out_messages' \in Seq(Message) /\ pending_cancel' \in Seq(Tokens)
  <2>1. \/ \E r \in {"TooLateToCancel", "UnforeseenReason"} : push(construct_cancel_rejected(t, r))
        \/ UNCHANGED out
    BY <1>2
  <2>2. UNCHANGED <<book, misled>> /\ pending_out_messages' \in Seq(Message)
    BY <2>1, Notices, NoticePushed DEF out, TypeOK
  <2>3. pending_cancel' = Append(pending_cancel, t) \/ pending_cancel' = pending_cancel
    BY <1>2
  <2>4. pending_cancel \in Seq(Tokens)
    BY DEF TypeOK
  <2> QED
    BY <2>2, <2>3, <2>4
<1>4. CASE UNCHANGED active_orders
  BY <1>1, <1>3, <1>4
<1>5. CASE active_orders' = put(active_orders, t, IF t \in DOMAIN active_orders
                                                  THEN active_orders[t] ELSE default_order(g))
  <2>1. CASE t \in DOMAIN active_orders
    <3>1. active_orders' = put(active_orders, t, active_orders[t])
      BY <1>5, <2>1
    <3>2. active_orders' = active_orders
      BY <1>1, <2>1, <3>1 DEF put
    <3> QED
      BY <1>4, <3>2
  <2>2. CASE t \notin DOMAIN active_orders
    <3> DEFINE o == default_order(g)
    <3>1. o \in Boe_Order /\ o.token \in Residual \cup {NoToken} /\ ~ o.genuine
      BY NewOrders, CreatedOrder
    <3>2. active_orders' = put(active_orders, t, o)
      BY <1>5, <2>2
    <3> HIDE DEF o
    <3> QED
      BY <1>1, <1>3, <2>2, <3>1, <3>2 DEF put
  <2> QED
    BY <2>1, <2>2
<1> QED
  BY <1>2, <1>4, <1>5

(* cancel_order preserves the invariant.                                   *)
LEMMA QueueCancelStep == ASSUME IInv, NEW t \in Tokens, cancel_order(t) PROVE IInv'
<1> USE DEF IInv
<1>1. /\ done_tokens = {} /\ done_tokens' = {} /\ phase' = "read"
      /\ todo = {} /\ todo' = {}
      /\ UNCHANGED <<state, finished_orders, pending_modify, connected, cursor>> /\ connected
  BY DEF cancel_order, Reading, TypeOK
<1>2. /\ pending_cancel' \in Seq(Tokens)
      /\ UNCHANGED <<book, misled>> /\ pending_out_messages' \in Seq(Message)
      /\ active_orders' \in [DOMAIN active_orders' -> Boe_Order]
  BY CreateFacts
<1>3. TypeOK' \/ ~ DOMAIN active_orders' \subseteq Tokens
  BY <1>1, <1>2 DEF TypeOK
<1>4. CASE UNCHANGED active_orders
  <2>1. TypeOK'
    BY <1>3, <1>4 DEF TypeOK
  <2> QED
    BY <1>1, <1>2, <1>4, <2>1, QuietStep
<1>5. CASE /\ DOMAIN active_orders' = DOMAIN active_orders \cup {t}
           /\ \A k \in DOMAIN active_orders : active_orders'[k] = active_orders[k]
           /\ active_orders'[t].token \in Residual \cup {NoToken}
           /\ ~ active_orders'[t].genuine
  <2>1. TypeOK'
    BY <1>3, <1>5 DEF TypeOK
  <2>2. Elsewhere(t)
    BY <1>2 DEF Elsewhere
  <2> QED
    BY <1>1, <1>2, <1>5, <2>1, <2>2, OneOrder
<1> QED
  BY <1>4, <1>5, CreateFacts

(* modify_order preserves the invariant: it only queues the request.       *)
LEMMA QueueModifyStep ==
    ASSUME IInv, NEW orig \in Tokens, NEW new \in Tokens, NEW qty \in Nat,
           modify_order(orig, new, qty)
    PROVE  IInv'
<1> USE DEF IInv
<1>1. /\ done_tokens = {} /\ done_tokens' = {} /\ phase' = "read"
      /\ todo = {} /\ todo' = {}
      /\ UNCHANGED <<state, active_orders, finished_orders, pending_cancel, connected, cursor>>
      /\ connected
  BY DEF modify_order, Reading, TypeOK
<1>2. UNCHANGED <<book, misled>> /\ pending_out_messages' \in Seq(Message)
  <2>1. \/ \E r \in {"ClordidDoesntMatchAKnownOrder", "UnforeseenReason"} :
              push(construct_modify_rejected(orig, r))
        \/ UNCHANGED out
    BY DEF modify_order
  <2> QED
    BY <2>1, Notices, NoticePushed DEF out, TypeOK
<1>3. pending_modify' \in Seq(Boe_ModifyOrderReq)
  <2>1. [token |-> new, orig_token |-> orig, qty |-> qty] \in Boe_ModifyOrderReq
    BY DEF Boe_ModifyOrderReq
  <2>2. pending_modify' \in {pending_modify,
                            Append(pending_modify, [token |-> new, orig_token |-> orig, qty |-> qty])}
    BY DEF modify_order
  <2>3. pending_modify \in Seq(Boe_ModifyOrderReq)
    BY DEF TypeOK
  <2> QED
    BY <2>1, <2>2, <2>3
<1>4. TypeOK'
  BY <1>1, <1>2, <1>3 DEF TypeOK
<1> QED
  BY <1>1, <1>2, <1>4, QuietStep

(* Sending the queued messages preserves the invariant.                    *)
LEMMA SendStep == ASSUME IInv, send PROVE IInv'
<1> USE DEF IInv
<1>1. done_tokens = {} /\ done_tokens' = {} /\ phase' = "idle" /\ UNCHANGED <<active_orders, book, misled>>
  BY DEF send, TypeOK
<1>2. TypeOK'
  BY <1>1 DEF send, TypeOK, queues
<1> QED
  BY <1>1, <1>2, QuietStep

-----------------------------------------------------------------------------
(* market_logic. *)

(* The start of a tick, heartbeat_logic, preserves the invariant.          *)
LEMMA TickStartStep == ASSUME IInv, market_logic PROVE IInv'
<1> USE DEF IInv
<1>1. /\ done_tokens = {} /\ done_tokens' = {} /\ phase' = "cancel" /\ cursor' = 1
      /\ todo = {} /\ todo' = {} /\ UNCHANGED <<active_orders, connected>>
  BY DEF market_logic, enter_loop, TypeOK
<1>2. UNCHANGED <<book, misled>> /\ pending_out_messages' \in Seq(Message)
  BY Notices, NoticePushed DEF market_logic, out, TypeOK
<1>3. TypeOK'
  BY <1>1, <1>2 DEF market_logic, TypeOK, queues
<1> QED
  BY <1>1, <1>2, <1>3, QuietStep

(* An iteration of cancel_logic preserves the invariant.                   *)
LEMMA CancelStep == ASSUME IInv, cancel_logic PROVE IInv'
<1> USE DEF IInv
<1> DEFINE t == pending_cancel[cursor]
<1>1. /\ phase = "cancel" /\ cursor \in Nat \ {0} /\ cursor' = cursor + 1
      /\ todo = {} /\ todo' = {}
      /\ UNCHANGED <<state, active_orders, finished_orders, queues, connected, phase>>
  BY DEF cancel_logic, TypeOK
<1>2. t \in Tokens
  BY <1>1 DEF cancel_logic, TypeOK
<1>3. TypeOK' \/ ~ (/\ done_tokens' \subseteq Tokens \cup {NoToken}
                    /\ book' \in Book /\ misled' \subseteq Tokens
                    /\ pending_out_messages' \in Seq(Message))
  BY <1>1 DEF TypeOK, queues, Book
<1>4. CASE /\ \E r \in {"TooLateToCancel", "UnforeseenReason"} : push(construct_cancel_rejected(t, r))
           /\ UNCHANGED done_tokens
  <2>1. UNCHANGED <<book, misled>> /\ book' \in Book /\ pending_out_messages' \in Seq(Message)
    BY <1>2, <1>4, Notices, NoticePushed DEF TypeOK, Book
  <2>2. TypeOK'
    BY <1>3, <1>4, <2>1 DEF TypeOK
  <2> QED
    BY <1>1, <1>4, <2>1, <2>2, QuietStep
<1>5. CASE push(construct_order_canceled(t)) /\ done_tokens' = done_tokens \cup {t}
  <2>1. /\ book' \in Book /\ pending_out_messages' \in Seq(Message)
        /\ book'[t] = [leaves |-> 0, executed |-> book[t].executed]
        /\ \A k \in Tokens \ {t} : book'[k] = book[k]
        /\ UNCHANGED misled
    BY <1>2, <1>5, CanceledEffect
  <2>2. TypeOK'
    BY <1>2, <1>3, <1>5, <2>1 DEF TypeOK
  <2>3. Elsewhere(t)
    BY <2>1 DEF Elsewhere
  <2> QED
    BY <1>1, <1>5, <2>1, <2>2, <2>3, MarkedOrder
<1> QED
  BY <1>4, <1>5 DEF cancel_logic

(* The end of cancel_logic preserves the invariant.                        *)
LEMMA CancelEndsStep == ASSUME IInv, cancel_logic_ends PROVE IInv'
<1>1. /\ DOMAIN active_orders' = DOMAIN active_orders \ done_tokens
      /\ DOMAIN active_orders' \subseteq Tokens
      /\ active_orders' \in [DOMAIN active_orders' -> Boe_Order]
      /\ \A k \in DOMAIN active_orders' : active_orders'[k] = active_orders[k]
  BY EraseDone DEF cancel_logic_ends, IInv
<1>2. TypeOK'
  BY <1>1 DEF cancel_logic_ends, enter_loop, IInv, TypeOK, out
<1> QED
  BY <1>1, <1>2, LoopEnds DEF cancel_logic_ends, out

(* A modify is applied: what comes to be under the new token, and what the *)
(* client is told about it.                                                *)
LEMMA ModifyFacts ==
    ASSUME IInv, modify_logic, NEW mo, mo = pending_modify[cursor],
           mo.orig_token \in DOMAIN active_orders, NEW o, o = active_orders[mo.orig_token]
    PROVE  /\ mo.token \in Tokens /\ mo.orig_token \in Tokens
           /\ o.token \in Residual \cup {mo.orig_token, NoToken}
           /\ o.genuine => o.token = mo.orig_token
           /\ done_tokens' = IF o.executed_qty >= mo.qty THEN done_tokens \cup {o.token}
                             ELSE done_tokens
           /\ DOMAIN active_orders' = (DOMAIN active_orders \ {mo.orig_token}) \cup {mo.token}
           /\ active_orders' \in [DOMAIN active_orders' -> Boe_Order]
           /\ \A k \in DOMAIN active_orders \ {mo.orig_token, mo.token} :
                  active_orders'[k] = active_orders[k]
           /\ pending_out_messages' \in Seq(Message)
           /\ book' \in Book /\ misled' \subseteq Tokens
           /\ mo.token = mo.orig_token =>
                 /\ active_orders'[mo.token].token \in Residual \cup {NoToken}
                 /\ ~ active_orders'[mo.token].genuine
           /\ mo.token # mo.orig_token =>
                 /\ active_orders'[mo.token].token = mo.token
                 /\ active_orders'[mo.token].genuine = o.genuine
                 /\ active_orders'[mo.token].executed_qty = o.executed_qty
                 /\ active_orders'[mo.token].remaining_qty = 0 <=> o.executed_qty >= mo.qty
                 /\ o.genuine => /\ active_orders'[mo.token].remaining_qty >= 0
                                 /\ active_orders'[mo.token].executed_qty >= 0
           /\ \A k \in Tokens \ {active_orders'[mo.token].token} : book'[k] = book[k]
           /\ active_orders'[mo.token].genuine =>
                 /\ misled' = misled \ {mo.token}
                 /\ book'[mo.token] = [leaves |-> active_orders'[mo.token].remaining_qty,
                                       executed |-> active_orders'[mo.token].executed_qty]
           /\ ~ active_orders'[mo.token].genuine =>
                 misled' = misled \cup ({active_orders'[mo.token].token} \cap Tokens)
<1> USE DEF IInv
<1>1. mo \in Boe_ModifyOrderReq /\ active_orders \in [DOMAIN active_orders -> Boe_Order]
  BY DEF modify_logic, TypeOK
<1>2. mo.token \in Tokens /\ mo.orig_token \in Tokens
  BY <1>1 DEF Boe_ModifyOrderReq
<1>3. PICK g \in Garbage :
        LET moved == IF mo.token = mo.orig_token THEN default_order(g) ELSE modified(o, mo)
        IN  /\ active_orders' = move(active_orders, mo.orig_token, mo.token, moved)
            /\ push_about(moved, construct_order_modified(moved))
  BY DEF modify_logic
<1> DEFINE moved == IF mo.token = mo.orig_token THEN default_order(g) ELSE modified(o, mo)
<1>4. /\ o \in Boe_Order
      /\ o.token \in Residual \cup {mo.orig_token, NoToken}
      /\ o.genuine => o.token = mo.orig_token
      /\ o.genuine => o.executed_qty >= 0
  BY <1>1 DEF KeyIsToken, QtySound, Genuine
<1>5. done_tokens' = IF o.executed_qty >= mo.qty THEN done_tokens \cup {o.token} ELSE done_tokens
  BY DEF modify_logic
<1>6. mo.token # mo.orig_token =>
        /\ moved \in Boe_Order
        /\ moved.token = mo.token /\ moved.genuine = o.genuine
        /\ moved.executed_qty = o.executed_qty
        /\ o.executed_qty >= 0 => moved.remaining_qty >= 0
        /\ moved.remaining_qty = 0 <=> o.executed_qty >= mo.qty
  BY <1>1, <1>4, ModifiedOrder
<1>7. mo.token = mo.orig_token =>
        moved \in Boe_Order /\ moved.token \in Residual \cup {NoToken} /\ ~ moved.genuine
  BY NewOrders, CreatedOrder
<1>8. /\ active_orders' = move(active_orders, mo.orig_token, mo.token, moved)
      /\ push_about(moved, construct_order_modified(moved))
  BY <1>3
<1> HIDE DEF moved
<1>9. /\ DOMAIN active_orders' = (DOMAIN active_orders \ {mo.orig_token}) \cup {mo.token}
      /\ active_orders' \in [DOMAIN active_orders' -> Boe_Order]
      /\ active_orders'[mo.token] = moved
      /\ \A k \in DOMAIN active_orders \ {mo.orig_token, mo.token} : active_orders'[k] = active_orders[k]
  <2>1. moved \in Boe_Order
    BY <1>6, <1>7
  <2> QED
    BY <1>1, <1>8, <2>1 DEF move, put, erase, Restrict
<1>10. /\ pending_out_messages' \in Seq(Message)
       /\ book' \in Book /\ misled' \subseteq Tokens
       /\ \A k \in Tokens \ {moved.token} : book'[k] = book[k]
       /\ moved.genuine =>
            /\ misled' = misled \ {moved.token}
            /\ moved.token \in Tokens =>
                 book'[moved.token] = [leaves |-> moved.remaining_qty, executed |-> moved.executed_qty]
       /\ ~ moved.genuine => misled' = misled \cup ({moved.token} \cap Tokens)
  BY <1>6, <1>7, <1>8, ModifiedEffect
<1>11. moved.genuine => moved.token = mo.token
  BY <1>6, <1>7
<1> QED
  BY <1>2, <1>4, <1>5, <1>6, <1>7, <1>9, <1>10, <1>11

(* An iteration of modify_logic preserves the invariant: the order that    *)
(* comes to be under the new token is the one the client is told about.    *)
LEMMA ModifyStep == ASSUME IInv, modify_logic PROVE IInv'
<1> USE DEF IInv
<1> DEFINE mo == pending_modify[cursor]
           o == active_orders[mo.orig_token]
<1>1. /\ phase = "modify" /\ cursor \in Nat \ {0} /\ cursor' = cursor + 1
      /\ todo = {} /\ todo' = {}
      /\ UNCHANGED <<state, finished_orders, queues, connected, phase>>
  BY DEF modify_logic, TypeOK
<1>2. TypeOK' \/ ~ (/\ DOMAIN active_orders' \subseteq Tokens
                    /\ active_orders' \in [DOMAIN active_orders' -> Boe_Order]
                    /\ done_tokens' \subseteq Tokens \cup {NoToken}
                    /\ book' \in Book /\ misled' \subseteq Tokens
                    /\ pending_out_messages' \in Seq(Message))
  BY <1>1 DEF TypeOK, queues, Book
<1>3. CASE UNCHANGED <<active_orders, done_tokens, out>>
  <2>1. TypeOK'
    BY <1>2, <1>3 DEF TypeOK, out, Book
  <2> QED
    BY <1>1, <1>3, <2>1, QuietStep DEF out
<1>4. CASE mo.orig_token \in DOMAIN active_orders
  <2> HIDE DEF mo, o
  <2>1. /\ mo.token \in Tokens /\ mo.orig_token \in Tokens
        /\ o.token \in Residual \cup {mo.orig_token, NoToken}
        /\ done_tokens' = IF o.executed_qty >= mo.qty THEN done_tokens \cup {o.token} ELSE done_tokens
    BY <1>4, ModifyFacts DEF mo, o
  <2>2. /\ DOMAIN active_orders' = (DOMAIN active_orders \ {mo.orig_token}) \cup {mo.token}
        /\ active_orders' \in [DOMAIN active_orders' -> Boe_Order]
        /\ \A k \in DOMAIN active_orders \ {mo.orig_token, mo.token} :
               active_orders'[k] = active_orders[k]
    BY <1>4, ModifyFacts DEF mo, o
  <2>3. /\ pending_out_messages' \in Seq(Message)
        /\ book' \in Book /\ misled' \subseteq Tokens
    BY <1>4, ModifyFacts DEF mo, o
  <2>4. \/ /\ active_orders'[mo.token].token \in Residual \cup {mo.token, NoToken}
           /\ ~ active_orders'[mo.token].genuine
        \/ /\ active_orders'[mo.token].token = mo.token
           /\ active_orders'[mo.token].remaining_qty >= 0
           /\ active_orders'[mo.token].executed_qty >= 0
           /\ book'[mo.token] = [leaves |-> active_orders'[mo.token].remaining_qty,
                                 executed |-> active_orders'[mo.token].executed_qty]
    <3>1. /\ mo.token = mo.orig_token =>
                 /\ active_orders'[mo.token].token \in Residual \cup {NoToken}
                 /\ ~ active_orders'[mo.token].genuine
          /\ mo.token # mo.orig_token =>
                 /\ active_orders'[mo.token].token = mo.token
                 /\ active_orders'[mo.token].genuine = o.genuine
                 /\ o.genuine => /\ active_orders'[mo.token].remaining_qty >= 0
                                 /\ active_orders'[mo.token].executed_qty >= 0
          /\ active_orders'[mo.token].genuine =>
                 book'[mo.token] = [leaves |-> active_orders'[mo.token].remaining_qty,
                                    executed |-> active_orders'[mo.token].executed_qty]
      BY <1>4, ModifyFacts DEF mo, o
    <3> QED
      BY <3>1
  <2>9. Elsewhere(mo.token)
    <3>1. /\ \A k \in Tokens \ {active_orders'[mo.token].token} : book'[k] = book[k]
          /\ active_orders'[mo.token].genuine =>
                misled' = misled \ {mo.token} /\ active_orders'[mo.token].token = mo.token
          /\ ~ active_orders'[mo.token].genuine =>
                misled' = misled \cup ({active_orders'[mo.token].token} \cap Tokens)
      BY <1>4, ModifyFacts DEF mo, o
    <3> QED
      BY <3>1 DEF Elsewhere
  <2>5. DOMAIN active_orders' \subseteq Tokens
    BY <2>1, <2>2 DEF TypeOK
  <2>6. done_tokens \subseteq done_tokens' /\ done_tokens' \subseteq Tokens \cup {NoToken}
    BY <2>1 DEF TypeOK, Residual
  <2>7. TypeOK'
    BY <1>2, <2>2, <2>3, <2>5, <2>6
  <2>8. \A k \in DOMAIN active_orders' \ {mo.token} : active_orders'[k] = active_orders[k]
    BY <2>2
  <2> QED
    BY <1>1, <2>1, <2>2, <2>4, <2>6, <2>7, <2>8, <2>9, OneOrder
<1> QED
  BY <1>3, <1>4 DEF modify_logic

(* The end of modify_logic preserves the invariant.                        *)
LEMMA ModifyEndsStep == ASSUME IInv, modify_logic_ends PROVE IInv'
<1>1. /\ DOMAIN active_orders' = DOMAIN active_orders \ done_tokens
      /\ DOMAIN active_orders' \subseteq Tokens
      /\ active_orders' \in [DOMAIN active_orders' -> Boe_Order]
      /\ \A k \in DOMAIN active_orders' : active_orders'[k] = active_orders[k]
  BY EraseDone DEF modify_logic_ends, IInv
<1>2. TypeOK'
  BY <1>1 DEF modify_logic_ends, enter_loop, IInv, TypeOK, queues, out
<1> QED
  BY <1>1, <1>2, LoopEnds DEF modify_logic_ends, out

(* An order is filled: the shares leave it and reach the client together.  *)
LEMMA FillFacts ==
    ASSUME IInv, NEW t \in DOMAIN active_orders, NEW qty \in ExecutionQtys,
           still_active(active_orders[t]), qty # 0,
           active_orders' = [active_orders EXCEPT ![t] = filled(@, qty)],
           push_about(active_orders[t], construct_order_executed(active_orders[t], qty))
    PROVE  /\ DOMAIN active_orders' = DOMAIN active_orders
           /\ active_orders' \in [DOMAIN active_orders' -> Boe_Order]
           /\ \A k \in DOMAIN active_orders \ {t} : active_orders'[k] = active_orders[k]
           /\ active_orders'[t].token = active_orders[t].token
           /\ active_orders'[t].genuine = active_orders[t].genuine
           /\ pending_out_messages' \in Seq(Message)
           /\ book' \in Book /\ misled' \subseteq Tokens
           /\ \A k \in Tokens \ {active_orders[t].token} : book'[k] = book[k]
           /\ active_orders[t].remaining_qty \in Int /\ active_orders[t].executed_qty \in Int
           /\ last_shares(active_orders[t], qty) \in 1 .. active_orders[t].remaining_qty
           /\ active_orders'[t].remaining_qty =
                active_orders[t].remaining_qty - last_shares(active_orders[t], qty)
           /\ active_orders'[t].executed_qty =
                active_orders[t].executed_qty + last_shares(active_orders[t], qty)
           /\ ~ active_orders[t].genuine =>
                misled' = misled \cup ({active_orders[t].token} \cap Tokens)
           /\ active_orders[t].genuine =>
                /\ misled' = misled /\ active_orders[t].token = t
                /\ book'[t] = [leaves |-> active_orders'[t].remaining_qty,
                               executed |-> book[t].executed + last_shares(active_orders[t], qty)]
<1> DEFINE o == active_orders[t]
<1> USE DEF IInv
<1>1. /\ active_orders \in [DOMAIN active_orders -> Boe_Order]
      /\ DOMAIN active_orders \subseteq Tokens /\ NoToken \notin Tokens
      /\ o \in Boe_Order /\ o.remaining_qty \in Int /\ o.executed_qty \in Int
      /\ o.genuine => o.token = t
  BY BoeAssumption DEF TypeOK, KeyIsToken, Genuine, Boe_Order
<1>2. qty \in Nat /\ o.remaining_qty > 0
  BY BoeAssumption DEF still_active
<1> DEFINE n == last_shares(o, qty)
           new == filled(o, qty)
<1>3. /\ n \in 1 .. o.remaining_qty
      /\ new \in Boe_Order /\ new.token = o.token /\ new.genuine = o.genuine
      /\ new.remaining_qty = o.remaining_qty - n
      /\ new.executed_qty = o.executed_qty + n
  BY <1>1, <1>2, FilledOrder
<1>4. active_orders' = [active_orders EXCEPT ![t] = new]
  OBVIOUS
<1>5. /\ pending_out_messages' \in Seq(Message)
      /\ book' \in Book /\ misled' \subseteq Tokens
      /\ \A k \in Tokens \ {o.token} : book'[k] = book[k]
      /\ o.genuine =>
           /\ misled' = misled
           /\ o.token \in Tokens =>
                book'[o.token] = [leaves |-> new.remaining_qty, executed |-> book[o.token].executed + n]
      /\ ~ o.genuine => misled' = misled \cup ({o.token} \cap Tokens)
  BY <1>1, <1>2, ExecutedEffect
<1> HIDE DEF n, new
<1>6. /\ DOMAIN active_orders' = DOMAIN active_orders
      /\ active_orders' \in [DOMAIN active_orders' -> Boe_Order]
      /\ active_orders'[t] = new
      /\ \A k \in DOMAIN active_orders \ {t} : active_orders'[k] = active_orders[k]
  BY <1>1, <1>3, <1>4
<1> QED
  BY <1>1, <1>3, <1>5, <1>6 DEF n

(* An iteration of execution_logic preserves the invariant.                *)
LEMMA ExecutionStep == ASSUME IInv, NEW t \in Tokens, execution_logic(t) PROVE IInv'
<1> USE DEF IInv
<1> DEFINE o == active_orders[t]
<1>1. /\ phase = "execution" /\ t \in todo /\ todo' = todo \ {t}
      /\ UNCHANGED <<state, queues, connected, phase, cursor>>
  BY DEF execution_logic
<1>2. /\ t \in DOMAIN active_orders /\ t \notin done_tokens
      /\ o.token = t \/ (o.token \in Residual \cup {NoToken} /\ ~ o.genuine)
  BY <1>1 DEF TypeOK, KeyIsToken, Genuine
<1>3. TypeOK' \/ ~ (/\ DOMAIN active_orders' = DOMAIN active_orders
                    /\ active_orders' \in [DOMAIN active_orders' -> Boe_Order]
                    /\ finished_orders' \subseteq Tokens
                    /\ done_tokens' \subseteq done_tokens \cup {t}
                    /\ book' \in Book /\ misled' \subseteq Tokens
                    /\ pending_out_messages' \in Seq(Message))
  BY <1>1, <1>2 DEF TypeOK, queues, Book
\* The order is left as it is, or was finished.
<1>4. CASE /\ UNCHANGED <<active_orders, out>>
           /\ \/ UNCHANGED <<finished_orders, done_tokens>>
              \/ /\ finished_orders' = finished_orders \cup {t}
                 /\ done_tokens' = done_tokens \cup {t}
  <2>1. TypeOK'
    BY <1>3, <1>4 DEF TypeOK, out, Book
  <2> QED
    BY <1>1, <1>4, <2>1, QuietStep DEF out
\* The order is filled, in part or completely.
<1>5. CASE /\ still_active(o)
           /\ \E qty \in ExecutionQtys :
                /\ qty # 0
                /\ active_orders' = [active_orders EXCEPT ![t] = filled(@, qty)]
                /\ push_about(o, construct_order_executed(o, qty))
           /\ UNCHANGED <<finished_orders, done_tokens>>
  <2> DEFINE new == active_orders'[t]
  <2>1. /\ DOMAIN active_orders' = DOMAIN active_orders
        /\ active_orders' \in [DOMAIN active_orders' -> Boe_Order]
        /\ \A k \in DOMAIN active_orders \ {t} : active_orders'[k] = active_orders[k]
        /\ new.token = o.token /\ new.genuine = o.genuine
        /\ pending_out_messages' \in Seq(Message)
        /\ book' \in Book /\ misled' \subseteq Tokens
        /\ \A k \in Tokens \ {o.token} : book'[k] = book[k]
        /\ ~ o.genuine => misled' = misled \cup ({o.token} \cap Tokens)
        /\ o.genuine => misled' = misled /\ o.token = t
    BY <1>2, <1>5, FillFacts
  <2>2. TypeOK'
    BY <1>3, <1>5, <2>1 DEF TypeOK
  <2>3. Elsewhere(t)
    BY <2>1 DEF Elsewhere
  <2>4. o.genuine => /\ new.remaining_qty >= 0 /\ new.executed_qty >= 0
                     /\ \/ t \in misled'
                        \/ /\ book'[t].leaves = new.remaining_qty
                           /\ book'[t].executed = new.executed_qty
    <3>1. o.genuine => /\ o.executed_qty >= 0
                       /\ t \in misled \/ book[t].executed = o.executed_qty
      BY <1>2 DEF QtySound, ClientAgrees, Genuine
    <3>2. PICK qty \in ExecutionQtys :
             /\ qty # 0
             /\ active_orders' = [active_orders EXCEPT ![t] = filled(@, qty)]
             /\ push_about(o, construct_order_executed(o, qty))
      BY <1>5
    <3>3. /\ o.remaining_qty \in Int /\ o.executed_qty \in Int
          /\ last_shares(o, qty) \in 1 .. o.remaining_qty
          /\ new.remaining_qty = o.remaining_qty - last_shares(o, qty)
          /\ new.executed_qty = o.executed_qty + last_shares(o, qty)
          /\ o.genuine => book'[t] = [leaves |-> new.remaining_qty,
                                      executed |-> book[t].executed + last_shares(o, qty)]
      BY <1>2, <1>5, <3>2, FillFacts
    <3> QED
      BY <2>1, <3>1, <3>3
  <2> QED
    BY <1>1, <1>2, <1>5, <2>1, <2>2, <2>3, <2>4, OneOrder
<1> QED
  BY <1>4, <1>5 DEF execution_logic

(* The end of execution_logic preserves the invariant.                     *)
LEMMA ExecutionEndsStep == ASSUME IInv, execution_logic_ends PROVE IInv'
<1>1. /\ DOMAIN active_orders' = DOMAIN active_orders \ done_tokens
      /\ DOMAIN active_orders' \subseteq Tokens
      /\ active_orders' \in [DOMAIN active_orders' -> Boe_Order]
      /\ \A k \in DOMAIN active_orders' : active_orders'[k] = active_orders[k]
  BY EraseDone DEF execution_logic_ends, IInv
<1>2. TypeOK'
  BY <1>1 DEF execution_logic_ends, enter_loop, IInv, TypeOK, queues, out
<1> QED
  BY <1>1, <1>2, LoopEnds DEF execution_logic_ends, out

-----------------------------------------------------------------------------
(* cancel_all and disconnect. *)

(* The start of cancel_all preserves the invariant.                        *)
LEMMA CancelAllStartStep == ASSUME IInv, cancel_all PROVE IInv'
<1> USE DEF IInv
<1>1. done_tokens = {} /\ done_tokens' = {} /\ UNCHANGED <<active_orders, book, misled>>
  BY DEF cancel_all, enter_loop, TypeOK, out
<1>2. TypeOK'
  BY <1>1 DEF cancel_all, enter_loop, TypeOK, queues, out
<1> QED
  BY <1>1, <1>2, QuietStep

(* An iteration of cancel_all preserves the invariant.                     *)
LEMMA CancelAllStep == ASSUME IInv, NEW t \in Tokens, cancel_all_order(t) PROVE IInv'
<1> USE DEF IInv
<1> DEFINE o == active_orders[t]
<1>1. /\ phase = "cancel_all" /\ t \in todo /\ todo' = todo \ {t}
      /\ done_tokens' = done_tokens \cup {t}
      /\ UNCHANGED <<state, active_orders, finished_orders, queues, connected, phase, cursor>>
  BY DEF cancel_all_order
<1>2. /\ t \in DOMAIN active_orders
      /\ o.genuine => o.token = t
      /\ o.token \in Tokens \cup {NoToken}
  BY <1>1 DEF TypeOK, KeyIsToken, Genuine, Boe_Order
<1>3. /\ pending_out_messages' \in Seq(Message)
      /\ book' \in Book /\ misled' \subseteq Tokens
      /\ Elsewhere(t)
      /\ \/ t \in misled'
         \/ /\ t \notin misled
            /\ \/ book'[t] = book[t]
               \/ book'[t] = [leaves |-> 0, executed |-> book[t].executed]
  <2>1. CASE o.genuine /\ push_about(o, construct_order_canceled(o.token))
    <3>1. /\ book' \in Book /\ pending_out_messages' \in Seq(Message)
          /\ book'[t] = [leaves |-> 0, executed |-> book[t].executed]
          /\ \A k \in Tokens \ {t} : book'[k] = book[k]
          /\ UNCHANGED misled
      BY <1>2, <2>1, CanceledEffect
    <3> QED
      BY <3>1 DEF Elsewhere, TypeOK
  <2>2. CASE UNCHANGED out
    BY <2>2 DEF out, TypeOK, Book, Elsewhere
  <2>3. CASE ~ o.genuine /\ push_about(o, construct_order_canceled(o.token))
    <3>1. construct_order_canceled(o.token) \in Message
          /\ construct_order_canceled(o.token).token = o.token
      BY <1>2 DEF construct_order_canceled, Message
    <3>2. /\ pending_out_messages' \in Seq(Message)
          /\ book' \in Book /\ misled' \subseteq Tokens
          /\ \A k \in Tokens \ {o.token} : book'[k] = book[k]
          /\ misled' = misled \cup ({o.token} \cap Tokens)
      BY <2>3, <3>1, StrayNews
    <3> QED
      BY <3>2 DEF Elsewhere
  <2> QED
    BY <2>1, <2>2, <2>3 DEF cancel_all_order
<1>4. TypeOK'
  BY <1>1, <1>3 DEF TypeOK, queues, Book
<1> QED
  BY <1>1, <1>3, <1>4, MarkedOrder

(* The end of cancel_all preserves the invariant: the map is empty.        *)
LEMMA CancelAllEndsStep == ASSUME IInv, cancel_all_ends PROVE IInv'
<1> USE DEF IInv
<1>1. active_orders \in [DOMAIN active_orders -> Boe_Order]
  BY DEF TypeOK
<1>2. DOMAIN active_orders' = {} /\ active_orders' \in [DOMAIN active_orders' -> Boe_Order]
  BY <1>1 DEF cancel_all_ends, erase, Restrict
<1>3. TypeOK'
  BY <1>2 DEF cancel_all_ends, enter_loop, TypeOK, queues, out
<1> QED
  BY <1>2, <1>3 DEF KeyIsToken, QtySound, ClientAgrees, Genuine

(* A disconnect preserves the invariant: it only resets the state.         *)
LEMMA DisconnectStep == ASSUME IInv, disconnect PROVE IInv'
<1> USE DEF IInv
<1>1. done_tokens = {} /\ UNCHANGED <<active_orders, book, misled>>
  BY DEF disconnect, TypeOK, out
<1>3. state' \in {NotLoggedIn, LoggedIn} /\ state' # LoggedIn /\ phase' # "read"
  BY DEF disconnect, NotLoggedIn, LoggedIn
<1>4. connected' \in BOOLEAN
  BY Zenon DEF disconnect
<1>2. TypeOK'
  BY <1>3, <1>4 DEF disconnect, TypeOK, queues, out
<1> QED
  BY <1>1, <1>2, QuietStep

-----------------------------------------------------------------------------
(* Every step preserves the invariant.                                     *)
LEMMA NextInv == IInv /\ [Next]_vars => IInv'
<1> SUFFICES ASSUME IInv, [Next]_vars PROVE IInv'
  OBVIOUS
<1>1. CASE handle_packet
  <2>1. EnterQtys \subseteq Nat /\ ModifyQtys \subseteq Nat
    BY BoeAssumption
  <2>2. CASE \E t \in Tokens, qty \in EnterQtys : enter_order(t, qty)
    BY <2>1, <2>2, EnterStep
  <2>3. CASE \E t \in Tokens : cancel_order(t)
    BY <2>3, QueueCancelStep
  <2>4. CASE \E t, u \in Tokens, qty \in ModifyQtys : modify_order(t, u, qty)
    BY <2>1, <2>4, QueueModifyStep
  <2> QED
    BY <1>1, <2>2, <2>3, <2>4, LoginStep DEF handle_packet
<1>2. CASE HandlerStep
  <2>1. CASE \E t \in Tokens : execution_logic(t)
    BY <2>1, ExecutionStep
  <2>2. CASE \E t \in Tokens : cancel_all_order(t)
    BY <2>2, CancelAllStep
  <2> QED
    BY <1>2, <2>1, <2>2, CancelStep, CancelEndsStep, ModifyStep, ModifyEndsStep,
       ExecutionEndsStep, CancelAllEndsStep, SendStep DEF HandlerStep
<1>3. CASE UNCHANGED vars
  BY <1>3 DEF vars, IInv, TypeOK, KeyIsToken, QtySound, ClientAgrees, Genuine, Residual
<1> QED
  BY <1>1, <1>2, <1>3, ClientComesStep, TickStartStep, CancelAllStartStep, DisconnectStep DEF Next

(* The invariant holds in every behaviour of the session.                  *)
THEOREM Invariance == Spec => []IInv
<1> QED
  BY InitInv, NextInv, PTL DEF Spec

(* Every value stays in its type; no loop leaves its marks behind or       *)
(* visits an order it has marked, so that it erases what it has decided.   *)
THEOREM TypeCorrect == Spec => []TypeOK
<1>1. IInv => TypeOK
  BY DEF IInv
<1> QED
  BY <1>1, Invariance, PTL

(* However orders are renamed onto each other's tokens, every order is in  *)
(* the map under the token it carries.  Only one that nobody entered may   *)
(* carry another, left over in the memory operator[] took for it.          *)
THEOREM KeysAreTokens == Spec => []KeyIsToken
<1>1. IInv => KeyIsToken
  BY DEF IInv
<1> QED
  BY <1>1, Invariance, PTL

(* The quantities of an order a client entered are never negative, although *)
(* the quantities of requests are not validated.                           *)
THEOREM QuantitiesSound == Spec => []QtySound
<1>1. IInv => QtySound
  BY DEF IInv
<1> QED
  BY <1>1, Invariance, PTL

(* A client that applies every message agrees with the market about every  *)
(* order it entered, except under the names about which an order that      *)
(* nobody entered has misled it.                                           *)
THEOREM ClientAgreement == Spec => []ClientAgrees
<1>1. IInv => ClientAgrees
  BY DEF IInv
<1> QED
  BY <1>1, Invariance, PTL
=============================================================================
