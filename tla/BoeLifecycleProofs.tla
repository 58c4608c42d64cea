-------------------------- MODULE BoeLifecycleProofs --------------------------
(***************************************************************************)
(* BoeSession implements OrderLifecycle: the initial state of the session  *)
(* is one of the abstract specification, and each step of the session is   *)
(* one of its steps or changes nothing it can see.                         *)
(***************************************************************************)
EXTENDS BoeSessionProofs

-----------------------------------------------------------------------------
(* The abstract state, as Lifecycle's refinement mapping defines it. *)

Shares(t) == [open |-> active_orders[t].remaining_qty,
              executed |-> active_orders[t].executed_qty]
Told(t) == [open |-> book[t].leaves, executed |-> book[t].executed]
Ending == done_tokens \cap Tokens
TooLarge == {t \in Genuine : active_orders[t].remaining_qty > LimitQty}
Strays == DOMAIN active_orders \ Genuine

AbstractStep == Lifecycle!Next \/ UNCHANGED Lifecycle!lifecycle_vars

(* Each action of the abstract specification is a step of it.              *)
LEMMA Steps ==
    /\ \A t \in Tokens :
          Lifecycle!Enter(t) \/ Lifecycle!Fill(t) \/ Lifecycle!AnnounceEnd(t) \/ Lifecycle!Retire(t)
            => AbstractStep
    /\ \A t, u \in Tokens :
          Lifecycle!Rename(t, u) \/ Lifecycle!Supplant(t, u) \/ Lifecycle!Stray(t, u)
            => AbstractStep
    /\ \A t, u, s \in Tokens : Lifecycle!StrayMoves(t, u, s) => AbstractStep
    /\ Lifecycle!Ask \/ Lifecycle!Drop => AbstractStep
  BY DEF AbstractStep, Lifecycle!Next

(* The requests of the client are those of pending_modify.                 *)
LEMMA SameRequests == ASSUME UNCHANGED pending_modify PROVE UNCHANGED Requests
  BY DEF Requests

LEMMA RequestsType == ASSUME TypeOK' PROVE Requests' \subseteq Lifecycle!Request
<1>1. pending_modify' \in Seq(Boe_ModifyOrderReq)
  BY DEF TypeOK
<1>2. \A i \in DOMAIN pending_modify' : i \in Nat /\ pending_modify'[i] \in Boe_ModifyOrderReq
  BY <1>1
<1>3. \A i \in DOMAIN pending_modify' :
         pending_modify'[i].orig_token \in Tokens /\ pending_modify'[i].token \in Tokens
  BY <1>2 DEF Boe_ModifyOrderReq
<1> QED
  BY <1>2, <1>3 DEF Requests, Lifecycle!Request

LEMMA Renames ==
    ASSUME cursor \in DOMAIN pending_modify, NEW t, NEW u,
           t = pending_modify[cursor].orig_token, u = pending_modify[cursor].token
    PROVE  Lifecycle!Asked(t, u)
<1> DEFINE r == [kind |-> "rename", no |-> cursor,
                 from |-> pending_modify[cursor].orig_token, to |-> pending_modify[cursor].token]
<1>1. r \in Requests
  BY DEF Requests
<1> QED
  BY <1>1 DEF Lifecycle!Asked

(* A step of the session that changes neither the orders nor what the      *)
(* client knows and asks for is no step of the abstract specification.     *)
LEMMA Stutters ==
    ASSUME UNCHANGED <<active_orders, book, misled, done_tokens, Requests>>
    PROVE  AbstractStep
  BY DEF AbstractStep, Lifecycle!lifecycle_vars, Genuine

(* The name under which the client may take a message for news: the token  *)
(* of the message, or, when that is no name, any.                          *)
Heard(s, t) == IF s = NoToken THEN t ELSE s

(* A message about an order nobody entered is heard under that name.       *)
LEMMA NewsHeard ==
    ASSUME TypeOK, NEW t \in Tokens, NEW s \in Residual \cup {t, NoToken},
           \A k \in Tokens \ {s} : book'[k] = book[k],
           misled' \in {misled, misled \cup ({s} \cap Tokens)}
    PROVE  /\ Heard(s, t) \in Residual \cup {t} /\ Heard(s, t) \in Tokens
           /\ Lifecycle!Told({Heard(s, t)}) /\ Lifecycle!Misled({Heard(s, t)})
<1>1. NoToken \notin Tokens /\ Residual \subseteq Tokens
  BY BoeAssumption DEF Residual
<1>2. \A k \in Tokens \ {Heard(s, t)} : Told(k)' = Told(k)
  BY <1>1 DEF Heard, Told
<1>3. Lifecycle!Told({Heard(s, t)})
  BY <1>2 DEF Lifecycle!Told, Told
<1>4. misled \subseteq misled' /\ misled' \subseteq misled \cup {Heard(s, t)}
  BY <1>1 DEF Heard
<1> QED
  BY <1>1, <1>3, <1>4 DEF Heard, Lifecycle!Misled

(* An order nobody entered, under the key t, comes to be, changes or is    *)
(* marked, and the client hears of it under the token s.                   *)
LEMMA StrayStep ==
    ASSUME TypeOK, TypeOK', NEW t \in Tokens, NEW s \in Residual \cup {t, NoToken},
           t \notin Genuine, t \notin Genuine', t \in DOMAIN active_orders',
           \A k \in Tokens \ {t} :
               /\ k \in DOMAIN active_orders' <=> k \in DOMAIN active_orders
               /\ k \in DOMAIN active_orders => active_orders'[k] = active_orders[k],
           \A k \in Tokens \ {s} : book'[k] = book[k],
           misled' \in {misled, misled \cup ({s} \cap Tokens)},
           done_tokens' \in {done_tokens, done_tokens \cup {t}},
           UNCHANGED Requests
    PROVE  AbstractStep
<1>1. DOMAIN active_orders \subseteq Tokens /\ DOMAIN active_orders' \subseteq Tokens
  BY DEF TypeOK
<1>2. Genuine' = Genuine
  BY <1>1 DEF Genuine
<1>3. \A k \in Genuine : Shares(k)' = Shares(k) /\ active_orders'[k] = active_orders[k]
  BY <1>1, <1>2 DEF Shares, Genuine
<1>4. [k \in Genuine |-> Shares(k)]' = [k \in Genuine |-> Shares(k)]
  BY <1>2, <1>3
<1>5. Strays' = Strays \cup {t}
  BY <1>1, <1>2 DEF Strays, Genuine
<1>6. Ending' \in {Ending, Ending \cup {t}}
  BY DEF Ending
<1>7. TooLarge' = TooLarge
  BY <1>2, <1>3 DEF TooLarge
<1>8. Lifecycle!TimePasses
  BY <1>2, <1>7 DEF Lifecycle!TimePasses, TooLarge
<1>9. Lifecycle!Stray(t, Heard(s, t))
  BY <1>4, <1>5, <1>6, <1>8, NewsHeard DEF Lifecycle!Stray, Shares, Ending, Strays
<1> QED
  BY <1>9, NewsHeard, Steps

-----------------------------------------------------------------------------
(* The handlers of packets, and send. *)

(* The steps that only concern the session.                                *)
LEMMA QuietRefines ==
    ASSUME IInv, handle_login_request \/ accept \/ send \/ market_logic \/ cancel_all \/ disconnect
    PROVE  AbstractStep
<1>1. UNCHANGED <<active_orders, done_tokens>>
  <2>1. phase \in {"idle", "read", "send"} => done_tokens = {}
    BY DEF IInv, TypeOK
  <2>2. CASE handle_login_request
    BY <2>2 DEF handle_login_request, Reading
  <2>3. CASE accept \/ disconnect \/ send
    BY <2>3 DEF accept, disconnect, send
  <2>4. CASE market_logic \/ cancel_all
    BY <2>1, <2>4 DEF market_logic, cancel_all, enter_loop
  <2> QED
    BY <2>2, <2>3, <2>4
<1>2. UNCHANGED <<book, misled>>
  <2>1. CASE handle_login_request
    <3>1. \E m \in Message : push(m) /\ m.type = "LoginResponse"
      BY <2>1, Notices DEF handle_login_request
    <3> QED
      BY <3>1, NoticePushed DEF IInv
  <2>2. CASE market_logic
    BY <2>2, Notices, NoticePushed DEF IInv, market_logic, out
  <2>3. CASE accept \/ send \/ cancel_all \/ disconnect
    BY <2>3 DEF accept, send, cancel_all, disconnect, out
  <2> QED
    BY <2>1, <2>2, <2>3
<1>3. UNCHANGED pending_modify
  BY DEF handle_login_request, accept, send, market_logic, cancel_all, disconnect, queues
<1> QED
  BY <1>1, <1>2, <1>3, SameRequests, Stutters

(* The client asks for a modify, or is refused.                            *)
LEMMA AskRefines ==
    ASSUME IInv, IInv', NEW t \in Tokens, NEW u \in Tokens, NEW qty \in Nat, modify_order(t, u, qty)
    PROVE  AbstractStep
<1>1. UNCHANGED <<active_orders, done_tokens>>
  BY DEF modify_order, Reading
<1>2. UNCHANGED <<book, misled>>
  <2>1. \/ \E r \in {"ClordidDoesntMatchAKnownOrder", "UnforeseenReason"} :
              push(construct_modify_rejected(t, r))
        \/ UNCHANGED out
    BY DEF modify_order
  <2> QED
    BY <2>1, Notices, NoticePushed DEF IInv, out
<1>3. \A i \in DOMAIN pending_modify :
         i \in DOMAIN pending_modify' /\ pending_modify'[i] = pending_modify[i]
  <2>1. pending_modify \in Seq(Boe_ModifyOrderReq)
    BY DEF IInv, TypeOK
  <2>2. UNCHANGED pending_modify \/ \E r : pending_modify' = Append(pending_modify, r)
    BY DEF modify_order
  <2> QED
    BY <2>1, <2>2
<1>4. Requests \subseteq Requests'
  BY <1>3 DEF Requests
<1>5. UNCHANGED <<Genuine, Strays, TooLarge, Ending>>
  BY <1>1 DEF Genuine, Strays, TooLarge, Ending
<1>6. Lifecycle!Ask
  BY <1>1, <1>2, <1>4, <1>5, RequestsType DEF Lifecycle!Ask, IInv, Genuine
<1> QED
  BY <1>6, Steps

(* An order is entered, or rejected, which is no step.                     *)
LEMMA EnterRefines ==
    ASSUME IInv, NEW t \in Tokens, NEW qty \in Nat, enter_order(t, qty)
    PROVE  AbstractStep
<1>1. UNCHANGED <<done_tokens, Requests>>
  BY SameRequests DEF enter_order, Reading, queues
<1>2. CASE push(construct_order_rejected(t)) /\ UNCHANGED active_orders
  BY <1>1, <1>2, Notices, NoticePushed, Stutters DEF IInv
<1>3. CASE /\ t \notin DOMAIN active_orders
           /\ active_orders' = put(active_orders, t, parse_order(t, qty))
           /\ push_about(parse_order(t, qty), construct_order_accepted(parse_order(t, qty)))
  <2>1. /\ DOMAIN active_orders' = DOMAIN active_orders \cup {t}
        /\ active_orders'[t] = parse_order(t, qty)
        /\ \A k \in DOMAIN active_orders \ {t} : active_orders'[k] = active_orders[k]
        /\ book'[t] = [leaves |-> qty, executed |-> 0]
        /\ \A k \in Tokens \ {t} : book'[k] = book[k]
        /\ misled' = misled \ {t}
    BY <1>3, AcceptFacts DEF IInv
  <2>2. /\ active_orders'[t].genuine
        /\ active_orders'[t].remaining_qty = qty /\ active_orders'[t].executed_qty = 0
    BY <2>1 DEF parse_order
  <2>3. t \notin Genuine /\ Genuine' = Genuine \cup {t} /\ Strays' = Strays
    BY <1>3, <2>1, <2>2 DEF Genuine, Strays
  <2>4. Told(t)' = [open |-> qty, executed |-> 0] /\ Shares(t)' = Told(t)'
    BY <2>1, <2>2 DEF Told, Shares
  <2>5. \A k \in Genuine : Shares(k)' = Shares(k) /\ active_orders'[k] = active_orders[k]
    BY <1>3, <2>1 DEF Shares, Genuine
  <2>6. [k \in Genuine |-> Shares(k)]' = Lifecycle!With([k \in Genuine |-> Shares(k)], t, Told(t)')
    BY <2>3, <2>4, <2>5 DEF Lifecycle!With
  <2>7. Lifecycle!Told({t})
    BY <2>1 DEF Lifecycle!Told
  <2>8. Lifecycle!Resized(t)
    <3>1. (TooLarge \cap Genuine') \ {t} \subseteq TooLarge' /\ TooLarge' \subseteq TooLarge \cup {t}
      BY <2>3, <2>5 DEF TooLarge
    <3> QED
      BY <3>1 DEF Lifecycle!Resized, TooLarge
  <2>9. Lifecycle!Enter(t)
    BY <1>1, <1>3, <2>1, <2>3, <2>4, <2>6, <2>7, <2>8 DEF Lifecycle!Enter, Shares, Told, Strays
  <2> QED
    BY <2>9, Steps
<1> QED
  BY <1>2, <1>3 DEF enter_order

(* A cancel request may create an order nobody entered.                    *)
LEMMA QueueCancelRefines ==
    ASSUME IInv, IInv', NEW t \in Tokens, cancel_order(t)
    PROVE  AbstractStep
<1>1. UNCHANGED <<done_tokens, book, misled, Requests>>
  BY CreateFacts, SameRequests DEF IInv, cancel_order, Reading
<1>2. CASE UNCHANGED active_orders
  BY <1>1, <1>2, Stutters
<1>3. CASE /\ t \notin DOMAIN active_orders
           /\ DOMAIN active_orders' = DOMAIN active_orders \cup {t}
           /\ \A k \in DOMAIN active_orders : active_orders'[k] = active_orders[k]
           /\ ~ active_orders'[t].genuine
  <2>1. t \notin Genuine /\ t \notin Genuine' /\ t \in DOMAIN active_orders'
    BY <1>3 DEF Genuine
  <2>2. \A k \in Tokens \ {t} :
          /\ k \in DOMAIN active_orders' <=> k \in DOMAIN active_orders
          /\ k \in DOMAIN active_orders => active_orders'[k] = active_orders[k]
    BY <1>3
  <2> QED
    BY <1>1, <2>1, <2>2, StrayStep DEF IInv
<1> QED
  BY <1>2, <1>3, CreateFacts DEF IInv

-----------------------------------------------------------------------------
(* The loops of market_logic and cancel_all. *)

(* An order the client entered is marked as done and its end is announced. *)
LEMMA CloseRefines ==
    ASSUME IInv, IInv', NEW t \in Genuine,
           UNCHANGED <<active_orders, misled, Requests>>, done_tokens' = done_tokens \cup {t},
           book'[t] = [leaves |-> 0, executed |-> book[t].executed],
           \A k \in Tokens \ {t} : book'[k] = book[k]
    PROVE  AbstractStep
<1>1. t \in Tokens
  BY DEF IInv, TypeOK, Genuine
<1>2. Told(t)' = [open |-> 0, executed |-> book[t].executed]
      /\ \A k \in Tokens \ {t} : Told(k)' = Told(k)
  BY <1>1 DEF Told
<1>3. [k \in Tokens |-> Told(k)]' = [[k \in Tokens |-> Told(k)] EXCEPT ![t].open = 0]
  BY <1>1, <1>2 DEF Told
<1>4. Genuine' = Genuine /\ Ending' = Ending \cup {t}
  BY <1>1 DEF Genuine, Ending
<1>5. Lifecycle!AnnounceEnd(t)
  BY <1>3, <1>4 DEF Lifecycle!AnnounceEnd, Told, Ending
<1> QED
  BY <1>1, <1>5, Steps

(* An iteration of cancel_logic announces an end, or refuses.              *)
LEMMA CancelRefines == ASSUME IInv, IInv', cancel_logic PROVE AbstractStep
<1> DEFINE t == pending_cancel[cursor]
<1>1. UNCHANGED <<active_orders, Requests>> /\ t \in Tokens
  BY SameRequests DEF cancel_logic, IInv, TypeOK, queues
<1>2. CASE /\ \E r \in {"TooLateToCancel", "UnforeseenReason"} : push(construct_cancel_rejected(t, r))
           /\ UNCHANGED done_tokens
  BY <1>1, <1>2, Notices, NoticePushed, Stutters DEF IInv
<1>3. CASE /\ t \in DOMAIN active_orders
           /\ push(construct_order_canceled(t)) /\ done_tokens' = done_tokens \cup {t}
  <2>1. /\ book'[t] = [leaves |-> 0, executed |-> book[t].executed]
        /\ \A k \in Tokens \ {t} : book'[k] = book[k]
        /\ UNCHANGED misled
    BY <1>1, <1>3, CanceledEffect DEF IInv
  <2>2. CASE t \in Genuine
    BY <1>1, <1>3, <2>1, <2>2, CloseRefines
  <2>3. CASE t \notin Genuine
    <3>1. Genuine' = Genuine
      BY <1>1 DEF Genuine
    <3> QED
      BY <1>1, <1>3, <2>1, <2>3, <3>1, StrayStep DEF IInv
  <2> QED
    BY <2>2, <2>3
<1> QED
  BY <1>2, <1>3 DEF cancel_logic

(* A loop that comes to an order which is closed, or too large to trade,   *)
(* marks it without a word.                                                *)
LEMMA RetireRefines ==
    ASSUME IInv, IInv', NEW t \in DOMAIN active_orders, t \notin done_tokens,
           ~ still_active(active_orders[t]),
           UNCHANGED <<active_orders, book, misled, Requests>>, done_tokens' = done_tokens \cup {t}
    PROVE  AbstractStep
<1> DEFINE o == active_orders[t]
<1>1. t \in Tokens /\ o.remaining_qty \in Int /\ LimitQty \in Nat
  BY BoeAssumption DEF IInv, TypeOK, Boe_Order
<1>2. o.genuine => /\ t \in misled \/ book[t].leaves = o.remaining_qty
                   /\ o.remaining_qty >= 0
  BY DEF IInv, ClientAgrees, QtySound, Genuine
<1>3. Genuine' = Genuine /\ TooLarge' = TooLarge /\ Ending' = Ending \cup {t}
  BY <1>1 DEF Genuine, TooLarge, Ending
<1>4. CASE o.genuine
  <2>1. /\ t \in Genuine
        /\ \/ Told(t).open = 0
           \/ Shares(t).open = 0 /\ t \in misled
           \/ t \in TooLarge'
    BY <1>1, <1>2, <1>3, <1>4 DEF Genuine, Told, Shares, TooLarge, still_active
  <2>2. Lifecycle!TimePasses
    BY <1>3 DEF Lifecycle!TimePasses, TooLarge
  <2>3. Lifecycle!Retire(t)
    BY <1>1, <1>3, <2>1, <2>2 DEF Lifecycle!Retire, Told, Shares, TooLarge, Ending
  <2> QED
    BY <1>1, <2>3, Steps
<1>5. CASE ~ o.genuine
  <2>1. t \notin Genuine
    BY <1>5 DEF Genuine
  <2> QED
    BY <1>1, <1>3, <2>1, StrayStep DEF IInv
<1> QED
  BY <1>4, <1>5

(* An iteration of execution_logic fills an order, retires one that is     *)
(* closed or too large to trade, or does nothing.                          *)
LEMMA ExecutionRefines ==
    ASSUME IInv, IInv', NEW t \in Tokens, execution_logic(t)
    PROVE  AbstractStep
<1> DEFINE o == active_orders[t]
<1>1. /\ phase = "execution" /\ t \in DOMAIN active_orders /\ t \notin done_tokens
      /\ DOMAIN active_orders \subseteq Tokens /\ UNCHANGED Requests
  BY SameRequests DEF execution_logic, IInv, TypeOK, queues
<1>2. o.genuine => t \in misled \/ book[t].leaves = o.remaining_qty
  BY <1>1 DEF IInv, ClientAgrees, Genuine
<1>3. o.remaining_qty \in Int /\ o.executed_qty \in Int /\ LimitQty \in Nat
  BY <1>1, BoeAssumption DEF IInv, TypeOK, Boe_Order
<1>4. CASE UNCHANGED <<active_orders, done_tokens, book, misled>>
  BY <1>1, <1>4, Stutters
<1>5. CASE /\ ~ still_active(o)
           /\ UNCHANGED <<active_orders, book, misled>> /\ done_tokens' = done_tokens \cup {t}
  BY <1>1, <1>5, RetireRefines
<1>6. CASE /\ still_active(o)
           /\ \E qty \in ExecutionQtys :
                /\ qty # 0
                /\ active_orders' = [active_orders EXCEPT ![t] = filled(@, qty)]
                /\ push_about(o, construct_order_executed(o, qty))
           /\ UNCHANGED <<finished_orders, done_tokens>>
  <2>1. PICK qty \in ExecutionQtys :
          /\ qty # 0
          /\ active_orders' = [active_orders EXCEPT ![t] = filled(@, qty)]
          /\ push_about(o, construct_order_executed(o, qty))
    BY <1>6
  <2>2. still_active(o)
    BY <1>6
  <2> DEFINE new == active_orders'[t]
             n == last_shares(o, qty)
  <2>3. /\ DOMAIN active_orders' = DOMAIN active_orders
        /\ \A k \in DOMAIN active_orders \ {t} : active_orders'[k] = active_orders[k]
        /\ new.genuine = o.genuine
        /\ \A k \in Tokens \ {o.token} : book'[k] = book[k]
        /\ o.genuine => misled' = misled /\ o.token = t
        /\ ~ o.genuine => misled' = misled \cup ({o.token} \cap Tokens)
    BY <1>1, <2>1, <2>2, FillFacts
  <2>4. /\ n \in 1 .. o.remaining_qty
        /\ new.remaining_qty = o.remaining_qty - n
        /\ new.executed_qty = o.executed_qty + n
        /\ o.genuine => book'[t] = [leaves |-> new.remaining_qty, executed |-> book[t].executed + n]
    BY <1>1, <2>1, <2>2, FillFacts
  <2> HIDE DEF n
  <2>5. Genuine' = Genuine
    BY <2>3 DEF Genuine
  <2>6. CASE o.genuine
    <3>1. t \in Genuine
      BY <1>1, <2>6 DEF Genuine
    <3>2. /\ Shares(t)' = [open |-> Shares(t).open - n, executed |-> Shares(t).executed + n]
          /\ t \notin misled =>
               Told(t)' = [open |-> Told(t).open - n, executed |-> Told(t).executed + n]
      BY <1>2, <2>4, <2>6 DEF Shares, Told
    <3>3. /\ \A k \in Genuine \ {t} : Shares(k)' = Shares(k)
          /\ \A k \in Tokens \ {t} : Told(k)' = Told(k)
      BY <2>3, <2>6 DEF Shares, Told, Genuine
    <3>4. [k \in Genuine |-> Shares(k)]' =
            [[k \in Genuine |-> Shares(k)] EXCEPT ![t] = [open |-> @.open - n, executed |-> @.executed + n]]
      BY <2>5, <3>1, <3>2, <3>3
    <3>5. Lifecycle!Told({t})
      BY <3>3 DEF Lifecycle!Told, Told
    <3>6. TooLarge \subseteq TooLarge' /\ TooLarge' \subseteq Genuine'
      <4>1. t \notin TooLarge
        BY <1>3, <1>6 DEF TooLarge, still_active
      <4> QED
        BY <2>3, <2>5, <4>1 DEF TooLarge, Genuine
    <3>7. Lifecycle!TimePasses
      BY <3>6 DEF Lifecycle!TimePasses, TooLarge
    <3>8. t \in Genuine \ Ending /\ n \in 1 .. Shares(t).open
      BY <1>1, <2>4, <3>1 DEF Ending, Shares
    <3>10. /\ t \in Tokens /\ Ending' = Ending /\ UNCHANGED misled
           /\ t \notin misled =>
                [k \in Tokens |-> Told(k)]'[t] = [open |-> [k \in Tokens |-> Told(k)][t].open - n,
                                                executed |-> [k \in Tokens |-> Told(k)][t].executed + n]
      BY <1>6, <2>3, <2>6, <3>2 DEF Ending
    <3>11. Strays' = Strays
      BY <2>3, <2>5 DEF Strays
    <3>9. Lifecycle!Fill(t)
      BY <1>1, <3>4, <3>5, <3>7, <3>8, <3>10, <3>11
         DEF Lifecycle!Fill, Shares, Told, Ending, Strays
    <3> QED
      BY <3>9, Steps
  <2>7. CASE ~ o.genuine
    <3>1. t \notin Genuine
      BY <2>7 DEF Genuine
    <3>2. o.token \in Residual \cup {t, NoToken}
      BY <1>1 DEF IInv, KeyIsToken
    <3> QED
      BY <1>1, <1>6, <2>3, <2>5, <2>7, <3>1, <3>2, StrayStep DEF IInv
  <2> QED
    BY <2>6, <2>7
<1> QED
  BY <1>4, <1>5, <1>6 DEF execution_logic, out

(* An iteration of modify_logic renames an order, loses one that keeps its *)
(* token, or moves an order nobody entered.                                *)
LEMMA ModifyRefines == ASSUME IInv, IInv', modify_logic PROVE AbstractStep
<1> DEFINE mo == pending_modify[cursor]
<1>0. UNCHANGED Requests /\ TypeOK /\ cursor \in DOMAIN pending_modify
  BY SameRequests DEF modify_logic, queues, IInv, TypeOK
<1>1. CASE UNCHANGED <<active_orders, done_tokens, out>>
  BY <1>0, <1>1, Stutters DEF out
<1>2. CASE mo.orig_token \in DOMAIN active_orders
  <2>1. PICK t \in Tokens, u \in Tokens : t = mo.orig_token /\ u = mo.token
    BY <1>2, ModifyFacts
  <2> DEFINE o == active_orders[t]
             new == active_orders'[u]
  <2>2. /\ o.token \in Residual \cup {t, NoToken}
        /\ o.genuine => o.token = t
        /\ done_tokens' = IF o.executed_qty >= mo.qty THEN done_tokens \cup {o.token} ELSE done_tokens
    BY <1>2, <2>1, ModifyFacts
  <2>3. /\ DOMAIN active_orders' = (DOMAIN active_orders \ {t}) \cup {u}
        /\ \A k \in DOMAIN active_orders \ {t, u} : active_orders'[k] = active_orders[k]
        /\ \A k \in Tokens \ {new.token} : book'[k] = book[k]
        /\ new.genuine => misled' = misled \ {u}
        /\ ~ new.genuine => misled' = misled \cup ({new.token} \cap Tokens)
    BY <1>2, <2>1, ModifyFacts
  <2>4. t = u => new.token \in Residual \cup {NoToken} /\ ~ new.genuine
    BY <1>2, <2>1, ModifyFacts
  <2>5. t # u =>
          /\ new.token = u
          /\ new.executed_qty = o.executed_qty
          /\ new.remaining_qty = 0 <=> o.executed_qty >= mo.qty
          /\ o.genuine => new.remaining_qty >= 0 /\ new.genuine
          /\ ~ o.genuine => ~ new.genuine
    <3>1. t # u => new.genuine = o.genuine
      BY <1>2, <2>1, ModifyFacts
    <3>2. t # u =>
            /\ new.token = u
            /\ new.executed_qty = o.executed_qty
            /\ new.remaining_qty = 0 <=> o.executed_qty >= mo.qty
      BY <1>2, <2>1, ModifyFacts
    <3>3. t # u /\ o.genuine => new.remaining_qty >= 0
      BY <1>2, <2>1, ModifyFacts
    <3> QED
      BY <3>1, <3>2, <3>3
  <2>11. new.genuine =>
           book'[u] = [leaves |-> new.remaining_qty, executed |-> new.executed_qty]
    BY <1>2, <2>1, ModifyFacts
  <2>6. Lifecycle!Asked(t, u)
    BY <1>0, <2>1, Renames
  <2> HIDE DEF mo
  <2>7. DOMAIN active_orders \subseteq Tokens /\ DOMAIN active_orders' \subseteq Tokens
    BY DEF IInv, TypeOK
  <2>8. t \in DOMAIN active_orders
    BY <1>2, <2>1
  \* The order gets a new token.
  <2>9. CASE t # u /\ o.genuine
    <3>1. /\ t \in Genuine /\ Genuine' = (Genuine \ {t}) \cup {u}
          /\ Strays' = Strays \ {u}
      BY <2>3, <2>5, <2>8, <2>9 DEF Genuine, Strays
    <3>2. /\ Shares(u)' = Told(u)'
          /\ Told(u)' = [open |-> new.remaining_qty, executed |-> o.executed_qty]
      BY <2>5, <2>9, <2>11 DEF Shares, Told
    <3>3. \A k \in Genuine \ {t, u} : Shares(k)' = Shares(k) /\ active_orders'[k] = active_orders[k]
      BY <2>3 DEF Shares, Genuine
    <3>4. [k \in Genuine |-> Shares(k)]' =
             Lifecycle!With(Lifecycle!Without([k \in Genuine |-> Shares(k)], {t}), u, Told(u)')
      BY <2>9, <3>1, <3>2, <3>3 DEF Lifecycle!With, Lifecycle!Without, Lifecycle!Restrict
    <3>5. Told(t)' = Told(t) /\ Lifecycle!Told({t, u})
      BY <2>3, <2>5, <2>9 DEF Told, Lifecycle!Told
    <3>6. Ending' = IF new.remaining_qty = 0 THEN Ending \cup {t} ELSE Ending
      BY <2>2, <2>5, <2>9 DEF Ending
    <3>7. Lifecycle!Resized(u)
      <4>1. (TooLarge \cap Genuine') \ {u} \subseteq TooLarge' /\ TooLarge' \subseteq TooLarge \cup {u}
        BY <3>1, <3>3 DEF TooLarge
      <4> QED
        BY <4>1 DEF Lifecycle!Resized, TooLarge
    <3>8. new.remaining_qty >= 0 /\ Shares(t).executed = o.executed_qty
      BY <2>5, <2>9 DEF Shares
    <3>9. misled' = misled \ {u}
      BY <2>3, <2>5, <2>9
    <3>10. Lifecycle!Rename(t, u)
      BY <1>0, <2>6, <2>9, <3>1, <3>2, <3>4, <3>5, <3>6, <3>7, <3>8, <3>9
         DEF Lifecycle!Rename, Shares, Told, Ending, Strays
    <3> QED
      BY <3>10, Steps
  <2>10. CASE t = u \/ ~ o.genuine
    <3>1. /\ Genuine' = Genuine \ {u}
          /\ Strays' = (Strays \ {t}) \cup {u}
      BY <2>3, <2>4, <2>5, <2>7, <2>10 DEF Genuine, Strays
    <3>2. \A k \in Genuine' : Shares(k)' = Shares(k) /\ active_orders'[k] = active_orders[k]
      BY <2>3, <2>4, <2>5, <2>10, <3>1 DEF Shares, Genuine
    <3>3. [k \in Genuine |-> Shares(k)]' = Lifecycle!Without([k \in Genuine |-> Shares(k)], {u})
      BY <3>1, <3>2 DEF Lifecycle!Without, Lifecycle!Restrict
    <3>4. Lifecycle!TimePasses
      <4>1. TooLarge \cap Genuine' \subseteq TooLarge' /\ TooLarge' \subseteq Genuine'
        BY <3>1, <3>2 DEF TooLarge
      <4> QED
        BY <4>1 DEF Lifecycle!TimePasses, TooLarge
    <3>5. /\ new.token \in Residual \cup {u, NoToken}
          /\ misled' \in {misled, misled \cup ({new.token} \cap Tokens)}
      BY <2>3, <2>4, <2>5, <2>10
    <3>9. PICK v \in Residual \cup {u, NoToken} : v = new.token
      BY <3>5
    <3>10. PICK w \in Residual \cup {t, NoToken} : w = o.token
      BY <2>2
    <3>6. /\ Heard(v, u) \in Residual \cup {u} /\ Heard(v, u) \in Tokens
          /\ Lifecycle!Told({Heard(v, u)}) /\ Lifecycle!Misled({Heard(v, u)})
      BY <1>0, <2>3, <3>5, <3>9, NewsHeard
    \* The order keeps its token, and is lost; one nobody entered has its place.
    <3>7. CASE o.genuine
      <4>1. t \in Genuine /\ t = u /\ Strays' = Strays \cup {t}
        BY <2>8, <2>10, <3>1, <3>7 DEF Genuine, Strays
      <4>2. Ending' \in {Ending, Ending \cup {t}}
        BY <2>2, <3>7 DEF Ending
      <4>4. Lifecycle!Asked(t, t) /\ Heard(v, u) \in Residual \cup {t}
        BY <2>6, <3>6, <4>1
      <4>5. [k \in Genuine |-> Shares(k)]' = Lifecycle!Without([k \in Genuine |-> Shares(k)], {t})
        BY <3>3, <4>1
      <4>3. Lifecycle!Supplant(t, Heard(v, u))
        BY <1>0, <3>4, <3>6, <4>1, <4>2, <4>4, <4>5
           DEF Lifecycle!Supplant, Shares, Ending, Strays
      <4> QED
        BY <3>6, <4>3, Steps
    \* Nobody entered the order.
    <3>8. CASE ~ o.genuine
      <4>1. t \notin Genuine
        BY <3>8 DEF Genuine
      <4>2. /\ Heard(w, t) \in Residual \cup {t} /\ Heard(w, t) \in Tokens
            /\ Ending' \in {Ending, Ending \cup {Heard(w, t)}}
        <5>1. NoToken \notin Tokens /\ Residual \subseteq Tokens
          BY BoeAssumption DEF Residual
        <5> QED
          BY <2>2, <3>10, <5>1 DEF Ending, Heard
      <4>3. \E r \in Residual \cup {u} : Lifecycle!Told({t, u, r}) /\ Lifecycle!Misled({t, u, r})
        BY <3>6 DEF Lifecycle!Told, Lifecycle!Misled
      <4>4. Lifecycle!StrayMoves(t, u, Heard(w, t))
        BY <1>0, <2>6, <3>1, <3>3, <3>4, <4>1, <4>2, <4>3
           DEF Lifecycle!StrayMoves, Shares, Ending, Strays
      <4> QED
        BY <4>2, <4>4, Steps
    <3> QED
      BY <3>7, <3>8
  <2> QED
    BY <2>9, <2>10
<1> QED
  BY <1>1, <1>2 DEF modify_logic

(* A loop ends by dropping what it has marked, and nothing else.           *)
LEMMA DropRefines ==
    ASSUME IInv, UNCHANGED <<book, misled, Requests>>, done_tokens' = {},
           DOMAIN active_orders' = DOMAIN active_orders \ done_tokens,
           \A k \in DOMAIN active_orders' : active_orders'[k] = active_orders[k]
    PROVE  AbstractStep
<1>1. DOMAIN active_orders \subseteq Tokens
  BY DEF IInv, TypeOK
<1>2. Genuine' = Genuine \ Ending /\ Strays' = Strays \ Ending
  BY <1>1 DEF Genuine, Strays, Ending
<1>3. \A k \in Genuine' : Shares(k)' = Shares(k) /\ active_orders'[k] = active_orders[k]
  BY DEF Shares, Genuine
<1>4. [k \in Genuine |-> Shares(k)]' = Lifecycle!Without([k \in Genuine |-> Shares(k)], Ending)
  BY <1>2, <1>3 DEF Lifecycle!Without, Lifecycle!Restrict
<1>5. TooLarge' = TooLarge \ Ending
  BY <1>2, <1>3 DEF TooLarge
<1>6. Ending' = {} /\ \A k \in Tokens : Told(k)' = Told(k)
  BY DEF Ending, Told
<1>7. Lifecycle!Drop
  BY <1>2, <1>4, <1>5, <1>6 DEF Lifecycle!Drop, Shares, Told, Ending, Strays, TooLarge
<1> QED
  BY <1>7, Steps

(* The loops of market_logic and cancel_all end so.                        *)
LEMMA EndsRefine ==
    ASSUME IInv,
           cancel_logic_ends \/ modify_logic_ends \/ execution_logic_ends \/ cancel_all_ends
    PROVE  AbstractStep
<1>1. done_tokens' = {} /\ UNCHANGED <<book, misled, Requests>>
  BY SameRequests DEF cancel_logic_ends, modify_logic_ends, execution_logic_ends, cancel_all_ends,
     enter_loop, out, queues
<1>2. CASE cancel_logic_ends \/ modify_logic_ends \/ execution_logic_ends
  <2>1. active_orders' = erase(active_orders, done_tokens)
    BY <1>2 DEF cancel_logic_ends, modify_logic_ends, execution_logic_ends
  <2>2. /\ DOMAIN active_orders' = DOMAIN active_orders \ done_tokens
        /\ \A k \in DOMAIN active_orders' : active_orders'[k] = active_orders[k]
    BY <2>1, EraseDone DEF IInv
  <2> QED
    BY <1>1, <2>2, DropRefines
<1>3. CASE cancel_all_ends
  <2>1. DOMAIN active_orders \subseteq done_tokens
    BY <1>3 DEF cancel_all_ends, IInv, TypeOK
  <2>2. DOMAIN active_orders' = {}
    BY <1>3 DEF cancel_all_ends, erase, Restrict
  <2> QED
    BY <1>1, <2>1, <2>2, DropRefines
<1> QED
  BY <1>2, <1>3

(* An iteration of cancel_all announces an end, or marks without a word.   *)
LEMMA CancelAllRefines ==
    ASSUME IInv, IInv', NEW t \in Tokens, cancel_all_order(t)
    PROVE  AbstractStep
<1> DEFINE o == active_orders[t]
<1>1. /\ t \in DOMAIN active_orders /\ t \notin done_tokens
      /\ UNCHANGED <<active_orders, Requests>> /\ done_tokens' = done_tokens \cup {t}
  BY SameRequests DEF cancel_all_order, IInv, TypeOK, queues
<1>2. o.token \in Residual \cup {t, NoToken} /\ (o.genuine => t \in Genuine /\ o.token = t)
  BY <1>1 DEF IInv, KeyIsToken, Genuine
<1>3. CASE still_active(o)
  <2>1. push_about(o, construct_order_canceled(o.token))
    BY <1>3 DEF cancel_all_order
  <2>2. t \in Tokens /\ o.token \in Tokens \cup {NoToken}
    BY <1>2 DEF Residual
  <2>3. CASE o.genuine
    <3>1. /\ book'[t] = [leaves |-> 0, executed |-> book[t].executed]
          /\ \A k \in Tokens \ {t} : book'[k] = book[k]
          /\ UNCHANGED misled
      BY <1>2, <2>1, <2>3, CanceledEffect DEF IInv
    <3> QED
      BY <1>1, <1>2, <2>3, <3>1, CloseRefines
  <2>4. CASE ~ o.genuine
    <3>1. construct_order_canceled(o.token) \in Message
          /\ construct_order_canceled(o.token).token = o.token
      BY <2>2 DEF construct_order_canceled, Message
    <3>2. /\ \A k \in Tokens \ {o.token} : book'[k] = book[k]
          /\ misled' = misled \cup ({o.token} \cap Tokens)
      BY <2>1, <2>4, <3>1, StrayNews DEF IInv
    <3>3. t \notin Genuine /\ t \notin Genuine'
      BY <1>1, <2>4 DEF Genuine
    <3> QED
      BY <1>1, <1>2, <3>2, <3>3, StrayStep DEF IInv
  <2> QED
    BY <2>3, <2>4
<1>4. CASE ~ still_active(o)
  <2>1. UNCHANGED <<book, misled>>
    BY <1>4 DEF cancel_all_order, out
  <2> QED
    BY <1>1, <1>4, <2>1, RetireRefines
<1> QED
  BY <1>3, <1>4

-----------------------------------------------------------------------------
(* The initial state of the session is one of the abstract specification.  *)
LEMMA InitRefines == Init => Lifecycle!Init
<1> SUFFICES ASSUME Init PROVE Lifecycle!Init
  OBVIOUS
<1>1. Genuine = {} /\ DOMAIN active_orders = {} /\ Requests = {}
  BY DEF Init, Genuine, Requests
<1> QED
  BY <1>1 DEF Init, Lifecycle!Init, Lifecycle!NoShares, Nothing

(* Every step of the session is a step of the abstract specification, or   *)
(* changes nothing that it can see.                                        *)
LEMMA NextRefines == IInv /\ IInv' /\ [Next]_vars => AbstractStep
<1> SUFFICES ASSUME IInv, IInv', [Next]_vars PROVE AbstractStep
  OBVIOUS
<1>1. CASE handle_packet
  <2>1. EnterQtys \subseteq Nat /\ ModifyQtys \subseteq Nat
    BY BoeAssumption
  <2>2. CASE \E t \in Tokens, qty \in EnterQtys : enter_order(t, qty)
    BY <2>1, <2>2, EnterRefines
  <2>3. CASE \E t \in Tokens : cancel_order(t)
    BY <2>3, QueueCancelRefines
  <2>4. CASE \E t, u \in Tokens, qty \in ModifyQtys : modify_order(t, u, qty)
    BY <2>1, <2>4, AskRefines
  <2> QED
    BY <1>1, <2>2, <2>3, <2>4, QuietRefines DEF handle_packet
<1>2. CASE HandlerStep
  <2>1. CASE \E t \in Tokens : execution_logic(t)
    BY <2>1, ExecutionRefines
  <2>2. CASE \E t \in Tokens : cancel_all_order(t)
    BY <2>2, CancelAllRefines
  <2> QED
    BY <1>2, <2>1, <2>2, CancelRefines, ModifyRefines, EndsRefine, QuietRefines DEF HandlerStep
<1>3. CASE UNCHANGED vars
  BY <1>3, SameRequests, Stutters DEF vars, queues, out
<1> QED
  BY <1>1, <1>2, <1>3, QuietRefines DEF Next

(* However orders are renamed onto each other's tokens, and whatever is    *)
(* left over in memory where an order is made of it, what a handler does   *)
(* to the book of orders and tells the client about it is one step of      *)
(* OrderLifecycle: an order that the client believes open is lost only     *)
(* when it is too large to trade, when the client asked to give its name   *)
(* to another order or to modify it under its own name, when it was        *)
(* renamed to a name that an earlier request of the same tick had ended,   *)
(* or when an order nobody entered bore its name.                          *)
THEOREM Refinement == Spec => ImplementsLifecycle
<1>1. AbstractStep => [Lifecycle!Next]_(Lifecycle!lifecycle_vars)
  BY DEF AbstractStep
<1> QED
  BY <1>1, InitRefines, NextRefines, Invariance, PTL DEF Spec, ImplementsLifecycle, Lifecycle!Spec
=============================================================================
