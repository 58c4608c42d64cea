--------------------------- MODULE OrderLifecycle ---------------------------
(***************************************************************************)
(* What either market promises about the orders of its client, without     *)
(* queues, loops and messages: what the market holds, what the client has  *)
(* been told, what it has asked for, and the only ways in which these      *)
(* change.  OuchSession and BoeSession both implement it.                  *)
(*                                                                         *)
(* An order leaves the market in Rename, Mislay, Supplant, StrayMoves and  *)
(* Drop only.  Drop takes the orders whose names are ending, and a name    *)
(* comes to be ending in AnnounceEnd, Retire, Rename and through a stray   *)
(* order.  So the orders that are lost although the client believes them   *)
(* open are                                                                *)
(*   - an unfit one: its time is over, or it is too large to trade;        *)
(*   - one under a name that the client asked to give to another order;    *)
(*   - one the client asked to replace by an order of the same name;       *)
(*   - one that an earlier of two requests about it ended, and the later   *)
(*     of the two restated;                                                *)
(*   - one that was given a name that is ending;                           *)
(*   - one whose name a stray order bore because it was left over in       *)
(*     memory.                                                             *)
(* There are no others.                                                    *)
(***************************************************************************)
EXTENDS Integers, Functions

CONSTANTS
    Tokens,    \* the names of orders
    Residual   \* names that a stray order may bear without having been given one

VARIABLES
    orders,    \* the orders the client entered: open and executed shares
    ledger,    \* open and executed shares of every name, as the client was told
    requests,  \* what the client asked for and the market may still do
    ending,    \* names whose orders the market has decided to drop
    unfit,     \* orders that the market may drop without a word
    strays,    \* names of orders nobody entered
    misled     \* names about which the client was told what holds of a stray

lifecycle_vars == <<orders, ledger, requests, ending, unfit, strays, misled>>

NoShares == [open |-> 0, executed |-> 0]

\* A request to give an order a new size ("resize"), or a new size and the
\* name "to" ("rename"), with its number among those of its kind.
Request == [kind : {"resize", "rename"}, no : Nat, from : Tokens, to : Tokens]

Less(open, n) == IF n <= open THEN open - n ELSE 0

Without(os, names) == Restrict(os, DOMAIN os \ names)
With(os, t, o) == [k \in DOMAIN os \cup {t} |-> IF k = t THEN o ELSE os[k]]

Init ==
    /\ orders = [t \in {} |-> NoShares]
    /\ ledger = [t \in Tokens |-> NoShares]
    /\ requests = {}
    /\ ending = {} /\ unfit = {} /\ strays = {} /\ misled = {}

\* The client hears of no other names than these.
Told(names) == \A s \in Tokens \ names : ledger'[s] = ledger[s]

\* What the client hears of these names is about stray orders.
Misled(names) == misled \subseteq misled' /\ misled' \subseteq misled \cup names

\* Orders only become unfit with time.
TimePasses ==
    /\ unfit \cap DOMAIN orders' \subseteq unfit'
    /\ unfit' \subseteq DOMAIN orders'

\* A request gives t a new size, and decides afresh whether it is unfit.
Resized(t) ==
    /\ (unfit \cap DOMAIN orders') \ {t} \subseteq unfit'
    /\ unfit' \subseteq unfit \cup {t}

-----------------------------------------------------------------------------
Ask ==
    /\ requests \subseteq requests' /\ requests' \subseteq Request
    /\ UNCHANGED <<orders, ledger, ending, unfit, strays, misled>>

\* The client is told all about the new order: it is not misled about t.
Enter(t) ==
    /\ t \notin DOMAIN orders \cup strays
    /\ ledger'[t].open >= 0 /\ ledger'[t].executed = 0
    /\ orders' = With(orders, t, ledger'[t])
    /\ Told({t}) /\ misled' = misled \ {t}
    /\ Resized(t)
    /\ UNCHANGED <<requests, ending, strays>>

\* The same shares trade in the market and in the client's book.
Fill(t) ==
    /\ t \in DOMAIN orders \ ending
    /\ \E n \in 1 .. orders[t].open :
         /\ orders' = [orders EXCEPT ![t] = [open |-> @.open - n, executed |-> @.executed + n]]
         /\ t \notin misled =>
              ledger'[t] = [open |-> ledger[t].open - n, executed |-> ledger[t].executed + n]
    /\ Told({t})
    /\ TimePasses
    /\ UNCHANGED <<requests, ending, strays, misled>>

\* Part of the open shares is canceled.
Trim(t) ==
    /\ t \in DOMAIN orders
    /\ \E n \in 1 .. orders[t].open - 1 :
         /\ orders' = [orders EXCEPT ![t].open = @ - n]
         /\ ledger' = [ledger EXCEPT ![t].open = Less(@, n)]
    /\ UNCHANGED <<requests, ending, unfit, strays, misled>>

\* A request sets the open shares.  Only the later of two requests restates
\* an order that is ending already, and it is dropped all the same.
Restate(t) ==
    /\ t \in DOMAIN orders
    /\ \E r \in requests :
         /\ r.kind = "resize" /\ r.from = t
         /\ t \in ending =>
              \E s \in requests : s.kind = "resize" /\ s.from = t /\ s.no < r.no
    /\ ledger'[t].open > 0 /\ ledger'[t].executed = orders[t].executed
    /\ orders' = [orders EXCEPT ![t] = ledger'[t]]
    /\ Told({t})
    /\ UNCHANGED <<requests, ending, unfit, strays, misled>>

\* The client is told that nothing of the order is open any more.
AnnounceEnd(t) ==
    /\ t \in DOMAIN orders
    /\ ledger' = [ledger EXCEPT ![t].open = 0]
    /\ ending' = ending \cup {t}
    /\ UNCHANGED <<orders, requests, unfit, strays, misled>>

\* Without a word, an order ends only when nothing of it is open and the
\* client knows that, as far as it was not misled, or when it is unfit.
Retire(t) ==
    /\ t \in DOMAIN orders
    /\ \/ ledger[t].open = 0
       \/ orders[t].open = 0 /\ t \in misled
       \/ t \in unfit'
    /\ ending' = ending \cup {t}
    /\ TimePasses
    /\ UNCHANGED <<orders, ledger, requests, strays, misled>>

Asked(t, u) == \E r \in requests : r.kind = "rename" /\ r.from = t /\ r.to = u

\* Order t gets the name u, as the client asked, and a new size.  It keeps
\* what it has executed; whatever had the name u is gone, and if u is ending
\* the order will be dropped with it.  When nothing of it is left its old
\* name, not the new one, comes to be ending.
Rename(t, u) ==
    /\ t \in DOMAIN orders /\ t # u
    /\ Asked(t, u)
    /\ ledger'[u].open >= 0 /\ ledger'[u].executed = orders[t].executed
    /\ orders' = With(Without(orders, {t}), u, ledger'[u])
    /\ ledger'[t] \in {ledger[t], NoShares}
    /\ Told({t, u}) /\ misled' = misled \ {u}
    /\ ending' = IF ledger'[u].open = 0 THEN ending \cup {t} ELSE ending
    /\ strays' = strays \ {u}
    /\ Resized(u)
    /\ UNCHANGED requests

\* The client asked for a replacement of the same name: it is acknowledged,
\* and the order is lost.
Mislay(t) ==
    /\ t \in DOMAIN orders
    /\ Asked(t, t)
    /\ orders' = Without(orders, {t})
    /\ ledger'[t].executed = ledger[t].executed /\ Told({t})
    /\ TimePasses
    /\ UNCHANGED <<requests, ending, strays, misled>>

\* The same, where a stray order takes its place, and the client is told
\* about that one, under whatever name it bears.
Supplant(t, s) ==
    /\ t \in DOMAIN orders
    /\ Asked(t, t)
    /\ s \in Residual \cup {t}
    /\ orders' = Without(orders, {t}) /\ strays' = strays \cup {t}
    /\ ending' \in {ending, ending \cup {t}}
    /\ Told({s}) /\ Misled({s})
    /\ TimePasses
    /\ UNCHANGED requests

-----------------------------------------------------------------------------
\* A stray order comes to be under the name t, or is filled, canceled,
\* modified or found done under it.  No other order changes, but what the
\* client is told of the stray it may take for news of the name s.
Stray(t, s) ==
    /\ t \notin DOMAIN orders
    /\ s \in Residual \cup {t}
    /\ strays' = strays \cup {t}
    /\ ending' \in {ending, ending \cup {t}}
    /\ Told({s}) /\ Misled({s})
    /\ TimePasses
    /\ UNCHANGED <<orders, requests>>

\* A stray order moves to the name u, as the client asked, in the place of
\* what was there.  One that moves to its own name may vanish.  The name s,
\* which the stray bore, may come to be ending.
StrayMoves(t, u, s) ==
    /\ t \notin DOMAIN orders
    /\ Asked(t, u)
    /\ s \in Residual \cup {t}
    /\ orders' = Without(orders, {u})
    /\ \/ strays' = (strays \ {t}) \cup {u}
       \/ t = u /\ strays' = strays \ {t}
    /\ ending' \in {ending, ending \cup {s}}
    /\ \E r \in Residual \cup {u} : Told({t, u, r}) /\ Misled({t, u, r})
    /\ TimePasses
    /\ UNCHANGED requests

\* The orders under the names that are ending are dropped, and no other.
\* Requests that have been served may be forgotten.
Drop ==
    /\ orders' = Without(orders, ending)
    /\ strays' = strays \ ending
    /\ ending' = {}
    /\ unfit' = unfit \ ending
    /\ requests' \subseteq requests
    /\ UNCHANGED <<ledger, misled>>

Lapse ==
    /\ TimePasses
    /\ UNCHANGED <<orders, ledger, requests, ending, strays, misled>>

Next ==
    \/ \E t \in Tokens :
         \/ Enter(t) \/ Fill(t) \/ Trim(t) \/ Restate(t)
         \/ AnnounceEnd(t) \/ Retire(t) \/ Mislay(t)
    \/ \E t, u \in Tokens : Rename(t, u) \/ Supplant(t, u) \/ Stray(t, u)
    \/ \E t, u, s \in Tokens : StrayMoves(t, u, s)
    \/ Ask
    \/ Drop
    \/ Lapse

Spec == Init /\ [][Next]_lifecycle_vars
=============================================================================
