------------------------------ MODULE TcpServer ------------------------------
(***************************************************************************)
(* One TCPServer of the simulator (SoupBinTCPServer or BOEServer, which    *)
(* differ in the wire format only) on the io_service: one acceptor, one    *)
(* socket, one timer, and the handlers accept, read and process.           *)
(*                                                                         *)
(* The io_service is external: its single thread runs the queued handlers  *)
(* in order and, between two of them, queues the handlers of the           *)
(* operations that have completed.  Cancelling the timer completes the     *)
(* waits that are still pending with an error, on which process returns at *)
(* once; a wait that has already expired, its handler being queued, is not *)
(* affected.                                                               *)
(*                                                                         *)
(* send writes what the market has to say with asio::write, which blocks   *)
(* while the socket takes nothing: a client that does not read stops the   *)
(* thread inside its handler, and with it every other operation of the     *)
(* program, but not the clock and the clients.                             *)
(***************************************************************************)
EXTENDS Integers, Sequences, FiniteSets

CONSTANTS
    MAX_EXEC_PER_SECOND, \* 3 in the code; the clock counts in periods of it
    Failures,            \* {"accept"} if an accept may fail, or {}
    Prompt,              \* TRUE: no period passes while there is work to do
    MaxLag,              \* bound: periods the timer is seen to be behind
    Window               \* bound: messages a connection holds unread

ASSUME ServerAssumption ==
    /\ MAX_EXEC_PER_SECOND \in Nat \ {0}
    /\ Failures \subseteq {"accept"}
    /\ Prompt \in BOOLEAN
    /\ MaxLag \in Nat
    /\ Window \in Nat \ {0}

VARIABLES
    handlers,    \* queue of the io_service
    sending,     \* the handler that is in send: none, read or process
    accepting,   \* an async_accept is outstanding
    reading,     \* an async_read_some is outstanding
    waits,       \* async_waits outstanding on the timer
    lag,         \* the clock minus the expiry time of the timer, in periods
    period,      \* the period of the current second
    backlog,     \* a client has connected and waits to be accepted
    peer,        \* the other end of _socket: none, open, closed or reset
    unread,      \* messages in the connection, at most Window
    logged_in,   \* market->state
    pending,     \* market->pending_out_messages
    \* ghosts
    login_here,  \* a login was handled on the present connection
    ticks        \* runs of market_logic in the current second

clock_vars == <<lag, period, ticks>>
market_vars == <<logged_in, login_here, pending>>
conn_vars == <<backlog, peer, unread>>
vars == <<handlers, sending, accepting, reading, waits, clock_vars, conn_vars, market_vars>>

Packets == {"login", "logout", "order"}
ConnHandlers == {"accept", "eof", "read error"} \cup Packets
Handlers == {"accept error", "process", "cancel_all"} \cup ConnHandlers

\* What a market has to say: an answer or a heartbeat is for the client of
\* the connection (stale, when that client has gone), the news of an order
\* for whoever is connected.
Messages == {"answer", "stale", "news"}

queued(hs) == Cardinality({i \in DOMAIN handlers : handlers[i] \in hs})
idle == sending = "none"

Init ==
    /\ handlers = <<>> /\ sending = "none"
    /\ accepting = TRUE /\ reading = FALSE
    /\ waits = 0 /\ lag = -1
    /\ period = 0 /\ ticks = 0
    /\ backlog = FALSE /\ peer = "none" /\ unread = 0
    /\ logged_in = FALSE /\ login_here = FALSE /\ pending = <<>>

-----------------------------------------------------------------------------
(***************************************************************************)
(* Clients, the admin console and the clock.                               *)
(***************************************************************************)
client_connects ==
    /\ ~backlog
    /\ backlog' = TRUE
    /\ UNCHANGED <<handlers, sending, accepting, reading, waits, clock_vars, peer, unread, market_vars>>

client_reads ==
    /\ peer = "open" /\ unread > 0
    /\ unread' = unread - 1
    /\ UNCHANGED <<handlers, sending, accepting, reading, waits, clock_vars, backlog, peer, market_vars>>

\* A client that leaves messages unread resets its connection.
client_leaves ==
    /\ peer = "open"
    /\ \/ unread = 0 /\ peer' = "closed"
       \/ peer' = "reset"
    /\ UNCHANGED <<handlers, sending, accepting, reading, waits, clock_vars, backlog, unread, market_vars>>

\* The handler of a connection to the admin console, with a cancel_all in it.
console_command ==
    /\ idle /\ queued({"cancel_all"}) = 0
    /\ handlers' = Append(handlers, "cancel_all")
    /\ UNCHANGED <<sending, accepting, reading, waits, clock_vars, conn_vars, market_vars>>

Clock ==
    /\ Prompt => handlers = <<>> /\ idle /\ ~ (waits > 0 /\ lag >= 0)
    /\ lag' = IF lag < MaxLag THEN lag + 1 ELSE lag
    /\ period' = IF period + 1 = MAX_EXEC_PER_SECOND THEN 0 ELSE period + 1
    /\ ticks' = IF period' = 0 THEN 0 ELSE ticks
    /\ UNCHANGED <<handlers, sending, accepting, reading, waits, conn_vars, market_vars>>

-----------------------------------------------------------------------------
(***************************************************************************)
(* Operations that complete.                                               *)
(***************************************************************************)
\* async_accept completes: what was meant for the client before this one is
\* stale.
accept_completes ==
    /\ idle
    /\ accepting /\ backlog
    /\ accepting' = FALSE
    /\ handlers' = Append(handlers, "accept")
    /\ backlog' = FALSE /\ peer' = "open" /\ unread' = 0
    /\ login_here' = FALSE
    /\ pending' = [i \in DOMAIN pending |-> IF pending[i] = "answer" THEN "stale" ELSE pending[i]]
    /\ UNCHANGED <<sending, reading, waits, clock_vars, logged_in>>

accept_breaks ==
    /\ idle
    /\ "accept" \in Failures
    /\ accepting /\ backlog
    /\ accepting' = FALSE
    /\ handlers' = Append(handlers, "accept error")
    /\ UNCHANGED <<sending, reading, waits, clock_vars, conn_vars, market_vars>>

\* async_read_some completes, with packets or because the client has left.
packet_arrives ==
    /\ idle
    /\ reading /\ peer = "open"
    /\ reading' = FALSE
    /\ \E p \in Packets : handlers' = Append(handlers, p)
    /\ UNCHANGED <<sending, accepting, waits, clock_vars, conn_vars, market_vars>>

\* A reset is reported once; after that the stream is at its end.
end_of_stream ==
    /\ idle
    /\ reading /\ peer \in {"closed", "reset"}
    /\ reading' = FALSE
    /\ handlers' = Append(handlers, IF peer = "closed" THEN "eof" ELSE "read error")
    /\ peer' = "closed"
    /\ UNCHANGED <<sending, accepting, waits, clock_vars, backlog, unread, market_vars>>

\* All waits have the same expiry time, that of the timer.  The timers are
\* looked at again only when what the last look queued has run.
timer_expires ==
    /\ idle
    /\ waits > 0 /\ lag >= 0
    /\ queued({"process"}) = 0
    /\ waits' = 0
    /\ handlers' = handlers \o [i \in 1 .. waits |-> "process"]
    /\ UNCHANGED <<sending, accepting, reading, clock_vars, conn_vars, market_vars>>

-----------------------------------------------------------------------------
(***************************************************************************)
(* The handlers.                                                           *)
(***************************************************************************)
runs(h) ==
    /\ idle
    /\ handlers # <<>>
    /\ Head(handlers) = h
    /\ handlers' = Tail(handlers)

accept ==
    /\ runs("accept")
    /\ reading' = TRUE
    /\ waits' = waits + 1
    /\ UNCHANGED <<sending, accepting, clock_vars, conn_vars, market_vars>>

\* accept returns and nothing is outstanding on the acceptor any more.
accept_fails ==
    /\ runs("accept error")
    /\ UNCHANGED <<sending, accepting, reading, waits, clock_vars, conn_vars, market_vars>>

\* The packets of one read, reduced to the last that changes the session
\* state and to one answer for all that are answered.  A login always is; a
\* refused login changes nothing, like an order.
read ==
    /\ \E p \in Packets, answers \in {<<>>, <<"answer">>} :
         /\ runs(p)
         /\ p = "login" => answers # <<>>
         /\ logged_in' = CASE p = "login" -> TRUE [] p = "logout" -> FALSE [] OTHER -> logged_in
         /\ login_here' = (login_here \/ p = "login")
         /\ pending' = pending \o answers
    /\ sending' = "read"
    /\ UNCHANGED <<accepting, reading, waits, clock_vars, conn_vars>>

BugReadDoesNotSend ==
    /\ sending = "read"
    /\ sending' = "none"
    /\ reading' = TRUE
    /\ UNCHANGED <<handlers, accepting, waits, clock_vars, conn_vars, market_vars>>

\* send has returned: the next read is started.
read_ends ==
    /\ sending = "read" /\ pending = <<>>
    /\ sending' = "none"
    /\ reading' = TRUE
    /\ UNCHANGED <<handlers, accepting, waits, clock_vars, conn_vars, market_vars>>

\* An error other than eof is treated like a read of no packets.
read_fails ==
    /\ runs("read error")
    /\ sending' = "read"
    /\ UNCHANGED <<accepting, reading, waits, clock_vars, conn_vars, market_vars>>

BugReconnectKeepsReading ==
    /\ runs("eof")
    /\ reading' = TRUE
    /\ waits' = 0
    /\ logged_in' = FALSE
    /\ peer' = "none" /\ unread' = 0
    /\ accepting' = TRUE
    /\ UNCHANGED <<sending, clock_vars, backlog, login_here, pending>>

BugReconnectKeepsLogin ==
    /\ runs("eof")
    /\ waits' = 0
    /\ peer' = "none" /\ unread' = 0
    /\ accepting' = TRUE
    /\ UNCHANGED <<sending, reading, clock_vars, backlog, market_vars>>

BugReconnectDoesNotAccept ==
    /\ runs("eof")
    /\ waits' = 0
    /\ logged_in' = FALSE
    /\ peer' = "none" /\ unread' = 0
    /\ UNCHANGED <<sending, accepting, reading, clock_vars, backlog, login_here, pending>>

\* The end of the stream: the timer is cancelled, the session disconnected,
\* the socket deleted and the next client accepted.
reconnect ==
    /\ runs("eof")
    /\ waits' = 0
    /\ logged_in' = FALSE
    /\ peer' = "none" /\ unread' = 0
    /\ accepting' = TRUE
    /\ UNCHANGED <<sending, reading, clock_vars, backlog, login_here, pending>>

\* A tick, whether or not there is a connection.  The heartbeat is due at
\* most once a second and only to a client that is logged in; the orders may
\* have news.
process ==
    /\ runs("process")
    /\ ticks' = IF ticks <= MAX_EXEC_PER_SECOND THEN ticks + 1 ELSE ticks
    /\ \E heartbeat \in {<<>>, <<"answer">>}, news \in {<<>>, <<"news">>} :
         /\ heartbeat # <<>> => logged_in
         /\ pending' = pending \o heartbeat \o news
    /\ sending' = "process"
    /\ UNCHANGED <<accepting, reading, waits, lag, period, conn_vars, logged_in, login_here>>

BugExpiresAtKeepsWaits ==
    /\ sending = "process" /\ pending = <<>>
    /\ sending' = "none"
    /\ lag' = lag - 1
    /\ waits' = waits + 1
    /\ UNCHANGED <<handlers, accepting, reading, period, ticks, conn_vars, market_vars>>

BugWaitBeforeExpiresAt ==
    /\ sending = "process" /\ pending = <<>>
    /\ sending' = "none"
    /\ lag' = lag - 1
    /\ waits' = 0
    /\ UNCHANGED <<handlers, accepting, reading, period, ticks, conn_vars, market_vars>>

\* send has returned: expires_at moves the expiry time by one period from
\* where it was and cancels every other wait.
process_ends ==
    /\ sending = "process" /\ pending = <<>>
    /\ sending' = "none"
    /\ lag' = lag - 1
    /\ waits' = 1
    /\ UNCHANGED <<handlers, accepting, reading, period, ticks, conn_vars, market_vars>>

\* The admin has all orders canceled.  Nothing is sent until the next tick or
\* read; one message stands for the news of every command since the last.
cancel_all ==
    /\ runs("cancel_all")
    /\ pending' \in {pending, IF pending = <<>> THEN <<"news">> ELSE pending}
    /\ UNCHANGED <<sending, accepting, reading, waits, clock_vars, conn_vars, logged_in, login_here>>

BugSendRetries ==
    /\ sending # "none" /\ pending # <<>>
    /\ peer = "open" /\ unread < Window
    /\ unread' = unread + 1
    /\ pending' = Tail(pending)
    /\ UNCHANGED <<handlers, sending, accepting, reading, waits, clock_vars, backlog, peer, logged_in, login_here>>

\* One message of send: into the connection, when it takes one, or lost, when
\* there is none; the error is ignored.  An error that is reported here is not
\* reported to the next read.
send ==
    /\ ~ idle /\ pending # <<>>
    /\ IF peer = "open"
       THEN unread < Window /\ unread' = unread + 1 /\ UNCHANGED peer
       ELSE peer' = (IF peer = "reset" THEN "closed" ELSE peer) /\ UNCHANGED unread
    /\ pending' = Tail(pending)
    /\ UNCHANGED <<handlers, sending, accepting, reading, waits, clock_vars, backlog, logged_in, login_here>>

HandlerStep ==
    \/ accept \/ accept_fails
    \/ read \/ read_fails \/ read_ends \/ reconnect
    \/ process \/ process_ends
    \/ cancel_all
    \/ send

Next ==
    \/ client_connects \/ client_reads \/ client_leaves
    \/ console_command
    \/ Clock
    \/ accept_completes \/ accept_breaks
    \/ packet_arrives \/ end_of_stream \/ timer_expires
    \/ HandlerStep

\* The thread runs what is queued and time passes.  Between two handlers the
\* thread looks for the operations that can complete: it does not miss one
\* because a handler runs at every other moment.  Clients need not come, stay,
\* send or read.
Fairness ==
    /\ WF_vars(HandlerStep)
    /\ WF_vars(Clock)
    /\ SF_vars(timer_expires)
    /\ SF_vars(accept_completes)
    /\ SF_vars(end_of_stream)

Spec == Init /\ [][Next]_vars /\ Fairness

-----------------------------------------------------------------------------
(***************************************************************************)
(* Properties.                                                             *)
(***************************************************************************)
\* Type correctness.
TypeOK ==
    /\ handlers \in Seq(Handlers)
    /\ sending \in {"none", "read", "process"}
    /\ accepting \in BOOLEAN /\ reading \in BOOLEAN
    /\ waits \in Nat /\ lag \in Int
    /\ period \in 0 .. MAX_EXEC_PER_SECOND - 1
    /\ backlog \in BOOLEAN
    /\ peer \in {"none", "open", "closed", "reset"}
    /\ unread \in 0 .. Window
    /\ logged_in \in BOOLEAN /\ login_here \in BOOLEAN
    /\ pending \in Seq(Messages) /\ Len(pending) <= 3
    /\ ticks \in 0 .. MAX_EXEC_PER_SECOND + 1

\* Where the server is on its connection: an operation on the acceptor or the
\* socket is outstanding, its handler is queued, or is writing its answers.
point(name, here) == IF here THEN {<<name, 0>>} ELSE {}
Points ==
    point("accepting", accepting) \cup point("reading", reading)
    \cup point("sending", sending = "read")
    \cup {<<"queued", i>> : i \in {k \in DOMAIN handlers : handlers[k] \in ConnHandlers}}

\* The server is always at exactly one point of its connection, so that
\* reconnect never deletes a socket that is in use and no client is accepted
\* beside another.  The exception is a failed accept, after which there is
\* none.
OneConnection ==
    /\ \A x, y \in Points : x = y
    /\ Points = {} => "accept" \in Failures

\* The session is logged in only when a login was handled on the connection
\* it has now: a client never inherits the login of the one before it, even
\* when a tick of the old connection runs after the new one was accepted.
LoginIsOfThisConnection ==
    logged_in => login_here /\ peer # "none"

\* Ticks of the timer: waiting, queued, or being written out.
TicksOut == waits + queued({"process"}) + (IF sending = "process" THEN 1 ELSE 0)

\* However often clients come and go, the ticks of old connections do not
\* pile up: at most two are outstanding, and the queue holds no more than
\* these, the handler of the connection and the console's.
TicksDoNotPileUp == TicksOut <= 2 /\ Len(handlers) <= 4

\* The answers to one client, and its heartbeats, never reach the next one,
\* although the market and what it has to say outlive the connection, and
\* send writes to whatever socket there is: every handler that makes an answer
\* sends it before the connection can end.
OwnMailOnly == \A i \in DOMAIN pending : pending[i] # "stale"

\* The clients that stay read what they are sent.
ClientsRead == []<>(peer = "open" => unread < Window)

\* The thread does not stay in a handler, whenever the client leaves: only one
\* that stays and never reads can keep the whole program.
SendReturns == ClientsRead => (~idle ~> idle)

\* A client that stays connected and reads has its orders processed again and
\* again: the wait of its own accept, or the one of an older connection that
\* outlived reconnect and cancelled it, is always followed by another.
TicksKeepComing == <>[](peer = "open") /\ ClientsRead => []<><<process>>_vars

\* When a client is gone, whether it closed its connection or broke it, the
\* next one gets in, or its accept fails, after which the server does nothing
\* any more.
NextClientGetsIn ==
    backlog /\ peer # "open" /\ Points # {}
    ~> ~backlog \/ queued({"accept error"}) > 0

-----------------------------------------------------------------------------
\* "maxinum number of execution per second" (MAX_EXEC_PER_SECOND): there are
\* no more ticks than that in a second.
ExecutionRate == ticks <= MAX_EXEC_PER_SECOND
=============================================================================
