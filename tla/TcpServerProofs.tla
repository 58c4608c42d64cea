-------------------------- MODULE TcpServerProofs --------------------------
(***************************************************************************)
(* Safety of the TCP server, for any number of connections, ticks and      *)
(* messages: the server is at one point of its connection, a login belongs *)
(* to the connection it was made on, and so do the answers.                *)
(***************************************************************************)
EXTENDS TcpServer, SequenceTheorems, FiniteSetTheorems, TLAPS

\* Handlers of the connection in a queue: none, or at most one.
NoConn(hs) == \A i \in DOMAIN hs : hs[i] \notin ConnHandlers
OneConn(hs) ==
    \A i, j \in DOMAIN hs : hs[i] \in ConnHandlers /\ hs[j] \in ConnHandlers => i = j

\* Two points of the connection exclude each other.
Apart ==
    /\ accepting => ~reading /\ sending # "read" /\ NoConn(handlers)
    /\ reading => sending # "read" /\ NoConn(handlers)
    /\ sending = "read" => NoConn(handlers)
    /\ OneConn(handlers)

\* The server is at one of them.
Somewhere ==
    accepting \/ reading \/ sending = "read" \/ ~NoConn(handlers) \/ "accept" \in Failures

\* Nobody is logged in while a client is waited for, and nothing comes from a
\* socket without a peer.
LoginOK ==
    /\ logged_in => login_here /\ peer # "none"
    /\ accepting => ~logged_in
    /\ peer = "none" => ~reading /\ sending # "read" /\ NoConn(handlers)

\* What waits between two handlers is news.
MailOK ==
    /\ \A i \in DOMAIN pending : pending[i] # "stale"
    /\ idle => \A i \in DOMAIN pending : pending[i] = "news"
    /\ idle => Len(pending) <= 1

IInv == TypeOK /\ Apart /\ Somewhere /\ LoginOK /\ MailOK

-----------------------------------------------------------------------------
(***************************************************************************)
(* Queues.                                                                 *)
(***************************************************************************)
LEMMA Pop ==
    ASSUME NEW hs \in Seq(Handlers), hs # <<>>
    PROVE  /\ Tail(hs) \in Seq(Handlers)
           /\ NoConn(hs) => NoConn(Tail(hs))
           /\ OneConn(hs) => OneConn(Tail(hs))
           /\ OneConn(hs) /\ Head(hs) \in ConnHandlers => NoConn(Tail(hs))
           /\ ~NoConn(hs) /\ Head(hs) \notin ConnHandlers => ~NoConn(Tail(hs))
<1>1. /\ Tail(hs) \in Seq(Handlers) /\ Len(Tail(hs)) = Len(hs) - 1
      /\ DOMAIN hs = 1 .. Len(hs) /\ Len(hs) \in Nat \ {0}
      /\ DOMAIN Tail(hs) = 1 .. Len(Tail(hs))
      /\ \A i \in 1 .. Len(hs) - 1 : Tail(hs)[i] = hs[i + 1]
      /\ Head(hs) = hs[1]
  OBVIOUS
<1>2. \A i \in DOMAIN Tail(hs) : i + 1 \in DOMAIN hs /\ i + 1 # 1 /\ Tail(hs)[i] = hs[i + 1]
  BY <1>1
<1>3. NoConn(hs) => NoConn(Tail(hs))
  BY <1>2 DEF NoConn
<1>4. OneConn(hs) => OneConn(Tail(hs))
  <2>1. SUFFICES ASSUME OneConn(hs), NEW i \in DOMAIN Tail(hs), NEW j \in DOMAIN Tail(hs),
                        Tail(hs)[i] \in ConnHandlers, Tail(hs)[j] \in ConnHandlers
                 PROVE  i = j
    BY DEF OneConn
  <2>2. i + 1 = j + 1
    BY <2>1, <1>2 DEF OneConn
  <2> QED BY <2>2, <1>1
<1>5. OneConn(hs) /\ Head(hs) \in ConnHandlers => NoConn(Tail(hs))
  BY <1>1, <1>2 DEF OneConn, NoConn
<1>6. ~NoConn(hs) /\ Head(hs) \notin ConnHandlers => ~NoConn(Tail(hs))
  <2>1. SUFFICES ASSUME NEW i \in DOMAIN hs, hs[i] \in ConnHandlers, Head(hs) \notin ConnHandlers
                 PROVE  ~NoConn(Tail(hs))
    BY DEF NoConn
  <2>2. i - 1 \in DOMAIN Tail(hs) /\ Tail(hs)[i - 1] = hs[i]
    BY <2>1, <1>1
  <2> QED BY <2>1, <2>2 DEF NoConn
<1> QED BY <1>1, <1>3, <1>4, <1>5, <1>6

LEMMA Push ==
    ASSUME NEW hs \in Seq(Handlers), NEW h \in Handlers
    PROVE  /\ Append(hs, h) \in Seq(Handlers)
           /\ NoConn(hs) => OneConn(Append(hs, h))
           /\ h \in ConnHandlers => ~NoConn(Append(hs, h))
           /\ h \notin ConnHandlers => (NoConn(Append(hs, h)) <=> NoConn(hs))
           /\ h \notin ConnHandlers /\ OneConn(hs) => OneConn(Append(hs, h))
<1>1. /\ Append(hs, h) \in Seq(Handlers)
      /\ DOMAIN hs = 1 .. Len(hs) /\ Len(hs) \in Nat
      /\ DOMAIN Append(hs, h) = 1 .. Len(hs) + 1
      /\ \A i \in 1 .. Len(hs) : Append(hs, h)[i] = hs[i]
      /\ Append(hs, h)[Len(hs) + 1] = h
  OBVIOUS
<1>2. \A i \in DOMAIN Append(hs, h) :
        \/ i \in DOMAIN hs /\ Append(hs, h)[i] = hs[i]
        \/ i = Len(hs) + 1 /\ Append(hs, h)[i] = h
  BY <1>1
<1>3. \A i \in DOMAIN hs : i \in DOMAIN Append(hs, h) /\ Append(hs, h)[i] = hs[i]
  BY <1>1
<1>4. Len(hs) + 1 \in DOMAIN Append(hs, h)
  BY <1>1
<1> HIDE <1>1
<1> QED BY <1>1, <1>2, <1>3, <1>4 DEF NoConn, OneConn

LEMMA PushTicks ==
    ASSUME NEW hs \in Seq(Handlers), NEW n \in Nat, NEW ps,
           ps = [i \in 1 .. n |-> "process"]
    PROVE  /\ hs \o ps \in Seq(Handlers)
           /\ NoConn(hs \o ps) <=> NoConn(hs)
           /\ OneConn(hs) => OneConn(hs \o ps)
<1>1. ps \in Seq(Handlers) /\ Len(ps) = n
  <2>1. ps \in [1 .. n -> Handlers]
    BY DEF Handlers
  <2> QED BY <2>1, SeqDef, LenProperties
<1>2. /\ hs \o ps \in Seq(Handlers)
      /\ DOMAIN hs = 1 .. Len(hs) /\ Len(hs) \in Nat
      /\ DOMAIN (hs \o ps) = 1 .. Len(hs) + n
      /\ \A i \in 1 .. Len(hs) : (hs \o ps)[i] = hs[i]
      /\ \A i \in Len(hs) + 1 .. Len(hs) + n : (hs \o ps)[i] = ps[i - Len(hs)]
  BY <1>1
<1>3. \A i \in DOMAIN (hs \o ps) :
        \/ i \in DOMAIN hs /\ (hs \o ps)[i] = hs[i]
        \/ (hs \o ps)[i] = "process"
  BY <1>2
<1>4. \A i \in DOMAIN hs : i \in DOMAIN (hs \o ps) /\ (hs \o ps)[i] = hs[i]
  BY <1>2
<1>5. "process" \notin ConnHandlers
  BY DEF ConnHandlers, Packets
<1> QED BY <1>2, <1>3, <1>4, <1>5 DEF NoConn, OneConn

-----------------------------------------------------------------------------
(***************************************************************************)
(* The invariant holds at first, and every action preserves it.            *)
(***************************************************************************)
LEMMA InitInv == Init => IInv
<1> SUFFICES ASSUME Init PROVE IInv
  OBVIOUS
<1>1. TypeOK
  <2>1. handlers \in Seq(Handlers) /\ pending \in Seq(Messages) /\ Len(pending) = 0
    BY DEF Init
  <2>2. period \in 0 .. MAX_EXEC_PER_SECOND - 1 /\ ticks \in 0 .. MAX_EXEC_PER_SECOND + 1
        /\ unread \in 0 .. Window /\ waits \in Nat /\ lag \in Int
    BY ServerAssumption DEF Init
  <2>3. /\ sending = "none" /\ peer = "none"
        /\ accepting \in BOOLEAN /\ reading \in BOOLEAN /\ backlog \in BOOLEAN
        /\ logged_in \in BOOLEAN /\ login_here \in BOOLEAN
    BY DEF Init
  <2> QED BY <2>1, <2>2, <2>3 DEF TypeOK
<1>2. NoConn(handlers) /\ OneConn(handlers)
  BY DEF Init, NoConn, OneConn
<1> QED BY <1>1, <1>2 DEF Init, IInv, Apart, Somewhere, LoginOK, MailOK, idle

\* Whatever leaves the queue, the connection and the market alone.
LEMMA OutsideStep ==
    ASSUME IInv, client_connects \/ client_reads \/ Clock
    PROVE  IInv'
<1>1. UNCHANGED <<handlers, sending, accepting, reading, peer, market_vars>>
  BY DEF client_connects, client_reads, Clock, conn_vars
<1>2. TypeOK'
  <2>1. CASE client_connects
    BY <2>1 DEF IInv, TypeOK, client_connects, clock_vars, market_vars
  <2>2. CASE client_reads
    BY <2>2, ServerAssumption DEF IInv, TypeOK, client_reads, clock_vars, market_vars
  <2>3. CASE Clock
    BY <2>3, ServerAssumption DEF IInv, TypeOK, Clock, conn_vars, market_vars
  <2> QED BY <2>1, <2>2, <2>3
<1> QED
  BY <1>1, <1>2 DEF IInv, Apart, Somewhere, LoginOK, MailOK, NoConn, OneConn, idle, market_vars

LEMMA LeaveStep == IInv /\ client_leaves => IInv'
<1> SUFFICES ASSUME IInv, client_leaves PROVE IInv'
  OBVIOUS
<1>1. UNCHANGED <<handlers, sending, accepting, reading, market_vars>> /\ peer' # "none" /\ peer # "none"
  BY DEF client_leaves
<1>2. TypeOK'
  BY DEF IInv, TypeOK, client_leaves, clock_vars, market_vars
<1> QED
  BY <1>1, <1>2 DEF IInv, Apart, Somewhere, LoginOK, MailOK, NoConn, OneConn, idle, market_vars

\* A handler that is queued by what is not the connection.
LEMMA QueueStep ==
    ASSUME IInv, console_command \/ timer_expires
    PROVE  IInv'
<1>1. /\ UNCHANGED <<sending, accepting, reading, conn_vars, market_vars>>
      /\ waits' \in Nat /\ UNCHANGED clock_vars
  BY DEF IInv, TypeOK, console_command, timer_expires
<1>2. /\ handlers' \in Seq(Handlers)
      /\ NoConn(handlers)' <=> NoConn(handlers)
      /\ OneConn(handlers) => OneConn(handlers)'
  <2>1. CASE console_command
    <3>1. "cancel_all" \in Handlers \ ConnHandlers
      BY DEF Handlers, ConnHandlers, Packets
    <3> QED BY <2>1, <3>1, Push DEF IInv, TypeOK, console_command, NoConn, OneConn
  <2>2. CASE timer_expires
    <3> DEFINE ps == [i \in 1 .. waits |-> "process"]
    <3>1. handlers' = handlers \o ps /\ handlers \in Seq(Handlers) /\ waits \in Nat
      BY <2>2 DEF IInv, TypeOK, timer_expires
    <3>2. /\ handlers \o ps \in Seq(Handlers)
          /\ NoConn(handlers \o ps) <=> NoConn(handlers)
          /\ OneConn(handlers) => OneConn(handlers \o ps)
      BY <3>1, PushTicks
    <3> HIDE DEF ps
    <3> QED BY <3>1, <3>2 DEF NoConn, OneConn
  <2> QED BY <2>1, <2>2
<1>3. TypeOK'
  BY <1>1, <1>2 DEF IInv, TypeOK, clock_vars, conn_vars, market_vars
<1> QED
  BY <1>1, <1>2, <1>3 DEF IInv, Apart, Somewhere, LoginOK, MailOK, idle, conn_vars, market_vars

\* async_accept completes, with a client or not.
LEMMA AcceptCompletesStep ==
    ASSUME IInv, accept_completes \/ accept_breaks
    PROVE  IInv'
<1>1. /\ accepting /\ idle /\ ~reading /\ NoConn(handlers) /\ handlers \in Seq(Handlers)
      /\ UNCHANGED <<sending, reading, waits, clock_vars, logged_in>> /\ accepting' = FALSE
      /\ ~logged_in /\ sending = "none"
  BY DEF IInv, Apart, LoginOK, TypeOK, accept_completes, accept_breaks, idle, market_vars
<1>2. CASE accept_completes
  <2>1. handlers' = Append(handlers, "accept") /\ "accept" \in Handlers /\ "accept" \in ConnHandlers
    BY <1>2 DEF accept_completes, Handlers, ConnHandlers
  <2>2. handlers' \in Seq(Handlers) /\ OneConn(handlers)' /\ ~NoConn(handlers)'
    BY <1>1, <2>1, Push DEF NoConn, OneConn
  <2>3. pending' = pending
    <3>1. pending \in Seq(Messages) /\ \A i \in DOMAIN pending : pending[i] = "news"
      BY <1>1 DEF IInv, TypeOK, MailOK
    <3>2. pending' = [i \in DOMAIN pending |-> IF pending[i] = "answer" THEN "stale" ELSE pending[i]]
      BY <1>2 DEF accept_completes
    <3>3. pending = [i \in DOMAIN pending |-> pending[i]]
      BY <3>1
    <3> QED BY <3>1, <3>2, <3>3
  <2>4. peer' = "open" /\ unread' = 0 /\ backlog' = FALSE /\ login_here' = FALSE
    BY <1>2 DEF accept_completes
  <2>5. TypeOK'
    <3>1. unread' \in 0 .. Window
      BY <2>4, ServerAssumption
    <3>2. /\ sending' \in {"none", "read", "process"}
          /\ accepting' \in BOOLEAN /\ reading' \in BOOLEAN /\ backlog' \in BOOLEAN
          /\ logged_in' \in BOOLEAN /\ login_here' \in BOOLEAN
          /\ peer' \in {"none", "open", "closed", "reset"}
      BY <1>1, <2>4 DEF IInv, TypeOK
    <3>3. /\ waits' \in Nat /\ lag' \in Int
          /\ period' \in 0 .. MAX_EXEC_PER_SECOND - 1
          /\ ticks' \in 0 .. MAX_EXEC_PER_SECOND + 1
      BY <1>1 DEF IInv, TypeOK, clock_vars
    <3>4. pending' \in Seq(Messages) /\ Len(pending') <= 3
      BY <2>3 DEF IInv, TypeOK
    <3> QED BY <2>2, <3>1, <3>2, <3>3, <3>4 DEF TypeOK
  <2> QED
    BY <1>1, <2>2, <2>3, <2>4, <2>5 DEF IInv, Apart, Somewhere, LoginOK, MailOK, idle
<1>3. CASE accept_breaks
  <2>1. handlers' = Append(handlers, "accept error") /\ "accept error" \in Handlers \ ConnHandlers
    BY <1>3 DEF accept_breaks, Handlers, ConnHandlers, Packets
  <2>2. handlers' \in Seq(Handlers) /\ OneConn(handlers)' /\ NoConn(handlers)'
    <3>1. OneConn(handlers)
      BY DEF IInv, Apart
    <3> QED BY <1>1, <2>1, <3>1, Push DEF NoConn, OneConn
  <2>3. UNCHANGED <<conn_vars, market_vars>> /\ "accept" \in Failures
    BY <1>3 DEF accept_breaks
  <2>5. TypeOK'
    BY <1>1, <2>2, <2>3 DEF IInv, TypeOK, clock_vars, conn_vars, market_vars
  <2> QED
    BY <1>1, <2>2, <2>3, <2>5 DEF IInv, Apart, Somewhere, LoginOK, MailOK, idle, conn_vars, market_vars
<1> QED BY <1>2, <1>3

\* async_read_some completes, with packets or because the client has left.
LEMMA ReadCompletesStep ==
    ASSUME IInv, packet_arrives \/ end_of_stream
    PROVE  IInv'
<1>1. /\ reading /\ idle /\ ~accepting /\ NoConn(handlers) /\ handlers \in Seq(Handlers)
      /\ UNCHANGED <<sending, accepting, waits, clock_vars, backlog, unread, market_vars>>
      /\ reading' = FALSE /\ sending = "none"
      /\ peer # "none" /\ peer' \in {"open", "closed"}
  BY DEF IInv, Apart, LoginOK, TypeOK, packet_arrives, end_of_stream, idle, conn_vars
<1>2. PICK h \in ConnHandlers : handlers' = Append(handlers, h)
  BY DEF packet_arrives, end_of_stream, ConnHandlers
<1>3. handlers' \in Seq(Handlers) /\ OneConn(handlers)' /\ ~NoConn(handlers)'
  BY <1>1, <1>2, Push DEF NoConn, OneConn, Handlers
<1>4. TypeOK'
  BY <1>1, <1>3 DEF IInv, TypeOK, clock_vars, market_vars
<1> QED
  BY <1>1, <1>3, <1>4 DEF IInv, Apart, Somewhere, LoginOK, MailOK, idle, market_vars

\* The queue without the handler that runs.
LEMMA RunStep ==
    ASSUME IInv, NEW h, runs(h)
    PROVE  /\ sending = "none" /\ h \in Handlers
           /\ handlers' \in Seq(Handlers)
           /\ OneConn(handlers)'
           /\ NoConn(handlers) => NoConn(handlers)' /\ h \notin ConnHandlers
           /\ h \in ConnHandlers => NoConn(handlers)'
           /\ ~NoConn(handlers) /\ h \notin ConnHandlers => ~NoConn(handlers)'
<1>1. /\ handlers \in Seq(Handlers) /\ handlers # <<>> /\ Head(handlers) = h
      /\ handlers' = Tail(handlers) /\ OneConn(handlers) /\ sending = "none"
  BY DEF runs, IInv, TypeOK, Apart, idle
<1>2. h = handlers[1] /\ 1 \in DOMAIN handlers /\ h \in Handlers
  BY <1>1
<1>3. /\ Tail(handlers) \in Seq(Handlers)
      /\ NoConn(handlers) => NoConn(Tail(handlers))
      /\ OneConn(Tail(handlers))
      /\ h \in ConnHandlers => NoConn(Tail(handlers))
      /\ ~NoConn(handlers) /\ h \notin ConnHandlers => ~NoConn(Tail(handlers))
  BY <1>1, Pop
<1>4. NoConn(handlers) => h \notin ConnHandlers
  BY <1>2 DEF NoConn
<1>5. (NoConn(handlers)' <=> NoConn(Tail(handlers))) /\ (OneConn(handlers)' <=> OneConn(Tail(handlers)))
  BY <1>1 DEF NoConn, OneConn
<1> QED BY <1>1, <1>2, <1>3, <1>4, <1>5

\* A handler of the connection runs when nothing of it is outstanding.
LEMMA ConnRuns ==
    ASSUME IInv, NEW h \in ConnHandlers, runs(h)
    PROVE  ~accepting /\ ~reading /\ sending = "none" /\ peer # "none" /\ NoConn(handlers)'
BY RunStep DEF IInv, Apart, LoginOK

LEMMA AcceptStep == IInv /\ (accept \/ accept_fails) => IInv'
<1> SUFFICES ASSUME IInv, accept \/ accept_fails PROVE IInv'
  OBVIOUS
<1>1. CASE accept
  <2>1. runs("accept") /\ "accept" \in ConnHandlers
    BY <1>1 DEF accept, ConnHandlers
  <2>2. ~accepting /\ peer # "none" /\ NoConn(handlers)' /\ OneConn(handlers)' /\ handlers' \in Seq(Handlers)
        /\ sending = "none"
    BY <2>1, ConnRuns, RunStep
  <2>3. /\ reading' = TRUE /\ waits' = waits + 1
        /\ UNCHANGED <<sending, accepting, clock_vars, conn_vars, market_vars>>
    BY <1>1 DEF accept
  <2>4. TypeOK'
    BY <2>2, <2>3 DEF IInv, TypeOK, clock_vars, conn_vars, market_vars
  <2> QED
    BY <2>2, <2>3, <2>4 DEF IInv, Apart, Somewhere, LoginOK, MailOK, idle, conn_vars, market_vars
<1>2. CASE accept_fails
  <2>1. runs("accept error") /\ "accept error" \notin ConnHandlers
    BY <1>2 DEF accept_fails, ConnHandlers, Packets
  <2>2. UNCHANGED <<sending, accepting, reading, waits, clock_vars, conn_vars, market_vars>>
    BY <1>2 DEF accept_fails
  <2>3. TypeOK'
    BY <2>1, <2>2, RunStep DEF IInv, TypeOK, clock_vars, conn_vars, market_vars
  <2> QED
    BY <2>1, <2>2, <2>3, RunStep
    DEF IInv, Apart, Somewhere, LoginOK, MailOK, idle, conn_vars, market_vars
<1> QED BY <1>1, <1>2

\* What is added to what waits to be said.
LEMMA Answers ==
    ASSUME NEW ps \in Seq(Messages), NEW qs \in Seq({"answer", "news"}),
           \A i \in DOMAIN ps : ps[i] # "stale"
    PROVE  /\ ps \o qs \in Seq(Messages)
           /\ Len(ps \o qs) = Len(ps) + Len(qs)
           /\ \A i \in DOMAIN (ps \o qs) : (ps \o qs)[i] # "stale"
<1>1. qs \in Seq(Messages)
  BY DEF Messages
<1>2. /\ ps \o qs \in Seq(Messages) /\ Len(ps \o qs) = Len(ps) + Len(qs)
      /\ DOMAIN (ps \o qs) = 1 .. Len(ps) + Len(qs)
      /\ DOMAIN ps = 1 .. Len(ps) /\ DOMAIN qs = 1 .. Len(qs) /\ Len(ps) \in Nat /\ Len(qs) \in Nat
      /\ \A i \in 1 .. Len(ps) : (ps \o qs)[i] = ps[i]
      /\ \A i \in Len(ps) + 1 .. Len(ps) + Len(qs) : (ps \o qs)[i] = qs[i - Len(ps)]
  BY <1>1
<1>3. \A i \in DOMAIN qs : qs[i] # "stale"
  <2>1. \A i \in DOMAIN qs : qs[i] \in {"answer", "news"}
    OBVIOUS
  <2> QED BY <2>1
<1>4. \A i \in DOMAIN (ps \o qs) : \/ i \in DOMAIN ps /\ (ps \o qs)[i] = ps[i]
                                   \/ i - Len(ps) \in DOMAIN qs /\ (ps \o qs)[i] = qs[i - Len(ps)]
  BY <1>2
<1> QED BY <1>2, <1>3, <1>4

LEMMA OneAnswer ==
    ASSUME NEW m \in {"answer", "news"}, NEW ms \in {<<>>, <<m>>}
    PROVE  ms \in Seq({"answer", "news"}) /\ Len(ms) <= 1
<1>1. CASE ms = <<>>
  BY <1>1
<1>2. CASE ms = <<m>>
  BY <1>2
<1> QED BY <1>1, <1>2

LEMMA ReadStep == IInv /\ read => IInv'
<1> SUFFICES ASSUME IInv, read PROVE IInv'
  OBVIOUS
<1>1. PICK p \in Packets, answers \in {<<>>, <<"answer">>} :
        /\ runs(p)
        /\ logged_in' = CASE p = "login" -> TRUE [] p = "logout" -> FALSE [] OTHER -> logged_in
        /\ login_here' = (login_here \/ p = "login")
        /\ pending' = pending \o answers
  BY DEF read
<1>2. /\ sending' = "read"
      /\ UNCHANGED <<accepting, reading, waits, clock_vars, conn_vars>>
  BY DEF read
<1>3. /\ ~accepting /\ ~reading /\ sending = "none" /\ peer # "none"
      /\ NoConn(handlers)' /\ OneConn(handlers)' /\ handlers' \in Seq(Handlers)
  BY <1>1, ConnRuns, RunStep DEF ConnHandlers
<1>4. logged_in' \in BOOLEAN /\ login_here' \in BOOLEAN /\ (logged_in' => login_here')
  <2>1. logged_in \in BOOLEAN /\ login_here \in BOOLEAN /\ (logged_in => login_here)
    BY DEF IInv, TypeOK, LoginOK
  <2>2. CASE p = "login"
    BY <1>1, <2>1, <2>2
  <2>3. CASE p = "logout"
    BY <1>1, <2>1, <2>3
  <2>4. CASE p = "order"
    BY <1>1, <2>1, <2>4
  <2> QED BY <1>1, <2>2, <2>3, <2>4 DEF Packets
<1>5. /\ pending' \in Seq(Messages) /\ Len(pending') <= 3
      /\ \A i \in DOMAIN pending' : pending'[i] # "stale"
  <2>1. answers \in Seq({"answer", "news"}) /\ Len(answers) <= 1
    BY OneAnswer
  <2>2. pending \in Seq(Messages) /\ Len(pending) <= 1 /\ \A i \in DOMAIN pending : pending[i] # "stale"
    BY <1>3 DEF IInv, TypeOK, MailOK, idle
  <2> QED BY <1>1, <2>1, <2>2, Answers
<1>6. TypeOK'
  BY <1>2, <1>3, <1>4, <1>5 DEF IInv, TypeOK, clock_vars, conn_vars
<1> QED
  BY <1>2, <1>3, <1>4, <1>5, <1>6 DEF IInv, Apart, Somewhere, LoginOK, MailOK, idle, conn_vars

LEMMA ReadFailsStep == IInv /\ read_fails => IInv'
<1> SUFFICES ASSUME IInv, read_fails PROVE IInv'
  OBVIOUS
<1>1. runs("read error") /\ "read error" \in ConnHandlers
  BY DEF read_fails, ConnHandlers
<1>2. /\ ~accepting /\ ~reading /\ sending = "none" /\ peer # "none"
      /\ NoConn(handlers)' /\ OneConn(handlers)' /\ handlers' \in Seq(Handlers)
  BY <1>1, ConnRuns, RunStep
<1>3. /\ sending' = "read"
      /\ UNCHANGED <<accepting, reading, waits, clock_vars, conn_vars, market_vars>>
  BY DEF read_fails
<1>4. TypeOK'
  BY <1>2, <1>3 DEF IInv, TypeOK, clock_vars, conn_vars, market_vars
<1> QED
  BY <1>2, <1>3, <1>4 DEF IInv, Apart, Somewhere, LoginOK, MailOK, idle, conn_vars, market_vars

LEMMA ReconnectStep == IInv /\ reconnect => IInv'
<1> SUFFICES ASSUME IInv, reconnect PROVE IInv'
  OBVIOUS
<1>1. runs("eof") /\ "eof" \in ConnHandlers
  BY DEF reconnect, ConnHandlers
<1>2. /\ ~reading /\ sending = "none"
      /\ NoConn(handlers)' /\ OneConn(handlers)' /\ handlers' \in Seq(Handlers)
  BY <1>1, ConnRuns, RunStep
<1>3. /\ waits' = 0 /\ logged_in' = FALSE /\ peer' = "none" /\ unread' = 0 /\ accepting' = TRUE
      /\ UNCHANGED <<sending, reading, clock_vars, backlog, login_here, pending>>
  BY DEF reconnect
<1>4. TypeOK'
  <2>1. unread' \in 0 .. Window
    BY <1>3, ServerAssumption
  <2>2. /\ waits' \in Nat /\ lag' \in Int /\ period' \in 0 .. MAX_EXEC_PER_SECOND - 1
        /\ ticks' \in 0 .. MAX_EXEC_PER_SECOND + 1
        /\ pending' \in Seq(Messages) /\ Len(pending') <= 3
    BY <1>3 DEF IInv, TypeOK, clock_vars
  <2> QED BY <1>2, <1>3, <2>1, <2>2 DEF IInv, TypeOK
<1> QED
  BY <1>2, <1>3, <1>4 DEF IInv, Apart, Somewhere, LoginOK, MailOK, idle

LEMMA CancelAllStep == IInv /\ cancel_all => IInv'
<1> SUFFICES ASSUME IInv, cancel_all PROVE IInv'
  OBVIOUS
<1>1. runs("cancel_all") /\ "cancel_all" \notin ConnHandlers
  BY DEF cancel_all, ConnHandlers, Packets
<1>2. /\ UNCHANGED <<sending, accepting, reading, waits, clock_vars, conn_vars, logged_in, login_here>>
      /\ pending' \in {pending, IF pending = <<>> THEN <<"news">> ELSE pending}
  BY DEF cancel_all
<1>3. /\ pending' \in Seq(Messages) /\ Len(pending') <= 1
      /\ \A i \in DOMAIN pending' : pending'[i] = "news"
  <2>1. pending \in Seq(Messages) /\ Len(pending) <= 1 /\ \A i \in DOMAIN pending : pending[i] = "news"
    BY <1>1, RunStep DEF IInv, TypeOK, MailOK, idle
  <2>2. <<"news">> \in Seq(Messages) /\ Len(<<"news">>) = 1 /\ \A i \in DOMAIN <<"news">> : <<"news">>[i] = "news"
    BY DEF Messages
  <2>3. CASE pending' = pending
    BY <2>1, <2>3
  <2>4. CASE pending' = <<"news">>
    BY <2>2, <2>4
  <2> QED BY <1>2, <2>3, <2>4
<1>4. TypeOK'
  BY <1>1, <1>2, <1>3, RunStep DEF IInv, TypeOK, clock_vars, conn_vars
<1>5. MailOK'
  BY <1>3 DEF MailOK
<1> QED
  BY <1>1, <1>2, <1>4, <1>5, RunStep DEF IInv, Apart, Somewhere, LoginOK, conn_vars

LEMMA ProcessStep == IInv /\ process => IInv'
<1> SUFFICES ASSUME IInv, process PROVE IInv'
  OBVIOUS
<1>1. runs("process") /\ "process" \notin ConnHandlers
  BY DEF process, ConnHandlers, Packets
<1>2. PICK heartbeat \in {<<>>, <<"answer">>}, news \in {<<>>, <<"news">>} :
        pending' = pending \o heartbeat \o news
  BY DEF process
<1>3. /\ sending' = "process"
      /\ ticks' = IF ticks <= MAX_EXEC_PER_SECOND THEN ticks + 1 ELSE ticks
      /\ UNCHANGED <<accepting, reading, waits, lag, period, conn_vars, logged_in, login_here>>
  BY DEF process
<1>4. /\ pending' \in Seq(Messages) /\ Len(pending') <= 3
      /\ \A i \in DOMAIN pending' : pending'[i] # "stale"
  <2>1. heartbeat \in Seq({"answer", "news"}) /\ Len(heartbeat) <= 1
        /\ news \in Seq({"answer", "news"}) /\ Len(news) <= 1
    BY OneAnswer
  <2>2. pending \in Seq(Messages) /\ Len(pending) <= 1 /\ \A i \in DOMAIN pending : pending[i] # "stale"
    BY <1>1, RunStep DEF IInv, TypeOK, MailOK, idle
  <2>3. /\ pending \o heartbeat \in Seq(Messages) /\ Len(pending \o heartbeat) <= 2
        /\ \A i \in DOMAIN (pending \o heartbeat) : (pending \o heartbeat)[i] # "stale"
    BY <2>1, <2>2, Answers
  <2> QED BY <1>2, <2>1, <2>3, Answers
<1>5. ticks' \in 0 .. MAX_EXEC_PER_SECOND + 1
  BY <1>3, ServerAssumption DEF IInv, TypeOK
<1>6. TypeOK'
  BY <1>1, <1>3, <1>4, <1>5, RunStep DEF IInv, TypeOK, conn_vars
<1> QED
  BY <1>1, <1>3, <1>4, <1>6, RunStep
  DEF IInv, Apart, Somewhere, LoginOK, MailOK, idle, conn_vars

\* send has written everything, and its handler goes on.
LEMMA SendEndsStep ==
    ASSUME IInv, read_ends \/ process_ends
    PROVE  IInv'
<1>1. /\ pending = <<>> /\ sending # "none" /\ sending' = "none"
      /\ UNCHANGED <<handlers, accepting, period, ticks, conn_vars, market_vars>>
      /\ waits' \in Nat /\ lag' \in Int
      /\ \/ sending = "read" /\ reading' = TRUE
         \/ sending # "read" /\ UNCHANGED reading
  BY DEF IInv, TypeOK, read_ends, process_ends, clock_vars
<1>2. TypeOK'
  BY <1>1 DEF IInv, TypeOK, conn_vars, market_vars
<1>3. MailOK'
  BY <1>1 DEF MailOK, market_vars
<1> QED
  BY <1>1, <1>2, <1>3
  DEF IInv, Apart, Somewhere, LoginOK, NoConn, OneConn, conn_vars, market_vars

LEMMA SendStep == IInv /\ send => IInv'
<1> SUFFICES ASSUME IInv, send PROVE IInv'
  OBVIOUS
<1>1. /\ sending # "none" /\ pending # <<>> /\ pending' = Tail(pending)
      /\ UNCHANGED <<handlers, sending, accepting, reading, waits, clock_vars, backlog, logged_in, login_here>>
      /\ \/ unread < Window /\ unread' = unread + 1 /\ peer' = peer
         \/ unread' = unread /\ peer # "open" /\ peer' = (IF peer = "reset" THEN "closed" ELSE peer)
  BY DEF send, idle
<1>2. /\ pending' \in Seq(Messages) /\ Len(pending') <= 3
      /\ \A i \in DOMAIN pending' : pending'[i] # "stale"
  <2>1. /\ pending \in Seq(Messages) /\ pending # <<>> /\ Len(pending) <= 3
        /\ \A i \in DOMAIN pending : pending[i] # "stale"
    BY <1>1 DEF IInv, TypeOK, MailOK
  <2>2. /\ Tail(pending) \in Seq(Messages) /\ Len(Tail(pending)) = Len(pending) - 1
        /\ \A i \in DOMAIN Tail(pending) : i + 1 \in DOMAIN pending /\ Tail(pending)[i] = pending[i + 1]
    BY <2>1
  <2> QED BY <1>1, <2>1, <2>2
<1>3. peer' \in {"none", "open", "closed", "reset"} /\ (peer' = "none" <=> peer = "none")
  BY <1>1 DEF IInv, TypeOK
<1>4. TypeOK'
  <2>1. unread' \in 0 .. Window
    BY <1>1, ServerAssumption DEF IInv, TypeOK
  <2> QED BY <1>1, <1>2, <1>3, <2>1 DEF IInv, TypeOK, clock_vars
<1> QED
  BY <1>1, <1>2, <1>3, <1>4 DEF IInv, Apart, Somewhere, LoginOK, MailOK, NoConn, OneConn, idle

LEMMA NextInv == IInv /\ [Next]_vars => IInv'
<1> SUFFICES ASSUME IInv, [Next]_vars PROVE IInv'
  OBVIOUS
<1>1. CASE client_connects \/ client_reads \/ Clock
  BY <1>1, OutsideStep
<1>2. CASE client_leaves
  BY <1>2, LeaveStep
<1>3. CASE console_command \/ timer_expires
  BY <1>3, QueueStep
<1>4. CASE accept_completes \/ accept_breaks
  BY <1>4, AcceptCompletesStep
<1>5. CASE packet_arrives \/ end_of_stream
  BY <1>5, ReadCompletesStep
<1>6. CASE accept \/ accept_fails
  BY <1>6, AcceptStep
<1>7. CASE read
  BY <1>7, ReadStep
<1>8. CASE read_fails
  BY <1>8, ReadFailsStep
<1>9. CASE reconnect
  BY <1>9, ReconnectStep
<1>10. CASE process
  BY <1>10, ProcessStep
<1>11. CASE cancel_all
  BY <1>11, CancelAllStep
<1>12. CASE read_ends \/ process_ends
  BY <1>12, SendEndsStep
<1>13. CASE send
  BY <1>13, SendStep
<1>14. CASE UNCHANGED vars
  BY <1>14
  DEF vars, clock_vars, conn_vars, market_vars, IInv, TypeOK, Apart, Somewhere, LoginOK, MailOK,
      NoConn, OneConn, idle
<1> QED
  BY <1>1, <1>2, <1>3, <1>4, <1>5, <1>6, <1>7, <1>8, <1>9, <1>10, <1>11, <1>12, <1>13, <1>14
  DEF Next, HandlerStep

LEMMA Invariance == Spec => []IInv
BY InitInv, NextInv, PTL DEF Spec

-----------------------------------------------------------------------------
(***************************************************************************)
(* What the invariant gives.                                               *)
(***************************************************************************)
\* The variables of tcp_server.cpp's handlers have their types, for any
\* window, however many connections come and go: what waits to be sent is
\* never more than three messages, since send leaves nothing behind.
THEOREM TypeCorrect == Spec => []TypeOK
<1>1. IInv => TypeOK
  BY DEF IInv
<1> QED BY <1>1, Invariance, PTL

\* accept, read and reconnect never overlap: there is one operation on the
\* acceptor or the socket at a time, and only a failed accept leaves none.
THEOREM ConnectionUnique == Spec => []OneConnection
<1>1. IInv => OneConnection
  <2>1. SUFFICES ASSUME IInv PROVE OneConnection
    OBVIOUS
  <2> DEFINE here == {k \in DOMAIN handlers : handlers[k] \in ConnHandlers}
             placed == {<<"queued", i>> : i \in here}
  <2>2. /\ accepting => ~reading /\ sending # "read"
        /\ reading => sending # "read"
        /\ accepting \/ reading \/ sending = "read" => here = {}
    BY <2>1 DEF IInv, Apart, NoConn
  <2>3. \A i, j \in here : i = j
    BY <2>1 DEF IInv, Apart, OneConn
  <2>4. accepting \/ reading \/ sending = "read" \/ here # {} \/ "accept" \in Failures
    BY <2>1 DEF IInv, Somewhere, NoConn
  <2>5. Points = (IF accepting THEN {<<"accepting", 0>>} ELSE {})
                 \cup (IF reading THEN {<<"reading", 0>>} ELSE {})
                 \cup (IF sending = "read" THEN {<<"sending", 0>>} ELSE {})
                 \cup placed
    BY DEF Points, point
  <2>6. placed = {} <=> here = {}
    OBVIOUS
  <2>7. \A x, y \in placed : x = y
    BY <2>3
  <2> HIDE DEF here, placed
  <2>8. CASE accepting \/ reading \/ sending = "read"
    <3>1. placed = {}
      BY <2>2, <2>6, <2>8
    <3> QED BY <2>2, <2>5, <2>8, <3>1 DEF OneConnection
  <2>9. CASE ~ (accepting \/ reading \/ sending = "read")
    <3>1. Points = placed
      BY <2>5, <2>9
    <3> QED BY <2>4, <2>6, <2>7, <2>9, <3>1 DEF OneConnection
  <2> QED BY <2>8, <2>9
<1> QED BY <1>1, Invariance, PTL

\* A client never inherits the login of the one before it: reconnect ends the
\* session before the next accept, and ticks that are late change nothing.
THEOREM LoginsEnd == Spec => []LoginIsOfThisConnection
<1>1. IInv => LoginIsOfThisConnection
  BY DEF IInv, LoginOK, LoginIsOfThisConnection
<1> QED BY <1>1, Invariance, PTL

\* An answer or a heartbeat never reaches the next client, whatever the
\* console does between two handlers: it is sent, or lost with its socket,
\* before its handler returns.
THEOREM MailIsOwn == Spec => []OwnMailOnly
<1>1. IInv => OwnMailOnly
  BY DEF IInv, MailOK, OwnMailOnly
<1> QED BY <1>1, Invariance, PTL

-----------------------------------------------------------------------------
(***************************************************************************)
(* The ticks.  accept starts a wait without looking whether there is one,  *)
(* so a third tick could only come about when accept runs while two are    *)
(* out.  It does not: reconnect cancels the waits, and as the timers are   *)
(* looked at only when no tick is queued, what is out when accept runs is  *)
(* one wait, or one tick behind it in the queue.                           *)
(***************************************************************************)
\* What stands in a queue, and how much of it there is.
Places(hs, C) == {i \in DOMAIN hs : hs[i] \in C}
Count(hs, C) == Cardinality(Places(hs, C))
Single(hs, C) == \A i, j \in Places(hs, C) : i = j

\* The handlers of which the connection and the acceptor never have two.
LineHandlers == ConnHandlers \cup {"accept error"}
OneLine ==
    /\ Single(handlers, LineHandlers)
    /\ accepting \/ reading \/ sending = "read" => Places(handlers, LineHandlers) = {}

\* While accept is to come there is at most one wait; and when a tick is
\* queued behind it, that is the only tick there is.
Arrival ==
    /\ accepting => waits <= 1
    /\ \A k \in Places(handlers, {"accept"}) :
         /\ waits <= 1
         /\ \A i \in Places(handlers, {"process"}) :
              i > k => waits = 0 /\ sending # "process" /\ Single(handlers, {"process"})

TickInv == TicksOut <= 2 /\ queued({"cancel_all"}) <= 1 /\ OneLine /\ Arrival

\* Counting what stands in a queue.
LEMMA CountType ==
    ASSUME NEW hs \in Seq(Handlers), NEW C
    PROVE  /\ IsFiniteSet(Places(hs, C)) /\ Count(hs, C) \in Nat
           /\ Count(hs, C) = 0 <=> Places(hs, C) = {}
           /\ Single(hs, C) => Count(hs, C) <= 1
<1>1. IsFiniteSet(1 .. Len(hs)) /\ Places(hs, C) \subseteq 1 .. Len(hs)
  BY FS_Interval DEF Places
<1>2. IsFiniteSet(Places(hs, C)) /\ Count(hs, C) \in Nat
  BY <1>1, FS_Subset, FS_CardinalityType DEF Count
<1>3. Count(hs, C) = 0 <=> Places(hs, C) = {}
  BY <1>2, FS_EmptySet DEF Count
<1>4. ASSUME Single(hs, C), NEW i \in Places(hs, C)
      PROVE  Count(hs, C) = 1
  <2>1. Places(hs, C) = {i}
    BY <1>4 DEF Single
  <2> QED BY <2>1, FS_Singleton DEF Count
<1> QED BY <1>2, <1>3, <1>4

LEMMA CountPush ==
    ASSUME NEW hs \in Seq(Handlers), NEW h \in Handlers, NEW C
    PROVE  /\ h \in C => Places(Append(hs, h), C) = Places(hs, C) \cup {Len(hs) + 1}
           /\ h \notin C => Places(Append(hs, h), C) = Places(hs, C)
           /\ Count(Append(hs, h), C) = Count(hs, C) + (IF h \in C THEN 1 ELSE 0)
           /\ \A i \in Places(hs, C) : i \in 1 .. Len(hs)
<1>1. /\ DOMAIN hs = 1 .. Len(hs) /\ Len(hs) \in Nat
      /\ DOMAIN Append(hs, h) = 1 .. Len(hs) + 1
      /\ \A i \in 1 .. Len(hs) : Append(hs, h)[i] = hs[i]
      /\ Append(hs, h)[Len(hs) + 1] = h
  OBVIOUS
<1>2. h \in C => Places(Append(hs, h), C) = Places(hs, C) \cup {Len(hs) + 1}
  BY <1>1 DEF Places
<1>3. h \notin C => Places(Append(hs, h), C) = Places(hs, C)
  BY <1>1 DEF Places
<1>4. Len(hs) + 1 \notin Places(hs, C) /\ \A i \in Places(hs, C) : i \in 1 .. Len(hs)
  BY <1>1 DEF Places
<1>5. Count(Append(hs, h), C) = Count(hs, C) + (IF h \in C THEN 1 ELSE 0)
  BY <1>2, <1>3, <1>4, CountType, FS_AddElement DEF Count
<1> QED BY <1>2, <1>3, <1>4, <1>5

LEMMA CountPop ==
    ASSUME NEW hs \in Seq(Handlers), hs # <<>>, NEW C
    PROVE  /\ Places(Tail(hs), C) = {i \in 1 .. Len(hs) - 1 : i + 1 \in Places(hs, C)}
           /\ 1 \in Places(hs, C) <=> Head(hs) \in C
           /\ Count(Tail(hs), C) = Count(hs, C) - (IF Head(hs) \in C THEN 1 ELSE 0)
<1>1. /\ Len(hs) \in Nat \ {0} /\ DOMAIN hs = 1 .. Len(hs)
      /\ DOMAIN Tail(hs) = 1 .. Len(hs) - 1
      /\ \A i \in 1 .. Len(hs) - 1 : Tail(hs)[i] = hs[i + 1]
      /\ Head(hs) = hs[1]
  OBVIOUS
<1>2. Places(Tail(hs), C) = {i \in 1 .. Len(hs) - 1 : i + 1 \in Places(hs, C)}
  BY <1>1 DEF Places
<1>3. 1 \in Places(hs, C) <=> Head(hs) \in C
  BY <1>1 DEF Places
<1> DEFINE S == Places(Tail(hs), C)
           T == Places(hs, C) \ {1}
           f == [i \in S |-> i + 1]
<1>4. f \in [S -> T] /\ \A i, j \in S : f[i] = f[j] => i = j
  BY <1>1, <1>2 DEF Places
<1>5. \A j \in T : j - 1 \in S /\ f[j - 1] = j
  BY <1>1, <1>2 DEF Places
<1>6. IsFiniteSet(S) /\ IsFiniteSet(Places(hs, C)) /\ Cardinality(Places(hs, C)) \in Nat
  <2>1. Tail(hs) \in Seq(Handlers)
    BY <1>1
  <2> QED BY <2>1, CountType DEF Count
<1>7. Cardinality(T) = IF 1 \in Places(hs, C) THEN Cardinality(Places(hs, C)) - 1
                                              ELSE Cardinality(Places(hs, C))
  BY <1>6, FS_RemoveElement
<1>8. Cardinality(T) = Cardinality(S)
  <2> HIDE DEF S, T, f
  <2>1. f \in Injection(S, T)
    BY <1>4 DEF Injection, IsInjective
  <2>2. f \in Surjection(S, T)
    BY <1>4, <1>5 DEF Surjection
  <2>3. ExistsBijection(S, T)
    BY <2>1, <2>2 DEF ExistsBijection, Bijection
  <2> QED BY <1>6, <2>3, FS_Bijection
<1> QED BY <1>2, <1>3, <1>6, <1>7, <1>8 DEF Count

LEMMA CountTicks ==
    ASSUME NEW hs \in Seq(Handlers), NEW n \in Nat, NEW ps,
           ps = [i \in 1 .. n |-> "process"], NEW C
    PROVE  /\ "process" \in C => Places(hs \o ps, C) = Places(hs, C) \cup (Len(hs) + 1 .. Len(hs) + n)
           /\ "process" \notin C => Places(hs \o ps, C) = Places(hs, C)
           /\ Count(hs \o ps, C) = Count(hs, C) + (IF "process" \in C THEN n ELSE 0)
<1>1. ps \in Seq(Handlers) /\ Len(ps) = n
  <2>1. ps \in [1 .. n -> Handlers]
    BY DEF Handlers
  <2> QED BY <2>1, SeqDef, LenProperties
<1>2. /\ DOMAIN hs = 1 .. Len(hs) /\ Len(hs) \in Nat
      /\ DOMAIN (hs \o ps) = 1 .. Len(hs) + n
      /\ \A i \in 1 .. Len(hs) : (hs \o ps)[i] = hs[i]
      /\ \A i \in Len(hs) + 1 .. Len(hs) + n : (hs \o ps)[i] = ps[i - Len(hs)]
  BY <1>1
<1>3. \A i \in Len(hs) + 1 .. Len(hs) + n : (hs \o ps)[i] = "process"
  BY <1>2
<1>4. "process" \in C => Places(hs \o ps, C) = Places(hs, C) \cup (Len(hs) + 1 .. Len(hs) + n)
  BY <1>2, <1>3 DEF Places
<1>5. "process" \notin C => Places(hs \o ps, C) = Places(hs, C)
  BY <1>2, <1>3 DEF Places
<1> DEFINE new == Len(hs) + 1 .. Len(hs) + n
<1>6. /\ IsFiniteSet(new) /\ Cardinality(new) = n /\ Places(hs, C) \cap new = {}
  <2>1. Len(hs) + 1 \in Int /\ Len(hs) + n \in Int
    BY <1>2
  <2>2. IsFiniteSet(new)
        /\ Cardinality(new) = IF Len(hs) + 1 > Len(hs) + n THEN 0 ELSE (Len(hs) + n) - (Len(hs) + 1) + 1
    BY <2>1, FS_Interval
  <2>3. Cardinality(new) = n
    BY <1>2, <2>2
  <2> QED BY <1>2, <2>2, <2>3 DEF Places
<1>7. Cardinality(Places(hs, C) \cup new) = Cardinality(Places(hs, C)) + n
  <2>1. IsFiniteSet(Places(hs, C)) /\ Cardinality(Places(hs, C)) \in Nat
    BY CountType DEF Count
  <2> HIDE DEF new
  <2>2. Cardinality(Places(hs, C) \cup new)
          = Cardinality(Places(hs, C)) + Cardinality(new) - Cardinality(Places(hs, C) \cap new)
    BY <1>6, <2>1, FS_Union
  <2>3. Cardinality(Places(hs, C) \cap new) = 0
    BY <1>6, FS_EmptySet
  <2> QED BY <1>6, <2>1, <2>2, <2>3
<1>8. Cardinality(Places(hs, C)) \in Nat
  BY CountType DEF Count
<1>9. Count(hs \o ps, C) = Count(hs, C) + (IF "process" \in C THEN n ELSE 0)
  <2>1. CASE "process" \in C
    BY <1>4, <1>7, <2>1 DEF Count
  <2>2. CASE "process" \notin C
    BY <1>5, <1>8, <2>2 DEF Count
  <2> QED BY <2>1, <2>2
<1> QED BY <1>4, <1>5, <1>9

\* What the handlers and the waits add up to.
LEMMA TickTypes ==
    ASSUME IInv
    PROVE  /\ handlers \in Seq(Handlers) /\ waits \in Nat
           /\ sending \in {"none", "read", "process"}
           /\ \A C : queued(C) = Count(handlers, C) /\ queued(C) \in Nat
BY CountType DEF IInv, TypeOK, queued, Count, Places

LEMMA InitTicks == Init => TickInv
<1> SUFFICES ASSUME Init PROVE TickInv
  OBVIOUS
<1>1. \A C : Places(handlers, C) = {} /\ queued(C) = 0
  BY FS_EmptySet DEF Init, Places, queued
<1> QED BY <1>1 DEF Init, TickInv, TicksOut, OneLine, Arrival, Single

\* The ticks do not hear of the clients, of the clock and of the messages.
LEMMA TicksKept ==
    ASSUME TickInv, UNCHANGED <<handlers, sending, accepting, reading, waits>>
    PROVE  TickInv'
BY DEF TickInv, TicksOut, queued, OneLine, Arrival, Single, Places

\* console_command queues its handler when it has none in the queue.
LEMMA ConsoleTicks ==
    ASSUME IInv, TickInv, console_command
    PROVE  TickInv'
<1> DEFINE h == "cancel_all"
<1>1. /\ handlers' = Append(handlers, h) /\ h \in Handlers
      /\ h \notin LineHandlers /\ h \notin {"accept"} /\ h \notin {"process"} /\ h \in {"cancel_all"}
      /\ UNCHANGED <<sending, accepting, reading, waits>> /\ queued({h}) = 0
  BY DEF console_command, Handlers, LineHandlers, ConnHandlers, Packets
<1> HIDE DEF h
<1>2. /\ handlers \in Seq(Handlers)
      /\ \A C : queued(C) = Count(handlers, C) /\ queued(C)' = Count(handlers', C)
  BY TickTypes DEF queued, Count, Places
<1>3. /\ Places(handlers', LineHandlers) = Places(handlers, LineHandlers)
      /\ Places(handlers', {"accept"}) = Places(handlers, {"accept"})
      /\ Places(handlers', {"process"}) = Places(handlers, {"process"})
  BY <1>1, <1>2, CountPush
<1>4. queued({"cancel_all"})' <= 1
  <2>1. Count(handlers', {"cancel_all"}) = Count(handlers, {"cancel_all"}) + 1
    BY <1>1, <1>2, CountPush
  <2> QED BY <1>1, <1>2, <2>1 DEF h
<1>5. TicksOut' = TicksOut
  BY <1>1, <1>2, <1>3 DEF TicksOut, Count
<1> QED BY <1>1, <1>3, <1>4, <1>5 DEF TickInv, OneLine, Arrival, Single, Places

\* timer_expires turns the waits into ticks; none was queued.
LEMMA ExpiryTicks ==
    ASSUME IInv, TickInv, timer_expires
    PROVE  TickInv'
<1> DEFINE ps == [i \in 1 .. waits |-> "process"]
<1>1. /\ handlers' = handlers \o ps /\ waits' = 0 /\ sending = "none"
      /\ queued({"process"}) = 0
      /\ UNCHANGED <<sending, accepting, reading>>
      /\ "process" \notin LineHandlers /\ "process" \notin {"accept"} /\ "process" \notin {"cancel_all"}
      /\ "process" \in {"process"}
  BY DEF timer_expires, idle, LineHandlers, ConnHandlers, Packets
<1>2. /\ handlers \in Seq(Handlers) /\ waits \in Nat
      /\ \A C : queued(C) = Count(handlers, C) /\ queued(C)' = Count(handlers', C)
  BY TickTypes DEF queued, Count, Places
<1>3. /\ Places(handlers', LineHandlers) = Places(handlers, LineHandlers)
      /\ Places(handlers', {"accept"}) = Places(handlers, {"accept"})
      /\ Count(handlers', {"cancel_all"}) = Count(handlers, {"cancel_all"})
      /\ Count(handlers', {"process"}) = Count(handlers, {"process"}) + waits
      /\ Places(handlers', {"process"}) = Places(handlers, {"process"})
                                            \cup (Len(handlers) + 1 .. Len(handlers) + waits)
  <2> HIDE DEF ps
  <2>1. ps = [i \in 1 .. waits |-> "process"]
    BY DEF ps
  <2>2. /\ Places(handlers', LineHandlers) = Places(handlers, LineHandlers)
        /\ Places(handlers', {"accept"}) = Places(handlers, {"accept"})
    BY <1>1, <1>2, <2>1, CountTicks
  <2>3. Count(handlers', {"cancel_all"}) = Count(handlers, {"cancel_all"})
    <3>1. Count(handlers', {"cancel_all"}) = Count(handlers, {"cancel_all"}) + 0
      BY <1>1, <1>2, <2>1, CountTicks
    <3> QED BY <1>2, <3>1, TickTypes
  <2>4. /\ Count(handlers', {"process"}) = Count(handlers, {"process"}) + waits
        /\ Places(handlers', {"process"}) = Places(handlers, {"process"})
                                              \cup (Len(handlers) + 1 .. Len(handlers) + waits)
    BY <1>1, <1>2, <2>1, CountTicks
  <2> QED BY <2>2, <2>3, <2>4
<1> HIDE DEF ps
<1>4. Places(handlers, {"process"}) = {}
  BY <1>1, <1>2, CountType
<1>5. TicksOut' = TicksOut
  BY <1>1, <1>2, <1>3, TickTypes DEF TicksOut
<1>6. waits <= 1 => Single(handlers', {"process"})
  <2>1. ASSUME waits <= 1, NEW i \in Places(handlers', {"process"}), NEW j \in Places(handlers', {"process"})
        PROVE  i = j
    <3>1. Len(handlers) \in Nat /\ i \in Len(handlers) + 1 .. Len(handlers) + waits
                                /\ j \in Len(handlers) + 1 .. Len(handlers) + waits
      BY <1>2, <1>3, <1>4, <2>1
    <3> QED BY <1>2, <2>1, <3>1
  <2> QED BY <2>1 DEF Single
<1>7. Arrival'
  <2>1. \A k \in Places(handlers', {"accept"}) : waits <= 1
    BY <1>3 DEF TickInv, Arrival
  <2> QED BY <1>1, <1>6, <2>1 DEF Arrival, Places, Single
<1> QED BY <1>1, <1>2, <1>3, <1>5, <1>7 DEF TickInv, OneLine, Single, Places

\* A handler of the line is queued when there was none; accept with at most
\* one wait.
LineQueued(h) ==
    /\ handlers' = Append(handlers, h)
    /\ sending = "none" /\ UNCHANGED <<sending, waits>>
    /\ ~accepting' /\ ~reading'
    /\ h = "accept" => waits <= 1

LEMMA LineTicks ==
    ASSUME IInv, TickInv, NEW h \in LineHandlers, LineQueued(h), Places(handlers, LineHandlers) = {}
    PROVE  TickInv'
<1>1. /\ handlers' = Append(handlers, h) /\ h \in Handlers
      /\ h \notin {"process"} /\ h \notin {"cancel_all"}
      /\ sending' = "none" /\ sending = "none" /\ waits' = waits /\ ~accepting' /\ ~reading'
      /\ h = "accept" => waits <= 1
  BY DEF LineQueued, Handlers, LineHandlers, ConnHandlers, Packets
<1>2. /\ handlers \in Seq(Handlers) /\ Len(handlers) \in Nat
      /\ \A C : queued(C) = Count(handlers, C) /\ queued(C)' = Count(handlers', C)
  BY TickTypes DEF queued, Count, Places
<1>3. /\ Places(handlers', LineHandlers) = {Len(handlers) + 1}
      /\ Places(handlers', {"process"}) = Places(handlers, {"process"})
      /\ Places(handlers', {"cancel_all"}) = Places(handlers, {"cancel_all"})
      /\ \A i \in Places(handlers, {"process"}) : i \in 1 .. Len(handlers)
  BY <1>1, <1>2, CountPush
<1>4. \A k \in Places(handlers', {"accept"}) : k = Len(handlers) + 1 /\ h = "accept"
  <2>1. "accept" \in LineHandlers
    BY DEF LineHandlers, ConnHandlers
  <2>2. Places(handlers', {"accept"}) \subseteq Places(handlers', LineHandlers)
    BY <2>1 DEF Places
  <2>3. h # "accept" => Places(handlers', {"accept"}) = Places(handlers, {"accept"})
    BY <1>1, <1>2, CountPush
  <2>4. Places(handlers, {"accept"}) \subseteq Places(handlers, LineHandlers)
    BY <2>1 DEF Places
  <2> QED BY <1>3, <2>2, <2>3, <2>4
<1>5. TicksOut' = TicksOut /\ queued({"cancel_all"})' = queued({"cancel_all"})
  BY <1>1, <1>2, <1>3 DEF TicksOut, Count
<1>6. OneLine'
  BY <1>1, <1>3 DEF OneLine, Single, Places
<1>7. Arrival'
  <2>1. \A k \in Places(handlers', {"accept"}), i \in Places(handlers', {"process"}) : ~(i > k)
    BY <1>2, <1>3, <1>4
  <2>2. \A k \in Places(handlers', {"accept"}) : waits' <= 1
    BY <1>1, <1>4
  <2> QED BY <1>1, <2>1, <2>2 DEF Arrival, Places
<1> QED BY <1>5, <1>6, <1>7 DEF TickInv

\* An operation on the acceptor or the socket completes.
LEMMA CompletionTicks ==
    ASSUME IInv, TickInv, accept_completes \/ accept_breaks \/ packet_arrives \/ end_of_stream
    PROVE  TickInv'
<1>1. CASE accept_completes \/ accept_breaks
  <2>1. accepting /\ ~accepting' /\ reading' = reading /\ sending = "none" /\ UNCHANGED <<sending, waits>>
    BY <1>1 DEF accept_completes, accept_breaks, idle
  <2>2. ~reading /\ waits <= 1 /\ Places(handlers, LineHandlers) = {}
    BY <2>1 DEF IInv, Apart, TickInv, OneLine, Arrival
  <2>3. \E h \in LineHandlers : handlers' = Append(handlers, h)
    BY <1>1 DEF accept_completes, accept_breaks, LineHandlers, ConnHandlers
  <2> QED BY <2>1, <2>2, <2>3, LineTicks DEF LineQueued
<1>2. CASE packet_arrives \/ end_of_stream
  <2>1. reading /\ ~reading' /\ accepting' = accepting /\ sending = "none" /\ UNCHANGED <<sending, waits>>
    BY <1>2 DEF packet_arrives, end_of_stream, idle
  <2>2. ~accepting /\ Places(handlers, LineHandlers) = {}
    BY <2>1 DEF IInv, Apart, TickInv, OneLine
  <2>3. \E h \in LineHandlers : h # "accept" /\ handlers' = Append(handlers, h)
    BY <1>2 DEF packet_arrives, end_of_stream, LineHandlers, ConnHandlers, Packets
  <2> QED BY <2>1, <2>2, <2>3, LineTicks DEF LineQueued
<1> QED BY <1>1, <1>2

\* The queue without the handler that runs: everything moves one place up.
\* A tick that runs has no tick behind accept; when accept runs, it is the
\* first, and every tick is behind it.
LEMMA RunTicks ==
    ASSUME IInv, TickInv, NEW h, runs(h)
    PROVE  /\ sending = "none"
           /\ \A C : queued(C)' = queued(C) - (IF h \in C THEN 1 ELSE 0)
           /\ OneLine /\ Single(handlers', LineHandlers)
           /\ Places(handlers, LineHandlers) = {} => Places(handlers', LineHandlers) = {}
           /\ h \in LineHandlers => Places(handlers', LineHandlers) = {} /\ Places(handlers', {"accept"}) = {}
           /\ \A k \in Places(handlers', {"accept"}) :
                /\ waits <= 1
                /\ \A i \in Places(handlers', {"process"}) :
                     i > k => waits = 0 /\ h # "process" /\ Single(handlers', {"process"})
           /\ h = "accept" => waits + queued({"process"}) <= 1
<1>1. /\ handlers \in Seq(Handlers) /\ handlers # <<>> /\ Head(handlers) = h
      /\ handlers' = Tail(handlers) /\ sending = "none" /\ Len(handlers) \in Nat
  BY DEF runs, IInv, TypeOK, idle
<1>2. \A C : /\ queued(C) = Count(handlers, C) /\ queued(C) \in Nat
             /\ queued(C)' = Count(Tail(handlers), C)
  BY <1>1, TickTypes DEF queued, Count, Places
<1>3. \A C : /\ Places(handlers', C) = {i \in 1 .. Len(handlers) - 1 : i + 1 \in Places(handlers, C)}
             /\ 1 \in Places(handlers, C) <=> h \in C
             /\ Count(Tail(handlers), C) = Count(handlers, C) - (IF h \in C THEN 1 ELSE 0)
  BY <1>1, CountPop
<1>4. \A C : /\ Single(handlers, C) => Single(handlers', C)
             /\ Single(handlers, C) /\ h \in C => Places(handlers', C) = {}
             /\ Places(handlers, C) = {} => Places(handlers', C) = {}
  <2>1. SUFFICES ASSUME NEW C
                 PROVE  /\ Single(handlers, C) => Single(handlers', C)
                        /\ Single(handlers, C) /\ h \in C => Places(handlers', C) = {}
                        /\ Places(handlers, C) = {} => Places(handlers', C) = {}
    OBVIOUS
  <2>2. \A i \in Places(handlers', C) : i \in Int /\ i + 1 \in Places(handlers, C) /\ i + 1 # 1
    BY <1>1, <1>3
  <2>3. Single(handlers, C) => Single(handlers', C)
    <3>1. ASSUME Single(handlers, C), NEW i \in Places(handlers', C), NEW j \in Places(handlers', C)
          PROVE  i = j
      <4>1. i + 1 = j + 1
        BY <2>2, <3>1 DEF Single
      <4> QED BY <2>2, <4>1
    <3> QED BY <3>1 DEF Single
  <2> QED BY <1>3, <2>2, <2>3 DEF Single
<1>5. OneLine /\ Arrival
  BY DEF TickInv
<1>6. h \in LineHandlers => Places(handlers', LineHandlers) = {} /\ Places(handlers', {"accept"}) = {}
  <2>1. Places(handlers', {"accept"}) \subseteq Places(handlers', LineHandlers)
    BY DEF Places, LineHandlers, ConnHandlers
  <2> QED BY <1>4, <1>5, <2>1 DEF OneLine
<1>7. ASSUME NEW k \in Places(handlers', {"accept"})
      PROVE  /\ waits <= 1
             /\ \A i \in Places(handlers', {"process"}) :
                  i > k => waits = 0 /\ h # "process" /\ Single(handlers', {"process"})
  <2>1. k \in Int /\ k + 1 \in Places(handlers, {"accept"})
    BY <1>1, <1>3
  <2>2. waits <= 1
    BY <1>5, <2>1 DEF Arrival
  <2>3. ASSUME NEW i \in Places(handlers', {"process"}), i > k
        PROVE  waits = 0 /\ h # "process" /\ Single(handlers', {"process"})
    <3>1. i \in Int /\ i + 1 \in Places(handlers, {"process"}) /\ i + 1 > k + 1 /\ i + 1 # 1
      BY <1>1, <1>3, <2>1, <2>3
    <3>2. waits = 0 /\ Single(handlers, {"process"})
      BY <1>5, <2>1, <3>1 DEF Arrival
    <3>3. h # "process"
      <4>1. 1 \notin Places(handlers, {"process"})
        BY <3>1, <3>2 DEF Single
      <4> QED BY <1>3, <4>1
    <3> QED BY <1>4, <3>2, <3>3
  <2> QED BY <2>2, <2>3
<1>8. h = "accept" => waits + queued({"process"}) <= 1
  <2>1. SUFFICES ASSUME h = "accept" PROVE waits + queued({"process"}) <= 1
    OBVIOUS
  <2>2. 1 \in Places(handlers, {"accept"}) /\ 1 \notin Places(handlers, {"process"}) /\ waits \in Nat
    BY <1>3, <2>1, TickTypes
  <2>3. CASE Places(handlers, {"process"}) = {}
    <3>1. queued({"process"}) = 0 /\ waits <= 1
      BY <1>1, <1>2, <1>5, <2>2, <2>3, CountType DEF Arrival
    <3> QED BY <2>2, <3>1
  <2>4. CASE Places(handlers, {"process"}) # {}
    <3>1. PICK i \in Places(handlers, {"process"}) : TRUE
      BY <2>4
    <3>2. i \in Int /\ i > 1
      <4>1. i \in 1 .. Len(handlers)
        BY <1>1, <3>1 DEF Places
      <4> QED BY <2>2, <3>1, <4>1
    <3>3. waits = 0 /\ Single(handlers, {"process"})
      BY <1>5, <2>2, <3>1, <3>2 DEF Arrival
    <3>4. queued({"process"}) <= 1
      BY <1>1, <1>2, <3>3, CountType
    <3> QED BY <1>2, <3>3, <3>4
  <2> QED BY <2>3, <2>4
<1> QED BY <1>1, <1>2, <1>3, <1>4, <1>5, <1>6, <1>7, <1>8 DEF OneLine

\* The handlers of the line, when they run.
LEMMA LineRunTicks ==
    ASSUME IInv, TickInv, accept \/ accept_fails \/ read \/ read_fails \/ reconnect
    PROVE  TickInv'
<1>1. PICK h \in LineHandlers : /\ runs(h)
                                /\ h = "accept" <=> accept
                                /\ (accepting' = accepting) \/ waits' = 0
                                /\ reconnect => waits' = 0
                                /\ ~accept /\ ~reconnect => waits' = waits
                                /\ accept => waits' = waits + 1 /\ UNCHANGED accepting
                                /\ sending' = sending \/ sending' = "read"
  BY DEF accept, accept_fails, read, read_fails, reconnect, LineHandlers, ConnHandlers, Packets, runs
<1>2. /\ sending = "none"
      /\ \A C : queued(C)' = queued(C) - (IF h \in C THEN 1 ELSE 0)
      /\ Single(handlers', LineHandlers)
      /\ Places(handlers', LineHandlers) = {} /\ Places(handlers', {"accept"}) = {}
      /\ h = "accept" => waits + queued({"process"}) <= 1
  BY <1>1, RunTicks
<1>3. h \notin {"process"} /\ h \notin {"cancel_all"}
  BY DEF LineHandlers, ConnHandlers, Packets
<1>4. queued({"process"})' = queued({"process"}) /\ queued({"cancel_all"})' = queued({"cancel_all"})
  BY <1>2, <1>3, TickTypes
<1>5. OneLine'
  BY <1>2 DEF OneLine
<1>6. Arrival'
  <2>1. accepting' => waits' <= 1
    <3>1. CASE accept
      <4>1. ~accepting
        BY <1>1, <3>1, ConnRuns DEF accept, ConnHandlers
      <4> QED BY <1>1, <3>1, <4>1
    <3>2. CASE ~accept
      <4>1. CASE reconnect
        BY <1>1, <4>1
      <4>2. CASE ~reconnect
        <5>1. waits' = waits /\ (accepting' = accepting \/ waits' = 0)
          BY <1>1, <3>2, <4>2
        <5>2. accepting => waits <= 1
          BY DEF TickInv, Arrival
        <5>3. accepting' = accepting => (accepting' => accepting)
          OBVIOUS
        <5>4. waits' = 0 => waits' <= 1
          OBVIOUS
        <5> QED BY <5>1, <5>2, <5>3, <5>4
      <4> QED BY <4>1, <4>2
    <3> QED BY <3>1, <3>2
  <2> QED BY <1>2, <2>1 DEF Arrival
<1>7. TicksOut' <= 2
  <2>1. TicksOut = waits + queued({"process"}) /\ TicksOut' = waits' + queued({"process"})
    BY <1>1, <1>2, <1>4, TickTypes DEF TicksOut
  <2>2. waits \in Nat /\ queued({"process"}) \in Nat /\ waits + queued({"process"}) <= 2
    BY <2>1, TickTypes DEF TickInv
  <2> QED BY <1>1, <1>2, <2>1, <2>2
<1> QED BY <1>4, <1>5, <1>6, <1>7 DEF TickInv

\* cancel_all, and process: its tick is in send from now on.
LEMMA OtherRunTicks ==
    ASSUME IInv, TickInv, cancel_all \/ process
    PROVE  TickInv'
<1>1. PICK h \in {"cancel_all", "process"} :
        /\ runs(h) /\ UNCHANGED <<accepting, reading, waits>>
        /\ sending' = IF h = "process" THEN "process" ELSE sending
  BY DEF cancel_all, process
<1>2. /\ sending = "none"
      /\ \A C : queued(C)' = queued(C) - (IF h \in C THEN 1 ELSE 0)
      /\ OneLine /\ Single(handlers', LineHandlers)
      /\ Places(handlers, LineHandlers) = {} => Places(handlers', LineHandlers) = {}
      /\ \A k \in Places(handlers', {"accept"}) :
           /\ waits <= 1
           /\ \A i \in Places(handlers', {"process"}) :
                i > k => waits = 0 /\ h # "process" /\ Single(handlers', {"process"})
  BY <1>1, RunTicks
<1>3. OneLine'
  BY <1>1, <1>2 DEF OneLine
<1>4. Arrival'
  BY <1>1, <1>2 DEF Arrival, TickInv
<1>5. TicksOut' <= 2 /\ queued({"cancel_all"})' <= 1
  <2>1. waits \in Nat /\ queued({"process"}) \in Nat /\ queued({"cancel_all"}) \in Nat
    BY TickTypes
  <2>2. waits + queued({"process"}) <= 2 /\ queued({"cancel_all"}) <= 1
    BY <1>2, <2>1 DEF TickInv, TicksOut
  <2>3. /\ queued({"process"})' = queued({"process"}) - (IF h = "process" THEN 1 ELSE 0)
        /\ queued({"cancel_all"})' = queued({"cancel_all"}) - (IF h = "cancel_all" THEN 1 ELSE 0)
    BY <1>2
  <2>4. TicksOut' = waits + queued({"process"})' + (IF h = "process" THEN 1 ELSE 0)
    BY <1>1, <1>2 DEF TicksOut
  <2> QED BY <2>1, <2>2, <2>3, <2>4
<1> QED BY <1>3, <1>4, <1>5 DEF TickInv

\* send has returned.  process starts its wait anew, so that its tick becomes
\* the one wait there is.
LEMMA ReturnTicks ==
    ASSUME IInv, TickInv, read_ends \/ process_ends
    PROVE  TickInv'
<1>1. /\ UNCHANGED <<handlers, accepting>> /\ sending # "none" /\ sending' = "none"
      /\ reading' = reading \/ sending = "read"
      /\ \/ sending = "read" /\ waits' = waits
         \/ sending = "process" /\ waits' = 1
  BY DEF read_ends, process_ends
<1>2. \A C : Places(handlers', C) = Places(handlers, C) /\ queued(C)' = queued(C)
  BY <1>1 DEF queued, Places
<1>3. OneLine'
  BY <1>1, <1>2 DEF TickInv, OneLine, Single
<1>4. Arrival'
  BY <1>1, <1>2 DEF TickInv, Arrival, Single
<1>5. TicksOut' <= 2
  <2>1. waits \in Nat /\ queued({"process"}) \in Nat
    BY TickTypes
  <2>2. TicksOut' = waits' + queued({"process"})
    BY <1>1, <1>2, <2>1 DEF TicksOut
  <2>3. waits + queued({"process"}) + (IF sending = "process" THEN 1 ELSE 0) <= 2
    BY DEF TickInv, TicksOut
  <2> QED BY <1>1, <2>1, <2>2, <2>3
<1> QED BY <1>2, <1>3, <1>4, <1>5 DEF TickInv

LEMMA NextTicks == IInv /\ TickInv /\ [Next]_vars => TickInv'
<1> SUFFICES ASSUME IInv, TickInv, [Next]_vars PROVE TickInv'
  OBVIOUS
<1>1. CASE client_connects \/ client_reads \/ client_leaves \/ Clock \/ send \/ UNCHANGED vars
  <2>1. UNCHANGED <<handlers, sending, accepting, reading, waits>>
    BY <1>1 DEF client_connects, client_reads, client_leaves, Clock, send, vars
  <2> QED BY <2>1, TicksKept
<1>2. CASE console_command
  BY <1>2, ConsoleTicks
<1>3. CASE timer_expires
  BY <1>3, ExpiryTicks
<1>4. CASE accept_completes \/ accept_breaks \/ packet_arrives \/ end_of_stream
  BY <1>4, CompletionTicks
<1>5. CASE accept \/ accept_fails \/ read \/ read_fails \/ reconnect
  BY <1>5, LineRunTicks
<1>6. CASE cancel_all \/ process
  BY <1>6, OtherRunTicks
<1>7. CASE read_ends \/ process_ends
  BY <1>7, ReturnTicks
<1> QED BY <1>1, <1>2, <1>3, <1>4, <1>5, <1>6, <1>7 DEF Next, HandlerStep

\* What is in the queue is a tick, the console's handler or one of the line.
LEMMA QueueBounded ==
    ASSUME IInv, TickInv
    PROVE  Len(handlers) <= 4
<1> DEFINE P == Places(handlers, {"process"})
           C == Places(handlers, {"cancel_all"})
           L == Places(handlers, LineHandlers)
<1>1. /\ handlers \in Seq(Handlers) /\ Len(handlers) \in Nat /\ waits \in Nat
      /\ \A S : queued(S) = Cardinality(Places(handlers, S))
  BY TickTypes DEF Count
<1>2. /\ IsFiniteSet(P) /\ IsFiniteSet(C) /\ IsFiniteSet(L)
      /\ Cardinality(P) \in Nat /\ Cardinality(C) \in Nat /\ Cardinality(L) \in Nat
      /\ Cardinality(L) <= 1
  BY <1>1, CountType DEF Count, TickInv, OneLine
<1>3. Cardinality(P) <= 2 /\ Cardinality(C) <= 1
  <2>1. queued({"process"}) = Cardinality(P) /\ queued({"cancel_all"}) = Cardinality(C)
    BY <1>1
  <2> HIDE DEF P, C
  <2> QED BY <1>1, <1>2, <2>1 DEF TickInv, TicksOut
<1>4. 1 .. Len(handlers) = P \cup C \cup L
  <2>1. \A i \in 1 .. Len(handlers) : handlers[i] \in {"process", "cancel_all"} \cup LineHandlers
    <3>1. \A i \in 1 .. Len(handlers) : handlers[i] \in Handlers
      BY <1>1
    <3> QED BY <3>1 DEF Handlers, LineHandlers
  <2> QED BY <1>1, <2>1 DEF Places
<1> HIDE DEF P, C, L
<1>5. /\ IsFiniteSet(P \cup C) /\ Cardinality(P \cup C) \in Nat
      /\ Cardinality(P \cup C) <= Cardinality(P) + Cardinality(C)
  <2>1. IsFiniteSet(P \cup C) /\ Cardinality(P \cup C) = Cardinality(P) + Cardinality(C) - Cardinality(P \cap C)
    BY <1>2, FS_Union
  <2>2. Cardinality(P \cap C) \in Nat /\ Cardinality(P \cup C) \in Nat
    BY <1>2, <2>1, FS_Intersection, FS_CardinalityType
  <2> QED BY <1>2, <2>1, <2>2
<1>6. /\ Cardinality((P \cup C) \cup L) <= Cardinality(P \cup C) + Cardinality(L)
  <2>1. /\ IsFiniteSet((P \cup C) \cup L)
        /\ Cardinality((P \cup C) \cup L)
             = Cardinality(P \cup C) + Cardinality(L) - Cardinality((P \cup C) \cap L)
    BY <1>2, <1>5, FS_Union
  <2>2. Cardinality((P \cup C) \cap L) \in Nat /\ Cardinality((P \cup C) \cup L) \in Nat
    BY <1>2, <1>5, <2>1, FS_Intersection, FS_CardinalityType
  <2> QED BY <1>2, <1>5, <2>1, <2>2
<1>7. Cardinality((P \cup C) \cup L) = Len(handlers)
  <2>1. Cardinality(1 .. Len(handlers)) = IF 1 > Len(handlers) THEN 0 ELSE Len(handlers) - 1 + 1
    BY <1>1, FS_Interval
  <2>2. Cardinality(1 .. Len(handlers)) = Len(handlers)
    BY <1>1, <2>1
  <2> QED BY <1>4, <2>2
<1>8. Len(handlers) <= Cardinality(P) + Cardinality(C) + Cardinality(L)
  BY <1>1, <1>2, <1>5, <1>6, <1>7
<1> QED BY <1>1, <1>2, <1>3, <1>8

\* However many clients connect, break off and come again, and whatever the
\* console does: accept, process and reconnect of tcp_server.cpp never have
\* more than two ticks out, and the queue holds at most four handlers of this
\* server.
THEOREM TicksBounded == Spec => []TicksDoNotPileUp
<1>1. Init => IInv /\ TickInv
  BY InitInv, InitTicks
<1>2. IInv /\ TickInv /\ [Next]_vars => (IInv /\ TickInv)'
  BY NextInv, NextTicks
<1>3. IInv /\ TickInv => TicksDoNotPileUp
  BY QueueBounded DEF TickInv, TicksDoNotPileUp
<1> QED BY <1>1, <1>2, <1>3, PTL DEF Spec
=============================================================================
