---------------------------- MODULE AdminConsole ----------------------------
(***************************************************************************)
(* The administrator's console (AdminServer, AdminSession): text commands, *)
(* one per line, any number of connections at a time.                      *)
(*                                                                         *)
(* An AdminSession lives as long as a handler holds a pointer to it: that  *)
(* of its accept and then that of its read.  The handler of a write is     *)
(* bound to the bare this.  A reply is given to async_write, which writes  *)
(* what the socket takes and goes on when it takes more; a reply does not  *)
(* wait for the one before it.  The io_service, external, queues the       *)
(* handler of what has completed and runs the handlers in order.           *)
(*                                                                         *)
(* A line is an element of the stream; a line that is never finished is    *)
(* not one.  A reply is Pieces pieces, the most Window of which the socket *)
(* holds while the client does not read.                                   *)
(***************************************************************************)
EXTENDS Integers, Sequences, FiniteSets, SequencesExt

CONSTANTS
    Connections,  \* connections clients make, each once
    Scripts,      \* bound: the sequences of lines each connection may send
    Leaves,       \* how each client may leave: by closing its end or by reset
    Pieces,       \* pieces of a reply
    Window,       \* pieces a socket holds until the client reads them
    Failures      \* {"accept"} if an accept may fail, or {}

LineKinds == {"login", "help", "quit", "registered", "unregistered", "short"}

ASSUME ConsoleAssumption ==
    /\ Scripts \in [Connections -> SUBSET Seq(LineKinds)]
    /\ Leaves \in [Connections -> SUBSET {"closed", "reset"}]
    /\ Pieces \in Nat \ {0} /\ Window \in Nat \ {0}
    /\ Failures \subseteq {"accept"}

VARIABLES
    running,    \* the program has not ended
    handlers,   \* queue of the io_service
    accepting,  \* an async_accept is outstanding
    alive,      \* connections whose AdminSession exists and is connected
    state,      \* _state of each session
    reading,    \* sessions with an async_read_until outstanding
    input,      \* lines in _input
    writes,     \* writes waiting until the socket takes something
    peer,       \* the client: away, open, closed (it sends no more) or reset
    accepted,   \* connections the acceptor has handed out
    wire,       \* lines on their way to the program
    unread,     \* pieces the client has not read
    \* ghosts
    asked, executed,  \* lines sent and lines handled
    received,   \* pieces that were written to the client
    hasty,      \* clients that sent or left before they had their replies
    stale       \* sessions that were touched by a handler after their end

session_vars == <<alive, state, reading, input, writes>>
client_vars == <<peer, accepted, wire, unread>>
ghosts == <<asked, executed, received, hasty, stale>>
vars == <<running, handlers, accepting, session_vars, client_vars, ghosts>>

Texts == {"ok", "help", "response", "invalid input", "unknown command", "please authenticate"}

Init ==
    /\ running = TRUE /\ handlers = <<>> /\ accepting = TRUE
    /\ alive = {} /\ reading = {}
    /\ state = [c \in Connections |-> "Initial"]
    /\ input = [c \in Connections |-> <<>>] /\ writes = [c \in Connections |-> <<>>]
    /\ peer = [c \in Connections |-> "away"] /\ accepted = {}
    /\ wire = [c \in Connections |-> <<>>] /\ unread = [c \in Connections |-> 0]
    /\ asked = [c \in Connections |-> <<>>] /\ executed = [c \in Connections |-> <<>>]
    /\ received = [c \in Connections |-> <<>>]
    /\ hasty = {} /\ stale = {}

-----------------------------------------------------------------------------
(***************************************************************************)
(* What a client expects to read: the help when it has connected, and then *)
(* one reply to each line but quit.                                        *)
(***************************************************************************)
reply(line) ==
    CASE line = "login" -> "ok"
      [] line = "help" -> "help"
      [] line = "registered" -> "response"
      [] line = "short" -> "invalid input"
      [] line = "unregistered" -> "unknown command"

parts(text) == [i \in 1 .. Pieces |-> <<text, i>>]

\* The lines that are answered, and the pieces there are to read when all are.
answerable(lines) == {i \in DOMAIN lines : lines[i] # "quit"}
due(lines) == Pieces * (Cardinality(answerable(lines)) + 1)

\* Nothing is handled after a quit: the n-th reply is that to the n-th line.
nth_text(lines, n) == IF n = 0 THEN "help" ELSE reply(lines[n])
replies(lines) ==
    [k \in 1 .. due(lines) |->
        <<nth_text(lines, (k - 1) \div Pieces), ((k - 1) % Pieces) + 1>>]

Answered(c) == Len(received[c]) = due(asked[c])

-----------------------------------------------------------------------------
(***************************************************************************)
(* Clients.                                                                *)
(***************************************************************************)
client_connects(c) ==
    /\ peer[c] = "away"
    /\ peer' = [peer EXCEPT ![c] = "open"]
    /\ UNCHANGED <<handlers, accepting, session_vars, accepted, wire, unread, ghosts>>

\* A client is hasty when it does not wait for its replies.
client_sends(c) ==
    /\ peer[c] = "open"
    /\ \E script \in Scripts[c] :
         /\ IsStrictPrefix(asked[c], script)
         /\ LET line == script[Len(asked[c]) + 1]
            IN  /\ wire' = [wire EXCEPT ![c] = Append(@, line)]
                /\ asked' = [asked EXCEPT ![c] = Append(@, line)]
    /\ hasty' = IF Answered(c) THEN hasty ELSE hasty \cup {c}
    /\ UNCHANGED <<handlers, accepting, session_vars, peer, accepted, unread,
                   executed, received, stale>>

client_reads(c) ==
    /\ unread[c] > 0 /\ peer[c] # "reset"
    /\ unread' = [unread EXCEPT ![c] = @ - 1]
    /\ UNCHANGED <<handlers, accepting, session_vars, peer, accepted, wire, ghosts>>

\* A client closes its end for sending, or aborts the connection.
client_leaves(c) ==
    /\ \E how \in Leaves[c] :
         /\ peer[c] \in {"open", "closed"} /\ peer[c] # how
         /\ peer' = [peer EXCEPT ![c] = how]
    /\ hasty' = IF Answered(c) THEN hasty ELSE hasty \cup {c}
    /\ UNCHANGED <<handlers, accepting, session_vars, accepted, wire, unread, asked,
                   executed, received, stale>>

-----------------------------------------------------------------------------
(***************************************************************************)
(* The operating system: operations complete and queue their handlers.     *)
(***************************************************************************)
handler(kind, c) == [kind |-> kind, conn |-> c]
write_handler(op, c) == [kind |-> "write", conn |-> c, op |-> op]

accept_completes ==
    /\ accepting
    /\ accepting' = FALSE
    /\ \E c \in Connections \ accepted :
         /\ peer[c] # "away"
         /\ accepted' = accepted \cup {c}
         /\ handlers' = Append(handlers, handler("accept", c))
    /\ UNCHANGED <<session_vars, peer, wire, unread, ghosts>>

accept_fails ==
    /\ "accept" \in Failures
    /\ accepting
    /\ accepting' = FALSE
    /\ handlers' = Append(handlers, [kind |-> "accept error"])
    /\ UNCHANGED <<session_vars, client_vars, ghosts>>

\* async_read_until completes when a line has arrived, and brings whatever
\* has arrived with it.  On an aborted connection lines may be lost.
read_completes(c) ==
    /\ c \in reading
    /\ reading' = reading \ {c}
    /\ \/ /\ \E n \in 1 .. Len(wire[c]) :
               /\ input' = [input EXCEPT ![c] = @ \o SubSeq(wire[c], 1, n)]
               /\ wire' = [wire EXCEPT ![c] = SubSeq(@, n + 1, Len(@))]
          /\ handlers' = Append(handlers, handler("read", c))
       \/ /\ peer[c] = "reset" \/ (peer[c] = "closed" /\ wire[c] = <<>>)
          /\ handlers' = Append(handlers, handler("read error", c))
          /\ UNCHANGED <<input, wire>>
    /\ UNCHANGED <<accepting, alive, state, writes, peer, accepted, unread, ghosts>>

\* The socket takes the next pieces of op, as many as it has room for.
least(m, n) == IF m <= n THEN m ELSE n
room(c) == Window - unread[c]
taken(op, c) == least(op.left, room(c))
after_write(op, c) == [op EXCEPT !.left = @ - taken(op, c)]
transmit(op, c) ==
    /\ unread' = [unread EXCEPT ![c] = @ + taken(op, c)]
    /\ received' = [received EXCEPT ![c] =
            @ \o SubSeq(parts(op.text), Pieces - op.left + 1,
                        Pieces - op.left + taken(op, c))]

\* A write that had to wait completes.
write_completes(c) ==
    /\ writes[c] # <<>>
    /\ writes' = [writes EXCEPT ![c] = Tail(@)]
    /\ \/ /\ peer[c] = "reset"
          /\ handlers' = Append(handlers, handler("write error", c))
          /\ UNCHANGED <<unread, received>>
       \/ /\ peer[c] # "reset" /\ room(c) > 0
          /\ transmit(Head(writes[c]), c)
          /\ handlers' = Append(handlers, write_handler(after_write(Head(writes[c]), c), c))
    /\ UNCHANGED <<accepting, alive, state, reading, input, peer, accepted, wire,
                   asked, executed, hasty, stale>>

-----------------------------------------------------------------------------
(***************************************************************************)
(* The handlers.                                                           *)
(***************************************************************************)
runs(h) == handlers # <<>> /\ Head(handlers) = h

\* async_write: a write that cannot be made at once waits behind the others.
\* The handlers queued are the one of the write, if it is through, and more.
async_write(op, c, more) ==
    \/ /\ peer[c] = "reset"
       /\ handlers' = Tail(handlers) \o <<handler("write error", c)>> \o more
       /\ UNCHANGED <<writes, unread, received>>
    \/ /\ peer[c] # "reset" /\ writes[c] = <<>> /\ room(c) > 0
       /\ transmit(op, c)
       /\ handlers' = Tail(handlers) \o <<write_handler(after_write(op, c), c)>> \o more
       /\ UNCHANGED writes
    \/ /\ peer[c] # "reset" /\ ~ (writes[c] = <<>> /\ room(c) > 0)
       /\ writes' = [writes EXCEPT ![c] = Append(@, op)]
       /\ handlers' = Tail(handlers) \o more
       /\ UNCHANGED <<unread, received>>

send(text, c, more) == async_write([text |-> text, left |-> Pieces], c, more)

\* A session that is not Running asks for a login and answers nothing else.
guarded(st, text) == IF st = "Running" THEN text ELSE "please authenticate"

BugGreetsBeforeRunning(c) ==
    /\ runs(handler("accept", c))
    /\ peer[c] # "reset"
    /\ alive' = alive \cup {c}
    /\ state' = [state EXCEPT ![c] = "Running"]
    /\ send(guarded(state[c], "help"), c, <<>>)
    /\ reading' = reading \cup {c}
    /\ accepting' = TRUE
    /\ UNCHANGED <<running, input, peer, accepted, wire, asked, executed, hasty, stale>>

BugReadHoldsNoPointer(c) ==
    /\ runs(handler("accept", c))
    /\ peer[c] # "reset"
    /\ state' = [state EXCEPT ![c] = "Running"]
    /\ send(guarded(state'[c], "help"), c, <<>>)
    /\ reading' = reading \cup {c}
    /\ accepting' = TRUE
    /\ UNCHANGED <<running, alive, input, peer, accepted, wire, asked, executed, hasty, stale>>

\* start: the help is the greeting.  The next accept is started after it.
handle_accept(c) ==
    /\ runs(handler("accept", c))
    /\ peer[c] # "reset"
    /\ alive' = alive \cup {c}
    /\ state' = [state EXCEPT ![c] = "Running"]
    /\ send(guarded(state'[c], "help"), c, <<>>)
    /\ reading' = reading \cup {c}
    /\ accepting' = TRUE
    /\ UNCHANGED <<running, input, peer, accepted, wire, asked, executed, hasty, stale>>

\* start does not look at the error of the accept: remote_endpoint throws when
\* there is no peer, also when the peer has gone since.  Nothing catches it.
start_throws ==
    /\ \/ runs([kind |-> "accept error"])
       \/ \E c \in Connections : peer[c] = "reset" /\ runs(handler("accept", c))
    /\ running' = FALSE
    /\ handlers' = <<>>
    /\ UNCHANGED <<accepting, session_vars, client_vars, ghosts>>

BugInputDiscarded(lines) == <<>>

\* What getline leaves in _input, which lives as long as the session.
left_over(lines) == Tail(lines)

BugArmsTwice(c, rest) == reading' = reading \cup {c}
BugArmsOnlyWithInput(c, rest) == UNCHANGED reading

\* arm_read: a line that is already in _input needs no read.
arm_read(c, rest) ==
    IF rest = <<>> THEN reading' = reading \cup {c} ELSE UNCHANGED reading
next_read(c, rest) == IF rest = <<>> THEN <<>> ELSE <<handler("read", c)>>

handle_line(c) ==
    LET line == Head(input[c])
        rest == left_over(input[c])
    IN  /\ runs(handler("read", c))
        /\ line # "quit"
        /\ input' = [input EXCEPT ![c] = rest]
        /\ executed' = [executed EXCEPT ![c] = Append(@, line)]
        /\ state' = IF line = "login" THEN [state EXCEPT ![c] = "Running"] ELSE state
        /\ send(IF line = "login" THEN reply(line) ELSE guarded(state[c], reply(line)),
                c, next_read(c, rest))
        /\ arm_read(c, rest)
        /\ UNCHANGED <<running, accepting, alive, peer, accepted, wire, asked, hasty, stale>>

\* The socket is closed, which ends the writes that wait, and the session goes
\* with the handler, which held the last pointer to it.
close(c) ==
    /\ handlers' = Tail(handlers) \o [i \in DOMAIN writes[c] |-> handler("write error", c)]
    /\ writes' = [writes EXCEPT ![c] = <<>>]
    /\ alive' = alive \ {c}
    /\ UNCHANGED <<running, accepting, state, reading, client_vars, asked, received, hasty, stale>>

BugQuitReadsOn(c) ==
    /\ runs(handler("read", c))
    /\ Head(input[c]) = "quit"
    /\ input' = [input EXCEPT ![c] = <<>>]
    /\ executed' = [executed EXCEPT ![c] = Append(@, "quit")]
    /\ handlers' = Tail(handlers) \o [i \in DOMAIN writes[c] |-> handler("write error", c)]
    /\ writes' = [writes EXCEPT ![c] = <<>>]
    /\ alive' = alive \ {c}
    /\ reading' = reading \cup {c}
    /\ UNCHANGED <<running, accepting, state, client_vars, asked, received, hasty, stale>>

handle_quit(c) ==
    /\ runs(handler("read", c))
    /\ Head(input[c]) = "quit"
    /\ input' = [input EXCEPT ![c] = <<>>]
    /\ executed' = [executed EXCEPT ![c] = Append(@, "quit")]
    /\ close(c)

handle_read_error(c) ==
    /\ runs(handler("read error", c))
    /\ close(c)
    /\ UNCHANGED <<input, executed>>

\* A step of async_write, which goes on with its socket when something is left,
\* or handle_write, which looks at its session only when there is an error.
touches(c) == stale' = IF c \in alive THEN stale ELSE stale \cup {c}

write_goes_on(c) ==
    /\ handlers # <<>>
    /\ \E op \in {Head(handlers)} :
         /\ op.kind = "write" /\ op.conn = c
         /\ op.op.left > 0
         /\ touches(c)
         /\ IF c \in alive
            THEN async_write(op.op, c, <<>>)
            ELSE handlers' = Tail(handlers) /\ UNCHANGED <<writes, unread, received>>
    /\ UNCHANGED <<running, accepting, alive, state, reading, input, peer, accepted,
                   wire, asked, executed, hasty>>

handle_write(c) ==
    /\ handlers # <<>>
    /\ \/ /\ runs(handler("write error", c))
          /\ touches(c)
       \/ /\ Head(handlers).kind = "write" /\ Head(handlers).conn = c
          /\ Head(handlers).op.left = 0
          /\ UNCHANGED stale
    /\ handlers' = Tail(handlers)
    /\ UNCHANGED <<running, accepting, session_vars, client_vars, asked, executed,
                   received, hasty>>

HandlerStep ==
    \/ \E c \in Connections :
         \/ handle_accept(c) \/ handle_line(c) \/ handle_quit(c)
         \/ handle_read_error(c) \/ write_goes_on(c) \/ handle_write(c)
    \/ start_throws

\* The clients and the operating system: nothing of it matters any more when
\* the program has ended.
Outside(action) == running /\ action /\ UNCHANGED running

Next ==
    \/ \E c \in Connections :
         Outside(client_connects(c) \/ client_sends(c) \/ client_reads(c) \/ client_leaves(c))
    \/ Outside(accept_completes \/ accept_fails)
    \/ \E c \in Connections : Outside(read_completes(c) \/ write_completes(c))
    \/ running /\ HandlerStep

\* The thread runs what is queued, and an operation that can complete does.
\* Clients need not come, send, read or leave, and no accept has to fail.
Fairness ==
    /\ WF_vars(running /\ HandlerStep)
    /\ WF_vars(Outside(accept_completes))
    /\ \A c \in Connections :
         WF_vars(Outside(read_completes(c))) /\ WF_vars(Outside(write_completes(c)))

Spec == Init /\ [][Next]_vars /\ Fairness

-----------------------------------------------------------------------------
(***************************************************************************)
(* Properties.                                                             *)
(***************************************************************************)
ReadOf(c) == {handler("read", c), handler("read error", c)}
Held(c) == {i \in DOMAIN handlers : handlers[i] \in ReadOf(c)}

Writes(lefts) == [text : Texts, left : lefts]
Handlers ==
    [kind : {"accept", "read", "read error", "write error"}, conn : Connections]
    \cup [kind : {"write"}, conn : Connections, op : Writes(0 .. Pieces)]
    \cup {[kind |-> "accept error"]}

\* Type correctness.
TypeOK ==
    /\ running \in BOOLEAN /\ accepting \in BOOLEAN
    /\ handlers \in Seq(Handlers)
    /\ alive \subseteq accepted /\ accepted \subseteq Connections
    /\ reading \subseteq alive
    /\ state \in [Connections -> {"Initial", "PendingAuth", "Running"}]
    /\ peer \in [Connections -> {"away", "open", "closed", "reset"}]
    /\ input \in [Connections -> Seq(LineKinds)] /\ wire \in [Connections -> Seq(LineKinds)]
    /\ asked \in [Connections -> Seq(LineKinds)] /\ executed \in [Connections -> Seq(LineKinds)]
    /\ unread \in [Connections -> 0 .. Window]
    /\ received \in [Connections -> Seq(Texts \X (1 .. Pieces))]
    /\ writes \in [Connections -> Seq(Writes(1 .. Pieces))]
    /\ hasty \subseteq Connections /\ stale \subseteq Connections

\* A session that exists has one read outstanding or one handler of a read in
\* the queue, which keeps it alive, and never two, which would race for its
\* input; one that has ended has none.
OneReader ==
    running => \A c \in Connections :
        Cardinality(Held(c)) + (IF c \in reading THEN 1 ELSE 0) = (IF c \in alive THEN 1 ELSE 0)

\* Lines are handled in the order they were sent, each once and none left out,
\* however they are cut into reads and however long replies take.  Only the
\* lines after a quit and those on an aborted connection are lost.
LinesInOrder ==
    \A c \in Connections :
        IF c \in alive THEN executed[c] \o input[c] \o wire[c] = asked[c]
        ELSE IsPrefix(executed[c], asked[c])

\* A client that waits for each reply before it goes on reads the greeting and
\* one whole reply per line, in order.  One that does not may find the pieces
\* of two replies mixed.
RepliesWhole ==
    \A c \in Connections \ hasty : IsPrefix(received[c], replies(executed[c]))

\* The handler of a write reaches its session after it has ended only when the
\* client did not wait for that reply before it quit or left.
StaleOnlyByHaste == stale \subseteq hasty

\* Every line of a client that does not abort its connection is handled, up to
\* a quit, even when the client, or another one, does not read its replies and
\* however many clients have been let in before.
LinesServed ==
    \A c \in Connections :
        asked[c] # <<>> ~> \/ executed[c] = asked[c]
                           \/ "quit" \in Range(executed[c])
                           \/ peer[c] = "reset"
                           \/ ~running
=============================================================================
