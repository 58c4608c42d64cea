------------------------- MODULE AdminConsoleProofs -------------------------
(***************************************************************************)
(* Safety of the administrator's console, for any number of connections,   *)
(* any lines and replies of any length: a session has one read at a time,  *)
(* its lines are handled in the order they were sent, and a client that    *)
(* waits for its replies reads them whole and leaves no handler behind.    *)
(***************************************************************************)
EXTENDS AdminConsole, SequenceTheorems, FiniteSetTheorems, TLAPS

\* Handlers of the set S in a queue: none, or at most one.
None(hs, S) == \A i \in DOMAIN hs : hs[i] \notin S
One(hs, S) == \A i, j \in DOMAIN hs : hs[i] \in S /\ hs[j] \in S => i = j

\* The read that is outstanding and the handler of one that has completed
\* exclude each other, a session that lives has one of them, and a handler of
\* a read finds a line.
ReaderOK(c) ==
    /\ One(handlers, ReadOf(c))
    /\ c \in reading \/ c \notin alive => None(handlers, ReadOf(c))
    /\ running /\ c \in alive => c \in reading \/ ~None(handlers, ReadOf(c))
    /\ ~None(handlers, {handler("read", c)}) => input[c] # <<>>

\* A connection is accepted once, and until its session has started nothing
\* of it has been read.
AcceptOf(c) == {handler("accept", c)}
Untouched(c) == executed[c] = <<>> /\ input[c] = <<>> /\ wire[c] = asked[c]
AcceptOK(c) ==
    /\ One(handlers, AcceptOf(c))
    /\ ~None(handlers, AcceptOf(c)) => c \in accepted /\ c \notin alive
    /\ c \notin accepted \/ ~None(handlers, AcceptOf(c)) => Untouched(c)

LinesOK(c) ==
    IF c \in alive THEN (executed[c] \o input[c]) \o wire[c] = asked[c]
    ELSE IsPrefix(executed[c], asked[c])

ConnOK(c) == ReaderOK(c) /\ AcceptOK(c) /\ LinesOK(c)

IInv == TypeOK /\ \A c \in Connections : ConnOK(c)

-----------------------------------------------------------------------------
(***************************************************************************)
(* Queues and their handlers.                                              *)
(***************************************************************************)
LEMMA Popped ==
    ASSUME NEW hs \in Seq(Handlers), hs # <<>>, NEW S
    PROVE  /\ Tail(hs) \in Seq(Handlers) /\ Head(hs) \in Handlers
           /\ None(hs, S) => None(Tail(hs), S) /\ Head(hs) \notin S
           /\ Head(hs) \notin S => (None(Tail(hs), S) <=> None(hs, S))
           /\ One(hs, S) => One(Tail(hs), S)
           /\ One(hs, S) /\ Head(hs) \in S => None(Tail(hs), S)
<1>1. /\ Tail(hs) \in Seq(Handlers) /\ Len(hs) \in Nat \ {0}
      /\ DOMAIN hs = 1 .. Len(hs) /\ DOMAIN Tail(hs) = 1 .. Len(hs) - 1
      /\ \A i \in 1 .. Len(hs) - 1 : Tail(hs)[i] = hs[i + 1]
      /\ Head(hs) = hs[1] /\ hs[1] \in Handlers
  OBVIOUS
<1>2. \A i \in DOMAIN Tail(hs) : i \in Int /\ i + 1 \in DOMAIN hs /\ i + 1 # 1 /\ Tail(hs)[i] = hs[i + 1]
  BY <1>1
<1>3. \A i \in DOMAIN hs : i # 1 => i - 1 \in DOMAIN Tail(hs) /\ Tail(hs)[i - 1] = hs[i]
  BY <1>1
<1>4. 1 \in DOMAIN hs
  BY <1>1
<1>5. None(hs, S) => None(Tail(hs), S) /\ Head(hs) \notin S
  BY <1>1, <1>2, <1>4 DEF None
<1>6. Head(hs) \notin S /\ None(Tail(hs), S) => None(hs, S)
  BY <1>1, <1>3 DEF None
<1>7. One(hs, S) => One(Tail(hs), S)
  <2>1. ASSUME One(hs, S), NEW i \in DOMAIN Tail(hs), NEW j \in DOMAIN Tail(hs),
               Tail(hs)[i] \in S, Tail(hs)[j] \in S
        PROVE  i = j
    <3>1. i + 1 = j + 1
      BY <1>2, <2>1 DEF One
    <3> QED BY <1>2, <3>1
  <2> QED BY <2>1 DEF One
<1>8. One(hs, S) /\ Head(hs) \in S => None(Tail(hs), S)
  BY <1>1, <1>2, <1>4 DEF One, None
<1> QED BY <1>1, <1>5, <1>6, <1>7, <1>8

LEMMA Joined ==
    ASSUME NEW hs \in Seq(Handlers), NEW ts \in Seq(Handlers), NEW S
    PROVE  /\ hs \o ts \in Seq(Handlers)
           /\ None(hs \o ts, S) <=> None(hs, S) /\ None(ts, S)
           /\ One(hs, S) /\ None(ts, S) => One(hs \o ts, S)
           /\ None(hs, S) /\ One(ts, S) => One(hs \o ts, S)
<1>1. /\ hs \o ts \in Seq(Handlers)
      /\ DOMAIN hs = 1 .. Len(hs) /\ Len(hs) \in Nat
      /\ DOMAIN ts = 1 .. Len(ts) /\ Len(ts) \in Nat
      /\ DOMAIN (hs \o ts) = 1 .. Len(hs) + Len(ts)
      /\ \A i \in 1 .. Len(hs) + Len(ts) :
           (hs \o ts)[i] = IF i <= Len(hs) THEN hs[i] ELSE ts[i - Len(hs)]
  BY ConcatProperties
<1>2. \A i \in DOMAIN (hs \o ts) :
        \/ i \in DOMAIN hs /\ (hs \o ts)[i] = hs[i]
        \/ i - Len(hs) \in DOMAIN ts /\ (hs \o ts)[i] = ts[i - Len(hs)] /\ i \notin DOMAIN hs
  BY <1>1
<1>3. /\ \A i \in DOMAIN hs : i \in DOMAIN (hs \o ts) /\ (hs \o ts)[i] = hs[i]
      /\ \A i \in DOMAIN ts : Len(hs) + i \in DOMAIN (hs \o ts) /\ (hs \o ts)[Len(hs) + i] = ts[i]
  BY <1>1
<1>4. None(hs \o ts, S) <=> None(hs, S) /\ None(ts, S)
  BY <1>2, <1>3 DEF None
<1>5. One(hs, S) /\ None(ts, S) => One(hs \o ts, S)
  BY <1>2 DEF None, One
<1>6. None(hs, S) /\ One(ts, S) => One(hs \o ts, S)
  <2>1. ASSUME None(hs, S), One(ts, S), NEW i \in DOMAIN (hs \o ts), NEW j \in DOMAIN (hs \o ts),
               (hs \o ts)[i] \in S, (hs \o ts)[j] \in S
        PROVE  i = j
    <3>1. /\ i - Len(hs) \in DOMAIN ts /\ ts[i - Len(hs)] \in S
          /\ j - Len(hs) \in DOMAIN ts /\ ts[j - Len(hs)] \in S
      BY <1>2, <2>1 DEF None
    <3>2. i - Len(hs) = j - Len(hs)
      BY <2>1, <3>1 DEF One
    <3> QED BY <1>1, <3>2
  <2> QED BY <2>1 DEF One
<1> QED BY <1>1, <1>4, <1>5, <1>6

LEMMA Alone ==
    ASSUME NEW h \in Handlers, NEW S
    PROVE  /\ <<h>> \in Seq(Handlers) /\ <<>> \in Seq(Handlers)
           /\ None(<<h>>, S) <=> h \notin S
           /\ One(<<h>>, S) /\ One(<<>>, S) /\ None(<<>>, S)
BY DEF None, One

LEMMA Pushed ==
    ASSUME NEW hs \in Seq(Handlers), NEW h \in Handlers, NEW S
    PROVE  /\ Append(hs, h) \in Seq(Handlers)
           /\ None(Append(hs, h), S) <=> None(hs, S) /\ h \notin S
           /\ One(hs, S) /\ h \notin S => One(Append(hs, h), S)
           /\ None(hs, S) => One(Append(hs, h), S)
<1>1. Append(hs, h) = hs \o <<h>>
  BY AppendIsConcat
<1>2. <<h>> \in Seq(Handlers) /\ (None(<<h>>, S) <=> h \notin S) /\ One(<<h>>, S)
  BY Alone
<1>3. /\ hs \o <<h>> \in Seq(Handlers)
      /\ None(hs \o <<h>>, S) <=> None(hs, S) /\ None(<<h>>, S)
      /\ One(hs, S) /\ None(<<h>>, S) => One(hs \o <<h>>, S)
      /\ None(hs, S) /\ One(<<h>>, S) => One(hs \o <<h>>, S)
  BY <1>2, Joined
<1> QED BY <1>1, <1>2, <1>3

\* The handlers that say something of connection c, and the sets of them the
\* invariant speaks of.
Watched(c) == {ReadOf(c), AcceptOf(c), {handler("read", c)}}
Foreign(h, c) == \A S \in Watched(c) : h \notin S

LEMMA Kinds ==
    /\ \A k \in {"accept", "read", "read error", "write error"}, c \in Connections :
         handler(k, c) \in Handlers
    /\ \A op \in Writes(0 .. Pieces), c \in Connections : write_handler(op, c) \in Handlers
    /\ [kind |-> "accept error"] \in Handlers
    /\ \A k, l, c, d : handler(k, c) = handler(l, d) <=> k = l /\ c = d
<1>1. /\ \A k \in {"accept", "read", "read error", "write error"}, c \in Connections :
           handler(k, c) \in Handlers
      /\ [kind |-> "accept error"] \in Handlers
  BY DEF Handlers, handler
<1>2. \A op \in Writes(0 .. Pieces), c \in Connections : write_handler(op, c) \in Handlers
  BY DEF Handlers, write_handler
<1>3. \A k, c : handler(k, c).kind = k /\ handler(k, c).conn = c
  BY DEF handler
<1>4. \A k, l, c, d : handler(k, c) = handler(l, d) <=> k = l /\ c = d
  BY <1>3
<1> QED BY <1>1, <1>2, <1>4

LEMMA Strangers ==
    /\ \A k, c, d : c # d => Foreign(handler(k, d), c)
    /\ \A c, d : Foreign(handler("write error", d), c)
    /\ \A op, c, d : Foreign(write_handler(op, d), c)
    /\ \A c : Foreign([kind |-> "accept error"], c)
<1>1. ASSUME NEW h, NEW c,
             h # handler("read", c), h # handler("read error", c), h # handler("accept", c)
      PROVE  Foreign(h, c)
  BY <1>1 DEF Foreign, Watched, ReadOf, AcceptOf
<1>2. ASSUME NEW k, NEW c, NEW d, c # d PROVE Foreign(handler(k, d), c)
  <2>1. \A l : handler(k, d) # handler(l, c)
    <3>1. SUFFICES ASSUME NEW l, handler(k, d) = handler(l, c) PROVE FALSE
      OBVIOUS
    <3>2. handler(k, d).conn = d /\ handler(l, c).conn = c
      BY DEF handler
    <3> QED BY <1>2, <3>1, <3>2
  <2> QED BY <1>1, <2>1
<1>3. ASSUME NEW c, NEW d PROVE Foreign(handler("write error", d), c)
  <2>1. \A l : l # "write error" => handler("write error", d) # handler(l, c)
    <3>1. SUFFICES ASSUME NEW l, handler("write error", d) = handler(l, c) PROVE l = "write error"
      OBVIOUS
    <3>2. handler("write error", d).kind = "write error" /\ handler(l, c).kind = l
      BY DEF handler
    <3> QED BY <3>1, <3>2
  <2> QED BY <1>1, <2>1
<1>4. ASSUME NEW op, NEW c, NEW d PROVE Foreign(write_handler(op, d), c)
  <2>1. \A l : l # "write" => write_handler(op, d) # handler(l, c)
    <3>1. SUFFICES ASSUME NEW l, write_handler(op, d) = handler(l, c) PROVE l = "write"
      OBVIOUS
    <3>2. write_handler(op, d).kind = "write" /\ handler(l, c).kind = l
      BY DEF handler, write_handler
    <3> QED BY <3>1, <3>2
  <2> QED BY <1>1, <2>1
<1>5. ASSUME NEW c PROVE Foreign([kind |-> "accept error"], c)
  <2> DEFINE h == [kind |-> "accept error"]
  <2>1. \A l : l # "accept error" => h # handler(l, c)
    <3>1. SUFFICES ASSUME NEW l, h = handler(l, c) PROVE l = "accept error"
      OBVIOUS
    <3>2. h.kind = "accept error" /\ handler(l, c).kind = l
      BY DEF handler
    <3> QED BY <3>1, <3>2
  <2> HIDE DEF h
  <2>2. Foreign(h, c)
    BY <1>1, <2>1
  <2> QED BY <2>2 DEF h
<1> QED BY <1>2, <1>3, <1>4, <1>5

\* For a connection the queue stays the same when strangers come and go.
SameQueue(c) ==
    \A S \in Watched(c) :
      /\ None(handlers', S) <=> None(handlers, S)
      /\ One(handlers, S) => One(handlers', S)

LEMMA QueuePushed ==
    ASSUME handlers \in Seq(Handlers), NEW h \in Handlers, handlers' = Append(handlers, h),
           NEW c, Foreign(h, c)
    PROVE  SameQueue(c)
BY Pushed DEF SameQueue, Foreign

LEMMA QueueRun ==
    ASSUME handlers \in Seq(Handlers), handlers # <<>>, NEW ts \in Seq(Handlers),
           handlers' = Tail(handlers) \o ts,
           NEW c, Foreign(Head(handlers), c), \A i \in DOMAIN ts : Foreign(ts[i], c)
    PROVE  SameQueue(c)
<1>1. SUFFICES ASSUME NEW S \in Watched(c)
               PROVE  /\ None(handlers', S) <=> None(handlers, S)
                      /\ One(handlers, S) => One(handlers', S)
  BY DEF SameQueue
<1>2. Head(handlers) \notin S /\ None(ts, S)
  BY DEF Foreign, None
<1>3. /\ Tail(handlers) \in Seq(Handlers)
      /\ None(Tail(handlers), S) <=> None(handlers, S)
      /\ One(handlers, S) => One(Tail(handlers), S)
  BY <1>2, Popped
<1>4. /\ None(Tail(handlers) \o ts, S) <=> None(Tail(handlers), S) /\ None(ts, S)
      /\ One(Tail(handlers), S) /\ None(ts, S) => One(Tail(handlers) \o ts, S)
  BY <1>3, Joined
<1> QED BY <1>2, <1>3, <1>4

\* A step that has nothing to do with a connection leaves its part of the
\* invariant as it is.
Undisturbed(c) ==
    /\ SameQueue(c)
    /\ running' = running
    /\ c \in reading' <=> c \in reading
    /\ c \in alive' <=> c \in alive
    /\ c \in accepted' <=> c \in accepted
    /\ executed'[c] = executed[c] /\ input'[c] = input[c]
    /\ wire'[c] = wire[c] /\ asked'[c] = asked[c]

LEMMA Kept ==
    ASSUME NEW c, ConnOK(c), Undisturbed(c)
    PROVE  ConnOK(c)'
<1>1. \A S \in Watched(c) : /\ None(handlers', S) <=> None(handlers, S)
                            /\ One(handlers, S) => One(handlers', S)
  BY DEF Undisturbed, SameQueue
<1>2. /\ None(handlers', ReadOf(c)) <=> None(handlers, ReadOf(c))
      /\ One(handlers, ReadOf(c)) => One(handlers', ReadOf(c))
      /\ None(handlers', AcceptOf(c)) <=> None(handlers, AcceptOf(c))
      /\ One(handlers, AcceptOf(c)) => One(handlers', AcceptOf(c))
      /\ None(handlers', {handler("read", c)}) <=> None(handlers, {handler("read", c)})
  BY <1>1 DEF Watched
<1>3. /\ running' = running
      /\ c \in reading' <=> c \in reading
      /\ c \in alive' <=> c \in alive
      /\ c \in accepted' <=> c \in accepted
      /\ executed'[c] = executed[c] /\ input'[c] = input[c]
      /\ wire'[c] = wire[c] /\ asked'[c] = asked[c]
  BY DEF Undisturbed
<1>4. /\ None(handlers, ReadOf(c))' <=> None(handlers', ReadOf(c))
      /\ One(handlers, ReadOf(c))' <=> One(handlers', ReadOf(c))
      /\ None(handlers, AcceptOf(c))' <=> None(handlers', AcceptOf(c))
      /\ One(handlers, AcceptOf(c))' <=> One(handlers', AcceptOf(c))
      /\ None(handlers, {handler("read", c)})' <=> None(handlers', {handler("read", c)})
  BY DEF None, One, ReadOf, AcceptOf, handler
<1>5. ReaderOK(c)'
  BY <1>2, <1>3, <1>4 DEF ConnOK, ReaderOK
<1>6. AcceptOK(c)'
  BY <1>2, <1>3, <1>4 DEF ConnOK, AcceptOK, Untouched
<1>7. LinesOK(c)'
  BY <1>3 DEF ConnOK, LinesOK
<1> QED BY <1>5, <1>6, <1>7 DEF ConnOK

-----------------------------------------------------------------------------
(***************************************************************************)
(* Writes.                                                                 *)
(***************************************************************************)
\* What the socket takes of a write leaves both within their bounds.
LEMMA Transmitted ==
    ASSUME TypeOK, NEW c \in Connections, NEW op \in Writes(1 .. Pieces), room(c) > 0,
           transmit(op, c)
    PROVE  /\ unread' \in [Connections -> 0 .. Window]
           /\ received' \in [Connections -> Seq(Texts \X (1 .. Pieces))]
           /\ after_write(op, c) \in Writes(0 .. Pieces)
<1>1. /\ Pieces \in Nat /\ Window \in Nat /\ unread[c] \in 0 .. Window
      /\ op.text \in Texts /\ op.left \in 1 .. Pieces
  BY ConsoleAssumption DEF TypeOK, Writes
<1> DEFINE n == taken(op, c)
<1>2. n \in Nat /\ n <= op.left /\ unread[c] + n <= Window
  <2>1. room(c) \in Nat /\ room(c) = Window - unread[c]
    BY <1>1 DEF room
  <2>2. CASE op.left <= room(c)
    BY <1>1, <2>1, <2>2 DEF taken, least
  <2>3. CASE ~(op.left <= room(c))
    BY <1>1, <2>1, <2>3 DEF taken, least
  <2> QED BY <2>2, <2>3
<1>3. /\ unread' = [unread EXCEPT ![c] = @ + n]
      /\ received' = [received EXCEPT ![c] =
            @ \o SubSeq(parts(op.text), Pieces - op.left + 1, Pieces - op.left + n)]
      /\ after_write(op, c) = [op EXCEPT !.left = @ - n]
  BY DEF transmit, after_write
<1> HIDE DEF n
<1>4. unread' \in [Connections -> 0 .. Window]
  <2>1. unread[c] + n \in 0 .. Window
    BY <1>1, <1>2
  <2> QED BY <1>3, <2>1 DEF TypeOK
<1>5. received' \in [Connections -> Seq(Texts \X (1 .. Pieces))]
  <2> DEFINE Piece == Texts \X (1 .. Pieces)
             from == Pieces - op.left + 1
             to == Pieces - op.left + n
  <2>1. from \in Int /\ to \in Int /\ \A i \in from .. to : i \in 1 .. Pieces
    BY <1>1, <1>2
  <2>2. \A i \in from .. to : parts(op.text)[i] \in Piece
    BY <1>1, <2>1 DEF parts
  <2>3. received \in [Connections -> Seq(Piece)]
    BY DEF TypeOK
  <2>4. received' = [received EXCEPT ![c] = @ \o SubSeq(parts(op.text), from, to)]
    BY <1>3
  <2> HIDE DEF Piece, from, to
  <2>5. SubSeq(parts(op.text), from, to) \in Seq(Piece)
    BY <2>1, <2>2, SubSeqProperties
  <2>6. received[c] \o SubSeq(parts(op.text), from, to) \in Seq(Piece)
    BY <2>3, <2>5, ConcatProperties
  <2>7. received' \in [Connections -> Seq(Piece)]
    BY <2>3, <2>4, <2>6
  <2> QED BY <2>7 DEF Piece
<1>6. after_write(op, c) \in Writes(0 .. Pieces)
  <2>1. op.left - n \in 0 .. Pieces
    BY <1>1, <1>2
  <2> QED BY <1>3, <2>1 DEF Writes
<1> QED BY <1>4, <1>5, <1>6

\* async_write queues its own handlers at most, of which no connection takes
\* notice, and then what its caller queues.
LEMMA Asynced ==
    ASSUME TypeOK, handlers # <<>>, NEW c \in Connections, NEW op \in Writes(1 .. Pieces),
           NEW more \in Seq(Handlers), async_write(op, c, more)
    PROVE  /\ writes' \in [Connections -> Seq(Writes(1 .. Pieces))]
           /\ unread' \in [Connections -> 0 .. Window]
           /\ received' \in [Connections -> Seq(Texts \X (1 .. Pieces))]
           /\ handlers' \in Seq(Handlers)
           /\ \E ws \in Seq(Handlers) :
                /\ handlers' = Tail(handlers) \o (ws \o more)
                /\ \A i \in DOMAIN ws, d \in Connections : Foreign(ws[i], d)
<1>1. /\ handlers \in Seq(Handlers) /\ Tail(handlers) \in Seq(Handlers)
      /\ writes \in [Connections -> Seq(Writes(1 .. Pieces))]
      /\ unread \in [Connections -> 0 .. Window]
      /\ received \in [Connections -> Seq(Texts \X (1 .. Pieces))]
  BY Popped DEF TypeOK
<1>2. ASSUME NEW h \in Handlers, \A d : Foreign(h, d),
             handlers' = Tail(handlers) \o <<h>> \o more
      PROVE  /\ handlers' \in Seq(Handlers)
             /\ \E ws \in Seq(Handlers) :
                  /\ handlers' = Tail(handlers) \o (ws \o more)
                  /\ \A i \in DOMAIN ws, d \in Connections : Foreign(ws[i], d)
  <2>1. <<h>> \in Seq(Handlers) /\ DOMAIN <<h>> = {1} /\ <<h>>[1] = h
    OBVIOUS
  <2>2. handlers' = Tail(handlers) \o (<<h>> \o more)
    BY <1>1, <1>2, <2>1, ConcatAssociative
  <2>3. handlers' \in Seq(Handlers)
    BY <1>1, <2>1, <2>2, ConcatProperties
  <2> QED BY <1>2, <2>1, <2>2, <2>3
<1>3. CASE /\ peer[c] = "reset"
           /\ handlers' = Tail(handlers) \o <<handler("write error", c)>> \o more
           /\ UNCHANGED <<writes, unread, received>>
  <2>1. handler("write error", c) \in Handlers /\ \A d : Foreign(handler("write error", c), d)
    BY Kinds, Strangers
  <2> QED BY <1>1, <1>2, <1>3, <2>1
<1>4. CASE /\ peer[c] # "reset" /\ writes[c] = <<>> /\ room(c) > 0
           /\ transmit(op, c)
           /\ handlers' = Tail(handlers) \o <<write_handler(after_write(op, c), c)>> \o more
           /\ UNCHANGED writes
  <2>1. /\ unread' \in [Connections -> 0 .. Window]
        /\ received' \in [Connections -> Seq(Texts \X (1 .. Pieces))]
        /\ after_write(op, c) \in Writes(0 .. Pieces)
    BY <1>4, Transmitted
  <2>2. write_handler(after_write(op, c), c) \in Handlers
        /\ \A d : Foreign(write_handler(after_write(op, c), c), d)
    BY <2>1, Kinds, Strangers
  <2> QED BY <1>1, <1>2, <1>4, <2>1, <2>2
<1>5. CASE /\ peer[c] # "reset" /\ ~ (writes[c] = <<>> /\ room(c) > 0)
           /\ writes' = [writes EXCEPT ![c] = Append(@, op)]
           /\ handlers' = Tail(handlers) \o more
           /\ UNCHANGED <<unread, received>>
  <2>1. writes' \in [Connections -> Seq(Writes(1 .. Pieces))]
    <3>1. Append(writes[c], op) \in Seq(Writes(1 .. Pieces))
      BY <1>1, AppendProperties
    <3> QED BY <1>1, <1>5, <3>1
  <2>2. <<>> \in Seq(Handlers) /\ <<>> \o more = more /\ DOMAIN <<>> = {}
    BY ConcatEmptySeq, EmptySeq
  <2>3. handlers' \in Seq(Handlers)
    BY <1>1, <1>5, ConcatProperties
  <2> QED BY <1>1, <1>5, <2>1, <2>2, <2>3
<1> QED BY <1>3, <1>4, <1>5 DEF async_write

-----------------------------------------------------------------------------
(***************************************************************************)
(* Lines that have been handled, read and sent.                            *)
(***************************************************************************)
LEMMA PrefixAppended ==
    ASSUME NEW L, NEW x \in Seq(L), NEW a \in Seq(L), NEW l \in L, IsPrefix(x, a)
    PROVE  IsPrefix(x, Append(a, l))
<1>1. Len(x) \in Nat /\ Len(a) \in Nat /\ Len(x) <= Len(a) /\ SubSeq(x, 1, Len(x)) = SubSeq(a, 1, Len(x))
  BY DEF IsPrefix
<1>2. /\ Len(Append(a, l)) = Len(a) + 1 /\ Append(a, l) \in Seq(L)
      /\ \A i \in 1 .. Len(a) : Append(a, l)[i] = a[i]
  BY AppendProperties
<1>3. SubSeq(Append(a, l), 1, Len(x)) = SubSeq(a, 1, Len(x))
  <2>1. \A i \in 1 .. Len(x) : a[i] \in L /\ Append(a, l)[i] \in L /\ Append(a, l)[i] = a[i]
    BY <1>1, <1>2
  <2>2. /\ SubSeq(a, 1, Len(x)) \in Seq(L) /\ SubSeq(Append(a, l), 1, Len(x)) \in Seq(L)
        /\ Len(SubSeq(a, 1, Len(x))) = Len(SubSeq(Append(a, l), 1, Len(x)))
        /\ \A i \in 1 .. Len(x) : SubSeq(a, 1, Len(x))[i] = a[i]
        /\ \A i \in 1 .. Len(x) : SubSeq(Append(a, l), 1, Len(x))[i] = Append(a, l)[i]
        /\ Len(SubSeq(a, 1, Len(x))) = Len(x)
    BY <1>1, <2>1, SubSeqProperties
  <2> QED BY <2>1, <2>2, SeqEqual
<1> QED BY <1>1, <1>2, <1>3 DEF IsPrefix

LEMMA PrefixOfConcat ==
    ASSUME NEW L, NEW x \in Seq(L), NEW y \in Seq(L)
    PROVE  IsPrefix(x, x \o y)
<1>1. /\ x \o y \in Seq(L) /\ Len(x) \in Nat /\ Len(y) \in Nat
      /\ Len(x \o y) = Len(x) + Len(y)
      /\ \A i \in 1 .. Len(x) : (x \o y)[i] = x[i]
  BY ConcatProperties
<1>2. SubSeq(x \o y, 1, Len(x)) = SubSeq(x, 1, Len(x))
  <2>1. \A i \in 1 .. Len(x) : x[i] \in L /\ (x \o y)[i] \in L /\ (x \o y)[i] = x[i]
    BY <1>1
  <2>2. /\ SubSeq(x, 1, Len(x)) \in Seq(L) /\ SubSeq(x \o y, 1, Len(x)) \in Seq(L)
        /\ Len(SubSeq(x, 1, Len(x))) = Len(SubSeq(x \o y, 1, Len(x)))
        /\ \A i \in 1 .. Len(x) : SubSeq(x, 1, Len(x))[i] = x[i]
        /\ \A i \in 1 .. Len(x) : SubSeq(x \o y, 1, Len(x))[i] = (x \o y)[i]
        /\ Len(SubSeq(x, 1, Len(x))) = Len(x)
    BY <1>1, <2>1, SubSeqProperties
  <2> QED BY <2>1, <2>2, SeqEqual
<1> QED BY <1>1, <1>2 DEF IsPrefix

Regroups(x, y, v, w) == (x \o (y \o v)) \o w = (x \o y) \o (v \o w)

LEMMA Regrouped ==
    ASSUME NEW L, NEW x \in Seq(L), NEW y \in Seq(L), NEW v \in Seq(L), NEW w \in Seq(L)
    PROVE  Regroups(x, y, v, w)
BY DEF Regroups

\* A read takes lines from the wire to the input: y and z become y1 and z1.
Reads(L, x, y, z, y1, z1) ==
    /\ y1 \in Seq(L) /\ y1 # <<>> /\ z1 \in Seq(L)
    /\ (x \o y1) \o z1 = (x \o y) \o z

LEMMA LinesRead ==
    ASSUME NEW L, NEW x \in Seq(L), NEW y \in Seq(L), NEW z \in Seq(L), NEW n \in 1 .. Len(z)
    PROVE  Reads(L, x, y, z, y \o SubSeq(z, 1, n), SubSeq(z, n + 1, Len(z)))
<1>1. Len(z) \in Nat /\ n \in Nat /\ n >= 1 /\ n <= Len(z)
  OBVIOUS
<1>2. /\ SubSeq(z, 1, n) \in Seq(L) /\ Len(SubSeq(z, 1, n)) = n
  <2>1. \A i \in 1 .. n : z[i] \in L
    BY <1>1, ElementOfSeq
  <2> QED BY <1>1, <2>1, SubSeqProperties
<1>3. SubSeq(z, n + 1, Len(z)) \in Seq(L)
  <2>1. \A i \in n + 1 .. Len(z) : z[i] \in L
    BY <1>1, ElementOfSeq
  <2> QED BY <1>1, <2>1, SubSeqProperties
<1>4. SubSeq(z, 1, n) \o SubSeq(z, n + 1, Len(z)) = z
  <2>1. SubSeq(z, 1, Len(z)) = z
    BY SubSeqFull
  <2>2. SubSeq(z, 1, n) \o SubSeq(z, n + 1, Len(z)) = SubSeq(z, 1, Len(z))
    BY <1>1, ConcatAdjacentSubSeq
  <2> QED BY <2>1, <2>2
<1> DEFINE v == SubSeq(z, 1, n)
           w == SubSeq(z, n + 1, Len(z))
<1>5. v \in Seq(L) /\ w \in Seq(L) /\ v \o w = z /\ Len(v) = n
  BY <1>2, <1>3, <1>4
<1> HIDE DEF v, w
<1>6. y \o v \in Seq(L) /\ Len(y \o v) = Len(y) + n /\ Len(y) \in Nat
  BY <1>5, ConcatProperties, LenProperties
<1>7. y \o v # <<>>
  BY <1>1, <1>6, EmptySeq
<1>8. Regroups(x, y, v, w)
  BY <1>5, Regrouped
<1>9. (x \o (y \o v)) \o w = (x \o y) \o z
  BY <1>5, <1>8 DEF Regroups
<1>10. Reads(L, x, y, z, y \o v, w)
  BY <1>5, <1>6, <1>7, <1>9 DEF Reads
<1> QED BY <1>10 DEF v, w

\* A handler takes the first line of the input.
LEMMA LineTaken ==
    ASSUME NEW L, NEW x \in Seq(L), NEW y \in Seq(L), y # <<>>
    PROVE  /\ Head(y) \in L /\ Tail(y) \in Seq(L) /\ Append(x, Head(y)) \in Seq(L)
           /\ Append(x, Head(y)) \o Tail(y) = x \o y
<1>1. Head(y) \in L /\ Tail(y) \in Seq(L) /\ Append(x, Head(y)) \in Seq(L) /\ <<Head(y)>> \in Seq(L)
  BY HeadTailProperties, AppendProperties
<1>2. <<Head(y)>> \o Tail(y) = y
  BY <1>1
<1>3. Append(x, Head(y)) = x \o <<Head(y)>>
  BY <1>1, AppendIsConcat
<1>4. (x \o <<Head(y)>>) \o Tail(y) = x \o (<<Head(y)>> \o Tail(y))
  BY <1>1, ConcatAssociative
<1> QED BY <1>1, <1>2, <1>3, <1>4

\* A client sends another line.
LEMMA LineSent ==
    ASSUME NEW L, NEW x \in Seq(L), NEW z \in Seq(L), NEW l \in L
    PROVE  x \o Append(z, l) = Append(x \o z, l)
<1>1. x \o z \in Seq(L) /\ <<l>> \in Seq(L)
  BY ConcatProperties
<1>2. Append(z, l) = z \o <<l>> /\ Append(x \o z, l) = (x \o z) \o <<l>>
  BY <1>1, AppendIsConcat
<1> QED BY <1>1, <1>2, ConcatAssociative

-----------------------------------------------------------------------------
(***************************************************************************)
(* The invariant: initially, and step by step.                             *)
(***************************************************************************)
LEMMA InitInv == Init => IInv
<1> SUFFICES ASSUME Init PROVE IInv
  OBVIOUS
<1>1. TypeOK
  BY ConsoleAssumption DEF Init, TypeOK
<1>2. ASSUME NEW c \in Connections PROVE ConnOK(c)
  <2>1. \A S : None(handlers, S) /\ One(handlers, S)
    BY DEF Init, None, One
  <2>2. ReaderOK(c)
    BY <2>1 DEF Init, ReaderOK
  <2>3. AcceptOK(c)
    BY <2>1 DEF Init, AcceptOK, Untouched
  <2>4. LinesOK(c)
    <3>1. IsPrefix(<<>>, <<>>)
      BY DEF IsPrefix
    <3> QED BY <3>1 DEF Init, LinesOK
  <2> QED BY <2>2, <2>3, <2>4 DEF ConnOK
<1> QED BY <1>1, <1>2 DEF IInv

LEMMA Still ==
    ASSUME IInv, UNCHANGED <<running, reading, alive, accepted, executed, input, wire, asked>>,
           \A c \in Connections : SameQueue(c)
    PROVE  \A c \in Connections : ConnOK(c)'
BY Kept DEF IInv, Undisturbed

LEMMA SameHandlers ==
    ASSUME handlers' = handlers, NEW c PROVE SameQueue(c)
BY DEF SameQueue

\* A client that connects, reads or leaves.
LEMMA ClientKeeps ==
    ASSUME IInv, NEW c \in Connections,
           Outside(client_connects(c) \/ client_reads(c) \/ client_leaves(c))
    PROVE  IInv'
<1>1. TypeOK
  BY DEF IInv
<1>2. CASE Outside(client_connects(c))
  <2>1. TypeOK'
    BY <1>1, <1>2 DEF TypeOK, Outside, client_connects, session_vars, ghosts
  <2>2. \A d \in Connections : ConnOK(d)'
    BY <1>2, Still, SameHandlers DEF Outside, client_connects, session_vars, ghosts
  <2> QED BY <2>1, <2>2 DEF IInv
<1>3. CASE Outside(client_reads(c))
  <2>1. unread' \in [Connections -> 0 .. Window]
    <3>1. unread[c] - 1 \in 0 .. Window
      BY <1>1, <1>3, ConsoleAssumption DEF TypeOK, Outside, client_reads
    <3> QED BY <1>1, <1>3, <3>1 DEF TypeOK, Outside, client_reads
  <2>2. TypeOK'
    BY <1>1, <1>3, <2>1 DEF TypeOK, Outside, client_reads, session_vars, ghosts
  <2>3. \A d \in Connections : ConnOK(d)'
    BY <1>3, Still, SameHandlers DEF Outside, client_reads, session_vars, ghosts
  <2> QED BY <2>2, <2>3 DEF IInv
<1>4. CASE Outside(client_leaves(c))
  <2>1. /\ peer' \in [Connections -> {"away", "open", "closed", "reset"}]
        /\ hasty' \subseteq Connections
    <3>1. PICK how \in Leaves[c] : peer' = [peer EXCEPT ![c] = how]
      BY <1>4 DEF Outside, client_leaves
    <3>2. how \in {"closed", "reset"}
      BY <3>1, ConsoleAssumption
    <3>3. hasty' = hasty \/ hasty' = hasty \cup {c}
      BY <1>4 DEF Outside, client_leaves
    <3> QED BY <1>1, <3>1, <3>2, <3>3 DEF TypeOK
  <2>2. TypeOK'
    BY <1>1, <1>4, <2>1 DEF TypeOK, Outside, client_leaves, session_vars
  <2>3. \A d \in Connections : ConnOK(d)'
    BY <1>4, Still, SameHandlers DEF Outside, client_leaves, session_vars
  <2> QED BY <2>2, <2>3 DEF IInv
<1> QED BY <1>2, <1>3, <1>4 DEF Outside

\* The line a client sends is the next one of a script.
LEMMA NextLine ==
    ASSUME NEW L, NEW a \in Seq(L), NEW script \in Seq(L), IsStrictPrefix(a, script)
    PROVE  script[Len(a) + 1] \in L
<1>1. /\ Len(a) \in Nat /\ Len(script) \in Nat /\ Len(a) <= Len(script)
      /\ SubSeq(a, 1, Len(a)) = SubSeq(script, 1, Len(a)) /\ a # script
  BY DEF IsStrictPrefix, IsPrefix
<1>2. SubSeq(a, 1, Len(a)) = a /\ SubSeq(script, 1, Len(script)) = script
  BY SubSeqFull
<1>3. Len(a) # Len(script)
  BY <1>1, <1>2
<1> QED BY <1>1, <1>3, ElementOfSeq

LEMMA SendsKeeps ==
    ASSUME IInv, NEW c \in Connections, Outside(client_sends(c))
    PROVE  IInv'
<1>1. /\ asked \in [Connections -> Seq(LineKinds)] /\ wire \in [Connections -> Seq(LineKinds)]
      /\ executed \in [Connections -> Seq(LineKinds)] /\ input \in [Connections -> Seq(LineKinds)]
      /\ Scripts[c] \subseteq Seq(LineKinds)
  BY ConsoleAssumption DEF IInv, TypeOK
<1>2. PICK line \in LineKinds :
        /\ wire' = [wire EXCEPT ![c] = Append(@, line)]
        /\ asked' = [asked EXCEPT ![c] = Append(@, line)]
  <2>1. PICK script \in Scripts[c] :
          /\ IsStrictPrefix(asked[c], script)
          /\ wire' = [wire EXCEPT ![c] = Append(@, script[Len(asked[c]) + 1])]
          /\ asked' = [asked EXCEPT ![c] = Append(@, script[Len(asked[c]) + 1])]
    BY DEF Outside, client_sends
  <2>2. script[Len(asked[c]) + 1] \in LineKinds
    BY <1>1, <2>1, NextLine
  <2> QED BY <2>1, <2>2
<1>3. /\ UNCHANGED <<handlers, accepting, alive, state, reading, input, writes, peer, accepted,
                     unread, executed, received, stale, running>>
      /\ hasty' \subseteq Connections
  BY DEF Outside, client_sends, session_vars, IInv, TypeOK
<1>4. /\ Append(wire[c], line) \in Seq(LineKinds) /\ Append(asked[c], line) \in Seq(LineKinds)
      /\ wire' \in [Connections -> Seq(LineKinds)] /\ asked' \in [Connections -> Seq(LineKinds)]
  BY <1>1, <1>2, AppendProperties
<1>5. TypeOK'
  BY <1>3, <1>4 DEF IInv, TypeOK
<1>6. ASSUME NEW d \in Connections, d # c PROVE ConnOK(d)'
  <2>1. Undisturbed(d)
    BY <1>1, <1>2, <1>3, <1>6, SameHandlers DEF Undisturbed
  <2> QED BY <2>1, Kept DEF IInv
<1>7. ConnOK(c)'
  <2>1. ConnOK(c)
    BY DEF IInv
  <2>2. wire'[c] = Append(wire[c], line) /\ asked'[c] = Append(asked[c], line)
    BY <1>1, <1>2
  <2>3. ReaderOK(c)'
    BY <1>3, <2>1 DEF ConnOK, ReaderOK, ReadOf, None, One, handler
  <2>4. AcceptOK(c)'
    BY <1>3, <2>1, <2>2 DEF ConnOK, AcceptOK, AcceptOf, None, One, handler, Untouched
  <2>5. LinesOK(c)'
    <3>1. CASE c \in alive
      <4>1. executed[c] \o input[c] \in Seq(LineKinds)
        BY <1>1, ConcatProperties
      <4>2. (executed[c] \o input[c]) \o Append(wire[c], line)
              = Append((executed[c] \o input[c]) \o wire[c], line)
        BY <1>1, <4>1, LineSent
      <4> QED BY <1>3, <2>1, <2>2, <3>1, <4>2 DEF ConnOK, LinesOK
    <3>2. CASE c \notin alive
      <4>1. IsPrefix(executed[c], Append(asked[c], line))
        BY <1>1, <2>1, <3>2, PrefixAppended DEF ConnOK, LinesOK
      <4> QED BY <1>3, <2>2, <3>2, <4>1 DEF LinesOK
    <3> QED BY <3>1, <3>2
  <2> QED BY <2>3, <2>4, <2>5 DEF ConnOK
<1> QED BY <1>5, <1>6, <1>7 DEF IInv

\* The sets the invariant speaks of do not change with the state.
LEMMA Primed ==
    ASSUME NEW c
    PROVE  /\ None(handlers, ReadOf(c))' <=> None(handlers', ReadOf(c))
           /\ One(handlers, ReadOf(c))' <=> One(handlers', ReadOf(c))
           /\ None(handlers, AcceptOf(c))' <=> None(handlers', AcceptOf(c))
           /\ One(handlers, AcceptOf(c))' <=> One(handlers', AcceptOf(c))
           /\ None(handlers, {handler("read", c)})' <=> None(handlers', {handler("read", c)})
BY DEF None, One, ReadOf, AcceptOf, handler

LEMMA Members ==
    ASSUME NEW c
    PROVE  /\ handler("accept", c) \in AcceptOf(c)
           /\ handler("accept", c) \notin ReadOf(c)
           /\ handler("accept", c) \notin {handler("read", c)}
           /\ handler("read", c) \in ReadOf(c) /\ handler("read error", c) \in ReadOf(c)
           /\ handler("read", c) \notin AcceptOf(c) /\ handler("read error", c) \notin AcceptOf(c)
           /\ handler("read error", c) \notin {handler("read", c)}
           /\ {handler("read", c)} \subseteq ReadOf(c)
<1>1. /\ handler("accept", c).kind = "accept" /\ handler("read", c).kind = "read"
      /\ handler("read error", c).kind = "read error"
  BY DEF handler
<1>2. /\ handler("accept", c) # handler("read", c)
      /\ handler("accept", c) # handler("read error", c)
      /\ handler("read", c) # handler("read error", c)
  BY <1>1
<1> QED BY <1>2 DEF AcceptOf, ReadOf

\* A connection is accepted, or an accept fails.
LEMMA AcceptCompletesKeeps ==
    ASSUME IInv, Outside(accept_completes)
    PROVE  IInv'
<1>1. PICK c \in Connections \ accepted :
        accepted' = accepted \cup {c} /\ handlers' = Append(handlers, handler("accept", c))
  BY DEF Outside, accept_completes
<1>2. /\ UNCHANGED <<running, alive, state, reading, input, writes, peer, wire, unread,
                     asked, executed, received, hasty, stale>>
      /\ accepting' = FALSE
  BY DEF Outside, accept_completes, session_vars, ghosts
<1>3. handlers \in Seq(Handlers) /\ handler("accept", c) \in Handlers
  BY Kinds DEF IInv, TypeOK
<1>4. handlers' \in Seq(Handlers)
  BY <1>1, <1>3, Pushed
<1>5. TypeOK'
  BY <1>1, <1>2, <1>4 DEF IInv, TypeOK
<1>6. ASSUME NEW d \in Connections, d # c PROVE ConnOK(d)'
  <2>1. SameQueue(d)
    BY <1>1, <1>3, <1>6, QueuePushed, Strangers
  <2>2. Undisturbed(d)
    BY <1>1, <1>2, <1>6, <2>1 DEF Undisturbed
  <2> QED BY <2>2, Kept DEF IInv
<1>7. ConnOK(c)'
  <2>1. c \notin alive /\ ReaderOK(c) /\ AcceptOK(c) /\ LinesOK(c)
    BY DEF IInv, TypeOK, ConnOK
  <2>2. None(handlers, AcceptOf(c)) /\ Untouched(c)
    BY <2>1 DEF AcceptOK
  <2>3. /\ None(handlers', ReadOf(c)) <=> None(handlers, ReadOf(c))
        /\ One(handlers, ReadOf(c)) => One(handlers', ReadOf(c))
        /\ One(handlers', AcceptOf(c))
        /\ None(handlers', {handler("read", c)}) <=> None(handlers, {handler("read", c)})
    BY <1>1, <1>3, <2>2, Pushed, Members
  <2>4. ReaderOK(c)'
    BY <1>2, <2>1, <2>3, Primed DEF ReaderOK
  <2>5. AcceptOK(c)'
    BY <1>1, <1>2, <2>1, <2>2, <2>3, Primed DEF AcceptOK, Untouched
  <2>6. LinesOK(c)'
    BY <1>2, <2>1 DEF LinesOK
  <2> QED BY <2>4, <2>5, <2>6 DEF ConnOK
<1> QED BY <1>5, <1>6, <1>7 DEF IInv

LEMMA AcceptFailsKeeps ==
    ASSUME IInv, Outside(accept_fails)
    PROVE  IInv'
<1>1. /\ handlers' = Append(handlers, [kind |-> "accept error"])
      /\ accepting' = FALSE
      /\ UNCHANGED <<running, session_vars, client_vars, ghosts>>
  BY DEF Outside, accept_fails
<1>2. handlers \in Seq(Handlers) /\ [kind |-> "accept error"] \in Handlers
  BY Kinds DEF IInv, TypeOK
<1>3. handlers' \in Seq(Handlers)
  BY <1>1, <1>2, Pushed
<1>4. TypeOK'
  BY <1>1, <1>3 DEF IInv, TypeOK, session_vars, client_vars, ghosts
<1>5. \A c \in Connections : SameQueue(c)
  BY <1>1, <1>2, QueuePushed, Strangers
<1>6. \A c \in Connections : ConnOK(c)'
  BY <1>1, <1>5, Still DEF session_vars, client_vars, ghosts
<1> QED BY <1>4, <1>6 DEF IInv

\* A read completes: its session had no other.
LEMMA ReadCompletesKeeps ==
    ASSUME IInv, NEW c \in Connections, Outside(read_completes(c))
    PROVE  IInv'
<1>1. /\ handlers \in Seq(Handlers)
      /\ wire \in [Connections -> Seq(LineKinds)] /\ input \in [Connections -> Seq(LineKinds)]
      /\ executed \in [Connections -> Seq(LineKinds)] /\ asked \in [Connections -> Seq(LineKinds)]
      /\ reading \subseteq alive /\ ConnOK(c)
  BY DEF IInv, TypeOK
<1>2. /\ c \in reading /\ reading' = reading \ {c}
      /\ UNCHANGED <<running, accepting, alive, state, writes, peer, accepted, unread,
                     asked, executed, received, hasty, stale>>
  BY DEF Outside, read_completes, ghosts
<1>3. c \in alive /\ None(handlers, ReadOf(c)) /\ None(handlers, AcceptOf(c))
  BY <1>1, <1>2 DEF ConnOK, ReaderOK, AcceptOK
<1>4. None(handlers, {handler("read", c)})
  BY <1>3, Members DEF None
<1>5. PICK h \in {handler("read", c), handler("read error", c)} :
        /\ handlers' = Append(handlers, h)
        /\ \/ \E n \in 1 .. Len(wire[c]) :
                /\ input' = [input EXCEPT ![c] = @ \o SubSeq(wire[c], 1, n)]
                /\ wire' = [wire EXCEPT ![c] = SubSeq(@, n + 1, Len(@))]
           \/ h = handler("read error", c) /\ UNCHANGED <<input, wire>>
  BY DEF Outside, read_completes
<1>6. /\ input' \in [Connections -> Seq(LineKinds)] /\ wire' \in [Connections -> Seq(LineKinds)]
      /\ \A d \in Connections : d # c => input'[d] = input[d] /\ wire'[d] = wire[d]
      /\ \/ h = handler("read error", c) /\ UNCHANGED <<input, wire>>
         \/ Reads(LineKinds, executed[c], input[c], wire[c], input'[c], wire'[c])
  <2>1. CASE h = handler("read error", c) /\ UNCHANGED <<input, wire>>
    BY <1>1, <2>1
  <2>2. ASSUME NEW n \in 1 .. Len(wire[c]),
               input' = [input EXCEPT ![c] = @ \o SubSeq(wire[c], 1, n)],
               wire' = [wire EXCEPT ![c] = SubSeq(@, n + 1, Len(@))]
        PROVE  /\ input' \in [Connections -> Seq(LineKinds)]
               /\ wire' \in [Connections -> Seq(LineKinds)]
               /\ \A d \in Connections : d # c => input'[d] = input[d] /\ wire'[d] = wire[d]
               /\ Reads(LineKinds, executed[c], input[c], wire[c], input'[c], wire'[c])
    <3> DEFINE read == input[c] \o SubSeq(wire[c], 1, n)
               left == SubSeq(wire[c], n + 1, Len(wire[c]))
    <3>1. /\ executed[c] \in Seq(LineKinds) /\ input[c] \in Seq(LineKinds)
          /\ wire[c] \in Seq(LineKinds)
      BY <1>1
    <3>2. Reads(LineKinds, executed[c], input[c], wire[c], read, left)
      BY <3>1, LinesRead
    <3>3. input' = [input EXCEPT ![c] = read] /\ wire' = [wire EXCEPT ![c] = left]
      BY <2>2
    <3> HIDE DEF read, left
    <3>4. input'[c] = read /\ wire'[c] = left
      BY <1>1, <3>3
    <3>5. input' \in [Connections -> Seq(LineKinds)] /\ wire' \in [Connections -> Seq(LineKinds)]
      BY <1>1, <3>2, <3>3 DEF Reads
    <3>6. \A d \in Connections : d # c => input'[d] = input[d] /\ wire'[d] = wire[d]
      BY <1>1, <3>3
    <3> QED BY <3>2, <3>4, <3>5, <3>6
  <2> QED BY <1>5, <2>1, <2>2
<1>7. h \in Handlers
  <2>1. handler("read", c) \in Handlers /\ handler("read error", c) \in Handlers
    BY Kinds
  <2> QED BY <2>1
<1>8. handlers' \in Seq(Handlers)
  BY <1>1, <1>5, <1>7, Pushed
<1>9. TypeOK'
  BY <1>2, <1>6, <1>8 DEF IInv, TypeOK
<1>10. ASSUME NEW d \in Connections, d # c PROVE ConnOK(d)'
  <2>1. Foreign(h, d)
    BY <1>10, Strangers
  <2>2. SameQueue(d)
    BY <1>1, <1>5, <1>7, <2>1, QueuePushed
  <2>3. Undisturbed(d)
    BY <1>2, <1>6, <1>10, <2>2 DEF Undisturbed
  <2> QED BY <2>3, Kept DEF IInv
<1>11. ConnOK(c)'
  <2>1. h \in ReadOf(c) /\ h \notin AcceptOf(c)
    BY Members
  <2>2. /\ One(handlers', ReadOf(c)) /\ ~None(handlers', ReadOf(c))
        /\ None(handlers', {handler("read", c)}) <=> h # handler("read", c)
        /\ None(handlers', AcceptOf(c)) /\ One(handlers', AcceptOf(c))
    <3>1. One(handlers, AcceptOf(c))
      BY <1>1 DEF ConnOK, AcceptOK
    <3>2. One(handlers', ReadOf(c)) /\ ~None(handlers', ReadOf(c))
      BY <1>1, <1>3, <1>5, <1>7, <2>1, Pushed
    <3>3. None(handlers', {handler("read", c)}) <=> h # handler("read", c)
      <4> DEFINE R == {handler("read", c)}
      <4>1. None(handlers, R)
        BY <1>4
      <4>2. h \notin R <=> h # handler("read", c)
        OBVIOUS
      <4> HIDE DEF R
      <4>3. None(Append(handlers, h), R) <=> None(handlers, R) /\ h \notin R
        BY <1>1, <1>7, Pushed
      <4>4. None(handlers', R) <=> h # handler("read", c)
        BY <1>5, <4>1, <4>2, <4>3
      <4> QED BY <4>4 DEF R
    <3>4. None(handlers', AcceptOf(c)) /\ One(handlers', AcceptOf(c))
      BY <1>1, <1>3, <1>5, <1>7, <2>1, <3>1, Pushed
    <3> QED BY <3>2, <3>3, <3>4
  <2>3. c \notin reading' /\ c \in alive' /\ c \in accepted'
    BY <1>2, <1>3 DEF IInv, TypeOK
  <2>4. ReaderOK(c)'
    <3>1. h = handler("read", c) => input'[c] # <<>>
      BY <1>6, Members DEF Reads
    <3> QED BY <2>2, <2>3, <3>1, Primed DEF ReaderOK
  <2>5. AcceptOK(c)'
    BY <2>2, <2>3, Primed DEF AcceptOK
  <2>6. LinesOK(c)'
    <3>1. (executed[c] \o input[c]) \o wire[c] = asked[c]
      BY <1>1, <1>3 DEF ConnOK, LinesOK
    <3>2. (executed[c] \o input'[c]) \o wire'[c] = (executed[c] \o input[c]) \o wire[c]
      BY <1>6 DEF Reads
    <3> QED BY <1>2, <2>3, <3>1, <3>2 DEF LinesOK
  <2> QED BY <2>4, <2>5, <2>6 DEF ConnOK
<1> QED BY <1>9, <1>10, <1>11 DEF IInv

\* A write completes.
LEMMA WriteCompletesKeeps ==
    ASSUME IInv, NEW c \in Connections, Outside(write_completes(c))
    PROVE  IInv'
<1>1. /\ TypeOK /\ handlers \in Seq(Handlers)
      /\ writes \in [Connections -> Seq(Writes(1 .. Pieces))]
  BY DEF IInv, TypeOK
<1>2. /\ writes[c] # <<>> /\ writes' = [writes EXCEPT ![c] = Tail(@)]
      /\ UNCHANGED <<running, accepting, alive, state, reading, input, peer, accepted, wire,
                     asked, executed, hasty, stale>>
  BY DEF Outside, write_completes
<1>3. Head(writes[c]) \in Writes(1 .. Pieces) /\ Tail(writes[c]) \in Seq(Writes(1 .. Pieces))
  BY <1>1, <1>2
<1>4. writes' \in [Connections -> Seq(Writes(1 .. Pieces))]
  BY <1>1, <1>2, <1>3
<1> DEFINE Queues(h) ==
             /\ handlers' = Append(handlers, h) /\ \A d \in Connections : Foreign(h, d)
             /\ unread' \in [Connections -> 0 .. Window]
             /\ received' \in [Connections -> Seq(Texts \X (1 .. Pieces))]
<1>5. PICK h \in Handlers : Queues(h)
  <2>1. CASE /\ handlers' = Append(handlers, handler("write error", c))
             /\ UNCHANGED <<unread, received>>
    <3>1. handler("write error", c) \in Handlers
      BY Kinds
    <3>2. Queues(handler("write error", c))
      BY <1>1, <2>1, Strangers DEF TypeOK
    <3> HIDE DEF Queues
    <3> QED BY <3>1, <3>2
  <2>2. CASE /\ room(c) > 0 /\ transmit(Head(writes[c]), c)
             /\ handlers' = Append(handlers, write_handler(after_write(Head(writes[c]), c), c))
    <3>1. /\ unread' \in [Connections -> 0 .. Window]
          /\ received' \in [Connections -> Seq(Texts \X (1 .. Pieces))]
          /\ after_write(Head(writes[c]), c) \in Writes(0 .. Pieces)
      BY <1>1, <1>3, <2>2, Transmitted
    <3>2. write_handler(after_write(Head(writes[c]), c), c) \in Handlers
      BY <3>1, Kinds
    <3>3. Queues(write_handler(after_write(Head(writes[c]), c), c))
      BY <2>2, <3>1, Strangers
    <3> HIDE DEF Queues
    <3> QED BY <3>2, <3>3
  <2> HIDE DEF Queues
  <2> QED BY <2>1, <2>2 DEF Outside, write_completes
<1>6. handlers' \in Seq(Handlers)
  BY <1>1, <1>5, Pushed
<1>7. TypeOK'
  BY <1>1, <1>2, <1>4, <1>5, <1>6 DEF TypeOK
<1>8. \A d \in Connections : SameQueue(d)
  BY <1>1, <1>5, QueuePushed
<1>9. \A d \in Connections : ConnOK(d)'
  BY <1>2, <1>8, Still
<1> QED BY <1>7, <1>9 DEF IInv

\* The queue after a handler has run: ws are handlers of writes, and more is
\* what it queued besides.
LEMMA RunAt ==
    ASSUME NEW hs \in Seq(Handlers), NEW ws \in Seq(Handlers), NEW more \in Seq(Handlers),
           NEW S, \A i \in DOMAIN ws : ws[i] \notin S
    PROVE  /\ None(hs \o (ws \o more), S) <=> None(hs, S) /\ None(more, S)
           /\ One(hs, S) /\ None(more, S) => One(hs \o (ws \o more), S)
           /\ None(hs, S) /\ One(more, S) => One(hs \o (ws \o more), S)
<1>1. None(ws, S)
  BY DEF None
<1>2. /\ ws \o more \in Seq(Handlers)
      /\ None(ws \o more, S) <=> None(more, S)
      /\ One(more, S) => One(ws \o more, S)
  BY <1>1, Joined
<1> DEFINE us == ws \o more
<1>3. us \in Seq(Handlers) /\ (None(us, S) <=> None(more, S)) /\ (One(more, S) => One(us, S))
  BY <1>2
<1> HIDE DEF us
<1>4. /\ None(hs \o us, S) <=> None(hs, S) /\ None(us, S)
      /\ One(hs, S) /\ None(us, S) => One(hs \o us, S)
      /\ None(hs, S) /\ One(us, S) => One(hs \o us, S)
  BY <1>3, Joined
<1>5. /\ None(hs \o us, S) <=> None(hs, S) /\ None(more, S)
      /\ One(hs, S) /\ None(more, S) => One(hs \o us, S)
      /\ None(hs, S) /\ One(more, S) => One(hs \o us, S)
  BY <1>3, <1>4
<1> QED BY <1>5 DEF us

Ran(ws, more) ==
    /\ handlers' = Tail(handlers) \o (ws \o more)
    /\ \A i \in DOMAIN ws, d \in Connections : Foreign(ws[i], d)

LEMMA QueueRan ==
    ASSUME handlers \in Seq(Handlers), handlers # <<>>,
           NEW ws \in Seq(Handlers), NEW more \in Seq(Handlers), Ran(ws, more),
           NEW d \in Connections, Foreign(Head(handlers), d),
           \A i \in DOMAIN more : Foreign(more[i], d)
    PROVE  SameQueue(d)
<1>1. SUFFICES ASSUME NEW S \in Watched(d)
               PROVE  /\ None(handlers', S) <=> None(handlers, S)
                      /\ One(handlers, S) => One(handlers', S)
  BY DEF SameQueue
<1>2. Head(handlers) \notin S /\ None(more, S) /\ \A i \in DOMAIN ws : ws[i] \notin S
  BY DEF Foreign, None, Ran
<1>3. /\ Tail(handlers) \in Seq(Handlers)
      /\ None(Tail(handlers), S) <=> None(handlers, S)
      /\ One(handlers, S) => One(Tail(handlers), S)
  BY <1>2, Popped
<1>4. PICK hs \in Seq(Handlers) : hs = Tail(handlers)
  BY <1>3
<1>5. /\ None(hs \o (ws \o more), S) <=> None(hs, S) /\ None(more, S)
      /\ One(hs, S) /\ None(more, S) => One(hs \o (ws \o more), S)
  BY <1>2, RunAt
<1>6. handlers' = hs \o (ws \o more)
  BY <1>4 DEF Ran
<1> QED BY <1>2, <1>3, <1>4, <1>5, <1>6

\* The same for the connection the handler was one of.
LEMMA OwnQueue ==
    ASSUME handlers \in Seq(Handlers), handlers # <<>>,
           NEW ws \in Seq(Handlers), NEW more \in Seq(Handlers), Ran(ws, more),
           NEW d \in Connections, NEW S \in Watched(d), None(Tail(handlers), S)
    PROVE  /\ None(handlers', S) <=> None(more, S)
           /\ One(more, S) => One(handlers', S)
<1>1. Tail(handlers) \in Seq(Handlers) /\ \A i \in DOMAIN ws : ws[i] \notin S
  BY Popped DEF Foreign, Ran
<1>2. PICK hs \in Seq(Handlers) : hs = Tail(handlers)
  BY <1>1
<1>3. /\ None(hs \o (ws \o more), S) <=> None(hs, S) /\ None(more, S)
      /\ None(hs, S) /\ One(more, S) => One(hs \o (ws \o more), S)
  BY <1>1, RunAt
<1>4. handlers' = hs \o (ws \o more)
  BY <1>2 DEF Ran
<1> QED BY <1>2, <1>3, <1>4

\* A session starts.
LEMMA HandleAcceptKeeps ==
    ASSUME IInv, NEW c \in Connections, handle_accept(c)
    PROVE  IInv'
<1>1. TypeOK /\ handlers \in Seq(Handlers) /\ ConnOK(c)
  BY DEF IInv, TypeOK
<1>2. /\ handlers # <<>> /\ Head(handlers) = handler("accept", c)
      /\ alive' = alive \cup {c} /\ state' = [state EXCEPT ![c] = "Running"]
      /\ reading' = reading \cup {c} /\ accepting' = TRUE
      /\ UNCHANGED <<running, input, peer, accepted, wire, asked, executed, hasty, stale>>
  BY DEF handle_accept, runs
<1>3. PICK op \in Writes(1 .. Pieces) : async_write(op, c, <<>>)
  <2> DEFINE o == [text |-> guarded(state'[c], "help"), left |-> Pieces]
  <2>1. o \in Writes(1 .. Pieces)
    BY ConsoleAssumption DEF Writes, Texts, guarded
  <2>2. async_write(o, c, <<>>)
    BY DEF handle_accept, send
  <2> HIDE DEF o
  <2> QED BY <2>1, <2>2
<1>4. <<>> \in Seq(Handlers) /\ DOMAIN <<>> = {}
  BY EmptySeq
<1>5. /\ writes' \in [Connections -> Seq(Writes(1 .. Pieces))]
      /\ unread' \in [Connections -> 0 .. Window]
      /\ received' \in [Connections -> Seq(Texts \X (1 .. Pieces))]
      /\ handlers' \in Seq(Handlers)
      /\ \E ws \in Seq(Handlers) : Ran(ws, <<>>)
  BY <1>1, <1>2, <1>3, <1>4, Asynced DEF Ran
<1>6. PICK ws \in Seq(Handlers) : Ran(ws, <<>>)
  BY <1>5
<1>7. /\ ~None(handlers, AcceptOf(c)) /\ None(Tail(handlers), AcceptOf(c))
      /\ c \in accepted /\ c \notin alive /\ Untouched(c)
  BY <1>1, <1>2, Popped, Members DEF ConnOK, AcceptOK
<1>8. TypeOK'
  BY <1>1, <1>2, <1>5, <1>7 DEF TypeOK
<1>9. ASSUME NEW d \in Connections, d # c PROVE ConnOK(d)'
  <2>1. Foreign(Head(handlers), d)
    BY <1>2, <1>9, Strangers
  <2>2. SameQueue(d)
    BY <1>1, <1>2, <1>4, <1>6, <2>1, QueueRan
  <2>3. Undisturbed(d)
    BY <1>2, <1>9, <2>2 DEF Undisturbed
  <2> QED BY <2>3, Kept DEF IInv
<1>10. ConnOK(c)'
  <2>1. None(handlers, ReadOf(c)) /\ None(Tail(handlers), ReadOf(c))
    BY <1>1, <1>2, <1>7, Popped DEF ConnOK, ReaderOK
  <2>2. None(Tail(handlers), {handler("read", c)})
    BY <2>1, Members DEF None
  <2>3. \A S : None(<<>>, S) /\ One(<<>>, S)
    BY DEF None, One
  <2>4. /\ None(handlers', ReadOf(c)) /\ One(handlers', ReadOf(c))
        /\ None(handlers', AcceptOf(c)) /\ One(handlers', AcceptOf(c))
        /\ None(handlers', {handler("read", c)})
    <3>1. /\ ReadOf(c) \in Watched(c) /\ AcceptOf(c) \in Watched(c)
          /\ {handler("read", c)} \in Watched(c)
      BY DEF Watched
    <3>2. None(handlers', ReadOf(c)) /\ One(handlers', ReadOf(c))
      BY <1>1, <1>2, <1>4, <1>6, <2>1, <2>3, <3>1, OwnQueue
    <3>3. None(handlers', AcceptOf(c)) /\ One(handlers', AcceptOf(c))
      BY <1>1, <1>2, <1>4, <1>6, <1>7, <2>3, <3>1, OwnQueue
    <3>4. None(handlers', {handler("read", c)})
      BY <1>1, <1>2, <1>4, <1>6, <2>2, <2>3, <3>1, OwnQueue
    <3> QED BY <3>2, <3>3, <3>4
  <2>5. c \in reading' /\ c \in alive' /\ c \in accepted'
    BY <1>2, <1>7
  <2>6. ReaderOK(c)'
    BY <2>4, <2>5, Primed DEF ReaderOK
  <2>7. AcceptOK(c)'
    BY <2>4, <2>5, Primed DEF AcceptOK
  <2>8. LinesOK(c)'
    <3>1. executed'[c] = <<>> /\ input'[c] = <<>> /\ wire'[c] = asked'[c]
      BY <1>2, <1>7 DEF Untouched
    <3>2. wire'[c] \in Seq(LineKinds)
      BY <1>8 DEF TypeOK
    <3>3. (<<>> \o <<>>) \o wire'[c] = wire'[c]
      BY <3>2, ConcatEmptySeq
    <3> QED BY <2>5, <3>1, <3>3 DEF LinesOK
  <2> QED BY <2>6, <2>7, <2>8 DEF ConnOK
<1> QED BY <1>8, <1>9, <1>10 DEF IInv

\* What the handler of a read at the head of the queue says of its session.
LEMMA ReadRuns ==
    ASSUME IInv, handlers # <<>>, NEW c \in Connections, NEW h \in ReadOf(c), Head(handlers) = h
    PROVE  /\ c \in alive /\ c \in accepted /\ c \notin reading
           /\ h = handler("read", c) => input[c] # <<>>
           /\ None(Tail(handlers), ReadOf(c)) /\ None(Tail(handlers), AcceptOf(c))
           /\ None(Tail(handlers), {handler("read", c)})
           /\ \A d \in Connections : d # c => Foreign(h, d)
<1>1. TypeOK /\ handlers \in Seq(Handlers) /\ ConnOK(c)
  BY DEF IInv, TypeOK
<1>2. ~None(handlers, ReadOf(c)) /\ None(Tail(handlers), ReadOf(c))
  <2>1. One(handlers, ReadOf(c))
    BY <1>1 DEF ConnOK, ReaderOK
  <2> QED BY <1>1, <2>1, Popped
<1>3. c \in alive /\ c \in accepted /\ c \notin reading
  BY <1>1, <1>2 DEF ConnOK, ReaderOK, TypeOK
<1>4. h = handler("read", c) => input[c] # <<>>
  <2>1. SUFFICES ASSUME h = handler("read", c) PROVE input[c] # <<>>
    OBVIOUS
  <2>2. ~None(handlers, {handler("read", c)})
    BY <1>1, <2>1, Popped
  <2> QED BY <1>1, <2>2 DEF ConnOK, ReaderOK
<1>5. None(Tail(handlers), AcceptOf(c))
  <2>1. None(handlers, AcceptOf(c))
    BY <1>1, <1>3 DEF ConnOK, AcceptOK
  <2> QED BY <1>1, <2>1, Popped
<1>6. None(Tail(handlers), {handler("read", c)})
  BY <1>2, Members DEF None
<1>7. \A d \in Connections : d # c => Foreign(h, d)
  BY Strangers DEF ReadOf
<1> QED BY <1>2, <1>3, <1>4, <1>5, <1>6, <1>7

LEMMA RepliesAreTexts ==
    ASSUME NEW line \in LineKinds, line # "quit", NEW st
    PROVE  reply(line) \in Texts /\ guarded(st, reply(line)) \in Texts
<1>1. line \in {"login", "help", "registered", "short", "unregistered"}
  BY DEF LineKinds
<1>2. reply(line) \in Texts
  BY <1>1 DEF reply, Texts
<1>3. "please authenticate" \in Texts
  BY DEF Texts
<1> QED BY <1>2, <1>3 DEF guarded

\* A line is handled, and the next read or the next line follows.
LEMMA HandleLineKeeps ==
    ASSUME IInv, running, NEW c \in Connections, handle_line(c)
    PROVE  IInv'
<1>1. /\ TypeOK /\ handlers \in Seq(Handlers) /\ ConnOK(c)
      /\ executed \in [Connections -> Seq(LineKinds)] /\ input \in [Connections -> Seq(LineKinds)]
  BY DEF IInv, TypeOK
<1> DEFINE line == Head(input[c])
           rest == Tail(input[c])
<1>2. /\ handlers # <<>> /\ Head(handlers) = handler("read", c) /\ line # "quit"
      /\ input' = [input EXCEPT ![c] = rest]
      /\ executed' = [executed EXCEPT ![c] = Append(@, line)]
      /\ state' = state \/ state' = [state EXCEPT ![c] = "Running"]
      /\ reading' = IF rest = <<>> THEN reading \cup {c} ELSE reading
      /\ UNCHANGED <<running, accepting, alive, peer, accepted, wire, asked, hasty, stale>>
  BY DEF handle_line, runs, left_over, arm_read
<1>3. /\ c \in alive /\ c \in accepted /\ c \notin reading /\ input[c] # <<>>
      /\ None(Tail(handlers), ReadOf(c)) /\ None(Tail(handlers), AcceptOf(c))
      /\ None(Tail(handlers), {handler("read", c)})
      /\ \A d \in Connections : d # c => Foreign(handler("read", c), d)
  BY <1>2, ReadRuns, Members
<1>4. line \in LineKinds /\ rest \in Seq(LineKinds)
  BY <1>1, <1>3
<1>5. PICK more : more = next_read(c, rest)
  OBVIOUS
<1>6. /\ more \in Seq(Handlers)
      /\ rest = <<>> => more = <<>>
      /\ rest # <<>> => more = <<handler("read", c)>>
  <2>1. handler("read", c) \in Handlers
    BY Kinds
  <2> QED BY <1>5, <2>1 DEF next_read
<1>7. PICK op \in Writes(1 .. Pieces) : async_write(op, c, more)
  <2> DEFINE text == IF line = "login" THEN reply(line) ELSE guarded(state[c], reply(line))
             o == [text |-> text, left |-> Pieces]
  <2>1. text \in Texts
    BY <1>2, <1>4, RepliesAreTexts
  <2>2. async_write(o, c, more)
    BY <1>5 DEF handle_line, send, left_over
  <2> HIDE DEF text
  <2>3. o \in Writes(1 .. Pieces)
    BY <2>1, ConsoleAssumption DEF Writes
  <2> HIDE DEF o
  <2> QED BY <2>2, <2>3
<1>8. /\ writes' \in [Connections -> Seq(Writes(1 .. Pieces))]
      /\ unread' \in [Connections -> 0 .. Window]
      /\ received' \in [Connections -> Seq(Texts \X (1 .. Pieces))]
      /\ handlers' \in Seq(Handlers)
      /\ \E ws \in Seq(Handlers) : Ran(ws, more)
  BY <1>1, <1>2, <1>6, <1>7, Asynced DEF Ran
<1>9. PICK ws \in Seq(Handlers) : Ran(ws, more)
  BY <1>8
<1>10. /\ Append(executed[c], line) \in Seq(LineKinds)
       /\ Append(executed[c], line) \o rest = executed[c] \o input[c]
  BY <1>1, <1>3, LineTaken
<1> HIDE DEF line, rest
<1>11. TypeOK'
  <2>1. state' \in [Connections -> {"Initial", "PendingAuth", "Running"}]
    BY <1>1, <1>2 DEF TypeOK
  <2>2. input' \in [Connections -> Seq(LineKinds)] /\ executed' \in [Connections -> Seq(LineKinds)]
    BY <1>1, <1>2, <1>4, <1>10
  <2>3. reading' \subseteq alive
    BY <1>1, <1>2, <1>3 DEF TypeOK
  <2> QED BY <1>1, <1>2, <1>8, <2>1, <2>2, <2>3 DEF TypeOK
<1>12. ASSUME NEW d \in Connections, d # c PROVE ConnOK(d)'
  <2>1. Foreign(Head(handlers), d) /\ \A i \in DOMAIN more : Foreign(more[i], d)
    BY <1>2, <1>3, <1>6, <1>12
  <2>2. SameQueue(d)
    BY <1>1, <1>2, <1>6, <1>9, <2>1, QueueRan
  <2>3. Undisturbed(d)
    BY <1>1, <1>2, <1>12, <2>2 DEF Undisturbed
  <2> QED BY <2>3, Kept DEF IInv
<1>13. ConnOK(c)'
  <2>1. /\ ReadOf(c) \in Watched(c) /\ AcceptOf(c) \in Watched(c)
        /\ {handler("read", c)} \in Watched(c)
    BY DEF Watched
  <2>2. /\ One(more, ReadOf(c)) /\ None(more, AcceptOf(c)) /\ One(more, AcceptOf(c))
        /\ rest = <<>> => None(more, ReadOf(c)) /\ None(more, {handler("read", c)})
        /\ rest # <<>> => ~None(more, ReadOf(c))
    <3>1. CASE rest = <<>>
      BY <1>6, <3>1 DEF None, One
    <3>2. CASE rest # <<>>
      <4>1. more = <<handler("read", c)>> /\ handler("read", c) \in Handlers
        BY <1>6, <3>2, Kinds
      <4> QED BY <3>2, <4>1, Alone, Members
    <3> QED BY <3>1, <3>2
  <2>3. /\ One(handlers', ReadOf(c))
        /\ None(handlers', ReadOf(c)) <=> None(more, ReadOf(c))
    BY <1>1, <1>2, <1>3, <1>6, <1>9, <2>1, <2>2, OwnQueue
  <2>4. None(handlers', AcceptOf(c)) /\ One(handlers', AcceptOf(c))
    BY <1>1, <1>2, <1>3, <1>6, <1>9, <2>1, <2>2, OwnQueue
  <2>5. None(handlers', {handler("read", c)}) <=> None(more, {handler("read", c)})
    BY <1>1, <1>2, <1>3, <1>6, <1>9, <2>1, OwnQueue
  <2>6. /\ c \in alive' /\ c \in accepted' /\ (c \in reading' <=> rest = <<>>)
        /\ input'[c] = rest /\ executed'[c] = Append(executed[c], line)
    BY <1>1, <1>2, <1>3
  <2>7. ReaderOK(c)'
    BY <2>2, <2>3, <2>5, <2>6, Primed DEF ReaderOK
  <2>8. AcceptOK(c)'
    BY <2>4, <2>6, Primed DEF AcceptOK
  <2>9. LinesOK(c)'
    <3>1. (executed[c] \o input[c]) \o wire[c] = asked[c]
      BY <1>1, <1>3 DEF ConnOK, LinesOK
    <3>2. executed'[c] \o input'[c] = executed[c] \o input[c]
      BY <1>10, <2>6
    <3> QED BY <1>2, <2>6, <3>1, <3>2 DEF LinesOK
  <2> QED BY <2>7, <2>8, <2>9 DEF ConnOK
<1> QED BY <1>11, <1>12, <1>13 DEF IInv

\* A session ends: the writes that waited fail.
LEMMA ClosesKeeps ==
    ASSUME IInv, handlers # <<>>, NEW c \in Connections, Head(handlers) \in ReadOf(c), close(c),
           input' \in [Connections -> Seq(LineKinds)],
           executed' \in [Connections -> Seq(LineKinds)],
           \A d \in Connections : d # c => input'[d] = input[d] /\ executed'[d] = executed[d],
           IsPrefix(executed'[c], asked[c])
    PROVE  IInv'
<1>1. TypeOK /\ handlers \in Seq(Handlers)
  BY DEF IInv, TypeOK
<1>2. /\ c \in alive /\ c \in accepted /\ c \notin reading
      /\ None(Tail(handlers), ReadOf(c)) /\ None(Tail(handlers), AcceptOf(c))
      /\ None(Tail(handlers), {handler("read", c)})
      /\ \A d \in Connections : d # c => Foreign(Head(handlers), d)
  BY ReadRuns
<1>3. /\ alive' = alive \ {c} /\ writes' = [writes EXCEPT ![c] = <<>>]
      /\ UNCHANGED <<running, accepting, state, reading, peer, accepted, wire, unread,
                     asked, received, hasty, stale>>
  BY DEF close, client_vars
<1>4. PICK ws \in Seq(Handlers) : Ran(ws, <<>>)
  <2> DEFINE errs == [i \in DOMAIN writes[c] |-> handler("write error", c)]
  <2>1. errs \in Seq(Handlers)
    <3>1. writes[c] \in Seq(Writes(1 .. Pieces))
      BY <1>1 DEF TypeOK
    <3>2. DOMAIN writes[c] = 1 .. Len(writes[c]) /\ Len(writes[c]) \in Nat
      BY <3>1
    <3>3. handler("write error", c) \in Handlers
      BY Kinds
    <3>4. PICK n \in Nat, h \in Handlers : n = Len(writes[c]) /\ h = handler("write error", c)
      BY <3>2, <3>3
    <3>5. [i \in 1 .. n |-> h] \in Seq(Handlers)
      OBVIOUS
    <3> QED BY <3>2, <3>4, <3>5
  <2>2. \A i \in DOMAIN errs, d \in Connections : Foreign(errs[i], d)
    BY Strangers
  <2>3. handlers' = Tail(handlers) \o errs
    BY DEF close
  <2> HIDE DEF errs
  <2>4. errs \o <<>> = errs
    BY <2>1, ConcatEmptySeq
  <2>5. Ran(errs, <<>>)
    BY <2>2, <2>3, <2>4 DEF Ran
  <2> QED BY <2>1, <2>5
<1>5. <<>> \in Seq(Handlers) /\ DOMAIN <<>> = {} /\ \A S : None(<<>>, S) /\ One(<<>>, S)
  BY EmptySeq DEF None, One
<1>6. handlers' \in Seq(Handlers)
  <2>1. ws \o <<>> \in Seq(Handlers) /\ Tail(handlers) \in Seq(Handlers)
    BY <1>1, <1>5, Popped, ConcatProperties
  <2> QED BY <1>4, <2>1, ConcatProperties DEF Ran
<1>7. TypeOK'
  <2>1. writes' \in [Connections -> Seq(Writes(1 .. Pieces))]
    BY <1>1, <1>3 DEF TypeOK
  <2>2. alive' \subseteq accepted /\ reading \subseteq alive'
    BY <1>1, <1>2, <1>3 DEF TypeOK
  <2> QED BY <1>1, <1>3, <1>6, <2>1, <2>2 DEF TypeOK
<1>8. ASSUME NEW d \in Connections, d # c PROVE ConnOK(d)'
  <2>1. SameQueue(d)
    BY <1>1, <1>2, <1>4, <1>5, <1>8, QueueRan
  <2>2. Undisturbed(d)
    BY <1>3, <1>8, <2>1 DEF Undisturbed
  <2> QED BY <2>2, Kept DEF IInv
<1>9. ConnOK(c)'
  <2>1. /\ ReadOf(c) \in Watched(c) /\ AcceptOf(c) \in Watched(c)
        /\ {handler("read", c)} \in Watched(c)
    BY DEF Watched
  <2>2. None(handlers', ReadOf(c)) /\ One(handlers', ReadOf(c))
    BY <1>1, <1>2, <1>4, <1>5, <2>1, OwnQueue
  <2>3. None(handlers', AcceptOf(c)) /\ One(handlers', AcceptOf(c))
    BY <1>1, <1>2, <1>4, <1>5, <2>1, OwnQueue
  <2>4. None(handlers', {handler("read", c)})
    BY <1>1, <1>2, <1>4, <1>5, <2>1, OwnQueue
  <2>5. c \notin alive' /\ c \in accepted' /\ asked' = asked
    BY <1>2, <1>3
  <2>6. ReaderOK(c)'
    BY <2>2, <2>4, <2>5, Primed DEF ReaderOK
  <2>7. AcceptOK(c)'
    BY <2>3, <2>5, Primed DEF AcceptOK
  <2>8. LinesOK(c)'
    BY <2>5 DEF LinesOK
  <2> QED BY <2>6, <2>7, <2>8 DEF ConnOK
<1> QED BY <1>7, <1>8, <1>9 DEF IInv

LEMMA PrefixSplit ==
    ASSUME NEW L, NEW x \in Seq(L), NEW y \in Seq(L), NEW z \in Seq(L)
    PROVE  IsPrefix(x, (x \o y) \o z)
<1>1. PICK t \in Seq(L) : t = y \o z
  BY ConcatProperties
<1>2. (x \o y) \o z = x \o (y \o z)
  BY ConcatAssociative
<1>3. IsPrefix(x, x \o t)
  BY PrefixOfConcat
<1> QED BY <1>1, <1>2, <1>3

\* Of the lines that were sent, those after a quit are dropped.
LEMMA HandleQuitKeeps ==
    ASSUME IInv, NEW c \in Connections, handle_quit(c)
    PROVE  IInv'
<1>1. /\ TypeOK /\ ConnOK(c)
      /\ executed \in [Connections -> Seq(LineKinds)] /\ input \in [Connections -> Seq(LineKinds)]
      /\ wire \in [Connections -> Seq(LineKinds)]
  BY DEF IInv, TypeOK
<1>2. /\ handlers # <<>> /\ Head(handlers) = handler("read", c) /\ Head(input[c]) = "quit"
      /\ input' = [input EXCEPT ![c] = <<>>]
      /\ executed' = [executed EXCEPT ![c] = Append(@, "quit")]
      /\ close(c)
  BY DEF handle_quit, runs
<1>3. Head(handlers) \in ReadOf(c) /\ c \in alive /\ input[c] # <<>>
  BY <1>2, ReadRuns, Members
<1> DEFINE rest == Tail(input[c])
           done == Append(executed[c], "quit")
<1>4. rest \in Seq(LineKinds) /\ done \in Seq(LineKinds) /\ done \o rest = executed[c] \o input[c]
  BY <1>1, <1>2, <1>3, LineTaken
<1>5. executed' = [executed EXCEPT ![c] = done]
  BY <1>2
<1> HIDE DEF rest, done
<1>6. input' \in [Connections -> Seq(LineKinds)] /\ executed' \in [Connections -> Seq(LineKinds)]
  BY <1>1, <1>2, <1>4, <1>5
<1>7. \A d \in Connections : d # c => input'[d] = input[d] /\ executed'[d] = executed[d]
  BY <1>1, <1>2, <1>5
<1>8. IsPrefix(done, asked[c])
  <2>1. (executed[c] \o input[c]) \o wire[c] = asked[c]
    BY <1>1, <1>3 DEF ConnOK, LinesOK
  <2>2. (done \o rest) \o wire[c] = asked[c]
    BY <1>4, <2>1
  <2>3. IsPrefix(done, (done \o rest) \o wire[c])
    BY <1>1, <1>4, PrefixSplit
  <2> QED BY <2>2, <2>3
<1>9. executed'[c] = done
  BY <1>1, <1>5
<1> QED BY <1>2, <1>3, <1>6, <1>7, <1>8, <1>9, ClosesKeeps

LEMMA HandleReadErrorKeeps ==
    ASSUME IInv, NEW c \in Connections, handle_read_error(c)
    PROVE  IInv'
<1>1. /\ ConnOK(c)
      /\ executed \in [Connections -> Seq(LineKinds)] /\ input \in [Connections -> Seq(LineKinds)]
      /\ wire \in [Connections -> Seq(LineKinds)]
  BY DEF IInv, TypeOK
<1>2. /\ handlers # <<>> /\ Head(handlers) = handler("read error", c)
      /\ input' = input /\ executed' = executed /\ close(c)
  BY DEF handle_read_error, runs
<1>3. Head(handlers) \in ReadOf(c) /\ c \in alive
  BY <1>2, ReadRuns, Members
<1>4. IsPrefix(executed[c], asked[c])
  <2>1. (executed[c] \o input[c]) \o wire[c] = asked[c]
    BY <1>1, <1>3 DEF ConnOK, LinesOK
  <2>2. IsPrefix(executed[c], (executed[c] \o input[c]) \o wire[c])
    BY <1>1, PrefixSplit
  <2> QED BY <2>1, <2>2
<1> QED BY <1>1, <1>2, <1>3, <1>4, ClosesKeeps

\* The program ends.
LEMMA StartThrowsKeeps ==
    ASSUME IInv, start_throws
    PROVE  IInv'
<1>1. /\ running' = FALSE /\ handlers' = <<>>
      /\ UNCHANGED <<accepting, session_vars, client_vars, ghosts>>
  BY DEF start_throws
<1>2. <<>> \in Seq(Handlers)
  BY EmptySeq
<1>3. TypeOK'
  BY <1>1, <1>2 DEF IInv, TypeOK, session_vars, client_vars, ghosts
<1>4. \A S : None(handlers', S) /\ One(handlers', S)
  BY <1>1 DEF None, One
<1>5. ASSUME NEW c \in Connections PROVE ConnOK(c)'
  <2>1. ReaderOK(c)'
    BY <1>1, <1>4, Primed DEF ReaderOK
  <2>2. AcceptOK(c)'
    BY <1>1, <1>4, Primed DEF IInv, ConnOK, AcceptOK, Untouched, session_vars, client_vars, ghosts
  <2>3. LinesOK(c)'
    BY <1>1 DEF IInv, ConnOK, LinesOK, session_vars, client_vars, ghosts
  <2> QED BY <2>1, <2>2, <2>3 DEF ConnOK
<1> QED BY <1>3, <1>5 DEF IInv

\* The handler of a write says nothing of the session.
LEMMA WriteRuns ==
    ASSUME NEW h \in Handlers, h.kind = "write"
    PROVE  /\ h.op \in Writes(0 .. Pieces)
           /\ \A d \in Connections : Foreign(h, d)
<1>1. h \in [kind : {"write"}, conn : Connections, op : Writes(0 .. Pieces)]
  <2>1. \A g \in [kind : {"accept", "read", "read error", "write error"}, conn : Connections] :
          g.kind # "write"
    OBVIOUS
  <2>2. [kind |-> "accept error"].kind # "write"
    OBVIOUS
  <2> QED BY <2>1, <2>2 DEF Handlers
<1>2. ASSUME NEW d \in Connections PROVE Foreign(h, d)
  <2>1. /\ handler("read", d).kind = "read" /\ handler("read error", d).kind = "read error"
        /\ handler("accept", d).kind = "accept"
    BY DEF handler
  <2>2. h # handler("read", d) /\ h # handler("read error", d) /\ h # handler("accept", d)
    BY <2>1
  <2> QED BY <2>2 DEF Foreign, Watched, ReadOf, AcceptOf
<1> QED BY <1>1, <1>2

\* A step of async_write, whose session may be gone.
LEMMA WriteGoesOnKeeps ==
    ASSUME IInv, NEW c \in Connections, write_goes_on(c)
    PROVE  IInv'
<1>1. TypeOK /\ handlers \in Seq(Handlers)
  BY DEF IInv, TypeOK
<1> DEFINE op == Head(handlers).op
<1>2. /\ handlers # <<>> /\ Head(handlers).kind = "write" /\ op.left > 0
      /\ stale' = stale \/ stale' = stale \cup {c}
      /\ \/ async_write(op, c, <<>>)
         \/ handlers' = Tail(handlers) /\ UNCHANGED <<writes, unread, received>>
      /\ UNCHANGED <<running, accepting, alive, state, reading, input, peer, accepted,
                     wire, asked, executed, hasty>>
  BY DEF write_goes_on, touches
<1>3. Head(handlers) \in Handlers /\ Tail(handlers) \in Seq(Handlers)
  BY <1>1, <1>2, Popped
<1>4. op \in Writes(0 .. Pieces) /\ \A d \in Connections : Foreign(Head(handlers), d)
  BY <1>2, <1>3, WriteRuns
<1> HIDE DEF op
<1>5. op \in Writes(1 .. Pieces)
  <2>1. op.left \in 1 .. Pieces
    BY <1>2, <1>4, ConsoleAssumption DEF Writes
  <2> QED BY <1>4, <2>1 DEF Writes
<1>6. <<>> \in Seq(Handlers) /\ DOMAIN <<>> = {} /\ <<>> \o <<>> = <<>>
  BY EmptySeq, ConcatEmptySeq
<1>7. /\ writes' \in [Connections -> Seq(Writes(1 .. Pieces))]
      /\ unread' \in [Connections -> 0 .. Window]
      /\ received' \in [Connections -> Seq(Texts \X (1 .. Pieces))]
      /\ handlers' \in Seq(Handlers)
      /\ \E ws \in Seq(Handlers) : Ran(ws, <<>>)
  <2>1. CASE async_write(op, c, <<>>)
    BY <1>1, <1>2, <1>5, <1>6, <2>1, Asynced DEF Ran
  <2>2. CASE handlers' = Tail(handlers) /\ UNCHANGED <<writes, unread, received>>
    <3>1. Tail(handlers) \o (<<>> \o <<>>) = Tail(handlers)
      BY <1>3, <1>6, ConcatEmptySeq
    <3>2. Ran(<<>>, <<>>)
      BY <1>6, <2>2, <3>1 DEF Ran
    <3> QED BY <1>1, <1>3, <1>6, <2>2, <3>2 DEF TypeOK
  <2> QED BY <1>2, <2>1, <2>2
<1>8. PICK ws \in Seq(Handlers) : Ran(ws, <<>>)
  BY <1>7
<1>9. TypeOK'
  BY <1>1, <1>2, <1>7 DEF TypeOK
<1>10. \A d \in Connections : SameQueue(d)
  BY <1>1, <1>2, <1>4, <1>6, <1>8, QueueRan
<1>11. \A d \in Connections : ConnOK(d)'
  BY <1>2, <1>10, Still
<1> QED BY <1>9, <1>11 DEF IInv

LEMMA HandleWriteKeeps ==
    ASSUME IInv, NEW c \in Connections, handle_write(c)
    PROVE  IInv'
<1>1. TypeOK /\ handlers \in Seq(Handlers)
  BY DEF IInv, TypeOK
<1>2. /\ handlers # <<>> /\ handlers' = Tail(handlers)
      /\ Head(handlers) = handler("write error", c) \/ Head(handlers).kind = "write"
      /\ stale' = stale \/ stale' = stale \cup {c}
      /\ UNCHANGED <<running, accepting, session_vars, client_vars, asked, executed,
                     received, hasty>>
  BY DEF handle_write, touches, runs
<1>3. Head(handlers) \in Handlers /\ Tail(handlers) \in Seq(Handlers)
  BY <1>1, <1>2, Popped
<1>4. \A d \in Connections : Foreign(Head(handlers), d)
  BY <1>2, <1>3, WriteRuns, Strangers
<1>5. Ran(<<>>, <<>>) /\ <<>> \in Seq(Handlers) /\ DOMAIN <<>> = {}
  <2>1. <<>> \in Seq(Handlers) /\ DOMAIN <<>> = {} /\ <<>> \o <<>> = <<>>
    BY EmptySeq, ConcatEmptySeq
  <2>2. Tail(handlers) \o (<<>> \o <<>>) = Tail(handlers)
    BY <1>3, <2>1, ConcatEmptySeq
  <2> QED BY <1>2, <2>1, <2>2 DEF Ran
<1>6. TypeOK'
  BY <1>1, <1>2, <1>3 DEF TypeOK, session_vars, client_vars
<1>7. \A d \in Connections : SameQueue(d)
  BY <1>1, <1>2, <1>4, <1>5, QueueRan
<1>8. \A d \in Connections : ConnOK(d)'
  BY <1>2, <1>7, Still DEF session_vars, client_vars
<1> QED BY <1>6, <1>8 DEF IInv

LEMMA NextInv == IInv /\ [Next]_vars => IInv'
<1> SUFFICES ASSUME IInv, [Next]_vars PROVE IInv'
  OBVIOUS
<1>1. ASSUME NEW c \in Connections,
             Outside(client_connects(c) \/ client_sends(c) \/ client_reads(c) \/ client_leaves(c))
      PROVE  IInv'
  <2>1. \/ Outside(client_sends(c))
        \/ Outside(client_connects(c) \/ client_reads(c) \/ client_leaves(c))
    BY <1>1 DEF Outside
  <2> QED BY <2>1, SendsKeeps, ClientKeeps
<1>2. CASE Outside(accept_completes \/ accept_fails)
  <2>1. Outside(accept_completes) \/ Outside(accept_fails)
    BY <1>2 DEF Outside
  <2> QED BY <2>1, AcceptCompletesKeeps, AcceptFailsKeeps
<1>3. ASSUME NEW c \in Connections, Outside(read_completes(c) \/ write_completes(c))
      PROVE  IInv'
  <2>1. Outside(read_completes(c)) \/ Outside(write_completes(c))
    BY <1>3 DEF Outside
  <2> QED BY <2>1, ReadCompletesKeeps, WriteCompletesKeeps
<1>4. CASE running /\ HandlerStep
  <2>1. ASSUME NEW c \in Connections,
               \/ handle_accept(c) \/ handle_line(c) \/ handle_quit(c)
               \/ handle_read_error(c) \/ write_goes_on(c) \/ handle_write(c)
        PROVE  IInv'
    BY <1>4, <2>1, HandleAcceptKeeps, HandleLineKeeps, HandleQuitKeeps, HandleReadErrorKeeps,
       WriteGoesOnKeeps, HandleWriteKeeps
  <2> QED BY <1>4, <2>1, StartThrowsKeeps DEF HandlerStep
<1>5. CASE UNCHANGED vars
  <2>1. TypeOK'
    BY <1>5 DEF IInv, TypeOK, vars, session_vars, client_vars, ghosts
  <2>2. \A c \in Connections : ConnOK(c)'
    BY <1>5, Still, SameHandlers DEF vars, session_vars, client_vars, ghosts
  <2> QED BY <2>1, <2>2 DEF IInv
<1> QED BY <1>1, <1>2, <1>3, <1>4, <1>5 DEF Next, Outside

-----------------------------------------------------------------------------
(***************************************************************************)
(* The replies: what a client that waits for them has been sent.           *)
(***************************************************************************)
\* A write of a connection that is under way: it waits for the socket, or its
\* next step is in the queue.
GoesOn(c) == {write_handler(op, c) : op \in Writes(1 .. Pieces)}
Idle(c) == writes[c] = <<>> /\ None(handlers, GoesOn(c))
Under(c, op) ==
    \/ writes[c] = <<op>> /\ None(handlers, GoesOn(c))
    \/ writes[c] = <<>> /\ One(handlers, GoesOn(c)) /\ ~None(handlers, {write_handler(op, c)})

\* What a client has read are the first pieces of the replies to lines.
ToldBy(rec, lines) ==
    /\ Len(rec) <= due(lines)
    /\ \A k \in DOMAIN rec : rec[k] = replies(lines)[k]
Told(c) == ToldBy(received[c], executed[c])

\* The last reply to lines is being written, or all of them are.
Pending(c, lines) ==
    \E op \in Writes(1 .. Pieces) :
        /\ Under(c, op)
        /\ op.text = nth_text(lines, Len(lines))
        /\ Len(received[c]) = due(lines) - op.left
Finished(c, lines) == Idle(c) /\ Len(received[c]) = due(lines)

NoQuit(lines) == answerable(lines) = DOMAIN lines
Stays(c) == peer[c] \in {"away", "open"}
\* The lines that have not been handled, up to the n-th, are quits.
QuitsTo(c, n) == \A i \in DOMAIN asked[c] : i > Len(executed[c]) /\ i <= n => asked[c][i] = "quit"

(***************************************************************************)
(* Where the connection of a client that waits for its replies stands: its *)
(* session has not started; it is owed a reply to its last line; that line *)
(* is to be handled, with nothing but quits before it; it has all replies, *)
(* and sent nothing but quits since; its session has ended.                *)
(***************************************************************************)
Unstarted(c) ==
    c \notin alive /\ Stays(c) /\ Idle(c) /\ asked[c] = <<>> /\ received[c] = <<>>
Owed(c) == c \in alive /\ Stays(c) /\ executed[c] = asked[c] /\ Pending(c, asked[c])
Waiting(c) ==
    /\ c \in alive /\ Stays(c) /\ Finished(c, executed[c])
    /\ Len(executed[c]) < Len(asked[c])
    /\ asked[c][Len(asked[c])] # "quit" /\ QuitsTo(c, Len(asked[c]) - 1)
Settled(c) == c \in alive /\ Finished(c, executed[c]) /\ QuitsTo(c, Len(asked[c]))
Ended(c) == c \notin alive /\ c \in accepted /\ None(handlers, AcceptOf(c)) /\ Idle(c)

ErrorOf(c) == {handler("write error", c)}
LossOf(c) == {handler("read error", c)}
SessionOK(c) ==
    /\ None(handlers, ErrorOf(c))
    /\ Stays(c) => None(handlers, LossOf(c))
    /\ c \in alive => state[c] = "Running" /\ NoQuit(executed[c])
    /\ Unstarted(c) \/ Owed(c) \/ Waiting(c) \/ Settled(c) \/ Ended(c)

ReplyInv ==
    /\ stale \subseteq hasty
    /\ \A c \in Connections \ hasty : Told(c) /\ (running => SessionOK(c))

-----------------------------------------------------------------------------
LEMMA PiecesNat == Pieces \in Nat \ {0} /\ Window \in Nat \ {0}
BY ConsoleAssumption

LEMMA DueType ==
    ASSUME NEW lines \in Seq(LineKinds)
    PROVE  /\ IsFiniteSet(answerable(lines)) /\ Cardinality(answerable(lines)) \in 0 .. Len(lines)
           /\ due(lines) \in Nat /\ due(lines) >= Pieces
           /\ NoQuit(lines) => due(lines) = Pieces * (Len(lines) + 1)
<1>1. DOMAIN lines = 1 .. Len(lines) /\ Len(lines) \in Nat
  OBVIOUS
<1>2. answerable(lines) \subseteq 1 .. Len(lines)
  BY <1>1 DEF answerable
<1>3. IsFiniteSet(1 .. Len(lines)) /\ Cardinality(1 .. Len(lines)) = Len(lines)
  BY <1>1, FS_Interval
<1>4. IsFiniteSet(answerable(lines)) /\ Cardinality(answerable(lines)) <= Len(lines)
  BY <1>2, <1>3, FS_Subset
<1>5. Cardinality(answerable(lines)) \in Nat
  BY <1>4, FS_CardinalityType
<1>6. PICK n \in Nat : n = Cardinality(answerable(lines))
  BY <1>5
<1>7. due(lines) = Pieces * (n + 1)
  BY <1>6 DEF due
<1>8. Pieces * (n + 1) \in Nat /\ Pieces * (n + 1) >= Pieces
  BY PiecesNat
<1>9. NoQuit(lines) => n = Len(lines)
  BY <1>1, <1>3, <1>6 DEF NoQuit
<1>10. Cardinality(answerable(lines)) \in 0 .. Len(lines)
  BY <1>1, <1>4, <1>5
<1>11. due(lines) \in Nat /\ due(lines) >= Pieces
  BY <1>7, <1>8
<1>12. NoQuit(lines) => due(lines) = Pieces * (Len(lines) + 1)
  BY <1>7, <1>9
<1> QED BY <1>4, <1>10, <1>11, <1>12

LEMMA DueAppended ==
    ASSUME NEW lines \in Seq(LineKinds), NEW l \in LineKinds
    PROVE  /\ l = "quit" => due(Append(lines, l)) = due(lines)
           /\ l # "quit" => due(Append(lines, l)) = due(lines) + Pieces
           /\ NoQuit(lines) /\ l # "quit" => NoQuit(Append(lines, l))
           /\ \A i \in 0 .. Len(lines) : nth_text(Append(lines, l), i) = nth_text(lines, i)
<1>1. /\ DOMAIN lines = 1 .. Len(lines) /\ Len(lines) \in Nat
      /\ DOMAIN Append(lines, l) = 1 .. Len(lines) + 1
      /\ \A i \in 1 .. Len(lines) : Append(lines, l)[i] = lines[i]
      /\ Append(lines, l)[Len(lines) + 1] = l
  OBVIOUS
<1>2. answerable(lines) \subseteq 1 .. Len(lines)
  BY <1>1 DEF answerable
<1>3. Len(lines) + 1 \notin answerable(lines)
  BY <1>1, <1>2
<1>4. l = "quit" => answerable(Append(lines, l)) = answerable(lines)
  BY <1>1 DEF answerable
<1>5. l # "quit" => answerable(Append(lines, l)) = answerable(lines) \cup {Len(lines) + 1}
  BY <1>1 DEF answerable
<1>6. PICK n \in Nat : n = Cardinality(answerable(lines))
  BY DueType
<1>7. l # "quit" => Cardinality(answerable(Append(lines, l))) = n + 1
  BY <1>3, <1>5, <1>6, DueType, FS_AddElement
<1>8. Pieces * (n + 1 + 1) = Pieces * (n + 1) + Pieces
  BY PiecesNat
<1>9. l = "quit" => due(Append(lines, l)) = due(lines)
  BY <1>4 DEF due
<1>10. l # "quit" => due(Append(lines, l)) = due(lines) + Pieces
  BY <1>6, <1>7, <1>8 DEF due
<1>11. NoQuit(lines) /\ l # "quit" => NoQuit(Append(lines, l))
  <2>1. 1 .. Len(lines) + 1 = (1 .. Len(lines)) \cup {Len(lines) + 1}
    BY <1>1
  <2> QED BY <1>1, <1>5, <2>1 DEF NoQuit
<1>12. \A i \in 0 .. Len(lines) : nth_text(Append(lines, l), i) = nth_text(lines, i)
  BY <1>1 DEF nth_text
<1> QED BY <1>9, <1>10, <1>11, <1>12

LEMMA Place ==
    ASSUME NEW P \in Nat \ {0}, NEW n \in Nat, NEW j \in 0 .. P - 1
    PROVE  (P * n + j) \div P = n /\ (P * n + j) % P = j
<1>1. P * n \in Nat
  OBVIOUS
<1> QED BY <1>1

LEMMA Quotient ==
    ASSUME NEW P \in Nat \ {0}, NEW n \in Nat, NEW x \in Nat, x < P * n
    PROVE  x \div P \in 0 .. n - 1
OBVIOUS

\* What a client was told stays right when another line is handled.
LEMMA StaysTold ==
    ASSUME NEW lines \in Seq(LineKinds), NoQuit(lines), NEW l \in LineKinds,
           NEW rec \in Seq(Texts \X (1 .. Pieces)), ToldBy(rec, lines)
    PROVE  ToldBy(rec, Append(lines, l))
<1>1. /\ due(lines) \in Nat /\ due(lines) = Pieces * (Len(lines) + 1) /\ Len(lines) \in Nat
      /\ Len(rec) \in Nat /\ Len(rec) <= due(lines) /\ DOMAIN rec = 1 .. Len(rec)
  BY DueType DEF ToldBy
<1>2. due(Append(lines, l)) \in Nat /\ due(lines) <= due(Append(lines, l))
  BY <1>1, DueAppended, PiecesNat
<1>3. ASSUME NEW k \in DOMAIN rec PROVE rec[k] = replies(Append(lines, l))[k]
  <2>1. k \in Nat /\ k \in 1 .. due(lines) /\ k \in 1 .. due(Append(lines, l))
    BY <1>1, <1>2
  <2>2. k - 1 \in Nat /\ k - 1 < Pieces * (Len(lines) + 1) /\ Len(lines) + 1 \in Nat
    BY <1>1, <2>1
  <2>3. (k - 1) \div Pieces \in 0 .. Len(lines)
    <3>1. (k - 1) \div Pieces \in 0 .. (Len(lines) + 1) - 1
      BY <2>2, Quotient, PiecesNat
    <3> QED BY <1>1, <3>1
  <2>4. nth_text(Append(lines, l), (k - 1) \div Pieces) = nth_text(lines, (k - 1) \div Pieces)
    BY <2>3, DueAppended
  <2>5. replies(Append(lines, l))[k] = replies(lines)[k]
    BY <2>1, <2>4 DEF replies
  <2> QED BY <2>5 DEF ToldBy
<1> QED BY <1>1, <1>2, <1>3 DEF ToldBy

\* The pieces of the last reply, as the socket takes them.
ToldMore(rec, lines, text, left, n) ==
    LET new == rec \o SubSeq(parts(text), Pieces - left + 1, Pieces - left + n)
    IN  ToldBy(new, lines) /\ Len(new) = due(lines) - (left - n)

LEMMA MoreTold ==
    ASSUME NEW lines \in Seq(LineKinds), NoQuit(lines), NEW text \in Texts, NEW left \in 1 .. Pieces,
           text = nth_text(lines, Len(lines)),
           NEW rec \in Seq(Texts \X (1 .. Pieces)), ToldBy(rec, lines),
           Len(rec) = due(lines) - left,
           NEW n \in Nat, n <= left
    PROVE  ToldMore(rec, lines, text, left, n)
<1>1. /\ Pieces \in Nat \ {0} /\ left \in Nat /\ left >= 1 /\ left <= Pieces
      /\ due(lines) \in Nat /\ Len(lines) \in Nat
      /\ Len(rec) \in Nat /\ Len(rec) = due(lines) - left
  BY DueType, PiecesNat
<1>2. PICK done \in 0 .. Pieces - 1 : done = Pieces - left
  BY <1>1
<1> DEFINE more == SubSeq(parts(text), done + 1, done + n)
           Piece == Texts \X (1 .. Pieces)
<1>3. done \in Nat /\ done + n <= Pieces /\ \A i \in done + 1 .. done + n : i \in 1 .. Pieces
  BY <1>1, <1>2
<1>4. \A i \in done + 1 .. done + n : parts(text)[i] = <<text, i>> /\ parts(text)[i] \in Piece
  BY <1>1, <1>3 DEF parts
<1>5. /\ more \in Seq(Piece) /\ Len(more) = n
      /\ \A i \in 1 .. n : more[i] = parts(text)[done + i]
  <2> HIDE DEF Piece
  <2>1. more \in Seq(Piece)
    BY <1>3, <1>4, SubSeqProperties
  <2>2. Len(more) = IF done + 1 <= done + n THEN (done + n) - (done + 1) + 1 ELSE 0
    BY <1>3, <1>4, SubSeqProperties
  <2>3. Len(more) = n
    BY <1>3, <2>2
  <2>4. \A i \in 1 .. Len(more) : more[i] = parts(text)[(done + 1) + i - 1]
    BY <1>3, <1>4, SubSeqProperties
  <2>5. \A i \in 1 .. n : (done + 1) + i - 1 = done + i
    BY <1>3
  <2> QED BY <2>1, <2>3, <2>4, <2>5
<1>6. PICK new : new = rec \o more /\ rec \in Seq(Piece)
  OBVIOUS
<1>7. PICK m \in Seq(Piece) : m = more
  BY <1>5
<1>8. Len(m) = n /\ \A i \in 1 .. n : m[i] = <<text, done + i>>
  <2>1. \A i \in 1 .. n : done + i \in done + 1 .. done + n
    BY <1>3
  <2> QED BY <1>4, <1>5, <1>7, <2>1
<1>9. new = rec \o m
  BY <1>6, <1>7
<1> HIDE DEF more, Piece
<1>10. /\ Len(new) = Len(rec) + n /\ DOMAIN new = 1 .. Len(rec) + n
       /\ \A k \in 1 .. Len(rec) : new[k] = rec[k]
       /\ \A k \in 1 .. Len(rec) + n : k > Len(rec) => new[k] = m[k - Len(rec)]
  <2>1. /\ rec \o m \in Seq(Piece) /\ Len(rec \o m) = Len(rec) + Len(m)
        /\ \A i \in 1 .. Len(rec) + Len(m) :
             (rec \o m)[i] = IF i <= Len(rec) THEN rec[i] ELSE m[i - Len(rec)]
    BY <1>6, ConcatProperties
  <2>2. /\ new \in Seq(Piece) /\ Len(new) = Len(rec) + n
        /\ \A i \in 1 .. Len(rec) + n : new[i] = IF i <= Len(rec) THEN rec[i] ELSE m[i - Len(rec)]
    BY <1>8, <1>9, <2>1
  <2>3. DOMAIN new = 1 .. Len(rec) + n
    BY <2>2
  <2>4. ASSUME NEW k \in 1 .. Len(rec)
        PROVE  new[k] = rec[k]
    <3>1. k \in 1 .. Len(rec) + n /\ k <= Len(rec)
      BY <1>1
    <3> QED BY <2>2, <3>1
  <2>5. ASSUME NEW k \in 1 .. Len(rec) + n, k > Len(rec)
        PROVE  new[k] = m[k - Len(rec)]
    <3>1. ~(k <= Len(rec))
      BY <1>1, <2>5
    <3> QED BY <2>2, <3>1
  <2> QED BY <2>2, <2>3, <2>4, <2>5
<1>11. ASSUME NEW k \in 1 .. Len(rec) + n, k > Len(rec)
       PROVE  new[k] = replies(lines)[k]
  <2>1. PICK i \in 1 .. n : i = k - Len(rec)
    BY <1>1, <1>11
  <2>2. new[k] = <<text, done + i>>
    BY <1>8, <1>10, <1>11, <2>1
  <2>3. k \in 1 .. due(lines)
    BY <1>1, <1>11
  <2>4. done + i - 1 \in 0 .. Pieces - 1
    <3>1. PICK p \in Nat : p = Pieces
      BY <1>1
    <3>2. i \in Nat /\ i >= 1 /\ i <= n /\ done + n <= p
      BY <1>3, <2>1, <3>1
    <3>3. done + i - 1 \in 0 .. p - 1
      BY <1>3, <3>2
    <3> QED BY <3>1, <3>3
  <2>5. k - 1 = Pieces * Len(lines) + (done + i - 1)
    <3>1. due(lines) = Pieces * (Len(lines) + 1)
      BY DueType
    <3>2. PICK x \in Nat : x = Pieces * Len(lines)
      BY <1>1
    <3>3. due(lines) = x + Pieces
      BY <1>1, <3>1, <3>2
    <3>4. k - 1 = x + (done + i - 1)
      BY <1>1, <1>2, <2>1, <3>3
    <3> QED BY <3>2, <3>4
  <2>6. (k - 1) \div Pieces = Len(lines) /\ (k - 1) % Pieces = done + i - 1
    <3>1. PICK j \in 0 .. Pieces - 1 : j = done + i - 1
      BY <2>4
    <3>2. (Pieces * Len(lines) + j) \div Pieces = Len(lines) /\ (Pieces * Len(lines) + j) % Pieces = j
      BY <1>1, Place
    <3> QED BY <2>5, <3>1, <3>2
  <2>7. ((k - 1) % Pieces) + 1 = done + i
    BY <1>3, <2>1, <2>6
  <2>8. replies(lines)[k] = <<text, done + i>>
    BY <2>3, <2>6, <2>7 DEF replies
  <2> QED BY <2>2, <2>8
<1>12. ASSUME NEW k \in DOMAIN new PROVE new[k] = replies(lines)[k]
  <2>1. CASE k <= Len(rec)
    <3>1. k \in 1 .. Len(rec) /\ DOMAIN rec = 1 .. Len(rec)
      BY <1>1, <1>10, <1>12, <2>1
    <3> QED BY <1>10, <3>1 DEF ToldBy
  <2>2. CASE k > Len(rec)
    <3>1. k \in 1 .. Len(rec) + n
      BY <1>10, <1>12
    <3>2. \A j \in 1 .. Len(rec) + n : j > Len(rec) => new[j] = replies(lines)[j]
      BY <1>11
    <3> QED BY <2>2, <3>1, <3>2
  <2>3. k \in 1 .. Len(rec) + n
    BY <1>10, <1>12
  <2>4. k <= Len(rec) \/ k > Len(rec)
    BY <1>1, <2>3
  <2> QED BY <2>1, <2>2, <2>4
<1>13. Len(new) = due(lines) - (left - n) /\ Len(new) <= due(lines)
  BY <1>1, <1>10
<1>14. ToldBy(new, lines) /\ Len(new) = due(lines) - (left - n)
  BY <1>12, <1>13 DEF ToldBy
<1>15. new = rec \o SubSeq(parts(text), Pieces - left + 1, Pieces - left + n)
  BY <1>2, <1>6 DEF more
<1> QED BY <1>14, <1>15 DEF ToldMore

\* A line that is answered and not yet handled leaves a reply to come.
LEMMA MoreDue ==
    ASSUME NEW x \in Seq(LineKinds), NEW a \in Seq(LineKinds), Len(x) < Len(a),
           \A i \in 1 .. Len(x) : a[i] = x[i], a[Len(a)] # "quit"
    PROVE  due(x) < due(a)
<1>1. /\ Len(x) \in Nat /\ Len(a) \in Nat \ {0}
      /\ DOMAIN x = 1 .. Len(x) /\ DOMAIN a = 1 .. Len(a)
  OBVIOUS
<1>2. answerable(x) \cup {Len(a)} \subseteq answerable(a) /\ Len(a) \notin answerable(x)
  BY <1>1 DEF answerable
<1>3. PICK n \in Nat : n = Cardinality(answerable(x))
  BY DueType
<1>4. PICK m \in Nat : m = Cardinality(answerable(a))
  BY DueType
<1>5. IsFiniteSet(answerable(x)) /\ IsFiniteSet(answerable(a))
  BY DueType
<1>6. Cardinality(answerable(x) \cup {Len(a)}) = n + 1
  BY <1>2, <1>3, <1>5, FS_AddElement
<1>7. n + 1 <= m
  BY <1>2, <1>4, <1>5, <1>6, FS_Subset
<1>8. PICK k \in Nat : m = n + 1 + k
  BY <1>7
<1>9. Pieces * (m + 1) = Pieces * (n + 1) + Pieces + Pieces * k
  BY <1>8, PiecesNat
<1>10. Pieces * (n + 1) \in Nat /\ Pieces * k \in Nat
  BY PiecesNat
<1>11. due(x) = Pieces * (n + 1) /\ due(a) = Pieces * (m + 1)
  BY <1>3, <1>4 DEF due
<1> QED BY <1>9, <1>10, <1>11, PiecesNat

\* The lines that were sent, and those of them that were handled.
LEMMA LinesOf ==
    ASSUME IInv, NEW c \in Connections, c \in alive
    PROVE  /\ Len(executed[c]) + Len(input[c]) <= Len(asked[c]) /\ Len(executed[c]) <= Len(asked[c])
           /\ \A i \in 1 .. Len(executed[c]) : asked[c][i] = executed[c][i]
           /\ input[c] # <<>> => asked[c][Len(executed[c]) + 1] = Head(input[c])
<1>1. PICK x \in Seq(LineKinds), y \in Seq(LineKinds), z \in Seq(LineKinds) :
        x = executed[c] /\ y = input[c] /\ z = wire[c]
  BY DEF IInv, TypeOK
<1>2. asked[c] = (x \o y) \o z
  BY <1>1 DEF IInv, ConnOK, LinesOK
<1>3. PICK v \in Seq(LineKinds) :
        /\ v = x \o y /\ Len(v) = Len(x) + Len(y)
        /\ \A i \in 1 .. Len(v) : v[i] = IF i <= Len(x) THEN x[i] ELSE y[i - Len(x)]
  <2>1. PICK v : v = x \o y
    OBVIOUS
  <2>2. /\ v \in Seq(LineKinds) /\ Len(v) = Len(x) + Len(y)
        /\ \A i \in 1 .. Len(x) + Len(y) : v[i] = IF i <= Len(x) THEN x[i] ELSE y[i - Len(x)]
    BY <2>1, ConcatProperties
  <2> QED BY <2>1, <2>2
<1>4. PICK a \in Seq(LineKinds) :
        /\ a = v \o z /\ Len(a) = Len(v) + Len(z)
        /\ \A i \in 1 .. Len(a) : a[i] = IF i <= Len(v) THEN v[i] ELSE z[i - Len(v)]
  <2>1. PICK a : a = v \o z
    OBVIOUS
  <2>2. /\ a \in Seq(LineKinds) /\ Len(a) = Len(v) + Len(z)
        /\ \A i \in 1 .. Len(v) + Len(z) : a[i] = IF i <= Len(v) THEN v[i] ELSE z[i - Len(v)]
    BY <2>1, ConcatProperties
  <2> QED BY <2>1, <2>2
<1>5. Len(x) \in Nat /\ Len(y) \in Nat /\ Len(z) \in Nat
  OBVIOUS
<1>6. Len(x) + Len(y) <= Len(a) /\ Len(x) <= Len(a)
  BY <1>3, <1>4, <1>5
<1>7. ASSUME NEW i \in 1 .. Len(x) PROVE a[i] = x[i]
  <2>1. i \in 1 .. Len(a) /\ i \in 1 .. Len(v) /\ i <= Len(v) /\ i <= Len(x)
    BY <1>3, <1>4, <1>5
  <2> QED BY <1>3, <1>4, <2>1
<1>8. ASSUME y # <<>> PROVE a[Len(x) + 1] = Head(y)
  <2>1. Len(y) >= 1 /\ Head(y) = y[1]
    BY <1>8
  <2>2. /\ Len(x) + 1 \in 1 .. Len(a) /\ Len(x) + 1 \in 1 .. Len(v)
        /\ Len(x) + 1 <= Len(v) /\ ~(Len(x) + 1 <= Len(x)) /\ (Len(x) + 1) - Len(x) = 1
    BY <1>3, <1>4, <1>5, <2>1
  <2> QED BY <1>3, <1>4, <2>1, <2>2
<1>9. a = asked[c]
  BY <1>2, <1>3, <1>4
<1> QED BY <1>1, <1>6, <1>7, <1>8, <1>9

-----------------------------------------------------------------------------
(***************************************************************************)
(* The handlers of a connection in the queue.                              *)
(***************************************************************************)
Of(c) ==
    {handler(k, c) : k \in {"accept", "read", "read error", "write error"}}
    \cup {write_handler(op, c) : op \in Writes(0 .. Pieces)}

\* Those of a write that is through say nothing any more.
Telling(c) ==
    {handler(k, c) : k \in {"accept", "read", "read error", "write error"}} \cup GoesOn(c)

LEMMA Apart ==
    ASSUME NEW c \in Connections
    PROVE  /\ \A d : d # c => \A h \in Of(c) : h \notin Of(d)
           /\ [kind |-> "accept error"] \notin Of(c)
           /\ Of(c) \subseteq Handlers
<1>1. ASSUME NEW d, NEW h \in Of(d) PROVE h.conn = d /\ h.kind # "accept error"
  <2>1. ASSUME NEW k \in {"accept", "read", "read error", "write error"}, h = handler(k, d)
        PROVE  h.conn = d /\ h.kind # "accept error"
    BY <2>1 DEF handler
  <2>2. ASSUME NEW op, h = write_handler(op, d)
        PROVE  h.conn = d /\ h.kind # "accept error"
    BY <2>2 DEF write_handler
  <2> QED BY <1>1, <2>1, <2>2 DEF Of
<1>2. ASSUME NEW h \in Of(c) PROVE h \in Handlers
  <2>1. \/ \E k \in {"accept", "read", "read error", "write error"} : h = handler(k, c)
        \/ \E op \in Writes(0 .. Pieces) : h = write_handler(op, c)
    BY <1>2 DEF Of
  <2>2. ASSUME NEW k \in {"accept", "read", "read error", "write error"}
        PROVE  handler(k, c) \in Handlers
    BY Kinds
  <2>3. ASSUME NEW op \in Writes(0 .. Pieces)
        PROVE  write_handler(op, c) \in Handlers
    BY Kinds
  <2> QED BY <2>1, <2>2, <2>3
<1>3. [kind |-> "accept error"].kind = "accept error"
  OBVIOUS
<1>4. [kind |-> "accept error"] \notin Of(c)
  BY <1>1, <1>3
<1> QED BY <1>1, <1>2, <1>4

LEMMA Sorts ==
    ASSUME NEW c
    PROVE  /\ {ErrorOf(c), LossOf(c), AcceptOf(c), GoesOn(c)} \subseteq SUBSET Telling(c)
           /\ Telling(c) \subseteq Of(c)
           /\ \A k \in {"accept", "read", "read error", "write error"} :
                /\ handler(k, c) \in Of(c)
                /\ handler(k, c) \in ErrorOf(c) <=> k = "write error"
                /\ handler(k, c) \in LossOf(c) <=> k = "read error"
                /\ handler(k, c) \in AcceptOf(c) <=> k = "accept"
                /\ handler(k, c) \notin GoesOn(c)
           /\ \A op \in Writes(0 .. Pieces) :
                /\ write_handler(op, c) \in Of(c) /\ write_handler(op, c) \notin ErrorOf(c)
                /\ write_handler(op, c) \notin LossOf(c) /\ write_handler(op, c) \notin AcceptOf(c)
                /\ write_handler(op, c) \in GoesOn(c) <=> op.left # 0
           /\ \A op \in Writes(1 .. Pieces) :
                /\ op \in Writes(0 .. Pieces) /\ op.left \in 1 .. Pieces
                /\ write_handler(op, c) \in GoesOn(c)
                /\ {write_handler(op, c)} \in SUBSET Telling(c)
           /\ \A o, p : write_handler(o, c) = write_handler(p, c) <=> o = p
<1>1. /\ \A k : handler(k, c).kind = k
      /\ \A op : write_handler(op, c).kind = "write" /\ write_handler(op, c).op = op
  BY DEF handler, write_handler
<1>2. \A o, p : write_handler(o, c) = write_handler(p, c) <=> o = p
  BY <1>1
<1>3. Writes(1 .. Pieces) \subseteq Writes(0 .. Pieces)
  BY PiecesNat DEF Writes
<1>4. \A op \in Writes(0 .. Pieces) : op.left # 0 <=> op \in Writes(1 .. Pieces)
  BY PiecesNat DEF Writes
<1>5. \A op \in Writes(1 .. Pieces) : op.left \in 1 .. Pieces
  BY DEF Writes
<1>6. \A k, l : handler(k, c) = handler(l, c) <=> k = l
  BY <1>1
<1>7. {ErrorOf(c), LossOf(c), AcceptOf(c)} \subseteq SUBSET Telling(c)
  BY DEF Telling, ErrorOf, LossOf, AcceptOf
<1>8. Telling(c) \subseteq Of(c) /\ GoesOn(c) \subseteq Telling(c)
  BY <1>3 DEF Of, Telling, GoesOn
<1>9. \A k : handler(k, c) \notin GoesOn(c) \/ k = "write"
  BY <1>1 DEF GoesOn
<1>10. \A op : \A k \in {"accept", "read error", "write error"} : write_handler(op, c) # handler(k, c)
  BY <1>1
<1>11. \A op \in Writes(0 .. Pieces) : write_handler(op, c) \in GoesOn(c) <=> op.left # 0
  BY <1>2, <1>4 DEF GoesOn
<1>12. \A op \in Writes(0 .. Pieces) : write_handler(op, c) \in Of(c)
  BY DEF Of
<1>13. \A k \in {"accept", "read", "read error", "write error"} : handler(k, c) \in Of(c)
  BY DEF Of
<1>14. \A op \in Writes(1 .. Pieces) :
         write_handler(op, c) \in GoesOn(c) /\ {write_handler(op, c)} \in SUBSET Telling(c)
  BY DEF Telling, GoesOn
<1>15. \A k \in {"accept", "read", "read error", "write error"} :
         /\ handler(k, c) \in ErrorOf(c) <=> k = "write error"
         /\ handler(k, c) \in LossOf(c) <=> k = "read error"
         /\ handler(k, c) \in AcceptOf(c) <=> k = "accept"
  BY <1>6 DEF ErrorOf, LossOf, AcceptOf
<1>16. \A op : /\ write_handler(op, c) \notin ErrorOf(c) /\ write_handler(op, c) \notin LossOf(c)
               /\ write_handler(op, c) \notin AcceptOf(c)
  BY <1>10 DEF ErrorOf, LossOf, AcceptOf
<1>17. \A k \in {"accept", "read", "read error", "write error"} : handler(k, c) \notin GoesOn(c)
  BY <1>9
<1>18. {ErrorOf(c), LossOf(c), AcceptOf(c), GoesOn(c)} \subseteq SUBSET Telling(c)
  BY <1>7, <1>8
<1>19. \A op \in Writes(1 .. Pieces) : op \in Writes(0 .. Pieces)
  BY <1>3
<1> QED BY <1>2, <1>5, <1>8, <1>11, <1>12, <1>13, <1>14, <1>15, <1>16, <1>17, <1>18, <1>19

\* To a connection the queue stays the same when the handlers of others come
\* and go.
SameOf(c) ==
    \A S \in SUBSET Telling(c) :
      /\ None(handlers', S) <=> None(handlers, S)
      /\ One(handlers, S) => One(handlers', S)

LEMMA OfPushed ==
    ASSUME handlers \in Seq(Handlers), NEW h \in Handlers, handlers' = Append(handlers, h),
           NEW c, h \notin Of(c)
    PROVE  SameOf(c)
<1>1. SUFFICES ASSUME NEW S \in SUBSET Telling(c)
               PROVE  /\ None(handlers', S) <=> None(handlers, S)
                      /\ One(handlers, S) => One(handlers', S)
  BY DEF SameOf
<1>2. h \notin S
  BY <1>1, Sorts
<1> QED BY <1>2, Pushed

LEMMA OfRun ==
    ASSUME handlers \in Seq(Handlers), handlers # <<>>, NEW ts \in Seq(Handlers),
           handlers' = Tail(handlers) \o ts,
           NEW c, Head(handlers) \notin Telling(c), None(ts, Telling(c))
    PROVE  SameOf(c)
<1>1. SUFFICES ASSUME NEW S \in SUBSET Telling(c)
               PROVE  /\ None(handlers', S) <=> None(handlers, S)
                      /\ One(handlers, S) => One(handlers', S)
  BY DEF SameOf
<1>2. Head(handlers) \notin S /\ None(ts, S)
  BY <1>1 DEF None
<1>3. /\ Tail(handlers) \in Seq(Handlers)
      /\ None(Tail(handlers), S) <=> None(handlers, S)
      /\ One(handlers, S) => One(Tail(handlers), S)
  BY <1>2, Popped
<1>4. /\ None(Tail(handlers) \o ts, S) <=> None(Tail(handlers), S) /\ None(ts, S)
      /\ One(Tail(handlers), S) /\ None(ts, S) => One(Tail(handlers) \o ts, S)
  BY <1>3, Joined
<1> QED BY <1>2, <1>3, <1>4

\* A step that has nothing to do with a connection leaves its part of the
\* invariant as it is.
SameConn(c) ==
    /\ c \in alive' <=> c \in alive
    /\ c \in accepted' <=> c \in accepted
    /\ Stays(c)' <=> Stays(c)
    /\ state'[c] = state[c] /\ writes'[c] = writes[c]
    /\ asked'[c] = asked[c] /\ executed'[c] = executed[c] /\ received'[c] = received[c]

LEMMA SessionKept ==
    ASSUME NEW c, SessionOK(c), SameOf(c), SameConn(c)
    PROVE  SessionOK(c)'
<1>1. /\ ErrorOf(c) \in SUBSET Telling(c) /\ LossOf(c) \in SUBSET Telling(c)
      /\ AcceptOf(c) \in SUBSET Telling(c) /\ GoesOn(c) \in SUBSET Telling(c)
  BY Sorts
<1>2. /\ None(handlers, ErrorOf(c))' <=> None(handlers, ErrorOf(c))
      /\ None(handlers, LossOf(c))' <=> None(handlers, LossOf(c))
      /\ None(handlers, AcceptOf(c))' <=> None(handlers, AcceptOf(c))
      /\ None(handlers, GoesOn(c))' <=> None(handlers, GoesOn(c))
  BY <1>1 DEF SameOf
<1>3. Stays(c)' <=> Stays(c)
  BY DEF SameConn, Stays
<1>4. Idle(c)' <=> Idle(c)
  BY <1>2 DEF SameConn, Idle
<1>5. \A op \in Writes(1 .. Pieces) : Under(c, op) => Under(c, op)'
  <2>1. ASSUME NEW op \in Writes(1 .. Pieces), Under(c, op) PROVE Under(c, op)'
    <3>1. /\ None(handlers, {write_handler(op, c)})' <=> None(handlers, {write_handler(op, c)})
          /\ One(handlers, GoesOn(c)) => One(handlers, GoesOn(c))'
      BY Sorts DEF SameOf
    <3> QED BY <1>2, <2>1, <3>1 DEF Under, SameConn
  <2> QED BY <2>1
<1>6. ASSUME NEW l, Pending(c, l) PROVE Pending(c, l)'
  BY <1>5, <1>6 DEF Pending, SameConn
<1>7. ASSUME NEW l, Finished(c, l) PROVE Finished(c, l)'
  BY <1>4, <1>7 DEF Finished, SameConn
<1>8. \A n : QuitsTo(c, n) => QuitsTo(c, n)'
  BY DEF QuitsTo, SameConn
<1>9. Unstarted(c) => Unstarted(c)'
  BY <1>3, <1>4 DEF Unstarted, SameConn
<1>10. Owed(c) => Owed(c)'
  <2>1. SUFFICES ASSUME Owed(c) PROVE Owed(c)'
    OBVIOUS
  <2>2. PICK l : l = asked[c] /\ Pending(c, l)
    BY <2>1 DEF Owed
  <2>3. Pending(c, l)' /\ l = asked[c]'
    BY <1>6, <2>2 DEF SameConn
  <2> QED BY <1>3, <2>1, <2>3 DEF Owed, SameConn
<1>11. Waiting(c) => Waiting(c)'
  <2>1. SUFFICES ASSUME Waiting(c) PROVE Waiting(c)'
    OBVIOUS
  <2>2. PICK l : l = executed[c] /\ Finished(c, l)
    BY <2>1 DEF Waiting
  <2>3. Finished(c, l)' /\ l = executed[c]'
    BY <1>7, <2>2 DEF SameConn
  <2> QED BY <1>3, <1>8, <2>1, <2>3 DEF Waiting, SameConn
<1>12. Settled(c) => Settled(c)'
  <2>1. SUFFICES ASSUME Settled(c) PROVE Settled(c)'
    OBVIOUS
  <2>2. PICK l : l = executed[c] /\ Finished(c, l)
    BY <2>1 DEF Settled
  <2>3. Finished(c, l)' /\ l = executed[c]'
    BY <1>7, <2>2 DEF SameConn
  <2> QED BY <1>8, <2>1, <2>3 DEF Settled, SameConn
<1>13. Ended(c) => Ended(c)'
  BY <1>2, <1>4 DEF Ended, SameConn
<1> QED BY <1>2, <1>3, <1>9, <1>10, <1>11, <1>12, <1>13 DEF SessionOK, SameConn

-----------------------------------------------------------------------------
(***************************************************************************)
(* The reply that is being written.                                        *)
(***************************************************************************)
\* A write of the last reply to lines has been told so far.
Writing(c, op, lines) ==
    /\ op \in Writes(1 .. Pieces) /\ lines \in Seq(LineKinds) /\ NoQuit(lines)
    /\ ToldBy(received[c], lines)
    /\ op.text = nth_text(lines, Len(lines))
    /\ Len(received[c]) = due(lines) - op.left

\* The socket takes some of it.
LEMMA Transmits ==
    ASSUME TypeOK, NEW c \in Connections, NEW op, NEW lines, Writing(c, op, lines),
           room(c) > 0, transmit(op, c)
    PROVE  /\ after_write(op, c) \in Writes(0 .. Pieces)
           /\ after_write(op, c).text = op.text
           /\ ToldBy(received'[c], lines)
           /\ Len(received'[c]) = due(lines) - after_write(op, c).left
           /\ \A d \in Connections : d # c => received'[d] = received[d]
<1>1. PICK n : n = taken(op, c)
  OBVIOUS
<1>2. /\ op \in Writes(1 .. Pieces) /\ lines \in Seq(LineKinds)
      /\ Pieces \in Nat /\ Window \in Nat /\ unread[c] \in 0 .. Window
      /\ op.text \in Texts /\ op.left \in 1 .. Pieces
      /\ received \in [Connections -> Seq(Texts \X (1 .. Pieces))]
  BY PiecesNat DEF TypeOK, Writes, Writing
<1>3. n \in Nat /\ n <= op.left
  <2>1. room(c) \in Nat /\ room(c) = Window - unread[c]
    BY <1>2 DEF room
  <2>2. CASE op.left <= room(c)
    BY <1>1, <1>2, <2>1, <2>2 DEF taken, least
  <2>3. CASE ~(op.left <= room(c))
    BY <1>1, <1>2, <2>1, <2>3 DEF taken, least
  <2> QED BY <2>2, <2>3
<1>4. PICK text \in Texts, left \in 1 .. Pieces : text = op.text /\ left = op.left
  BY <1>2
<1>5. PICK rec \in Seq(Texts \X (1 .. Pieces)) : rec = received[c]
  BY <1>2
<1>6. PICK new : new = rec \o SubSeq(parts(text), Pieces - left + 1, Pieces - left + n)
  OBVIOUS
<1>7. received' = [received EXCEPT ![c] = new]
  BY <1>1, <1>4, <1>5, <1>6 DEF transmit
<1>8. ToldBy(new, lines) /\ Len(new) = due(lines) - (left - n)
  <2>1. /\ NoQuit(lines) /\ text = nth_text(lines, Len(lines))
        /\ ToldBy(rec, lines) /\ Len(rec) = due(lines) - left /\ n <= left
    BY <1>3, <1>4, <1>5 DEF Writing
  <2>2. ToldMore(rec, lines, text, left, n)
    BY <1>2, <1>3, <1>4, <1>5, <2>1, MoreTold
  <2> QED BY <1>6, <2>2 DEF ToldMore
<1>9. received'[c] = new /\ \A d \in Connections : d # c => received'[d] = received[d]
  BY <1>2, <1>7
<1>10. after_write(op, c).text = op.text /\ after_write(op, c).left = left - n
  BY <1>1, <1>2, <1>4 DEF after_write, Writes
<1>11. after_write(op, c) \in Writes(0 .. Pieces)
  BY <1>2, Transmitted
<1> QED BY <1>8, <1>9, <1>10, <1>11

\* Its handler is queued, which goes on with it when something is left.
Wrote(c, lines) ==
    ToldBy(received'[c], lines) /\ (Finished(c, lines)' \/ Pending(c, lines)')

LEMMA TransmitsAndQueues ==
    ASSUME TypeOK, NEW c \in Connections, NEW op, NEW lines, Writing(c, op, lines),
           room(c) > 0, transmit(op, c), writes'[c] = <<>>,
           NEW hs \in Seq(Handlers), NEW more \in Seq(Handlers),
           None(hs, GoesOn(c)), None(more, GoesOn(c)),
           handlers' = hs \o (<<write_handler(after_write(op, c), c)>> \o more)
    PROVE  /\ Wrote(c, lines)
           /\ \A S \in {ErrorOf(c), LossOf(c), AcceptOf(c)} :
                None(hs, S) /\ None(more, S) => None(handlers', S)
<1>1. PICK o : o = after_write(op, c)
  OBVIOUS
<1>2. PICK h : h = write_handler(o, c)
  OBVIOUS
<1>3. /\ o \in Writes(0 .. Pieces) /\ o.text = op.text
      /\ ToldBy(received'[c], lines) /\ Len(received'[c]) = due(lines) - o.left
  BY <1>1, Transmits
<1>4. /\ h \in Handlers /\ (h \in GoesOn(c) <=> o.left # 0)
      /\ h \notin ErrorOf(c) /\ h \notin LossOf(c) /\ h \notin AcceptOf(c)
  <2>1. h \in Of(c)
    BY <1>2, <1>3, Sorts
  <2> QED BY <1>2, <1>3, <2>1, Apart, Sorts
<1>5. handlers' = hs \o (<<h>> \o more) /\ <<h>> \in Seq(Handlers)
  BY <1>1, <1>2, <1>4
<1>6. ASSUME NEW S
      PROVE  /\ None(handlers', S) <=> None(hs, S) /\ None(more, S) /\ h \notin S
             /\ None(hs, S) /\ None(more, S) => One(handlers', S)
  <2>1. /\ <<h>> \o more \in Seq(Handlers)
        /\ None(<<h>> \o more, S) <=> None(<<h>>, S) /\ None(more, S)
        /\ One(<<h>>, S) /\ None(more, S) => One(<<h>> \o more, S)
    BY <1>5, Joined
  <2>2. (None(<<h>>, S) <=> h \notin S) /\ One(<<h>>, S)
    BY <1>4, Alone
  <2>3. PICK us \in Seq(Handlers) : us = <<h>> \o more
    BY <2>1
  <2>4. /\ None(hs \o us, S) <=> None(hs, S) /\ None(us, S)
        /\ None(hs, S) /\ One(us, S) => One(hs \o us, S)
    BY Joined
  <2> QED BY <1>5, <2>1, <2>2, <2>3, <2>4
<1>7. CASE o.left = 0
  <2>1. None(handlers', GoesOn(c))
    BY <1>4, <1>6, <1>7
  <2>2. Len(received'[c]) = due(lines)
    BY <1>3, <1>7, DueType DEF Writing
  <2>3. Finished(c, lines)'
    BY <2>1, <2>2 DEF Finished, Idle
  <2> QED BY <1>3, <1>4, <1>6, <2>3 DEF Wrote
<1>8. CASE o.left # 0
  <2>1. o \in Writes(1 .. Pieces)
    BY <1>3, <1>8, PiecesNat DEF Writes
  <2>2. One(handlers', GoesOn(c)) /\ ~None(handlers', {write_handler(o, c)})
    BY <1>2, <1>6
  <2>3. Under(c, o)'
    BY <2>2 DEF Under
  <2>4. Pending(c, lines)'
    BY <1>3, <2>1, <2>3 DEF Pending, Writing
  <2> QED BY <1>3, <1>4, <1>6, <2>4 DEF Wrote
<1> QED BY <1>7, <1>8

\* A step of async_write on a connection that has no write under way.
LEMMA AsyncWrites ==
    ASSUME TypeOK, handlers # <<>>, NEW c \in Connections, NEW op, NEW lines,
           Writing(c, op, lines), Stays(c), writes[c] = <<>>, None(Tail(handlers), GoesOn(c)),
           NEW more \in Seq(Handlers), None(more, GoesOn(c)), async_write(op, c, more)
    PROVE  /\ Wrote(c, lines)
           /\ \A S \in {ErrorOf(c), LossOf(c), AcceptOf(c)} :
                None(Tail(handlers), S) /\ None(more, S) => None(handlers', S)
<1>1. PICK hs \in Seq(Handlers) : hs = Tail(handlers)
  BY Popped DEF TypeOK
<1>2. peer[c] # "reset" /\ op \in Writes(1 .. Pieces)
  BY DEF Stays, Writing
<1>3. CASE /\ room(c) > 0 /\ transmit(op, c)
           /\ handlers' = Tail(handlers) \o <<write_handler(after_write(op, c), c)>> \o more
           /\ UNCHANGED writes
  <2>1. PICK h \in Handlers : h = write_handler(after_write(op, c), c)
    BY <1>2, <1>3, Transmits, Kinds
  <2>2. PICK ws \in Seq(Handlers) : ws = <<write_handler(after_write(op, c), c)>>
    <3>1. <<h>> \in Seq(Handlers)
      OBVIOUS
    <3> QED BY <2>1, <3>1
  <2>3. (hs \o ws) \o more = hs \o (ws \o more)
    BY ConcatAssociative
  <2>4. handlers' = hs \o (<<write_handler(after_write(op, c), c)>> \o more)
    BY <1>1, <1>3, <2>2, <2>3
  <2>5. writes'[c] = <<>>
    BY <1>3
  <2> QED BY <1>1, <1>3, <2>4, <2>5, TransmitsAndQueues
<1>4. CASE /\ writes' = [writes EXCEPT ![c] = Append(@, op)]
           /\ handlers' = Tail(handlers) \o more
           /\ UNCHANGED <<unread, received>>
  <2>1. writes'[c] = <<op>>
    <3>1. writes'[c] = Append(writes[c], op)
      BY <1>4 DEF TypeOK
    <3> QED BY <3>1
  <2>2. \A S : None(handlers', S) <=> None(hs, S) /\ None(more, S)
    BY <1>1, <1>4, Joined
  <2>3. Under(c, op)'
    BY <1>1, <2>1, <2>2 DEF Under
  <2>4. Pending(c, lines)'
    BY <1>4, <2>3 DEF Pending, Writing
  <2>5. Wrote(c, lines)
    BY <1>4, <2>4 DEF Wrote, Writing
  <2> QED BY <1>1, <2>2, <2>5
<1> QED BY <1>2, <1>3, <1>4 DEF async_write

\* async_write concerns no connection but its own.
LEMMA AsyncElsewhere ==
    ASSUME TypeOK, handlers # <<>>, NEW c \in Connections, NEW op \in Writes(1 .. Pieces),
           NEW more \in Seq(Handlers), async_write(op, c, more),
           NEW d \in Connections, d # c, Head(handlers) \in Of(c),
           None(more, Telling(d))
    PROVE  SameOf(d) /\ writes'[d] = writes[d] /\ received'[d] = received[d]
<1>1. handlers \in Seq(Handlers) /\ Tail(handlers) \in Seq(Handlers)
  BY Popped DEF TypeOK
<1>2. writes'[d] = writes[d] /\ received'[d] = received[d]
  BY DEF async_write, transmit, TypeOK
<1>3. Head(handlers) \notin Telling(d)
  BY Apart, Sorts
<1>4. ASSUME NEW h \in Of(c), handlers' = Tail(handlers) \o <<h>> \o more
      PROVE  SameOf(d)
  <2>1. h \in Handlers /\ h \notin Of(d)
    BY Apart
  <2>2. <<h>> \in Seq(Handlers) /\ None(<<h>>, Telling(d))
    BY <2>1, Alone, Sorts
  <2>3. PICK ts \in Seq(Handlers) : ts = <<h>> \o more
    BY <2>2, Joined
  <2>4. None(ts, Telling(d))
    BY <2>2, <2>3, Joined
  <2>5. handlers' = Tail(handlers) \o ts
    BY <1>1, <1>4, <2>2, <2>3, ConcatAssociative
  <2> QED BY <1>1, <1>3, <2>4, <2>5, OfRun
<1>5. CASE handlers' = Tail(handlers) \o <<handler("write error", c)>> \o more
  BY <1>2, <1>4, <1>5, Sorts
<1>6. CASE /\ room(c) > 0 /\ transmit(op, c)
           /\ handlers' = Tail(handlers) \o <<write_handler(after_write(op, c), c)>> \o more
  <2>1. after_write(op, c) \in Writes(0 .. Pieces)
    BY <1>6, Transmitted
  <2> QED BY <1>2, <1>4, <1>6, <2>1, Sorts
<1>7. CASE handlers' = Tail(handlers) \o more
  BY <1>1, <1>2, <1>3, <1>7, OfRun
<1> QED BY <1>2, <1>5, <1>6, <1>7 DEF async_write

-----------------------------------------------------------------------------
(***************************************************************************)
(* The replies: initially, and step by step.                               *)
(***************************************************************************)
ReplyOK(c) == Told(c) /\ (running => SessionOK(c))

LEMMA ReplyKept ==
    ASSUME NEW c, ReplyOK(c), running' => running, SameOf(c), SameConn(c)
    PROVE  ReplyOK(c)'
<1>1. Told(c)'
  BY DEF ReplyOK, Told, SameConn
<1>2. running' => SessionOK(c)'
  BY SessionKept DEF ReplyOK
<1> QED BY <1>1, <1>2 DEF ReplyOK

LEMMA SameHandlersOf ==
    ASSUME handlers' = handlers, NEW c PROVE SameOf(c)
BY DEF SameOf

\* What is left to show of a step of one connection.
LEMMA ReplyStep ==
    ASSUME ReplyInv, NEW c \in Connections, hasty \subseteq hasty', running' => running,
           \A d \in Connections : d # c => SameOf(d) /\ SameConn(d),
           stale' \subseteq hasty',
           c \notin hasty' => ReplyOK(c)'
    PROVE  ReplyInv'
<1>1. ASSUME NEW d \in Connections \ hasty' PROVE ReplyOK(d)'
  <2>1. CASE d = c
    BY <1>1, <2>1
  <2>2. CASE d # c
    <3>1. ReplyOK(d) /\ SameOf(d) /\ SameConn(d)
      BY <1>1, <2>2 DEF ReplyInv, ReplyOK
    <3> QED BY <3>1, ReplyKept
  <2> QED BY <2>1, <2>2
<1> QED BY <1>1 DEF ReplyInv, ReplyOK

LEMMA InitReplies == Init => ReplyInv
<1> SUFFICES ASSUME Init PROVE ReplyInv
  OBVIOUS
<1>1. ASSUME NEW c \in Connections PROVE Told(c) /\ SessionOK(c)
  <2>1. \A S : None(handlers, S)
    BY DEF Init, None
  <2>2. /\ received[c] = <<>> /\ asked[c] = <<>> /\ writes[c] = <<>> /\ executed[c] = <<>>
        /\ peer[c] = "away" /\ c \notin alive
    BY DEF Init
  <2>3. Unstarted(c)
    BY <2>1, <2>2 DEF Unstarted, Stays, Idle
  <2>4. SessionOK(c)
    BY <2>1, <2>2, <2>3 DEF SessionOK
  <2>5. Told(c)
    <3>1. Len(<<>>) = 0 /\ DOMAIN <<>> = {} /\ <<>> \in Seq(LineKinds)
      OBVIOUS
    <3>2. due(<<>>) \in Nat
      BY <3>1, DueType
    <3> QED BY <2>2, <3>1, <3>2 DEF Told, ToldBy
  <2> QED BY <2>4, <2>5
<1>2. stale \subseteq hasty
  BY DEF Init
<1> QED BY <1>1, <1>2 DEF ReplyInv

LEMMA ReplyStill ==
    ASSUME ReplyInv, hasty \subseteq hasty', running' => running, stale' \subseteq hasty',
           \A d \in Connections : SameOf(d) /\ SameConn(d)
    PROVE  ReplyInv'
<1>1. ASSUME NEW d \in Connections \ hasty' PROVE ReplyOK(d)'
  <2>1. ReplyOK(d) /\ SameOf(d) /\ SameConn(d)
    BY <1>1 DEF ReplyInv, ReplyOK
  <2> QED BY <2>1, ReplyKept
<1> QED BY <1>1 DEF ReplyInv, ReplyOK

\* A client that has all replies to what it sent has no session yet, or one
\* that owes it nothing.
LEMMA AnsweredIsSettled ==
    ASSUME IInv, NEW c \in Connections, SessionOK(c), Answered(c)
    PROVE  Settled(c) \/ Ended(c)
<1>1. /\ executed[c] \in Seq(LineKinds) /\ asked[c] \in Seq(LineKinds)
      /\ received[c] \in Seq(Texts \X (1 .. Pieces))
  BY DEF IInv, TypeOK
<1>2. due(asked[c]) \in Nat /\ due(asked[c]) >= Pieces /\ due(executed[c]) \in Nat
  BY <1>1, DueType
<1>3. Len(received[c]) = due(asked[c])
  BY DEF Answered
<1>4. ~Unstarted(c)
  <2>1. Len(<<>>) = 0
    OBVIOUS
  <2> QED BY <1>2, <1>3, <2>1, PiecesNat DEF Unstarted
<1>5. ~Owed(c)
  <2>1. SUFFICES ASSUME NEW op \in Writes(1 .. Pieces), Len(received[c]) = due(asked[c]) - op.left
                 PROVE  FALSE
    BY DEF Owed, Pending
  <2>2. op.left \in 1 .. Pieces
    BY DEF Writes
  <2> QED BY <1>2, <1>3, <2>1, <2>2, PiecesNat
<1>6. ~Waiting(c)
  <2>1. SUFFICES ASSUME Waiting(c) PROVE FALSE
    OBVIOUS
  <2>2. \A i \in 1 .. Len(executed[c]) : asked[c][i] = executed[c][i]
    BY <2>1, LinesOf DEF Waiting
  <2>3. due(executed[c]) < due(asked[c])
    BY <1>1, <2>1, <2>2, MoreDue DEF Waiting
  <2>4. Len(received[c]) = due(executed[c])
    BY <2>1 DEF Waiting, Finished
  <2> QED BY <1>2, <1>3, <2>3, <2>4
<1> QED BY <1>4, <1>5, <1>6 DEF SessionOK

LEMMA ConnectsReplies ==
    ASSUME IInv, ReplyInv, NEW c \in Connections, Outside(client_connects(c) \/ client_reads(c))
    PROVE  ReplyInv'
<1>1. /\ peer \in [Connections -> {"away", "open", "closed", "reset"}]
      /\ UNCHANGED <<running, handlers, accepting, session_vars, accepted, wire, ghosts>>
      /\ \/ peer' = peer
         \/ peer[c] = "away" /\ peer' = [peer EXCEPT ![c] = "open"]
  BY DEF IInv, TypeOK, Outside, client_connects, client_reads
<1>2. \A d \in Connections : Stays(d)' <=> Stays(d)
  BY <1>1 DEF Stays
<1>3. \A d \in Connections : SameOf(d) /\ SameConn(d)
  BY <1>1, <1>2, SameHandlersOf DEF SameConn, session_vars, ghosts
<1>4. hasty \subseteq hasty' /\ stale' \subseteq hasty' /\ (running' => running)
  BY <1>1 DEF ghosts, ReplyInv
<1> QED BY <1>3, <1>4, ReplyStill

\* A client sends a line: if it has all replies, this is the one to be handled,
\* or one more quit.
LEMMA SendsReplies ==
    ASSUME IInv, ReplyInv, NEW c \in Connections, Outside(client_sends(c))
    PROVE  ReplyInv'
<1>1. /\ asked \in [Connections -> Seq(LineKinds)] /\ executed \in [Connections -> Seq(LineKinds)]
      /\ Scripts[c] \subseteq Seq(LineKinds)
  BY ConsoleAssumption DEF IInv, TypeOK
<1>2. PICK line \in LineKinds : asked' = [asked EXCEPT ![c] = Append(@, line)]
  <2>1. PICK script \in Scripts[c] :
          /\ IsStrictPrefix(asked[c], script)
          /\ asked' = [asked EXCEPT ![c] = Append(@, script[Len(asked[c]) + 1])]
    BY DEF Outside, client_sends
  <2>2. script[Len(asked[c]) + 1] \in LineKinds
    BY <1>1, <2>1, NextLine
  <2> QED BY <2>1, <2>2
<1>3. /\ UNCHANGED <<running, handlers, accepting, session_vars, peer, accepted, unread,
                     executed, received, stale>>
      /\ peer[c] = "open"
      /\ hasty' = IF Answered(c) THEN hasty ELSE hasty \cup {c}
  BY DEF Outside, client_sends
<1>4. \A d \in Connections : d # c => SameOf(d) /\ SameConn(d)
  BY <1>1, <1>2, <1>3, SameHandlersOf DEF SameConn, Stays, session_vars
<1>5. hasty \subseteq hasty' /\ stale' \subseteq hasty' /\ (running' => running)
  BY <1>3 DEF ReplyInv
<1>6. ASSUME c \notin hasty' PROVE ReplyOK(c)'
  <2>1. Answered(c) /\ Told(c) /\ SessionOK(c)
    BY <1>3, <1>6 DEF ReplyInv, Outside
  <2>2. Told(c)'
    BY <1>3, <2>1 DEF Told
  <2>3. PICK a \in Seq(LineKinds) : a = asked[c]
    BY <1>1
  <2>4. asked'[c] = Append(a, line)
    BY <1>1, <1>2, <2>3
  <2>5. /\ Len(a) \in Nat /\ Len(asked'[c]) = Len(a) + 1 /\ DOMAIN asked'[c] = 1 .. Len(a) + 1
        /\ DOMAIN a = 1 .. Len(a) /\ asked'[c][Len(a) + 1] = line
        /\ \A i \in 1 .. Len(a) : asked'[c][i] = a[i]
    BY <2>4
  <2>6. Idle(c)' <=> Idle(c)
    BY <1>3 DEF Idle, session_vars
  <2>7. CASE Ended(c)
    <3>1. Ended(c)'
      BY <1>3, <2>6, <2>7 DEF Ended, session_vars
    <3> QED BY <1>3, <2>1, <2>2, <3>1 DEF ReplyOK, SessionOK, Stays, session_vars
  <2>8. CASE Settled(c)
    <3>1. c \in alive' /\ Stays(c)' /\ Finished(c, executed[c])'
      BY <1>3, <2>6, <2>8 DEF Settled, Finished, Stays, session_vars
    <3>2. \A i \in DOMAIN a : i > Len(executed[c]) => a[i] = "quit"
      BY <2>3, <2>5, <2>8 DEF Settled, QuitsTo
    <3>3. \A i \in DOMAIN asked'[c] : i > Len(executed'[c]) /\ i <= Len(a) => asked'[c][i] = "quit"
      BY <1>3, <2>5, <3>2
    <3>4. Len(executed[c]) \in Nat /\ Len(executed[c]) <= Len(a)
      <4>1. executed[c] \in Seq(LineKinds) /\ Len(executed[c]) <= Len(asked[c])
        BY <1>1, <2>8, LinesOf DEF Settled
      <4> QED BY <2>3, <4>1
    <3>5. CASE line = "quit"
      <4>1. QuitsTo(c, Len(asked[c]))'
        BY <2>5, <3>3, <3>5 DEF QuitsTo
      <4>2. Settled(c)'
        BY <1>3, <3>1, <4>1 DEF Settled
      <4> QED BY <1>3, <2>1, <2>2, <4>2 DEF ReplyOK, SessionOK, Stays, session_vars
    <3>6. CASE line # "quit"
      <4>1. QuitsTo(c, Len(asked[c]) - 1)'
        BY <2>5, <3>3 DEF QuitsTo
      <4>2. Waiting(c)'
        BY <1>3, <2>5, <3>1, <3>4, <3>6, <4>1 DEF Waiting
      <4> QED BY <1>3, <2>1, <2>2, <4>2 DEF ReplyOK, SessionOK, Stays, session_vars
    <3> QED BY <3>5, <3>6
  <2> QED BY <2>1, <2>7, <2>8, AnsweredIsSettled
<1> QED BY <1>4, <1>5, <1>6, ReplyStep

LEMMA LeavesReplies ==
    ASSUME IInv, ReplyInv, NEW c \in Connections, Outside(client_leaves(c))
    PROVE  ReplyInv'
<1>1. PICK how \in {"closed", "reset"} : peer' = [peer EXCEPT ![c] = how]
  <2>1. Leaves[c] \subseteq {"closed", "reset"}
    BY ConsoleAssumption
  <2> QED BY <2>1 DEF Outside, client_leaves
<1>2. /\ UNCHANGED <<running, handlers, accepting, session_vars, accepted, wire, unread, asked,
                     executed, received, stale>>
      /\ hasty' = IF Answered(c) THEN hasty ELSE hasty \cup {c}
  BY DEF Outside, client_leaves
<1>3. \A d \in Connections : d # c => SameOf(d) /\ SameConn(d)
  BY <1>1, <1>2, SameHandlersOf DEF SameConn, Stays, session_vars, IInv, TypeOK
<1>4. hasty \subseteq hasty' /\ stale' \subseteq hasty' /\ (running' => running)
  BY <1>2 DEF ReplyInv
<1>5. ASSUME c \notin hasty' PROVE ReplyOK(c)'
  <2>1. Answered(c) /\ Told(c) /\ SessionOK(c)
    BY <1>2, <1>5 DEF ReplyInv, Outside
  <2>2. Told(c)'
    BY <1>2, <2>1 DEF Told
  <2>3. ~Stays(c)'
    BY <1>1 DEF Stays, IInv, TypeOK
  <2>4. Idle(c)' <=> Idle(c)
    BY <1>2 DEF Idle, session_vars
  <2>5. Settled(c) \/ Ended(c)
    BY <2>1, AnsweredIsSettled
  <2>6. Settled(c)' \/ Ended(c)'
    BY <1>2, <2>4, <2>5 DEF Settled, Ended, Finished, QuitsTo, session_vars
  <2> QED BY <1>2, <2>1, <2>2, <2>3, <2>6 DEF ReplyOK, SessionOK, session_vars
<1> QED BY <1>3, <1>4, <1>5, ReplyStep

\* A connection is accepted whose session has not started.
LEMMA AcceptCompletesReplies ==
    ASSUME IInv, ReplyInv, Outside(accept_completes)
    PROVE  ReplyInv'
<1>1. PICK c \in Connections \ accepted :
        accepted' = accepted \cup {c} /\ handlers' = Append(handlers, handler("accept", c))
  BY DEF Outside, accept_completes
<1>2. UNCHANGED <<running, alive, state, reading, input, writes, peer, wire, unread,
                  asked, executed, received, hasty, stale>>
  BY DEF Outside, accept_completes, session_vars, ghosts
<1>3. handlers \in Seq(Handlers) /\ handler("accept", c) \in Handlers /\ handler("accept", c) \in Of(c)
  BY Kinds, Sorts DEF IInv, TypeOK
<1>4. ASSUME NEW d \in Connections, d # c PROVE SameOf(d) /\ SameConn(d)
  <2>1. handler("accept", c) \notin Of(d)
    BY <1>3, <1>4, Apart
  <2> QED BY <1>1, <1>2, <1>3, <1>4, <2>1, OfPushed DEF SameConn, Stays
<1>5. ASSUME c \notin hasty' PROVE ReplyOK(c)'
  <2>1. Told(c) /\ SessionOK(c)
    BY <1>2, <1>5 DEF ReplyInv, Outside
  <2>2. Told(c)'
    BY <1>2, <2>1 DEF Told
  <2>3. c \notin alive
    BY DEF IInv, TypeOK
  <2>4. Unstarted(c)
    BY <2>1, <2>3 DEF SessionOK, Owed, Waiting, Settled, Ended
  <2>5. /\ handler("accept", c) \notin ErrorOf(c) /\ handler("accept", c) \notin LossOf(c)
        /\ handler("accept", c) \notin GoesOn(c)
    BY Sorts
  <2>6. /\ None(handlers', ErrorOf(c)) <=> None(handlers, ErrorOf(c))
        /\ None(handlers', LossOf(c)) <=> None(handlers, LossOf(c))
        /\ None(handlers', GoesOn(c)) <=> None(handlers, GoesOn(c))
    BY <1>1, <1>3, <2>5, Pushed
  <2>7. Unstarted(c)'
    BY <1>2, <2>4, <2>6 DEF Unstarted, Stays, Idle
  <2> QED BY <1>2, <2>1, <2>2, <2>3, <2>6, <2>7 DEF ReplyOK, SessionOK, Stays
<1> QED BY <1>2, <1>4, <1>5, ReplyStep DEF ReplyInv

LEMMA AcceptFailsReplies ==
    ASSUME IInv, ReplyInv, Outside(accept_fails)
    PROVE  ReplyInv'
<1>1. /\ handlers' = Append(handlers, [kind |-> "accept error"])
      /\ UNCHANGED <<running, session_vars, client_vars, ghosts>>
  BY DEF Outside, accept_fails
<1>2. handlers \in Seq(Handlers) /\ [kind |-> "accept error"] \in Handlers
  BY Kinds DEF IInv, TypeOK
<1>3. \A d \in Connections : SameOf(d) /\ SameConn(d)
  BY <1>1, <1>2, Apart, OfPushed DEF SameConn, Stays, session_vars, client_vars, ghosts
<1> QED BY <1>1, <1>3, ReplyStill DEF ReplyInv, ghosts

\* A read completes, with an error only when the client has left.
LEMMA ReadCompletesReplies ==
    ASSUME IInv, ReplyInv, NEW c \in Connections, Outside(read_completes(c))
    PROVE  ReplyInv'
<1>1. /\ c \in reading /\ c \in alive /\ c \in accepted
      /\ UNCHANGED <<running, accepting, alive, state, writes, peer, accepted, unread,
                     asked, executed, received, hasty, stale>>
  BY DEF Outside, read_completes, ghosts, IInv, TypeOK
<1>2. PICK k \in {"read", "read error"} :
        handlers' = Append(handlers, handler(k, c)) /\ (k = "read error" => ~Stays(c))
  BY DEF Outside, read_completes, Stays
<1>3. PICK h \in Handlers : h = handler(k, c)
  BY <1>2, Kinds
<1>4. /\ handlers \in Seq(Handlers) /\ h \in Of(c) /\ handlers' = Append(handlers, h)
      /\ h \notin ErrorOf(c) /\ h \notin AcceptOf(c) /\ h \notin GoesOn(c)
      /\ h \in LossOf(c) => ~Stays(c)
  BY <1>2, <1>3, Sorts DEF IInv, TypeOK
<1>5. ASSUME NEW d \in Connections, d # c PROVE SameOf(d) /\ SameConn(d)
  <2>1. h \notin Of(d)
    BY <1>4, <1>5, Apart
  <2> QED BY <1>1, <1>3, <1>4, <2>1, OfPushed DEF SameConn, Stays
<1>6. ASSUME c \notin hasty' PROVE ReplyOK(c)'
  <2>1. Told(c) /\ SessionOK(c)
    BY <1>1, <1>6 DEF ReplyInv, Outside
  <2>2. Told(c)'
    BY <1>1, <2>1 DEF Told
  <2>3. /\ None(handlers', ErrorOf(c)) <=> None(handlers, ErrorOf(c))
        /\ None(handlers', GoesOn(c)) <=> None(handlers, GoesOn(c))
        /\ Stays(c) => (None(handlers', LossOf(c)) <=> None(handlers, LossOf(c)))
    BY <1>4, Pushed
  <2>4. (Stays(c)' <=> Stays(c)) /\ (Idle(c)' <=> Idle(c))
    BY <1>1, <2>3 DEF Stays, Idle
  <2>5. \A op \in Writes(1 .. Pieces) : Under(c, op) => Under(c, op)'
    <3>1. ASSUME NEW op \in Writes(1 .. Pieces), Under(c, op) PROVE Under(c, op)'
      <4>1. {write_handler(op, c)} \subseteq GoesOn(c)
        BY <3>1 DEF GoesOn
      <4>2. h \notin {write_handler(op, c)}
        BY <1>4, <4>1
      <4>3. None(handlers', {write_handler(op, c)}) <=> None(handlers, {write_handler(op, c)})
        <5>1. PICK S : S = {write_handler(op, c)}
          OBVIOUS
        <5> QED BY <1>3, <1>4, <4>2, <5>1, Pushed
      <4>4. One(handlers, GoesOn(c)) => One(handlers', GoesOn(c))
        BY <1>3, <1>4, Pushed
      <4> QED BY <1>1, <2>3, <3>1, <4>3, <4>4 DEF Under
    <3> QED BY <3>1
  <2>6. Unstarted(c) \/ Owed(c) \/ Waiting(c) \/ Settled(c)
    BY <1>1, <2>1 DEF SessionOK, Ended
  <2>7. ~Unstarted(c)
    BY <1>1 DEF Unstarted
  <2>8. Owed(c) => Owed(c)'
    BY <1>1, <2>4, <2>5 DEF Owed, Pending
  <2>9. Waiting(c) => Waiting(c)'
    BY <1>1, <2>4 DEF Waiting, Finished, QuitsTo
  <2>10. Settled(c) => Settled(c)'
    BY <1>1, <2>4 DEF Settled, Finished, QuitsTo
  <2>11. SessionOK(c)'
    BY <1>1, <2>1, <2>3, <2>4, <2>6, <2>7, <2>8, <2>9, <2>10 DEF SessionOK
  <2> QED BY <2>2, <2>11 DEF ReplyOK
<1> QED BY <1>1, <1>5, <1>6, ReplyStep DEF ReplyInv

\* A step of the reply to the last line: more of it is to come, or the client
\* has it all.
LEMMA WroteIsOwed ==
    ASSUME NEW c, NEW lines \in Seq(LineKinds), executed'[c] = lines, asked'[c] = lines,
           c \in alive', Stays(c)', Wrote(c, lines)
    PROVE  Told(c)' /\ (Owed(c)' \/ Settled(c)')
<1>1. Told(c)'
  BY DEF Wrote, Told
<1>2. QuitsTo(c, Len(asked[c]))'
  <2>1. \A i \in DOMAIN lines : ~(i > Len(lines) /\ i <= Len(lines))
    OBVIOUS
  <2> QED BY <2>1 DEF QuitsTo
<1>3. CASE Finished(c, lines)'
  BY <1>1, <1>2, <1>3 DEF Settled
<1>4. CASE Pending(c, lines)'
  BY <1>1, <1>4 DEF Owed
<1> QED BY <1>3, <1>4 DEF Wrote

LEMMA WriteCompletesReplies ==
    ASSUME IInv, ReplyInv, NEW c \in Connections, Outside(write_completes(c))
    PROVE  ReplyInv'
<1>1. /\ TypeOK /\ handlers \in Seq(Handlers)
      /\ writes \in [Connections -> Seq(Writes(1 .. Pieces))]
  BY DEF IInv, TypeOK
<1>2. /\ writes[c] # <<>> /\ writes' = [writes EXCEPT ![c] = Tail(@)]
      /\ UNCHANGED <<running, accepting, alive, state, reading, input, peer, accepted, wire,
                     asked, executed, hasty, stale>>
  BY DEF Outside, write_completes
<1>3. PICK op \in Writes(1 .. Pieces) : op = Head(writes[c])
  BY <1>1, <1>2
<1>4. \/ /\ peer[c] = "reset" /\ handlers' = Append(handlers, handler("write error", c))
         /\ UNCHANGED <<unread, received>>
      \/ /\ room(c) > 0 /\ transmit(op, c)
         /\ handlers' = Append(handlers, write_handler(after_write(op, c), c))
  BY <1>3 DEF Outside, write_completes
<1>5. PICK h \in Of(c) : handlers' = Append(handlers, h)
  <2>1. CASE handlers' = Append(handlers, handler("write error", c))
    BY <2>1, Sorts
  <2>2. CASE /\ room(c) > 0 /\ transmit(op, c)
             /\ handlers' = Append(handlers, write_handler(after_write(op, c), c))
    <3>1. after_write(op, c) \in Writes(0 .. Pieces)
      BY <1>1, <2>2, Transmitted
    <3> QED BY <2>2, <3>1, Sorts
  <2> QED BY <1>4, <2>1, <2>2
<1>6. ASSUME NEW d \in Connections, d # c PROVE SameOf(d) /\ SameConn(d)
  <2>1. h \in Handlers /\ h \notin Of(d)
    BY <1>6, Apart
  <2>2. SameOf(d)
    BY <1>1, <1>5, <2>1, OfPushed
  <2>3. received'[d] = received[d]
    BY <1>1, <1>4, <1>6 DEF transmit, TypeOK
  <2>4. writes'[d] = writes[d]
    BY <1>1, <1>2, <1>6
  <2> QED BY <1>2, <2>2, <2>3, <2>4 DEF SameConn, Stays
<1>7. ASSUME c \notin hasty' PROVE ReplyOK(c)'
  <2>1. Told(c) /\ SessionOK(c)
    BY <1>2, <1>7 DEF ReplyInv, Outside
  <2>2. ~Idle(c)
    BY <1>2 DEF Idle
  <2>3. Owed(c)
    BY <2>1, <2>2 DEF SessionOK, Unstarted, Waiting, Settled, Ended, Finished
  <2>4. PICK lines \in Seq(LineKinds) : lines = asked[c]
    BY <1>1 DEF TypeOK
  <2>5. /\ c \in alive /\ Stays(c) /\ executed[c] = lines /\ writes[c] = <<op>>
        /\ None(handlers, GoesOn(c)) /\ Writing(c, op, lines)
    <3>1. PICK o \in Writes(1 .. Pieces) :
            Under(c, o) /\ o.text = nth_text(lines, Len(lines)) /\ Len(received[c]) = due(lines) - o.left
      BY <2>3, <2>4 DEF Owed, Pending
    <3>2. writes[c] = <<o>> /\ None(handlers, GoesOn(c))
      BY <1>2, <3>1 DEF Under
    <3>3. o = op
      BY <1>3, <3>2
    <3>4. c \in alive /\ Stays(c) /\ executed[c] = lines
      BY <2>3, <2>4 DEF Owed
    <3>5. NoQuit(lines) /\ ToldBy(received[c], lines)
      BY <2>1, <3>4 DEF SessionOK, Told
    <3> QED BY <3>1, <3>2, <3>3, <3>4, <3>5 DEF Writing
  <2>6. writes'[c] = <<>>
    BY <1>1, <1>2, <2>5
  <2>7. /\ room(c) > 0 /\ transmit(op, c)
        /\ handlers' = Append(handlers, write_handler(after_write(op, c), c))
    BY <1>4, <2>5 DEF Stays
  <2>8. handlers' = handlers \o (<<write_handler(after_write(op, c), c)>> \o <<>>)
    <3>1. PICK w \in Handlers : w = write_handler(after_write(op, c), c)
      BY <1>1, <2>7, Transmitted, Kinds
    <3>2. handlers' = Append(handlers, w)
      BY <2>7, <3>1
    <3>3. <<w>> \in Seq(Handlers) /\ Append(handlers, w) = handlers \o <<w>>
      BY <1>1, AppendIsConcat
    <3>4. <<w>> \o <<>> = <<w>>
      BY <3>3, ConcatEmptySeq
    <3> QED BY <3>1, <3>2, <3>3, <3>4
  <2>9. <<>> \in Seq(Handlers) /\ \A S : None(<<>>, S)
    BY EmptySeq DEF None
  <2>10. /\ Wrote(c, lines)
         /\ \A S \in {ErrorOf(c), LossOf(c), AcceptOf(c)} : None(handlers, S) => None(handlers', S)
    BY <1>1, <2>5, <2>6, <2>7, <2>8, <2>9, TransmitsAndQueues
  <2>11. Told(c)' /\ (Owed(c)' \/ Settled(c)')
    <3>1. executed'[c] = lines /\ asked'[c] = lines /\ c \in alive' /\ Stays(c)'
      BY <1>2, <2>4, <2>5 DEF Stays
    <3> QED BY <2>10, <3>1, WroteIsOwed
  <2>12. None(handlers', ErrorOf(c)) /\ None(handlers', LossOf(c))
    BY <2>1, <2>5, <2>10 DEF SessionOK
  <2>13. SessionOK(c)'
    BY <1>2, <2>1, <2>5, <2>11, <2>12 DEF SessionOK
  <2> QED BY <2>11, <2>13 DEF ReplyOK
<1> QED BY <1>2, <1>6, <1>7, ReplyStep DEF ReplyInv

\* A session starts with its greeting.
LEMMA HandleAcceptReplies ==
    ASSUME IInv, ReplyInv, running, NEW c \in Connections, handle_accept(c)
    PROVE  ReplyInv'
<1>1. TypeOK /\ handlers \in Seq(Handlers) /\ ConnOK(c)
  BY DEF IInv, TypeOK
<1>2. /\ handlers # <<>> /\ Head(handlers) = handler("accept", c)
      /\ alive' = alive \cup {c} /\ state' = [state EXCEPT ![c] = "Running"]
      /\ UNCHANGED <<running, input, peer, accepted, wire, asked, executed, hasty, stale>>
  BY DEF handle_accept, runs
<1>3. PICK op \in Writes(1 .. Pieces) :
        op.text = "help" /\ op.left = Pieces /\ async_write(op, c, <<>>)
  <2> DEFINE o == [text |-> guarded(state'[c], "help"), left |-> Pieces]
  <2>1. state'[c] = "Running"
    BY <1>1, <1>2 DEF TypeOK
  <2>2. o \in Writes(1 .. Pieces) /\ o.text = "help" /\ o.left = Pieces
    BY <2>1, PiecesNat DEF Writes, Texts, guarded
  <2>3. async_write(o, c, <<>>)
    BY DEF handle_accept, send
  <2> HIDE DEF o
  <2> QED BY <2>2, <2>3
<1>4. <<>> \in Seq(Handlers) /\ \A S : None(<<>>, S)
  BY EmptySeq DEF None
<1>5. ~None(handlers, AcceptOf(c)) /\ c \notin alive /\ executed[c] = <<>> /\ Head(handlers) \in Of(c)
  <2>1. Head(handlers) \in AcceptOf(c) /\ Head(handlers) \in Of(c)
    <3>1. handler("accept", c) \in AcceptOf(c) /\ handler("accept", c) \in Of(c)
      BY Members, Sorts
    <3> QED BY <1>2, <3>1
  <2>2. ~None(handlers, AcceptOf(c))
    BY <1>1, <1>2, <2>1, Popped
  <2> QED BY <1>1, <2>1, <2>2 DEF ConnOK, AcceptOK, Untouched
<1>6. ASSUME NEW d \in Connections, d # c PROVE SameOf(d) /\ SameConn(d)
  <2>1. SameOf(d) /\ writes'[d] = writes[d] /\ received'[d] = received[d]
    BY <1>1, <1>2, <1>3, <1>4, <1>5, <1>6, AsyncElsewhere
  <2>2. state'[d] = state[d] /\ (d \in alive' <=> d \in alive)
    BY <1>1, <1>2, <1>6 DEF TypeOK
  <2> QED BY <1>2, <2>1, <2>2 DEF SameConn, Stays
<1>7. ASSUME c \notin hasty' PROVE ReplyOK(c)'
  <2>1. Told(c) /\ SessionOK(c)
    BY <1>2, <1>7 DEF ReplyInv
  <2>2. Unstarted(c)
    BY <1>5, <2>1 DEF SessionOK, Owed, Waiting, Settled, Ended
  <2>3. PICK lines \in Seq(LineKinds) : lines = <<>>
    BY EmptySeq
  <2>4. asked[c] = lines /\ executed[c] = lines /\ Stays(c) /\ writes[c] = <<>>
    BY <1>5, <2>2, <2>3 DEF Unstarted, Idle
  <2>5. NoQuit(lines)
    BY <2>3 DEF NoQuit, answerable
  <2>6. Writing(c, op, lines)
    <3>1. Len(lines) = 0 /\ nth_text(lines, 0) = "help"
      BY <2>3 DEF nth_text
    <3>2. due(lines) = Pieces
      <4>1. due(lines) = Pieces * (Len(lines) + 1)
        BY <2>3, <2>5, DueType
      <4> QED BY <3>1, <4>1, PiecesNat
    <3>3. Len(received[c]) = 0
      BY <2>2 DEF Unstarted
    <3>4. ToldBy(received[c], lines)
      BY <2>1, <2>4 DEF Told
    <3> QED BY <1>3, <2>5, <3>1, <3>2, <3>3, <3>4, PiecesNat DEF Writing
  <2>7. \A S \in {ErrorOf(c), LossOf(c), GoesOn(c)} : None(handlers, S) => None(Tail(handlers), S)
    BY <1>1, <1>2, Popped
  <2>8. None(Tail(handlers), GoesOn(c))
    BY <2>2, <2>7 DEF Unstarted, Idle
  <2>9. /\ Wrote(c, lines)
        /\ \A S \in {ErrorOf(c), LossOf(c), AcceptOf(c)} : None(Tail(handlers), S) => None(handlers', S)
    BY <1>1, <1>2, <1>3, <1>4, <2>4, <2>6, <2>8, AsyncWrites
  <2>10. None(handlers', ErrorOf(c)) /\ None(handlers', LossOf(c))
    BY <2>1, <2>4, <2>7, <2>9 DEF SessionOK
  <2>11. executed'[c] = lines /\ asked'[c] = lines /\ c \in alive' /\ Stays(c)' /\ state'[c] = "Running"
    BY <1>1, <1>2, <2>4 DEF Stays, TypeOK
  <2>12. Told(c)' /\ (Owed(c)' \/ Settled(c)')
    BY <2>9, <2>11, WroteIsOwed
  <2>13. SessionOK(c)'
    BY <2>5, <2>10, <2>11, <2>12 DEF SessionOK
  <2> QED BY <2>12, <2>13 DEF ReplyOK
<1> QED BY <1>2, <1>6, <1>7, ReplyStep DEF ReplyInv

LEMMA StartThrowsReplies ==
    ASSUME ReplyInv, start_throws
    PROVE  ReplyInv'
<1>1. running' = FALSE /\ UNCHANGED <<session_vars, client_vars, ghosts>>
  BY DEF start_throws
<1>2. \A c \in Connections \ hasty : Told(c)'
  BY <1>1 DEF ReplyInv, Told, ghosts
<1> QED BY <1>1, <1>2 DEF ReplyInv, ghosts

\* A line is handled: it was the last one, and the client has the replies to
\* those before it.
LEMMA HandleLineReplies ==
    ASSUME IInv, ReplyInv, running, NEW c \in Connections, handle_line(c)
    PROVE  ReplyInv'
<1>1. /\ TypeOK /\ handlers \in Seq(Handlers) /\ ConnOK(c)
      /\ executed \in [Connections -> Seq(LineKinds)] /\ input \in [Connections -> Seq(LineKinds)]
      /\ asked \in [Connections -> Seq(LineKinds)]
  BY DEF IInv, TypeOK
<1>2. handlers # <<>> /\ Head(handlers) = handler("read", c)
  BY DEF handle_line, runs
<1>3. c \in alive /\ input[c] # <<>> /\ Head(handlers) \in Of(c)
  <2>1. handler("read", c) \in ReadOf(c) /\ handler("read", c) \in Of(c)
    BY Members, Sorts
  <2>2. c \in alive /\ input[c] # <<>>
    BY <1>2, <2>1, ReadRuns
  <2> QED BY <1>2, <2>1, <2>2
<1>4. PICK line \in LineKinds : line = Head(input[c])
  BY <1>1, <1>3
<1>5. PICK rest \in Seq(LineKinds) : rest = Tail(input[c])
  <2>1. PICK y \in Seq(LineKinds) : y = input[c]
    BY <1>1
  <2>2. Tail(y) \in Seq(LineKinds)
    BY <1>3, <2>1, HeadTailProperties
  <2> QED BY <2>1, <2>2
<1>6. /\ line # "quit"
      /\ executed' = [executed EXCEPT ![c] = Append(@, line)]
      /\ state' = IF line = "login" THEN [state EXCEPT ![c] = "Running"] ELSE state
      /\ UNCHANGED <<running, accepting, alive, peer, accepted, wire, asked, hasty, stale>>
  BY <1>4 DEF handle_line
<1>7. PICK more \in Seq(Handlers) :
        /\ more = next_read(c, rest)
        /\ \A S : handler("read", c) \notin S => None(more, S)
  <2>1. handler("read", c) \in Handlers
    BY Kinds
  <2>2. next_read(c, rest) = <<>> \/ next_read(c, rest) = <<handler("read", c)>>
    BY DEF next_read
  <2> QED BY <2>1, <2>2, Alone
<1>8. PICK op \in Writes(1 .. Pieces) :
        /\ op.text = IF line = "login" THEN reply(line) ELSE guarded(state[c], reply(line))
        /\ op.left = Pieces /\ async_write(op, c, more)
  <2> DEFINE text == IF line = "login" THEN reply(line) ELSE guarded(state[c], reply(line))
             o == [text |-> text, left |-> Pieces]
  <2>1. text \in Texts
    BY <1>4, <1>6, RepliesAreTexts
  <2>2. async_write(o, c, more)
    BY <1>4, <1>5, <1>7 DEF handle_line, send, left_over
  <2> HIDE DEF text
  <2>3. o \in Writes(1 .. Pieces) /\ o.text = text /\ o.left = Pieces
    BY <2>1, PiecesNat DEF Writes
  <2> HIDE DEF o
  <2>4. o.text = IF line = "login" THEN reply(line) ELSE guarded(state[c], reply(line))
    BY <2>3 DEF text
  <2> QED BY <2>2, <2>3, <2>4
<1>9. ASSUME NEW d \in Connections, d # c PROVE SameOf(d) /\ SameConn(d)
  <2>1. handler("read", c) \notin Telling(d)
    BY <1>2, <1>3, <1>9, Apart, Sorts
  <2>2. None(more, Telling(d))
    BY <1>7, <2>1
  <2>3. SameOf(d) /\ writes'[d] = writes[d] /\ received'[d] = received[d]
    BY <1>1, <1>2, <1>3, <1>8, <1>9, <2>2, AsyncElsewhere
  <2>4. executed'[d] = executed[d] /\ state'[d] = state[d]
    BY <1>1, <1>6, <1>9 DEF TypeOK
  <2> QED BY <1>6, <2>3, <2>4 DEF SameConn, Stays
<1>10. ASSUME c \notin hasty' PROVE ReplyOK(c)'
  <2>1. Told(c) /\ SessionOK(c)
    BY <1>6, <1>10 DEF ReplyInv
  <2>2. state[c] = "Running" /\ NoQuit(executed[c])
    BY <1>3, <2>1 DEF SessionOK
  <2>3. PICK x \in Seq(LineKinds), a \in Seq(LineKinds) : x = executed[c] /\ a = asked[c]
    BY <1>1
  <2>4. /\ Len(x) \in Nat /\ Len(a) \in Nat /\ Len(x) < Len(a)
        /\ \A i \in 1 .. Len(x) : a[i] = x[i]
        /\ a[Len(x) + 1] = line
        /\ DOMAIN a = 1 .. Len(a) /\ Len(x) + 1 \in DOMAIN a
    <3>1. Len(input[c]) >= 1
      BY <1>1, <1>3
    <3>2. Len(x) + Len(input[c]) <= Len(a) /\ \A i \in 1 .. Len(x) : a[i] = x[i]
      BY <1>3, <2>3, LinesOf
    <3>3. a[Len(x) + 1] = line
      BY <1>3, <1>4, <2>3, LinesOf
    <3>4. Len(x) \in Nat /\ Len(a) \in Nat /\ Len(input[c]) \in Nat /\ DOMAIN a = 1 .. Len(a)
      BY <1>1
    <3>5. Len(x) < Len(a)
      BY <3>1, <3>2, <3>4
    <3>6. Len(x) + 1 \in 1 .. Len(a)
      BY <3>4, <3>5
    <3> QED BY <3>2, <3>3, <3>4, <3>5, <3>6
  <2>5. Waiting(c)
    <3>1. ~Owed(c)
      BY <2>3, <2>4 DEF Owed
    <3>2. ~Settled(c)
      BY <1>6, <2>3, <2>4 DEF Settled, QuitsTo
    <3> QED BY <1>3, <2>1, <3>1, <3>2 DEF SessionOK, Unstarted, Ended
  <2>6. Len(a) = Len(x) + 1
    <3>1. QuitsTo(c, Len(a) - 1)
      BY <2>3, <2>5 DEF Waiting
    <3>2. \A i \in DOMAIN a : i > Len(x) /\ i <= Len(a) - 1 => a[i] = "quit"
      BY <2>3, <3>1 DEF QuitsTo
    <3>3. PICK i \in DOMAIN a : i = Len(x) + 1
      BY <2>4
    <3>4. a[i] = line /\ i > Len(x) /\ i <= Len(a)
      BY <2>4, <3>3
    <3>5. ~(i <= Len(a) - 1)
      BY <1>6, <3>2, <3>3, <3>4
    <3>6. PICK p \in Nat, q \in Nat : p = Len(x) /\ q = Len(a)
      BY <2>4
    <3>7. i = p + 1 /\ i <= q /\ ~(i <= q - 1)
      BY <3>3, <3>4, <3>5, <3>6
    <3>8. q = p + 1
      BY <3>6, <3>7
    <3> QED BY <3>6, <3>8
  <2>7. PICK lines \in Seq(LineKinds) : lines = Append(x, line)
    <3>1. Append(x, line) \in Seq(LineKinds)
      BY <1>4, <2>3, AppendProperties
    <3> QED BY <3>1
  <2>8. lines = a
    BY <2>4, <2>6, <2>7
  <2>9. /\ Stays(c) /\ writes[c] = <<>> /\ None(handlers, GoesOn(c)) /\ Len(received[c]) = due(x)
    BY <2>3, <2>5 DEF Waiting, Finished, Idle
  <2>10. NoQuit(lines) /\ due(lines) = due(x) + Pieces
    BY <1>6, <2>2, <2>3, <2>7, DueAppended
  <2>11. Writing(c, op, lines)
    <3>1. ToldBy(received[c], lines)
      BY <1>1, <2>1, <2>2, <2>3, <2>7, StaysTold DEF Told, TypeOK
    <3>2. op.text = nth_text(lines, Len(lines))
      <4>1. nth_text(lines, Len(lines)) = reply(line)
        BY <2>4, <2>6, <2>8 DEF nth_text
      <4> QED BY <1>8, <2>2, <4>1 DEF guarded
    <3>3. Len(received[c]) = due(lines) - op.left
      BY <1>8, <2>3, <2>9, <2>10, DueType, PiecesNat
    <3> QED BY <1>8, <2>10, <3>1, <3>2, <3>3 DEF Writing
  <2>12. /\ None(more, GoesOn(c)) /\ None(more, ErrorOf(c)) /\ None(more, LossOf(c))
    BY <1>7, Sorts
  <2>13. \A S \in {ErrorOf(c), LossOf(c), GoesOn(c)} : None(handlers, S) => None(Tail(handlers), S)
    BY <1>1, <1>2, Popped
  <2>14. None(Tail(handlers), GoesOn(c))
    BY <2>9, <2>13
  <2>15. /\ Wrote(c, lines)
         /\ \A S \in {ErrorOf(c), LossOf(c), AcceptOf(c)} :
              None(Tail(handlers), S) /\ None(more, S) => None(handlers', S)
    BY <1>1, <1>2, <1>8, <2>9, <2>11, <2>12, <2>14, AsyncWrites
  <2>16. None(handlers', ErrorOf(c)) /\ None(handlers', LossOf(c))
    BY <2>1, <2>9, <2>12, <2>13, <2>15 DEF SessionOK
  <2>17. executed'[c] = lines /\ asked'[c] = lines /\ c \in alive' /\ Stays(c)' /\ state'[c] = "Running"
    BY <1>1, <1>3, <1>6, <2>2, <2>3, <2>7, <2>8, <2>9 DEF Stays, TypeOK
  <2>18. Told(c)' /\ (Owed(c)' \/ Settled(c)')
    BY <2>15, <2>17, WroteIsOwed
  <2>19. SessionOK(c)'
    BY <2>10, <2>16, <2>17, <2>18 DEF SessionOK
  <2> QED BY <2>18, <2>19 DEF ReplyOK
<1> QED BY <1>6, <1>9, <1>10, ReplyStep DEF ReplyInv

LEMMA Lengths ==
    ASSUME NEW L, NEW s \in Seq(L)
    PROVE  /\ Len(s) \in Nat /\ DOMAIN s = 1 .. Len(s)
           /\ s = <<>> <=> Len(s) = 0
           /\ s = <<>> <=> DOMAIN s = {}
OBVIOUS

LEMMA Repeats ==
    ASSUME NEW n \in Nat, NEW h \in Handlers
    PROVE  [i \in 1 .. n |-> h] \in Seq(Handlers)
OBVIOUS

\* A line that is to be handled was not handled before.
LEMMA LinesLeft ==
    ASSUME IInv, NEW c \in Connections, c \in alive, input[c] # <<>>
    PROVE  executed[c] # asked[c]
<1>1. PICK x \in Seq(LineKinds), y \in Seq(LineKinds) : x = executed[c] /\ y = input[c]
  BY DEF IInv, TypeOK
<1>2. Len(x) + Len(y) <= Len(asked[c])
  BY <1>1, LinesOf
<1>3. Len(x) \in Nat /\ Len(y) \in Nat /\ Len(y) # 0
  BY <1>1, Lengths
<1>4. ~(Len(x) + Len(y) <= Len(x))
  BY <1>3
<1> QED BY <1>1, <1>2, <1>4

\* A session ends, by a quit or by the client's leaving: no write is under way.
LEMMA ClosesReplies ==
    ASSUME IInv, ReplyInv, running, handlers # <<>>, NEW c \in Connections,
           NEW k \in {"read", "read error"}, Head(handlers) = handler(k, c), close(c),
           input[c] # <<>> \/ k = "read error",
           \A d \in Connections : d # c => executed'[d] = executed[d],
           executed'[c] = IF k = "read" THEN Append(executed[c], "quit") ELSE executed[c]
    PROVE  ReplyInv'
<1>1. TypeOK /\ handlers \in Seq(Handlers) /\ ConnOK(c)
  BY DEF IInv, TypeOK
<1>2. /\ alive' = alive \ {c} /\ writes' = [writes EXCEPT ![c] = <<>>]
      /\ UNCHANGED <<running, accepting, state, reading, peer, accepted, wire, unread,
                     asked, received, hasty, stale>>
  BY DEF close, client_vars
<1>3. c \in alive /\ c \in accepted /\ None(Tail(handlers), AcceptOf(c)) /\ Head(handlers) \in Of(c)
  <2>1. handler(k, c) \in ReadOf(c) /\ handler(k, c) \in Of(c)
    BY Members, Sorts
  <2> QED BY <2>1, ReadRuns
<1>4. PICK h \in Handlers : h = handler("write error", c) /\ h \in Of(c)
  BY Kinds, Sorts
<1>5. PICK errs \in Seq(Handlers) :
        /\ errs = [i \in DOMAIN writes[c] |-> h]
        /\ handlers' = Tail(handlers) \o errs
  <2>1. PICK n \in Nat : n = Len(writes[c]) /\ DOMAIN writes[c] = 1 .. n
    <3>1. writes[c] \in Seq(Writes(1 .. Pieces))
      BY <1>1 DEF TypeOK
    <3>2. Len(writes[c]) \in Nat /\ DOMAIN writes[c] = 1 .. Len(writes[c])
      BY <3>1, Lengths
    <3> QED BY <3>2
  <2>2. [i \in 1 .. n |-> h] \in Seq(Handlers)
    BY Repeats
  <2>3. handlers' = Tail(handlers) \o [i \in DOMAIN writes[c] |-> h]
    BY <1>4 DEF close
  <2> QED BY <2>1, <2>2, <2>3
<1>6. ASSUME NEW d \in Connections, d # c PROVE SameOf(d) /\ SameConn(d)
  <2>1. h \notin Telling(d) /\ Head(handlers) \notin Telling(d)
    BY <1>3, <1>4, <1>6, Apart, Sorts
  <2>2. None(errs, Telling(d))
    BY <1>5, <2>1 DEF None
  <2>3. SameOf(d)
    BY <1>1, <1>5, <2>1, <2>2, OfRun
  <2>4. writes'[d] = writes[d] /\ (d \in alive' <=> d \in alive)
    BY <1>1, <1>2, <1>6 DEF TypeOK
  <2> QED BY <1>2, <1>6, <2>3, <2>4 DEF SameConn, Stays
<1>7. ASSUME c \notin hasty' PROVE ReplyOK(c)'
  <2>1. Told(c) /\ SessionOK(c)
    BY <1>2, <1>7 DEF ReplyInv
  <2>2. NoQuit(executed[c])
    BY <1>3, <2>1 DEF SessionOK
  <2>3. ~Owed(c)
    <3>1. SUFFICES ASSUME Owed(c) PROVE FALSE
      OBVIOUS
    <3>2. CASE k = "read"
      <4>1. input[c] # <<>>
        BY <3>2
      <4>2. executed[c] # asked[c]
        BY <1>3, <4>1, LinesLeft
      <4> QED BY <3>1, <4>2 DEF Owed
    <3>3. CASE k = "read error"
      <4>1. None(handlers, LossOf(c)) /\ handler("read error", c) \in LossOf(c)
        BY <2>1, <3>1, Sorts DEF SessionOK, Owed
      <4> QED BY <1>1, <3>3, <4>1, Popped
    <3> QED BY <3>2, <3>3
  <2>4. Idle(c)
    BY <1>3, <2>1, <2>3 DEF SessionOK, Unstarted, Waiting, Settled, Ended, Finished
  <2>5. handlers' = Tail(handlers)
    <3>1. writes[c] \in Seq(Writes(1 .. Pieces)) /\ writes[c] = <<>>
      BY <1>1, <2>4 DEF Idle, TypeOK
    <3>2. DOMAIN writes[c] = {}
      BY <3>1, Lengths
    <3>3. errs \in Seq(Handlers) /\ DOMAIN errs = {}
      BY <1>5, <3>2
    <3>4. errs = <<>>
      BY <3>3, Lengths
    <3>5. Tail(handlers) \in Seq(Handlers) /\ Tail(handlers) \o <<>> = Tail(handlers)
      BY <1>1, Popped, ConcatEmptySeq
    <3> QED BY <1>5, <3>4, <3>5
  <2>6. \A S : None(handlers, S) => None(handlers', S)
    BY <1>1, <2>5, Popped
  <2>7. writes'[c] = <<>> /\ c \notin alive' /\ c \in accepted'
    BY <1>1, <1>2, <1>3 DEF TypeOK
  <2>8. Ended(c)'
    BY <1>3, <2>4, <2>5, <2>6, <2>7 DEF Ended, Idle
  <2>9. SessionOK(c)'
    BY <1>2, <2>1, <2>6, <2>7, <2>8 DEF SessionOK, Stays
  <2>10. Told(c)'
    <3>1. PICK x \in Seq(LineKinds), rec \in Seq(Texts \X (1 .. Pieces)) :
            x = executed[c] /\ rec = received[c]
      BY <1>1 DEF TypeOK
    <3>2. ToldBy(rec, x) /\ NoQuit(x) /\ "quit" \in LineKinds
      BY <2>1, <2>2, <3>1 DEF Told, LineKinds
    <3>3. ToldBy(rec, Append(x, "quit"))
      BY <3>1, <3>2, StaysTold
    <3>4. ToldBy(received'[c], executed'[c])
      BY <1>2, <3>1, <3>2, <3>3
    <3> QED BY <3>4 DEF Told
  <2> QED BY <2>9, <2>10 DEF ReplyOK
<1> QED BY <1>2, <1>6, <1>7, ReplyStep DEF ReplyInv

LEMMA HandleQuitReplies ==
    ASSUME IInv, ReplyInv, running, NEW c \in Connections, handle_quit(c) \/ handle_read_error(c)
    PROVE  ReplyInv'
<1>1. executed \in [Connections -> Seq(LineKinds)]
  BY DEF IInv, TypeOK
<1>2. CASE handle_quit(c)
  <2>1. /\ handlers # <<>> /\ Head(handlers) = handler("read", c) /\ close(c)
        /\ executed' = [executed EXCEPT ![c] = Append(@, "quit")]
    BY <1>2 DEF handle_quit, runs
  <2>2. input[c] # <<>>
    BY <2>1, ReadRuns, Members
  <2>3. /\ \A d \in Connections : d # c => executed'[d] = executed[d]
        /\ executed'[c] = Append(executed[c], "quit")
    BY <1>1, <2>1
  <2> QED BY <2>1, <2>2, <2>3, ClosesReplies
<1>3. CASE handle_read_error(c)
  <2>1. handlers # <<>> /\ Head(handlers) = handler("read error", c) /\ close(c) /\ executed' = executed
    BY <1>3 DEF handle_read_error, runs
  <2> QED BY <2>1, ClosesReplies
<1> QED BY <1>2, <1>3

\* A reply goes on: its client has not had it all, so its session has not ended
\* unless the client was hasty.
LEMMA WriteGoesOnReplies ==
    ASSUME IInv, ReplyInv, running, NEW c \in Connections, write_goes_on(c)
    PROVE  ReplyInv'
<1>1. TypeOK /\ handlers \in Seq(Handlers)
  BY DEF IInv, TypeOK
<1>2. /\ handlers # <<>>
      /\ Head(handlers).kind = "write" /\ Head(handlers).conn = c /\ Head(handlers).op.left > 0
      /\ touches(c)
      /\ IF c \in alive
         THEN async_write(Head(handlers).op, c, <<>>)
         ELSE handlers' = Tail(handlers) /\ UNCHANGED <<writes, unread, received>>
      /\ UNCHANGED <<running, accepting, alive, state, reading, input, peer, accepted,
                     wire, asked, executed, hasty>>
  BY DEF write_goes_on
<1>3. PICK op \in Writes(1 .. Pieces) : Head(handlers) = write_handler(op, c)
  <2>1. PICK h \in Handlers : h = Head(handlers)
    BY <1>1, <1>2, Popped
  <2>2. h.kind = "write" /\ h.conn = c /\ h.op.left > 0
    BY <1>2, <2>1
  <2>3. h \in [kind : {"write"}, conn : Connections, op : Writes(0 .. Pieces)]
    <3>1. \A g \in [kind : {"accept", "read", "read error", "write error"}, conn : Connections] :
            g.kind # "write"
      OBVIOUS
    <3>2. [kind |-> "accept error"].kind # "write"
      OBVIOUS
    <3> QED BY <2>2, <3>1, <3>2 DEF Handlers
  <2>4. PICK op \in Writes(0 .. Pieces) : op = h.op
    BY <2>3
  <2>5. op.left \in 1 .. Pieces
    BY <2>2, <2>4, PiecesNat DEF Writes
  <2>6. op \in Writes(1 .. Pieces)
    BY <2>4, <2>5 DEF Writes
  <2>7. h = write_handler(op, c)
    BY <2>2, <2>3, <2>4 DEF write_handler
  <2> QED BY <2>1, <2>6, <2>7
<1>4. Head(handlers) \in Of(c) /\ Head(handlers) \in GoesOn(c) /\ Head(handlers).op = op
  <2>1. write_handler(op, c) \in Of(c) /\ write_handler(op, c) \in GoesOn(c)
    BY Sorts
  <2> QED BY <1>3, <2>1 DEF write_handler
<1>5. <<>> \in Seq(Handlers) /\ \A S : None(<<>>, S)
  BY EmptySeq DEF None
<1>6. ASSUME NEW d \in Connections, d # c PROVE SameOf(d) /\ SameConn(d)
  <2>1. SameOf(d) /\ writes'[d] = writes[d] /\ received'[d] = received[d]
    <3>1. CASE async_write(op, c, <<>>)
      BY <1>1, <1>2, <1>4, <1>5, <1>6, <3>1, AsyncElsewhere
    <3>2. CASE handlers' = Tail(handlers) /\ UNCHANGED <<writes, unread, received>>
      <4>1. handlers' = Tail(handlers) \o <<>>
        BY <1>1, <1>2, <3>2, Popped, ConcatEmptySeq
      <4>2. Head(handlers) \notin Telling(d)
        BY <1>4, <1>6, Apart, Sorts
      <4> QED BY <1>1, <1>2, <1>5, <3>2, <4>1, <4>2, OfRun
    <3> QED BY <1>2, <1>4, <3>1, <3>2
  <2> QED BY <1>2, <2>1 DEF SameConn, Stays
<1>7. ~None(handlers, GoesOn(c))
  BY <1>1, <1>2, <1>4, Popped
<1>8. c \notin hasty => Told(c) /\ SessionOK(c) /\ Owed(c)
  <2>1. ~Idle(c)
    BY <1>7 DEF Idle
  <2> QED BY <2>1 DEF ReplyInv, SessionOK, Unstarted, Waiting, Settled, Ended, Finished
<1>9. stale' \subseteq hasty
  BY <1>2, <1>8 DEF touches, Owed, ReplyInv
<1>10. ASSUME c \notin hasty' PROVE ReplyOK(c)'
  <2>1. Told(c) /\ SessionOK(c) /\ Owed(c)
    BY <1>2, <1>8, <1>10
  <2>2. PICK lines \in Seq(LineKinds) : lines = asked[c]
    BY <1>1 DEF TypeOK
  <2>3. /\ c \in alive /\ Stays(c) /\ executed[c] = lines /\ writes[c] = <<>>
        /\ One(handlers, GoesOn(c)) /\ Writing(c, op, lines)
    <3>1. PICK o \in Writes(1 .. Pieces) :
            Under(c, o) /\ o.text = nth_text(lines, Len(lines)) /\ Len(received[c]) = due(lines) - o.left
      BY <2>1, <2>2 DEF Owed, Pending
    <3>2. writes[c] = <<>> /\ One(handlers, GoesOn(c)) /\ ~None(handlers, {write_handler(o, c)})
      BY <1>7, <3>1 DEF Under
    <3>3. o = op
      <4>1. PICK i \in DOMAIN handlers : handlers[i] = write_handler(o, c)
        BY <3>2 DEF None
      <4>2. 1 \in DOMAIN handlers /\ handlers[1] = write_handler(op, c)
        BY <1>1, <1>2, <1>3
      <4>3. handlers[i] \in GoesOn(c) /\ handlers[1] \in GoesOn(c)
        <5>1. write_handler(o, c) \in GoesOn(c) /\ write_handler(op, c) \in GoesOn(c)
          BY DEF GoesOn
        <5> QED BY <4>1, <4>2, <5>1
      <4>4. i = 1
        BY <3>2, <4>2, <4>3 DEF One
      <4>5. write_handler(o, c) = write_handler(op, c)
        BY <4>1, <4>2, <4>4
      <4> QED BY <4>5, Sorts
    <3>4. c \in alive /\ Stays(c) /\ executed[c] = lines
      BY <2>1, <2>2 DEF Owed
    <3>5. NoQuit(lines) /\ ToldBy(received[c], lines)
      BY <2>1, <3>4 DEF SessionOK, Told
    <3> QED BY <3>1, <3>2, <3>3, <3>4, <3>5 DEF Writing
  <2>4. None(Tail(handlers), GoesOn(c))
    BY <1>1, <1>2, <1>4, <2>3, Popped
  <2>5. /\ Wrote(c, lines)
        /\ \A S \in {ErrorOf(c), LossOf(c), AcceptOf(c)} : None(Tail(handlers), S) => None(handlers', S)
    BY <1>1, <1>2, <1>4, <1>5, <2>3, <2>4, AsyncWrites
  <2>6. \A S : None(handlers, S) => None(Tail(handlers), S)
    BY <1>1, <1>2, Popped
  <2>7. None(handlers', ErrorOf(c)) /\ None(handlers', LossOf(c))
    BY <2>1, <2>3, <2>5, <2>6 DEF SessionOK
  <2>8. executed'[c] = lines /\ asked'[c] = lines /\ c \in alive' /\ Stays(c)'
    BY <1>2, <2>2, <2>3 DEF Stays
  <2>9. Told(c)' /\ (Owed(c)' \/ Settled(c)')
    BY <2>5, <2>8, WroteIsOwed
  <2>10. SessionOK(c)'
    BY <1>2, <2>1, <2>3, <2>7, <2>8, <2>9 DEF SessionOK
  <2> QED BY <2>9, <2>10 DEF ReplyOK
<1> QED BY <1>2, <1>6, <1>9, <1>10, ReplyStep

LEMMA HandleWriteReplies ==
    ASSUME IInv, ReplyInv, running, NEW c \in Connections, handle_write(c)
    PROVE  ReplyInv'
<1>1. handlers \in Seq(Handlers)
  BY DEF IInv, TypeOK
<1>2. /\ handlers # <<>> /\ handlers' = Tail(handlers)
      /\ \/ Head(handlers) = handler("write error", c) /\ touches(c)
         \/ /\ Head(handlers).kind = "write" /\ Head(handlers).conn = c
            /\ Head(handlers).op.left = 0
            /\ UNCHANGED stale
      /\ UNCHANGED <<running, accepting, session_vars, client_vars, asked, executed,
                     received, hasty>>
  BY DEF handle_write, runs
<1>3. Head(handlers) = handler("write error", c) => c \in hasty
  <2>1. SUFFICES ASSUME Head(handlers) = handler("write error", c), c \notin hasty PROVE FALSE
    OBVIOUS
  <2>2. None(handlers, ErrorOf(c)) /\ handler("write error", c) \in ErrorOf(c)
    BY <2>1, Sorts DEF ReplyInv, SessionOK
  <2> QED BY <1>1, <1>2, <2>1, <2>2, Popped
<1>4. stale' \subseteq hasty
  BY <1>2, <1>3 DEF touches, ReplyInv
<1>5. ASSUME NEW d \in Connections, d \notin hasty PROVE Head(handlers) \notin Telling(d)
  <2>1. PICK h \in Handlers : h = Head(handlers)
    BY <1>1, <1>2, Popped
  <2>2. CASE h = handler("write error", c)
    <3>1. d # c /\ h \in Of(c)
      <4>1. handler("write error", c) \in Of(c)
        BY Sorts
      <4> QED BY <1>3, <1>5, <2>1, <2>2, <4>1
    <3> QED BY <2>1, <3>1, Apart, Sorts
  <2>3. CASE h.kind = "write" /\ h.op.left = 0
    <3>1. \A k : handler(k, d).kind = k
      BY DEF handler
    <3>2. h \notin {handler(k, d) : k \in {"accept", "read", "read error", "write error"}}
      BY <2>3, <3>1
    <3>3. ASSUME NEW op \in Writes(1 .. Pieces), h = write_handler(op, d) PROVE FALSE
      <4>1. h.op = op /\ op.left \in 1 .. Pieces
        BY <3>3, Sorts DEF write_handler
      <4> QED BY <2>3, <4>1, PiecesNat
    <3> QED BY <2>1, <3>2, <3>3 DEF Telling, GoesOn
  <2> QED BY <1>2, <2>1, <2>2, <2>3
<1>6. ASSUME NEW d \in Connections \ hasty PROVE ReplyOK(d)'
  <2>1. ReplyOK(d)
    BY <1>6 DEF ReplyInv, ReplyOK
  <2>2. <<>> \in Seq(Handlers) /\ None(<<>>, Telling(d)) /\ handlers' = Tail(handlers) \o <<>>
    <3>1. <<>> \in Seq(Handlers) /\ None(<<>>, Telling(d))
      BY EmptySeq DEF None
    <3>2. Tail(handlers) \in Seq(Handlers) /\ Tail(handlers) \o <<>> = Tail(handlers)
      BY <1>1, <1>2, Popped, ConcatEmptySeq
    <3> QED BY <1>2, <3>1, <3>2
  <2>3. SameOf(d)
    BY <1>1, <1>2, <1>5, <1>6, <2>2, OfRun
  <2>4. SameConn(d)
    BY <1>2 DEF SameConn, Stays, session_vars, client_vars
  <2> QED BY <1>2, <2>1, <2>3, <2>4, ReplyKept
<1> QED BY <1>2, <1>4, <1>6 DEF ReplyInv, ReplyOK

LEMMA NextReplies == IInv /\ ReplyInv /\ [Next]_vars => ReplyInv'
<1> SUFFICES ASSUME IInv, ReplyInv, [Next]_vars PROVE ReplyInv'
  OBVIOUS
<1>1. ASSUME NEW c \in Connections,
             Outside(client_connects(c) \/ client_sends(c) \/ client_reads(c) \/ client_leaves(c))
      PROVE  ReplyInv'
  <2>1. \/ Outside(client_connects(c) \/ client_reads(c))
        \/ Outside(client_sends(c)) \/ Outside(client_leaves(c))
    BY <1>1 DEF Outside
  <2> QED BY <2>1, ConnectsReplies, SendsReplies, LeavesReplies
<1>2. CASE Outside(accept_completes \/ accept_fails)
  <2>1. Outside(accept_completes) \/ Outside(accept_fails)
    BY <1>2 DEF Outside
  <2> QED BY <2>1, AcceptCompletesReplies, AcceptFailsReplies
<1>3. ASSUME NEW c \in Connections, Outside(read_completes(c) \/ write_completes(c))
      PROVE  ReplyInv'
  <2>1. Outside(read_completes(c)) \/ Outside(write_completes(c))
    BY <1>3 DEF Outside
  <2> QED BY <2>1, ReadCompletesReplies, WriteCompletesReplies
<1>4. CASE running /\ HandlerStep
  <2>1. ASSUME NEW c \in Connections,
               \/ handle_accept(c) \/ handle_line(c) \/ handle_quit(c)
               \/ handle_read_error(c) \/ write_goes_on(c) \/ handle_write(c)
        PROVE  ReplyInv'
    BY <1>4, <2>1, HandleAcceptReplies, HandleLineReplies, HandleQuitReplies,
       WriteGoesOnReplies, HandleWriteReplies
  <2> QED BY <1>4, <2>1, StartThrowsReplies DEF HandlerStep
<1>5. CASE UNCHANGED vars
  <2>1. \A d \in Connections : SameOf(d) /\ SameConn(d)
    BY <1>5, SameHandlersOf DEF SameConn, Stays, vars, session_vars, client_vars, ghosts
  <2> QED BY <1>5, <2>1, ReplyStill DEF ReplyInv, vars, ghosts
<1> QED BY <1>1, <1>2, <1>3, <1>4, <1>5 DEF Next, Outside

\* A prefix, place by place.
LEMMA PrefixByPlace ==
    ASSUME NEW L, NEW x \in Seq(L), NEW n \in Nat, NEW a, a = [k \in 1 .. n |-> a[k]],
           Len(x) <= n, \A k \in DOMAIN x : x[k] = a[k]
    PROVE  IsPrefix(x, a)
<1>1. Len(x) \in Nat /\ DOMAIN x = 1 .. Len(x)
  BY Lengths
<1>2. Len(a) = n
  <2>1. DOMAIN a = 1 .. n
    OBVIOUS
  <2>2. PICK M : M = {a[k] : k \in 1 .. n}
    OBVIOUS
  <2>3. \A k \in 1 .. n : a[k] \in M
    BY <2>2
  <2>4. a \in Seq(M)
    BY <2>1, <2>3
  <2>5. DOMAIN a = 1 .. Len(a) /\ Len(a) \in Nat
    BY <2>4, Lengths
  <2> QED BY <2>1, <2>5
<1>3. \A k \in 1 .. Len(x) : a[k] \in L /\ x[k] \in L
  BY <1>1, ElementOfSeq
<1>4. SubSeq(x, 1, Len(x)) = x
  BY SubSeqFull
<1>5. /\ SubSeq(a, 1, Len(x)) \in Seq(L) /\ Len(SubSeq(a, 1, Len(x))) = Len(x)
      /\ \A k \in 1 .. Len(x) : SubSeq(a, 1, Len(x))[k] = a[k]
  <2>1. PICK m \in Nat : m = Len(x)
    BY <1>1
  <2>2. \A k \in 1 .. m : a[k] \in L
    BY <1>3, <2>1
  <2>3. /\ SubSeq(a, 1, m) \in Seq(L)
        /\ Len(SubSeq(a, 1, m)) = IF 1 <= m THEN m - 1 + 1 ELSE 0
        /\ \A k \in 1 .. m - 1 + 1 : SubSeq(a, 1, m)[k] = a[1 + k - 1]
    BY <2>2, SubSeqProperties
  <2>4. m - 1 + 1 = m /\ \A k \in 1 .. m : 1 + k - 1 = k
    OBVIOUS
  <2>5. Len(SubSeq(a, 1, m)) = m
    BY <2>3, <2>4
  <2> QED BY <2>1, <2>3, <2>4, <2>5
<1>6. SubSeq(a, 1, Len(x)) = x
  BY <1>1, <1>5, SeqEqual
<1> QED BY <1>2, <1>4, <1>6 DEF IsPrefix

-----------------------------------------------------------------------------
(***************************************************************************)
(* The theorems.                                                           *)
(***************************************************************************)
\* The reads, the queue of the io_service and the lines of every session agree
\* in all that arm_read, handle_read and start rely on.
THEOREM Invariance == Spec => []IInv
<1>1. Init => IInv
  BY InitInv
<1>2. IInv /\ [Next]_vars => IInv'
  BY NextInv
<1> QED BY <1>1, <1>2, PTL DEF Spec

\* Type correctness: no reply has more pieces than there are, and no socket
\* holds more than its window.
THEOREM TypeCorrect == Spec => []TypeOK
<1>1. IInv => TypeOK
  BY DEF IInv
<1> QED BY <1>1, Invariance, PTL

\* A session has one read at a time, outstanding or to be handled, and a
\* session that has ended has none.
THEOREM OneReaderHolds == Spec => []OneReader
<1>1. IInv => OneReader
  <2> SUFFICES ASSUME IInv, running, NEW c \in Connections
               PROVE  Cardinality(Held(c)) + (IF c \in reading THEN 1 ELSE 0)
                        = (IF c \in alive THEN 1 ELSE 0)
    BY DEF OneReader
  <2>1. ReaderOK(c) /\ reading \subseteq alive
    BY DEF IInv, ConnOK, TypeOK
  <2>2. None(handlers, ReadOf(c)) => Cardinality(Held(c)) = 0
    <3>1. None(handlers, ReadOf(c)) => Held(c) = {}
      BY DEF None, Held
    <3> QED BY <3>1, FS_EmptySet
  <2>3. One(handlers, ReadOf(c)) /\ ~None(handlers, ReadOf(c)) => Cardinality(Held(c)) = 1
    <3>1. SUFFICES ASSUME One(handlers, ReadOf(c)), ~None(handlers, ReadOf(c))
                   PROVE  Cardinality(Held(c)) = 1
      OBVIOUS
    <3>2. PICK i \in DOMAIN handlers : handlers[i] \in ReadOf(c)
      BY <3>1 DEF None
    <3>3. Held(c) = {i}
      BY <3>1, <3>2 DEF One, Held
    <3> QED BY <3>3, FS_Singleton
  <2> QED BY <2>1, <2>2, <2>3 DEF ReaderOK
<1> QED BY <1>1, Invariance, PTL

\* Lines are handled in the order in which they were sent, however they are
\* cut into reads; only those after a quit or an error are left out.
THEOREM LinesKeepOrder == Spec => []LinesInOrder
<1>1. IInv => LinesInOrder
  BY DEF IInv, ConnOK, LinesOK, LinesInOrder
<1> QED BY <1>1, Invariance, PTL

\* A client that waits for its replies reads them whole and in order, however
\* its socket takes them and whatever the others do.
THEOREM RepliesAreWhole == Spec => []RepliesWhole
<1>1. Init => IInv /\ ReplyInv
  BY InitInv, InitReplies
<1>2. (IInv /\ ReplyInv) /\ [Next]_vars => (IInv /\ ReplyInv)'
  BY NextInv, NextReplies
<1>3. IInv /\ ReplyInv => RepliesWhole
  <2>1. SUFFICES ASSUME IInv, NEW c \in Connections, Told(c)
                 PROVE  IsPrefix(received[c], replies(executed[c]))
    BY DEF ReplyInv, RepliesWhole
  <2>2. PICK rec \in Seq(Texts \X (1 .. Pieces)), lines \in Seq(LineKinds) :
          rec = received[c] /\ lines = executed[c] /\ ToldBy(rec, lines)
    BY <2>1 DEF IInv, TypeOK, Told
  <2>3. PICK n \in Nat : n = due(lines)
    BY <2>2, DueType
  <2>4. PICK all : all = replies(lines)
    OBVIOUS
  <2>5. all = [k \in 1 .. n |-> all[k]]
    BY <2>3, <2>4 DEF replies
  <2>6. Len(rec) <= n /\ \A k \in DOMAIN rec : rec[k] = all[k]
    BY <2>2, <2>3, <2>4 DEF ToldBy
  <2>7. IsPrefix(rec, all)
    BY <2>2, <2>5, <2>6, PrefixByPlace
  <2> QED BY <2>2, <2>4, <2>7
<1> QED BY <1>1, <1>2, <1>3, PTL DEF Spec

\* No handler of a write reaches a session that has ended, unless the client
\* went on before it had its replies.
THEOREM StaleOnlyOfHasty == Spec => []StaleOnlyByHaste
<1>1. Init => IInv /\ ReplyInv
  BY InitInv, InitReplies
<1>2. (IInv /\ ReplyInv) /\ [Next]_vars => (IInv /\ ReplyInv)'
  BY NextInv, NextReplies
<1>3. ReplyInv => StaleOnlyByHaste
  BY DEF ReplyInv, StaleOnlyByHaste
<1> QED BY <1>1, <1>2, <1>3, PTL DEF Spec
=============================================================================
