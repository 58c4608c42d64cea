# A TLA+ specification of the market simulator

The program in `src/` plays two stock markets for a trading system under test:
an OUCH market (SoupBinTCP framing) and a BOE market. Each listens on a TCP
port for one client, keeps the client's orders, and three times a second
"trades": it cancels, modifies, replaces and executes what is in its book. A
third port takes text commands of an administrator, who decides through a
`BehaviorManager` what the markets accept and how much they execute.

Everything runs on one `boost::asio::io_service` in one thread. Nothing runs
in parallel, but every handler (a read, a timer tick, an administrator's
command, the end of a connection) may come between any two others, and
requests live from the read that queues them to the tick that applies them.
The markets write to their clients with `asio::write`, which blocks: a client
that does not read stops the thread, and with it both markets and the console.

## Inventory

| component | source | state | operations | talks to |
|---|---|---|---|---|
| OUCH session | `ouch_session.cpp`, `ouch_order.cpp`, `order.h`, `session.h` | login state, `active_orders`, `finished_orders`, `pending_cancel/modify/replace`, `pending_out_messages`, time of last heartbeat | login, logout, enter, cancel, modify, replace; the five loops of a tick; `cancel_all`; `disconnect` | called by its TCP server and by the manager's `cancel_all`; asks the manager |
| BOE session | `boe_session.cpp`, `boe_order.cpp` | the same without replace and clock | login, enter, cancel, modify; four loops; `cancel_all`; `disconnect` | as OUCH; also asks for `execution_qty()` |
| BehaviorManager | `behavior_manager.*` | per action one of three behaviors, probabilities, remaining counts, `exe_qty` | `bm set default/random/count`, `bm reset`, `bm execute`, `bm cancel_all`; consultations, which use up counts | shared by both sessions |
| TCP servers | `tcp_server.*` | socket, acceptor, timer, read buffer | `accept`, `read`, `process`, `reconnect`, `send` | the io_service; calls its session |
| Admin server | `adminserver.*` | console sessions, command table | accept, read a line, run a callback | calls the manager |
| Wire formats | `ouch_messages.h`, `boe_messages.h` | none | byte order | sessions |
| Utilities, main, build | `evtsim_util.*`, `evtsim_main.cpp`, `run.py`, `Makefile` ... | none | rendering for the log, wiring | |

What is hard here, and what each component must get right:

* **Sessions.** A request is checked when it arrives and applied later. In
  between the order may have been filled, canceled, renamed, or replaced by
  another with the same token. Within a tick four loops work on the same map,
  collect what is done in `done_tokens`, and erase it when they end. Promises:
  the map is keyed by the orders' tokens; quantities stay in range; a client
  that follows the messages knows its open and executed shares; nothing is
  erased behind its back; cancels are answered; orders leave.
  `pending_modify` is never cleared, so every modify is applied again at every
  tick, in both markets. `operator[]` on the order map creates orders with
  uninitialised fields.
* **BehaviorManager.** Two sessions use up the same counts, each at its own
  moments. Promise: a count is an upper bound, a quantity of `bm execute` is
  handed out once.
* **TCP servers.** `reconnect` cancels the timer and starts over, but a timer
  handler that is already queued survives the cancellation and runs on the next
  connection, where it sends whatever the market has to say. `send` blocks, and
  a client may leave while it does. Promises: one operation outstanding on the
  connection; ticks neither stop nor multiply; a login, and the answers to a
  client, belong to one connection; the next client gets in.
* **Cutting reads into packets.** Each read starts at the front of `buf` and is
  taken to begin with a header; a packet that is split leaves the rest to chance
  (what an older read left in `buf`, or the memory behind it). Promises: of a
  read that begins with a packet, the packets it holds whole are handled once,
  in order, with their fields converted once; if it ends with one too, nothing
  else is handled or written to. Nothing is promised of a read that begins
  within a packet, as the next does after a cut: it takes junk for a length,
  may miss whole packets, and may hand over a packet again that an older read
  left in `buf`.
* **Admin server.** A session exists as long as a read holds a pointer to it;
  the handlers of its writes hold the bare `this`, and replies do not wait for
  one another. `quit`, a reset or a full socket may come between any two of
  these. Promises: one read at a time, lines handled once and in order, whole
  replies for a client that waits for them, other clients never held up.

The hazards, each with its line and the properties about it, are listed in
`PROJECT.json`.

## Modules

| module | models | how |
|---|---|---|
| `OuchOrder` | `order.h`, `ouch_order.cpp`, the arithmetic of `ouch_session.cpp` | operators only: construction, `expired`, `still_active`, the effect of fills, modifies and replaces, validation, the conversions to 32 bits (`U32`, `S32`) |
| `OuchSession` | `ouch_session.cpp` | EXTENDS `OuchOrder`; one action per packet handler and per loop iteration |
| `BoeSession` | `boe_session.cpp`, `boe_order.cpp` | the same form |
| `OrderLifecycle` | what either session promises about its orders | abstract; `OuchSession` and `BoeSession` instantiate it and implement it |
| `BehaviorManager` | `behavior_manager.*` | commands as actions, consultation (`consult`) as an operator other actions contain |
| `MarketQuota` | the sessions' use of the manager | EXTENDS `BehaviorManager`; both sessions reduced to when they ask and what takes effect |
| `TcpServer` | `tcp_server.*` | the handlers, the writing of messages, and the io_service they run on (external) |
| `PacketReader` | the loops of the two `read` functions, the conversions in place | the bytes of a connection to either market, and the memory they are read into |
| `AdminConsole` | `adminserver.*` | sessions, their lifetime, overlapping writes |
| `MCOuchSession`, `MCBoeSession`, `MCMarketQuota`, `MCPacketReader`, `MCAdminConsole` | | instances for TLC |
| `OuchSessionProofs`, `BoeSessionProofs`, `MarketQuotaProofs`, `TcpServerProofs`, `PacketReaderProofs`, `AdminConsoleProofs` | | the invariants, proved |
| `OuchLifecycleProofs`, `BoeLifecycleProofs` | | EXTEND the proofs of their session: it implements `OrderLifecycle` |

Definitions have the names of the code. An operator called `Bug...` is a
plausible mistake in the definition that follows it and is used by nothing;
the mutants of `PROJECT.json` put it in that definition's place, to see that
the property notices.

### Sessions: state and steps

The variables are the fields of the class; `phase`, `cursor`, `done_tokens` and
`todo` are the program counter and locals of the handler that is running. A
handler starts only in phase `"idle"`, so handlers never interleave, and one
iteration of a loop is one step, so that the invariants speak about the middle
of a tick too. A tick is `market_logic` (heartbeat), then the loops `"cancel"`,
`"modify"`, `"replace"`, `"execution"`, then `send`. `execution_logic` and
`cancel_all` visit the map in any order, since it is an `unordered_map`.

* `connected` says whether a client is there: `accept` and `disconnect` are the
  server's (`tcp_server.cpp:40-45`, `56-63`). A disconnect cancels the timer,
  so no tick is due until somebody connects again; one that is already queued
  still runs, and so a tick is possible, but not promised, without a client.
* The ghost `book` holds open and executed shares per token as a client
  computes them from the messages in the order they are queued. `push` (in BOE
  also `push_about`) is the only way to queue a message and updates `book` with
  `client_view`.
* The ghost field `genuine` of an order is TRUE when `parse_order` made it and
  FALSE when `operator[]` did. The properties speak about genuine orders; the
  uninitialised fields of the others are any member of `Garbage`. In BOE these
  fields include the token (`boe_order.cpp:12-13`), which may be left over from
  an order that was erased, and so may name a genuine one (`Residual`). The
  messages about such an order then reach the client under that name: the ghost
  `misled` holds the names about which it was told what holds of a stray
  (`push_about`), until it is told all about an order of the name again. The
  name also goes into `done_tokens` (`boe_session.cpp:152`), and what it names is
  erased.
* `remain_time_in_force` is recomputed whenever it is read and is not stored.
  In `execution_logic` the code reads the clock twice, and so does the model.
* The answers of the manager are any member of `Grants`.
* Prices, symbols, firms, display and sequence numbers are left out: nothing in
  the program depends on them.

### OrderLifecycle

The abstract specification has no queues, loops or messages: `orders` holds the
open and executed shares of what the client entered, `ledger` what the client
was told, `requests` what it asked for and the market may still do (`"resize"`
for an OUCH modify, `"rename"` for an OUCH replace and a BOE modify), `ending`
the names the market has decided to drop, `unfit` the orders it may drop without
a word, `strays` the names of orders nobody entered, `misled` the names about
which the client was told what holds of a stray. Its actions are the only ways
in which these change. The sessions map their state to it (`Lifecycle` in each):
`orders` is the genuine part of `active_orders`, `ledger` the ghost `book`,
`requests` the pending queues, `ending` is `done_tokens`, `unfit` the OUCH
orders whose time is over (in BOE those above what `still_active` allows),
`strays` the entries that `operator[]` made.

`ImplementsLifecycle` says that every step of a session is one step of this
specification or leaves it alone. An order leaves the market in `Rename`,
`Mislay`, `Supplant`, `StrayMoves` and `Drop` only, and every one of these has a
guard: the first four serve a rename that the client asked for (`Asked`), and
`Drop` takes the names that are `ending`, which a name comes to be when its end
is announced, when the client knows that nothing of it is open, when it is unfit,
when a rename leaves nothing of it, or through a stray order. So an order that
the client believes open is lost only in these ways, each of them something the
program does:

* it is unfit: expired, or too large to trade;
* the client asked to give its name to another order, which takes its place
  (`Rename`, `StrayMoves`; `ouch_session.cpp:164`, `boe_session.cpp:160-163`);
* the client asked to replace it by an order of the *same* name: the replace is
  acknowledged and erases the order (`Mislay`, `ouch_session.cpp:163-165`), and
  a BOE modify that keeps the token puts an uninitialised order in its place
  (`Supplant`; also the finding of `BoeModifiedKey`);
* of two modifies in one tick the earlier finds it done and the later gives it
  new open shares (`Restate` of a name that is `ending`, whose guard asks for
  two requests about the order); it is dropped all the same;
* it was renamed to a name that is `ending`;
* a stray order bore its name, left over in memory (BOE, `Residual`).

Apart from these, `cancel_all` and the loops drop nothing the client believes
open; two modifies of one order in one tick disturb no other; no request moves
shares between orders; and a stray order changes no order that was entered,
except in the ways above. Strays come from an OUCH replace
(`ouch_session.cpp:148`) or a BOE cancel (`boe_session.cpp:98`) of a token that
is not active, and from a BOE modify that keeps its token.

### BehaviorManager and MarketQuota

A session's book is a number of orders, its cancel queue a number of cancels.
The ghosts `quota`, `effects`, `refused`, `granted_qty` and `spent_qty` record
what was promised by the last command about an operation and what happened
since. What differs between the sessions is kept: OUCH looks at its state
before it asks about a login and BOE after; OUCH asks twice for a cancel and
BOE once; BOE asks about a modify also when the order is finished already
(`boe_session.cpp:80`); only BOE asks for `execution_qty()`.

### TcpServer

`handlers` is the queue of the io_service. An outstanding asynchronous
operation is a flag (`accepting`, `reading`) or a number (`waits`); its
completion queues a handler. Cancelling the timer sets `waits` to 0 and leaves
handlers that are already queued alone. `lag` is the clock minus the expiry
time, in periods of `1/MAX_EXEC_PER_SECOND`. A read is reduced to the last
packet that changes the login state and one answer for all that are answered.

A handler that ends in `send` is two actions, `read` and `read_ends` or
`process` and `process_ends`, with one `send` per message between them. While
`sending` is set the thread is in its handler and nothing else of the program
moves; clients and the clock do. `send` into an open connection waits for room
(`unread < Window`); into one that is gone it loses the message and, as the
code ignores the error, goes on. A reset is reported once, to whichever of
`send` and the read comes first, and after it the stream is at its end: that is
how the server comes to `reconnect` although it only looks for `eof`. Messages
are kept apart by whom they are for: an `answer` (or heartbeat) is for the
client of the present connection and turns `stale` when the next one is
accepted; `news` of orders is for whoever is connected. The console's
`cancel_all` queues news outside any handler of the server. The two servers of
the program share the thread; the other one is, seen from here, a handler
that takes time.

### PacketReader

A client sends one of `Streams`, bytes with the places where the packets end.
`market` says which of the two `read` functions is modelled: OUCH finds the
length in the first two bytes, in network order, BOE behind `start_of_msg` in
native order (`length_at`). `buf` holds bytes, and with it a few cells of the
memory behind it (`Cells`), since a handler may reach beyond its end. `read(n)`
puts the next bytes at the front and leaves the rest of `buf` as it was;
`handle_packet` is an iteration of the loop, whatever stands under `read_pos`:
with a length read from cut or stale bytes it hands over what is there and moves
on by that length. One OUCH message stands for the four that are validated and
then handled: `validate` converts a copy, `handle_message` converts in place.
A replacement that is denied is not converted, hence the choice for `buf'`.
The ghost `got` holds what was handed over in the present read. Since bytes are
compared by their values, a stale packet that is handed over again counts as
one that was: after a cut, the model has it. `reconnect` may come in the middle
of a packet.

No property is about the byte order of answers; reading showed that
`OrderReplaced::to_network` leaves `order_reference_number` alone where
`OrderAccepted::to_network` converts it (`ouch_messages.h`).

### AdminConsole

`handlers` is the queue of the io_service, as above; a handler that holds a
pointer keeps its session in `alive`. Writes are asynchronous: `write` puts as
many of a reply's `Pieces` into the socket as it takes (`Window`), the rest
waits in `writes` and goes on when the client reads, side by side with later
replies. `hasty` holds the clients that sent or left before they had read their
replies, `stale` the sessions that a handler touched after their end: the
pointer it used is dangling. An accept that fails throws out of
`io_service::run` (`start_throws`), which ends the program; that is why
deadlock is not checked there.

## What TLC checks

| run | shows |
|---|---|
| `OuchOrders` | One token, two requests that wait, all sides, two life times, with and without a minimum quantity, a client that comes and goes. `QtySound`, `ClientAgrees`, `ErasedIsClosed`, `ImplementsLifecycle`, and with fairness `CancelsAnswered` and `OrdersLeave`. |
| `OuchMixed` | Two tokens, two requests of any kinds that wait, refusals, three contents of uninitialised orders. `TypeOK`, `KeyIsToken`, `IInv`, the inductive invariant of the proofs, and `ImplementsLifecycle`. |
| `BoeOrders` | Two tokens, quantities 0 and above the limit, fills of one share, modifies that rename the orders onto each other. With fairness `CancelsAnswered` and `OrdersLeave`; `ImplementsLifecycle`. |
| `BoeRenames` | Two tokens, two requests that wait, refusals, uninitialised orders with a residual token. `TypeOK`, `KeyIsToken`, `QtySound`, `ClientAgrees`, `ImplementsLifecycle`. What `ErasedIsClosed` says in OUCH, `ImplementsLifecycle` contains (`Retire`). |
| `Quotas` | Both sessions, commands about three operations, interleaved with packets and ticks. |
| `Tcp` | Any sequence of connections that end in any way, late ticks, failing accepts, clients that stop reading, commands of the console; `OneConnection`, `LoginIsOfThisConnection`, `OwnMailOnly`, `TicksDoNotPileUp` and, with fairness, `SendReturns`, `TicksKeepComing`, `NextClientGetsIn`. |
| `Packets` | Three packets of either market cut into reads in every way: `OnceInOrder`, `NoneLeftOut`, `NothingMadeUp`, `WritesInPlace`. |
| `Console` | Two connections: `OneReader`, `LinesInOrder`, `RepliesWhole`, `StaleOnlyByHaste`, `LinesServed`. |

Four runs find a comment or an answer of the program to be untrue; each is a
finding in `PROJECT.json`:

| run | what the code does |
|---|---|
| `BoeModifiedKey` | A modify that keeps the token erases its order and acknowledges an uninitialised one. |
| `QuotaCancels` | A count of x lets fewer than x OUCH cancels through. |
| `QuotaReset` | `bm reset` says "all set to default" and leaves `exe_qty`. |
| `TcpRate` | After an idle time there are more than `MAX_EXEC_PER_SECOND` ticks in a second. |

One more was seen while modelling: an immediate-or-cancel OUCH order is
expired from the start, so it is canceled with the reason `TimeOut` and the
branch commented `IOC orders` is never reached (`cancel_reason`).

Some properties are worded around what the code does on purpose or by
accident; the exceptions are part of the statement:

* `ErasedIsClosed` allows an OUCH order to be finished silently when its
  deadline falls between the two readings of the clock; the lifecycle allows
  the same of orders that are unfit, which in BOE are those larger than
  `still_active` allows.
* `CancelsAnswered` says two things: while the client stays, the queue of cancels
  is emptied, and when it is, each cancel of a token has a message of its own
  about it. In OUCH it excepts cancels that leave no less of the order than there
  is (`no_smaller`): at `ouch_session.cpp:238` the code goes on without a word.
* `OrdersLeave` holds under the default behavior and while the client stays,
  since no tick runs without one. OUCH excepts an order whose minimum quantity
  refuses fills the market draws; it may wait until its time is over. BOE
  excepts tokens that a queued modify puts an order under, as that modify is
  applied at every tick.
* BOE's `ClientAgrees` excepts `misled` names, its `KeyIsToken` orders that
  nobody entered.
* `OrderLifecycle` has the ways in which orders are lost, above.
* `OneConnection` and `NextClientGetsIn` except what follows a failed accept,
  when the server does nothing any more.
* `SendReturns` and `TicksKeepComing` have the premise `ClientsRead`: nothing
  in the program ends a connection whose client stays and does not read.
* `RepliesWhole` and `StaleOnlyByHaste` except hasty clients: two replies on
  one socket may be mixed, and the handler of a write may outlive its session.

### Bounds

* Quantities: `MAX_SHARES = 3` in OUCH, `LimitQty` of 3 and 2 in BOE. Three
  shares suffice for an order that is new, partly filled and filled, and requests
  of 0, of less, of exactly and of more than the limit; `UINT32 = 16` makes room
  for all of them and lets negative numbers wrap. The theorems hold for every
  limit.
* Tokens: one where only one order's life matters, two where tokens are
  exchanged (with symmetry, in runs without liveness properties: BOE's liveness has two tokens without it;
  `ImplementsLifecycle` is a safety property and symmetric in the tokens).
* `MaxPending = 2`: two requests in one tick on one order are what each loop
  can get wrong; the rest of the state is explored for all their orders.
* `MaxOut = 1`: a read handles a packet only while fewer than `MaxOut` messages
  are queued. Requests that are only queued produce none, so several packets
  per read still occur. Ticks are not bounded by it.
* `MaxTime = 1` second (0 where time plays no role): a life time of 1 expires,
  also between two readings of the clock.
* `MaxLag = 2` periods (6 for `TcpRate`, two seconds): from one period on the
  timer always expires at once; `ticks` counts to one more than allowed. `Tcp`
  has one tick per second, as its properties are not about the rate.
* `Window = 2` in `Tcp`: a socket that is empty, partly filled and full, while
  up to three messages wait. At most one `cancel_all` is queued, and one message
  stands for the news of several.
* `Packets`: three packets of 13 (OUCH) or 15 (BOE) bytes, a buffer of 7 bytes,
  so that no read takes all of them and a packet may be cut in the header and
  behind it. Memory holds 0 or 255 before it is filled. Two packets of the OUCH
  streams have numbers that are lengths of 40000 and 65534 when they are taken
  for a header, which move the loop beyond the buffer; the orders of quantity
  0 look the same in either byte order, so that a stale one passes again.
* `Console`: one client with two lines (with and without `quit`) that may leave
  in either way, and one that only connects and breaks off; replies of two
  pieces and sockets that hold two, so that the second reply finds the socket
  full. Two connections are enough for one to hold up the other.
* `MarketQuota`: one order and one or two cancels per session, counts of 1 or
  2; `effects` counts to one more than the largest count.

### Fairness

In the sessions, `WF(HandlerStep)`: a handler that has started runs to its end.
The one call that may block is `asio::write` in `send`, so this assumes a
client that reads or leaves, which is what `SendReturns` of `TcpServer` shows
to be enough. `<>[]connected => SF(market_logic)`: while a client
stays, a timer that is due has its handler in the queue of the io_service, which
runs handlers in turn, so reads cannot keep it from running; it is strong
fairness because a read disables it temporarily. When clients leave nothing is
promised: `reconnect` cancels the timer, and only `accept` and a tick arm it.
That the timer does go on while a client stays is `TicksKeepComing` of
`TcpServer`.

In `TcpServer` that queue is modelled itself. `WF(HandlerStep)` and `WF(Clock)`
say that the thread runs and time passes; `send` is disabled while the socket
is full, so nothing is assumed of a client that does not read. The completion
of the timer, of an accept and of the end of a stream has strong fairness: the
reactor is polled between any two handlers, so what is ready is found although
handlers run at every other moment. In `AdminConsole` the
thread runs what is queued (weak fairness); nothing of `PacketReader` needs any. Clients and the administrator are
never assumed to do anything.

## What is proved

The proofs need only the named assumptions on the constants, such as natural
numbers for quantities, `MAX_SHARES + 1 < UINT32`, and `NoToken` not a token.
They hold for every set of tokens or connections, every limit, every content of
uninitialised orders and any answers of the manager. Each component has an
inductive invariant, `Init => IInv` and `IInv /\ [Next]_vars => IInv'`
(`InitInv`, `NextInv`), with one lemma per action; the theorems follow from
`Invariance`, which is `Spec => []IInv`.

| module | theorems |
|---|---|
| `OuchSessionProofs` | `TypeCorrect`, `KeysAreTokens`, `QuantitiesSound`, `ClientAgreement`, `NoSilentErase` |
| `OuchLifecycleProofs` | `Refinement`: the session implements `OrderLifecycle` |
| `BoeSessionProofs` | `TypeCorrect`, `KeysAreTokens`, `QuantitiesSound`, `ClientAgreement` |
| `BoeLifecycleProofs` | `Refinement` |
| `MarketQuotaProofs` | `TypeCorrect`, `QuotasHold`, `ExecutedOnce` |
| `TcpServerProofs` | `TypeCorrect`, `ConnectionUnique`, `LoginsEnd`, `MailIsOwn`, `TicksBounded` |
| `PacketReaderProofs` | `TypeCorrect`, `PacketsOnceInOrder`, `WholePacketsHandled`, `OnlyCutsMangle`, `ConvertedInPlace` |
| `AdminConsoleProofs` | `TypeCorrect`, `OneReaderHolds`, `LinesKeepOrder`, `RepliesAreWhole`, `StaleOnlyOfHasty` |

**OuchSessionProofs.** The properties are not inductive alone:

* `ClientAgrees` needs `QtySound`: `decrement_qty` and the other quantities are
  exact in 32 bits only when they are in `0 .. MAX_QTY` (`U32Exact`).
* All of them need `KeyIsToken`: messages carry the token of the order, the
  loops use the key of the map.
* `ErasedIsClosed` needs `LoopsConsistent`: the execution loop and `cancel_all`
  visit no order they have marked as done, `cancel_all` passes every order
  before it clears the map, and an order is dead only when the execution loop
  marked it.

The ways in which a message changes an order and the client's view of it are
lemmas of their own (`CanceledEffect`, `ModifiedEffect`, `ExecutedEffect`,
`ReplacedEffect`), cited by the loop that sends the message.

**BoeSessionProofs.** The form is the same. `ClientAgrees` has two
exceptions: an order whose end was announced and which is still in the map, and
a name about which the client was misled. An order that `operator[]` made may
carry any residual token, so `KeyIsToken` promises the token of the key only to
orders that were entered, and the proofs follow a message about a stray order
to whatever name it bears. The proof
for `modify_logic` splits a modify into the orders it touches (`ModifyFacts`):
the one under the old name, the one under the new name, which it may overwrite,
and the uninitialised one that `operator[]` creates when both are the same.

**OuchLifecycleProofs, BoeLifecycleProofs.** `Refinement` is
`Spec => ImplementsLifecycle`: `InitRefines` maps the initial states, and
`NextRefines` maps every step, under `IInv` and `IInv'`, to a step of
`OrderLifecycle` or to a stutter (`AbstractStep`). There is a lemma per kind of
step of the session (`CancelRefines`, `ModifyRefines`, ...), built from lemmas
that establish one abstract action each (`AskRefines` for `Ask`, `CloseRefines`
for `AnnounceEnd`, `RetireRefines`, `DropRefines`, `StrayStep`). `IInv` is what
makes the abstract guards true: that an order is retired only when the ledger
says closed is `ClientAgrees`; that OUCH's `cancel_all` has announced the end of
every order before it clears the map is `LoopsConsistent`. That only the later
of two requests restates an order that is ending needs one invariant more,
`MarkedByModify`: in the modify loop a genuine order is marked only by an
earlier request of the queue about it. In BOE, `NewsHeard` says whose name a
message is about. In OUCH the clock takes part: the set of orders that are over
their time only grows (`LateGrows`), so a tick of the clock is a `Lapse`.

**TcpServerProofs.** The queue is an arbitrary sequence. `OneConnection` is not
inductive: that no handler of the connection is queued while an operation is
outstanding (`Apart`) and that there is always one of the two (`Somewhere`) are
separate facts about the queue, which the lemmas `Pop`, `Push` and `PushTicks`
carry through its changes. `LoginIsOfThisConnection` needs that nobody is
logged in while a client is waited for, and that a socket without a peer has no
handler; `OwnMailOnly` that between two handlers nothing waits but news
(`MailOK`), since `accept_completes` can happen only there.

`TicksBounded` has an invariant of its own above that one, `TickInv`. `accept`
starts a wait without looking whether there is one, so what matters is how many
ticks are out when it runs: `Arrival` says that by then there is one wait at
most, or one tick that stands behind the accept in the queue. It relates
positions in the queue, and the counts are cardinalities of sets of positions
(`Places`, `Count`).

**PacketReaderProofs.** For streams of any number of packets of any lengths and
contents, in either market, a buffer of any size and any content of the memory.
`OnTrack` says that of a read which begins with a packet the loop stands, as
long as the read holds the packets handed over whole, right behind them, and
that everything from there on is still as the client sent it, in network order.
`Over` says that the loop has passed the end of the read when the next one is
started, from which `NoneLeftOut` follows. A step of the loop at a whole packet
is `WholePacket` (the length under `read_pos` is the packet's, by `well_formed`,
and what is handed over is the packet, converted once) and `NextPacket`;
`FromNetwork` says that the conversion in place changes the number and nothing
else.

**MarketQuotaProofs.** `IInv` has three parts that no action mixes:
`CountsOK` (with `QuotaAccounted`: what is left of a count and what was used do
not exceed it, and an operation with a quota has the count behavior),
`QuantityOK` (what was handed out and what `exe_qty` still holds do not exceed
the grant; without a grant `exe_qty` is -1) and `SessionsOK` (one tick at a
time, which visits no more orders than there are). `AskStep` and
`CommandCounts` are shared by the actions that consult and command.

**AdminConsoleProofs.** `IInv` is `TypeOK` and, for each connection, `ConnOK`:
`ReaderOK` (the outstanding read and the queued handler of one exclude each
other, there is one as long as the session lives, and a handler finds a line in
`_input`), `AcceptOK` (a connection whose accept is not handled yet is
untouched) and `LinesOK`. The lemma `Kept` says that a step which concerns
another connection keeps all of it, because the handlers it takes and queues
are foreign (`QueuePushed`, `QueueRan`); `async_write` is dealt with once
(`Asynced`), and the lines by three lemmas on concatenation (`LinesRead`,
`LineTaken`, `LineSent`).

`RepliesWhole` and `StaleOnlyByHaste` need more, since replies overlap as soon
as a client does not wait for them. `ReplyInv` says, on top of `IInv`, that what
such a client has read are the first pieces of the replies (`Told`) and that its
connection stands in one of five ways: its session has not started, it is owed
the reply to its last line by exactly one write (`Owed`), that line is still to
be handled with only quits before it (`Waiting`), it has all its replies
(`Settled`), or the session has ended with no write under way (`Ended`). The
session that dies is therefore never one that a handler of a write still points
to. Replies are counted and compared by their place (`due`, `nth_text`: the k-th
piece belongs to reply `(k - 1) \div Pieces`), so that a cardinality does for an
induction over the lines (`MoreDue`, `MoreTold`, `LinesOf`). `OfPushed`,
`OfRun` and `SessionKept` follow the handlers of one connection through the
queue, and `Transmits` and `AsyncWrites` deal with the socket once for all
actions.

Only model-checked: the liveness properties (`CancelsAnswered`, `OrdersLeave`,
`SendReturns`, `TicksKeepComing`, `NextClientGetsIn`, `LinesServed`), which are
outside what TLAPS can prove here, and with `CancelsAnswered` its second half,
which says that each cancel has its answer when the queue is emptied.

## Not modelled

* `evtsim_util.*`, `curr_status` and the help text: formatting.
* Client heartbeats: they store a time nobody reads.
* Fields that are copied from a request to its answer, padding, bit fields, and
  the sequence numbers of BOE, which are never set in some messages and which
  nothing reads.
* Option parsing and the signal handler of `evtsim_main.cpp`.
* Messages of `ouch_messages.h` and `boe_messages.h` that the program never
  sends or handles.
* `run.py`, `evts.config` and the build files.

## Plan

Every safety property that a passing run checks is a theorem, but for the second
half of `CancelsAnswered`. What is left:

* to prove that half (`cancel_logic` adds an answer for every cancel it passes,
  by an invariant that counts answers and the cancels before `cursor`);
* to read the long proofs again for leaves that cite more than they use;
* the safety halves of the liveness properties, as bounds that a tick or a read
  cannot exceed (the loops of a tick only shorten what is left to visit, the
  reading loop only advances), so that what remains to TLC is the fairness.
