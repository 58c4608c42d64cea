---------------------------- MODULE PacketReader ----------------------------
(***************************************************************************)
(* How SoupBinTCPServer::read and BOEServer::read cut the bytes of a       *)
(* connection into packets.  Every read fills buf from its first byte; the *)
(* loop takes the length from the header under read_pos, hands the packet  *)
(* over where it lies, and moves on by the length.  Nothing is carried     *)
(* over from one read to the next: the end of a packet that is split is    *)
(* whatever an older read has left in buf, or the memory behind buf, and   *)
(* its rest is taken for a header.                                         *)
(*                                                                         *)
(* One message stands for the four that OUCH clients send about orders: a  *)
(* type behind the length and a number of two bytes, which validate brings *)
(* into native byte order on a copy and the handler in place.  Messages of *)
(* BOE are in native order and stay as they are.                           *)
(***************************************************************************)
EXTENDS Integers, Sequences

CONSTANTS
    Streams,     \* bound: for each market, what the clients send one after
                 \* another: the bytes, and the place of the last byte of each packet
    BufSize,     \* bound: bytes in buf, 4096 in the code
    Leftovers    \* bound: what memory may hold that no read has filled

Markets == {"OUCH", "BOE"}
Byte == 0 .. 255
Order == 85
OrderLen == 5
MaxQty == 1000   \* bound: what validate lets pass, 1000000 in the code

\* A header as far as the length.
HeaderLen(m) == IF m = "OUCH" THEN 2 ELSE 4

\* buf, and as much of the memory behind it as is read or written.
Cells == 1 .. BufSize + OrderLen

\* OUCH sends the length first and in network order; in BOE it stands behind
\* start_of_msg and in native order.
length_at(m, bytes, pos) ==
    IF m = "OUCH"
      THEN 256 * bytes[pos] + bytes[pos + 1]
      ELSE bytes[pos + 2] + 256 * bytes[pos + 3]

\* Packets say their length, without the two bytes that packet_len adds.
well_formed(m, s) ==
    /\ s.text \in Seq(Byte) /\ s.ends \in Seq(Nat)
    /\ \A p, q \in DOMAIN s.ends : p < q => s.ends[p] + HeaderLen(m) <= s.ends[q]
    /\ \A p \in DOMAIN s.ends :
         LET before == IF p = 1 THEN 0 ELSE s.ends[p - 1]
         IN /\ HeaderLen(m) <= s.ends[p] /\ s.ends[p] <= Len(s.text)
            /\ length_at(m, s.text, before + 1) + 2 = s.ends[p] - before

ASSUME ReaderAssumption ==
    /\ \A m \in Markets : \A s \in Streams[m] : well_formed(m, s)
    /\ BufSize \in Nat \ {0}
    /\ Leftovers \subseteq [Cells -> Byte]

VARIABLES
    market,
    stream,
    received,    \* bytes that have been read
    buf,         \* with the memory behind it
    bytes_received, \* of the present read
    read_pos,    \* 1: the first byte of buf
    looping,     \* the handler is in its loop
    got          \* ghost: what the market was handed in the present read

vars == <<market, stream, received, buf, bytes_received, read_pos, looping, got>>

\* The last byte of packet p, and of packet 0 for the beginning.
End(p) == IF p = 0 THEN 0 ELSE stream.ends[p]

Places == 0 .. Len(stream.ends)
Total == End(Len(stream.ends))
Boundaries == {End(p) : p \in Places}

\* The bytes before the present read.
began == received - bytes_received

Init ==
    /\ market \in Markets
    /\ stream \in Streams[market]
    /\ received = 0
    /\ buf \in Leftovers
    /\ bytes_received = 0 /\ read_pos = 1 /\ looping = FALSE
    /\ got = <<>>

-----------------------------------------------------------------------------
\* async_read_some completes with some of the bytes that have come.  What lies
\* behind buf is not the reader's.
read(n) ==
    /\ ~looping
    /\ n \in 1 .. BufSize /\ received + n <= Total
    /\ received' = received + n
    /\ \E behind \in Leftovers :
         buf' = [i \in Cells |-> IF i <= n THEN stream.text[received + i]
                                 ELSE IF i <= BufSize THEN buf[i]
                                 ELSE behind[i]]
    /\ bytes_received' = n
    /\ read_pos' = 1
    /\ looping' = TRUE
    /\ got' = <<>>
    /\ UNCHANGED <<market, stream>>

\* The connection ends in the middle of a packet, and the next client begins
\* with a packet.
reconnect ==
    /\ ~looping
    /\ \E p \in DOMAIN stream.ends :
         /\ End(p - 1) < received /\ received < End(p)
         /\ received' = End(p)
    /\ bytes_received' = 0 /\ read_pos' = 1
    /\ got' = <<>>
    /\ UNCHANGED <<market, stream, buf, looping>>

-----------------------------------------------------------------------------
slice(bytes, first, last) == [i \in 1 .. last - first + 1 |-> bytes[first + i - 1]]

\* big_to_native on the number behind the type.
from_network(bytes, pos) ==
    [bytes EXCEPT ![pos + 3] = bytes[pos + 4], ![pos + 4] = bytes[pos + 3]]

BugLengthUnchecked(pos) ==
    /\ market = "OUCH"
    /\ buf[pos + 2] = Order
    /\ LET copy == from_network(buf, pos)
       IN copy[pos + 3] + 256 * copy[pos + 4] <= MaxQty

\* What passes, so that its number is converted.
validate(pos) ==
    /\ market = "OUCH"
    /\ length_at(market, buf, pos) = OrderLen - 2
    /\ buf[pos + 2] = Order
    /\ LET copy == from_network(buf, pos)
       IN copy[pos + 3] + 256 * copy[pos + 4] <= MaxQty

BugValidateInPlace(pos) ==
    IF validate(pos) THEN from_network(from_network(buf, pos), pos) ELSE buf

handle_message(pos) == IF validate(pos) THEN from_network(buf, pos) ELSE buf

BugLenSigned(len) == IF len < 32768 THEN len + 2 ELSE len + 2 - 65536

\* The length is a 16-bit number, the sum an int.
packet_len(len) == len + 2

BugLoopMissesLast == looping /\ read_pos + HeaderLen(market) < bytes_received

BugLoopReadsAll == looping /\ read_pos <= BufSize

in_loop == looping /\ read_pos <= bytes_received

\* One packet, or what the loop takes for one.  A replacement that the quota
\* denies is left as it was.
handle_packet ==
    /\ in_loop
    /\ LET len == packet_len(length_at(market, buf, read_pos))
           last == read_pos + len - 1
           native == handle_message(read_pos)
           handed == slice(native, read_pos, IF last \in Cells THEN last ELSE BufSize)
       IN /\ buf' \in IF len # 0 THEN {native, buf} ELSE {buf}
          /\ got' = IF len # 0 THEN Append(got, handed) ELSE got
          /\ read_pos' = read_pos + len
    /\ UNCHANGED <<market, stream, received, bytes_received, looping>>

\* The answers are sent and the next read is started.
read_ends ==
    /\ looping /\ ~in_loop
    /\ looping' = FALSE
    /\ UNCHANGED <<market, stream, received, buf, bytes_received, read_pos, got>>

Next ==
    \/ \E n \in 1 .. BufSize : read(n)
    \/ reconnect
    \/ handle_packet \/ read_ends

Spec == Init /\ [][Next]_vars

-----------------------------------------------------------------------------
(***************************************************************************)
(* Properties.  They speak of reads that begin with a packet.  A read that *)
(* begins within one, as the next does after a cut, takes junk for a       *)
(* length: it may miss packets, and hand one over again that an older read *)
(* has left in buf.                                                        *)
(***************************************************************************)
\* Type correctness.
TypeOK ==
    /\ market \in Markets /\ stream \in Streams[market]
    /\ received \in 0 .. Total
    /\ buf \in [Cells -> Byte]
    /\ bytes_received \in 0 .. BufSize /\ bytes_received <= received
    /\ read_pos \in Nat \ {0}
    /\ looping \in BOOLEAN
    /\ got \in Seq(Seq(Byte))

\* An order: its length is that of the message, and its number, in network
\* order, is no greater than MaxQty.
is_order(p) ==
    LET pos == End(p - 1) + 1
    IN /\ market = "OUCH" /\ End(p) - End(p - 1) = OrderLen
       /\ stream.text[pos + 2] = Order
       /\ 256 * stream.text[pos + 3] + stream.text[pos + 4] <= MaxQty

\* The packet as the client meant it: the bytes it sent, the number of an
\* order in native order.
meant(p) ==
    LET pos == End(p - 1) + 1
        sent == slice(stream.text, pos, End(p))
    IN IF is_order(p) THEN [sent EXCEPT ![4] = sent[5], ![5] = sent[4]] ELSE sent

\* Of a read that begins with a packet the market gets the packets it holds
\* whole one after the other, each as the client meant it, its number converted
\* once although validate and the handler both do it; whatever an older read
\* has left behind them in buf, and however the last packet is cut.
OnceInOrder ==
    \A f, p \in Places :
      began = End(f) /\ f < p /\ End(p) <= received /\ p - f <= Len(got)
        => got[p - f] = meant(p)

\* And none of them is left out when the next read is started.
NoneLeftOut ==
    ~looping =>
      \A f, p \in Places :
        began = End(f) /\ f < p /\ End(p) <= received => p - f <= Len(got)

\* Only a cut packet is taken for another: of a read that begins with a packet
\* and ends with one, the market gets these packets and nothing else.
NothingMadeUp ==
    \A f, p \in Places : began = End(f) /\ received = End(p) => Len(got) <= p - f

\* Such a read is also all that its handlers write to: the conversion in place
\* reaches neither older bytes in buf nor what lies behind buf.
WritesInPlace ==
    [][looping /\ {began, received} \subseteq Boundaries
         => \A i \in Cells : i > bytes_received => buf'[i] = buf[i]]_vars
=============================================================================
