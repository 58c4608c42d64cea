------------------------- MODULE PacketReaderProofs -------------------------
(***************************************************************************)
(* Safety of the cutting of bytes into packets, for streams of any number  *)
(* of packets of any lengths and contents, a buffer of any size and        *)
(* whatever an older read has left in it.                                  *)
(***************************************************************************)
EXTENDS PacketReader, TLAPS

\* Of a read that begins with packet f + 1, read_pos stands behind the packets
\* handed over as long as the read holds these whole, and the bytes from there
\* on are the client's.
OnTrack ==
    \A f \in Places :
      began = End(f) /\ f + Len(got) \in Places /\ End(f + Len(got)) <= received
        => /\ read_pos = End(f + Len(got)) - began + 1
           /\ \A i \in read_pos .. bytes_received : buf[i] = stream.text[began + i]

\* The loop has come to its end.
Over == ~looping => read_pos > bytes_received

IInv == TypeOK /\ OnTrack /\ Over /\ OnceInOrder /\ NothingMadeUp

-----------------------------------------------------------------------------
(***************************************************************************)
(* Packets and their ends.                                                 *)
(***************************************************************************)
LEMMA Ends ==
    ASSUME market \in Markets, stream \in Streams[market]
    PROVE  /\ Len(stream.ends) \in Nat /\ DOMAIN stream.ends = 1 .. Len(stream.ends)
           /\ stream.text \in Seq(Byte)
           /\ HeaderLen(market) \in {2, 4}
           /\ \A p \in Places : End(p) \in Nat /\ End(p) <= Len(stream.text)
           /\ \A p, q \in Places : p < q => End(p) + HeaderLen(market) <= End(q)
           /\ \A p \in Places : p # 0 =>
                length_at(market, stream.text, End(p - 1) + 1) + 2 = End(p) - End(p - 1)
<1>1. /\ stream.text \in Seq(Byte) /\ stream.ends \in Seq(Nat)
      /\ \A p, q \in DOMAIN stream.ends :
           p < q => stream.ends[p] + HeaderLen(market) <= stream.ends[q]
      /\ \A p \in DOMAIN stream.ends :
           LET before == IF p = 1 THEN 0 ELSE stream.ends[p - 1]
           IN /\ HeaderLen(market) <= stream.ends[p] /\ stream.ends[p] <= Len(stream.text)
              /\ length_at(market, stream.text, before + 1) + 2 = stream.ends[p] - before
  <2>1. well_formed(market, stream)
    BY ReaderAssumption
  <2> QED BY <2>1 DEF well_formed
<1>2. Len(stream.ends) \in Nat /\ DOMAIN stream.ends = 1 .. Len(stream.ends)
  BY <1>1
<1>3. HeaderLen(market) \in {2, 4} /\ Len(stream.text) \in Nat
  BY <1>1 DEF HeaderLen
<1>4. ASSUME NEW p \in Places
      PROVE  End(p) \in Nat /\ End(p) <= Len(stream.text)
  <2>1. CASE p = 0
    BY <1>3, <2>1 DEF End
  <2>2. CASE p # 0
    <3>1. p \in DOMAIN stream.ends
      BY <1>2, <1>4, <2>2 DEF Places
    <3>2. stream.ends[p] \in Nat
      BY <1>1, <3>1
    <3> QED BY <1>1, <2>2, <3>1, <3>2 DEF End
  <2> QED BY <2>1, <2>2
<1>5. ASSUME NEW p \in Places, NEW q \in Places, p < q
      PROVE  End(p) + HeaderLen(market) <= End(q)
  <2>1. q \in DOMAIN stream.ends /\ q # 0
    BY <1>2, <1>5 DEF Places
  <2>2. CASE p = 0
    BY <1>1, <1>3, <2>1, <2>2 DEF End
  <2>3. CASE p # 0
    <3>1. p \in DOMAIN stream.ends
      BY <1>2, <1>5, <2>3 DEF Places
    <3> QED BY <1>1, <1>5, <2>1, <2>3, <3>1 DEF End
  <2> QED BY <2>2, <2>3
<1>6. ASSUME NEW p \in Places, p # 0
      PROVE  length_at(market, stream.text, End(p - 1) + 1) + 2 = End(p) - End(p - 1)
  <2>1. p \in DOMAIN stream.ends
    BY <1>2, <1>6 DEF Places
  <2>2. End(p - 1) = IF p = 1 THEN 0 ELSE stream.ends[p - 1]
    BY <1>2, <2>1 DEF End
  <2>3. End(p) = stream.ends[p]
    BY <1>6 DEF End
  <2> HIDE DEF End
  <2> QED BY <1>1, <2>1, <2>2, <2>3
<1> QED BY <1>1, <1>2, <1>3, <1>4, <1>5, <1>6

\* The order of the ends is the order of the packets.
LEMMA EndsOrdered ==
    ASSUME market \in Markets, stream \in Streams[market], NEW p \in Places, NEW q \in Places
    PROVE  /\ End(p) \in Nat /\ End(q) \in Nat /\ p \in Nat /\ q \in Nat
           /\ p <= q <=> End(p) <= End(q)
           /\ End(p) <= Total /\ Total \in Nat /\ Total <= Len(stream.text)
<1>1. /\ p \in Nat /\ q \in Nat /\ Len(stream.ends) \in Places /\ p <= Len(stream.ends)
  BY Ends DEF Places
<1>2. /\ End(p) \in Nat /\ End(q) \in Nat /\ HeaderLen(market) \in {2, 4}
      /\ p < q => End(p) + HeaderLen(market) <= End(q)
      /\ q < p => End(q) + HeaderLen(market) <= End(p)
  BY Ends
<1>3. /\ Total \in Nat /\ Total <= Len(stream.text)
      /\ p < Len(stream.ends) => End(p) + HeaderLen(market) <= Total
  BY <1>1, Ends DEF Total
<1>4. p = q => End(p) = End(q)
  OBVIOUS
<1>5. p = Len(stream.ends) => End(p) = Total
  BY DEF Total
<1>6. End(p) <= Total
  <2>1. p < Len(stream.ends) \/ p = Len(stream.ends)
    BY <1>1, Ends
  <2> HIDE DEF End, Total, HeaderLen
  <2> QED BY <1>2, <1>3, <1>5, <2>1
<1>7. p <= q <=> End(p) <= End(q)
  <2> HIDE DEF End, HeaderLen
  <2> QED BY <1>1, <1>2, <1>4
<1> QED BY <1>1, <1>2, <1>3, <1>6, <1>7

-----------------------------------------------------------------------------
(***************************************************************************)
(* One step of the loop.                                                   *)
(***************************************************************************)
len == packet_len(length_at(market, buf, read_pos))
last == read_pos + len - 1
native == handle_message(read_pos)

\* What the loop reads lies in memory, what it hands over are bytes, and it
\* moves on.
LEMMA LoopStep ==
    ASSUME TypeOK, in_loop
    PROVE  /\ read_pos \in 1 .. BufSize /\ BufSize \in Nat
           /\ \A i \in 0 .. OrderLen : read_pos + i \in Cells /\ buf[read_pos + i] \in Byte
           /\ len \in Nat /\ len >= 2 /\ last \in Int
           /\ native \in [Cells -> Byte]
           /\ slice(native, read_pos, IF last \in Cells THEN last ELSE BufSize) \in Seq(Byte)
<1>1. read_pos \in 1 .. BufSize /\ BufSize \in Nat
  BY ReaderAssumption DEF TypeOK, in_loop
<1>2. \A i \in 0 .. OrderLen : read_pos + i \in Cells /\ buf[read_pos + i] \in Byte
  BY <1>1 DEF TypeOK, Cells, OrderLen
<1>3. len \in Nat /\ len >= 2
  <2>1. /\ buf[read_pos] \in Byte /\ buf[read_pos + 1] \in Byte
        /\ buf[read_pos + 2] \in Byte /\ buf[read_pos + 3] \in Byte
    <3>1. read_pos + 0 = read_pos /\ {0, 1, 2, 3} \subseteq 0 .. OrderLen
      BY <1>1 DEF OrderLen
    <3> QED BY <1>2, <3>1
  <2>2. length_at(market, buf, read_pos) \in Nat
    <3>1. \A a, b \in Byte : 256 * a + b \in Nat /\ a + 256 * b \in Nat
      BY DEF Byte
    <3> QED BY <2>1, <3>1 DEF length_at
  <2> QED BY <2>2 DEF len, packet_len
<1>4. native \in [Cells -> Byte]
  <2>1. buf \in [Cells -> Byte]
    BY DEF TypeOK
  <2>2. from_network(buf, read_pos) \in [Cells -> Byte]
    <3>1. buf[read_pos + 3] \in Byte /\ buf[read_pos + 4] \in Byte
      <4>1. {3, 4} \subseteq 0 .. OrderLen
        BY DEF OrderLen
      <4> QED BY <1>2, <4>1
    <3> QED BY <2>1, <3>1 DEF from_network
  <2> QED BY <2>1, <2>2 DEF native, handle_message
<1>5. last \in Int
  BY <1>1, <1>3 DEF last
<1>6. slice(native, read_pos, IF last \in Cells THEN last ELSE BufSize) \in Seq(Byte)
  <2> DEFINE until == IF last \in Cells THEN last ELSE BufSize
  <2>1. until \in Cells /\ read_pos <= until
    BY <1>1, <1>3 DEF last, Cells, OrderLen
  <2>2. \A i \in 1 .. until - read_pos + 1 : read_pos + i - 1 \in Cells
    BY <1>1, <2>1 DEF Cells, OrderLen
  <2>3. until - read_pos + 1 \in Nat
    BY <1>1, <2>1 DEF Cells, OrderLen
  <2> HIDE DEF until
  <2>4. slice(native, read_pos, until) \in [1 .. until - read_pos + 1 -> Byte]
    BY <1>4, <2>2 DEF slice
  <2>5. slice(native, read_pos, until) \in Seq(Byte)
    BY <2>3, <2>4
  <2> QED BY <2>5 DEF until
<1> QED BY <1>1, <1>2, <1>3, <1>4, <1>5, <1>6

\* from_network writes to the two bytes of the number.
LEMMA FromNetwork ==
    ASSUME NEW bytes \in [Cells -> Byte], NEW pos \in Nat, pos + 3 \in Cells, pos + 4 \in Cells
    PROVE  /\ from_network(bytes, pos)[pos + 3] = bytes[pos + 4]
           /\ from_network(bytes, pos)[pos + 4] = bytes[pos + 3]
           /\ \A i \in Cells : i # pos + 3 /\ i # pos + 4 => from_network(bytes, pos)[i] = bytes[i]
<1>1. pos + 3 # pos + 4
  OBVIOUS
<1> QED BY <1>1 DEF from_network

\* Where a whole packet lies under read_pos, the market gets it as the client
\* meant it, and the loop moves behind it.
LEMMA WholePacket ==
    ASSUME TypeOK, in_loop, NEW p \in Places, p # 0,
           began + read_pos - 1 = End(p - 1), End(p) <= received,
           \A i \in read_pos .. bytes_received : buf[i] = stream.text[began + i]
    PROVE  /\ len = End(p) - End(p - 1) /\ last = End(p) - began
           /\ last \in Cells /\ last <= bytes_received
           /\ slice(native, read_pos, last) = meant(p)
           /\ \A i \in Cells : i > last => native[i] = buf[i]
<1> DEFINE pos == End(p - 1) + 1
           size == End(p) - End(p - 1)
<1>1. /\ p - 1 \in Places /\ p - 1 < p /\ p \in Nat
      /\ received \in Nat /\ bytes_received \in Nat /\ bytes_received <= BufSize
      /\ BufSize \in Nat
  BY EndsOrdered, Ends, ReaderAssumption DEF TypeOK, Places
<1>2. /\ End(p) \in Nat /\ End(p - 1) \in Nat
      /\ End(p - 1) + HeaderLen(market) <= End(p) /\ HeaderLen(market) \in {2, 4}
      /\ length_at(market, stream.text, pos) + 2 = size
  BY <1>1, Ends DEF TypeOK
<1>3. read_pos \in 1 .. BufSize /\ \A i \in 0 .. OrderLen : read_pos + i \in Cells
  BY LoopStep
<1> HIDE DEF End, HeaderLen
<1>4. /\ size \in Nat /\ size >= HeaderLen(market) /\ pos \in Nat
      /\ read_pos + size - 1 = End(p) - began
      /\ read_pos + size - 1 <= bytes_received
  BY <1>1, <1>2, <1>3 DEF began
<1>5. \A i \in 0 .. size - 1 : buf[read_pos + i] = stream.text[pos + i]
  <2>1. SUFFICES ASSUME NEW i \in 0 .. size - 1
                 PROVE  buf[read_pos + i] = stream.text[pos + i]
    OBVIOUS
  <2>2. read_pos + i \in read_pos .. bytes_received
    BY <1>1, <1>2, <1>3, <1>4, <2>1
  <2>3. began + (read_pos + i) = pos + i
    BY <1>1, <1>2, <1>3, <2>1 DEF began
  <2> QED BY <2>2, <2>3
<1>6. len = size
  <2>1. length_at(market, buf, read_pos) = length_at(market, stream.text, pos)
    <3>1. CASE market = "OUCH"
      <4>1. HeaderLen(market) = 2
        BY <3>1 DEF HeaderLen
      <4>2. buf[read_pos + 0] = stream.text[pos + 0] /\ buf[read_pos + 1] = stream.text[pos + 1]
        BY <1>2, <1>4, <1>5, <4>1
      <4>3. read_pos + 0 = read_pos /\ pos + 0 = pos
        BY <1>3, <1>4
      <4> QED BY <3>1, <4>2, <4>3 DEF length_at
    <3>2. CASE market # "OUCH"
      <4>1. HeaderLen(market) = 4
        BY <3>2 DEF HeaderLen
      <4>2. buf[read_pos + 2] = stream.text[pos + 2] /\ buf[read_pos + 3] = stream.text[pos + 3]
        BY <1>2, <1>4, <1>5, <4>1
      <4> QED BY <3>2, <4>2 DEF length_at
    <3> QED BY <3>1, <3>2
  <2>2. len = length_at(market, stream.text, pos) + 2
    BY <2>1 DEF len, packet_len
  <2> QED BY <1>2, <2>2
<1>7. last = read_pos + size - 1
  BY <1>6 DEF last
<1>8. last \in Cells /\ read_pos <= last
  BY <1>1, <1>2, <1>3, <1>4, <1>7 DEF Cells, OrderLen
<1>9. buf \in [Cells -> Byte] /\ read_pos + 3 \in Cells /\ read_pos + 4 \in Cells
  <2>1. {3, 4} \subseteq 0 .. OrderLen
    BY DEF OrderLen
  <2> QED BY <1>3, <2>1 DEF TypeOK
<1>10. validate(read_pos) <=> is_order(p)
  <2>1. length_at(market, buf, read_pos) = size - 2
    <3>1. len = length_at(market, buf, read_pos) + 2
      BY DEF len, packet_len
    <3>2. length_at(market, buf, read_pos) \in Int
      <4>1. {0, 1, 2, 3} \subseteq 0 .. OrderLen /\ read_pos + 0 = read_pos
        BY <1>3 DEF OrderLen
      <4>2. /\ buf[read_pos] \in Byte /\ buf[read_pos + 1] \in Byte
            /\ buf[read_pos + 2] \in Byte /\ buf[read_pos + 3] \in Byte
        BY <4>1, LoopStep
      <4>3. \A a, b \in Byte : 256 * a + b \in Int /\ a + 256 * b \in Int
        BY DEF Byte
      <4> QED BY <4>2, <4>3 DEF length_at
    <3> QED BY <1>6, <3>1, <3>2
  <2>2. CASE market = "OUCH" /\ size = OrderLen
    <3>1. /\ buf[read_pos + 2] = stream.text[pos + 2] /\ buf[read_pos + 3] = stream.text[pos + 3]
          /\ buf[read_pos + 4] = stream.text[pos + 4]
      BY <1>5, <2>2 DEF OrderLen
    <3>2. /\ from_network(buf, read_pos)[read_pos + 3] = buf[read_pos + 4]
          /\ from_network(buf, read_pos)[read_pos + 4] = buf[read_pos + 3]
      BY <1>3, <1>9, FromNetwork
    <3>3. /\ buf[read_pos + 3] \in Int /\ buf[read_pos + 4] \in Int
      BY <1>9 DEF Byte
    <3>4. buf[read_pos + 4] + 256 * buf[read_pos + 3] = 256 * stream.text[pos + 3] + stream.text[pos + 4]
      BY <3>1, <3>3
    <3>5. length_at(market, buf, read_pos) = OrderLen - 2
      BY <2>1, <2>2
    <3>6. validate(read_pos) <=> /\ buf[read_pos + 2] = Order
                                 /\ buf[read_pos + 4] + 256 * buf[read_pos + 3] <= MaxQty
      BY <2>2, <3>2, <3>5 DEF validate
    <3>7. is_order(p) <=> /\ stream.text[pos + 2] = Order
                          /\ 256 * stream.text[pos + 3] + stream.text[pos + 4] <= MaxQty
      BY <2>2 DEF is_order
    <3> QED BY <3>1, <3>4, <3>6, <3>7
  <2>3. CASE ~(market = "OUCH" /\ size = OrderLen)
    <3>1. ~ validate(read_pos)
      BY <1>4, <2>1, <2>3 DEF validate, OrderLen
    <3>2. ~ is_order(p)
      BY <2>3 DEF is_order
    <3> QED BY <3>1, <3>2
  <2> QED BY <2>2, <2>3
<1> DEFINE sent == slice(stream.text, pos, End(p))
<1>11. sent = [i \in 1 .. size |-> stream.text[pos + i - 1]]
  <2>1. End(p) - pos + 1 = size
    BY <1>2
  <2> QED BY <2>1 DEF slice
<1>12. slice(native, read_pos, last) = [i \in 1 .. size |-> native[read_pos + i - 1]]
  <2>1. last - read_pos + 1 = size
    BY <1>3, <1>4, <1>7
  <2> QED BY <2>1 DEF slice
<1>13. \A i \in 1 .. size : buf[read_pos + i - 1] = stream.text[pos + i - 1]
  <2>1. \A i \in 1 .. size : i - 1 \in 0 .. size - 1 /\ read_pos + (i - 1) = read_pos + i - 1 /\ pos + (i - 1) = pos + i - 1
    BY <1>3, <1>4
  <2> QED BY <1>5, <2>1
<1> HIDE DEF pos, size
<1>14. CASE validate(read_pos)
  <2>1. size = OrderLen
    BY <1>10, <1>14 DEF is_order, size
  <2>2. native = from_network(buf, read_pos)
    BY <1>14 DEF native, handle_message
  <2>3. /\ native[read_pos + 3] = buf[read_pos + 4] /\ native[read_pos + 4] = buf[read_pos + 3]
        /\ \A i \in Cells : i # read_pos + 3 /\ i # read_pos + 4 => native[i] = buf[i]
    BY <1>3, <1>9, <2>2, FromNetwork
  <2>4. meant(p) = [sent EXCEPT ![4] = sent[5], ![5] = sent[4]]
    BY <1>10, <1>14 DEF meant, pos
  <2> HIDE DEF sent
  <2>5. meant(p) = [i \in 1 .. size |-> IF i = 4 THEN sent[5] ELSE IF i = 5 THEN sent[4] ELSE sent[i]]
    BY <1>11, <2>1, <2>4 DEF OrderLen
  <2>6. ASSUME NEW i \in 1 .. size
        PROVE  native[read_pos + i - 1] = IF i = 4 THEN sent[5] ELSE IF i = 5 THEN sent[4] ELSE sent[i]
    <3>1. \A j \in 1 .. size : sent[j] = buf[read_pos + j - 1]
      BY <1>11, <1>13
    <3>2. sent[4] = buf[read_pos + 3] /\ sent[5] = buf[read_pos + 4]
      <4>1. 4 \in 1 .. size /\ 5 \in 1 .. size /\ read_pos + 4 - 1 = read_pos + 3 /\ read_pos + 5 - 1 = read_pos + 4
        BY <1>3, <2>1 DEF OrderLen
      <4> QED BY <3>1, <4>1
    <3>3. CASE i = 4
      BY <1>3, <2>3, <3>2, <3>3
    <3>4. CASE i = 5
      BY <1>3, <2>3, <3>2, <3>4
    <3>5. CASE i # 4 /\ i # 5
      <4>1. read_pos + i - 1 \in Cells /\ read_pos + i - 1 # read_pos + 3 /\ read_pos + i - 1 # read_pos + 4
        BY <1>1, <1>3, <1>4, <2>6, <3>5 DEF Cells, OrderLen
      <4> QED BY <2>3, <2>6, <3>1, <3>5, <4>1
    <3> QED BY <3>3, <3>4, <3>5
  <2>7. \A i \in Cells : i > last => native[i] = buf[i]
    <3>1. \A i \in Cells : i > last => i # read_pos + 3 /\ i # read_pos + 4
      BY <1>3, <1>7, <2>1 DEF OrderLen, Cells
    <3> QED BY <2>3, <3>1
  <2>8. slice(native, read_pos, last) = meant(p)
    BY <1>12, <2>5, <2>6
  <2> QED BY <1>4, <1>6, <1>7, <1>8, <2>7, <2>8 DEF size
<1>15. CASE ~ validate(read_pos)
  <2>1. native = buf
    BY <1>15 DEF native, handle_message
  <2>2. meant(p) = sent
    BY <1>10, <1>15 DEF meant, pos
  <2>3. slice(native, read_pos, last) = meant(p)
    <3> HIDE DEF sent
    <3> QED BY <1>11, <1>12, <1>13, <2>1, <2>2
  <2> QED BY <1>4, <1>6, <1>7, <1>8, <2>1, <2>3 DEF size
<1> QED BY <1>14, <1>15

-----------------------------------------------------------------------------
(***************************************************************************)
(* The invariant.                                                          *)
(***************************************************************************)
LEMMA InitInv == Init => IInv
<1>1. SUFFICES ASSUME Init PROVE IInv
  OBVIOUS
<1>2. TypeOK
  <2>1. Total \in Nat /\ BufSize \in Nat
    BY <1>1, EndsOrdered, Ends, ReaderAssumption DEF Init, Places, Total
  <2>2. got \in Seq(Seq(Byte)) /\ buf \in [Cells -> Byte]
    BY <1>1, ReaderAssumption DEF Init
  <2>3. 0 \in 0 .. Total /\ 0 \in 0 .. BufSize /\ 0 <= 0 /\ 1 \in Nat \ {0}
    BY <2>1
  <2> HIDE DEF Total
  <2> QED BY <1>1, <2>2, <2>3 DEF Init, TypeOK
<1>3. /\ Len(got) = 0 /\ began = 0 /\ bytes_received = 0 /\ read_pos = 1 /\ received = 0
  BY <1>1 DEF Init, began
<1>4. OnTrack
  <2>1. \A f \in Places : f + Len(got) = f /\ End(f) \in Nat
    BY <1>2, <1>3, Ends DEF Places, TypeOK
  <2> QED BY <1>3, <2>1 DEF OnTrack
<1>5. Over
  BY <1>3 DEF Over
<1>6. OnceInOrder
  <2>1. SUFFICES ASSUME NEW f \in Places, NEW p \in Places, f < p, p - f <= Len(got) PROVE FALSE
    BY DEF OnceInOrder
  <2> QED BY <1>2, <1>3, <2>1, EndsOrdered DEF TypeOK
<1>7. NothingMadeUp
  <2>1. SUFFICES ASSUME NEW f \in Places, NEW p \in Places, began = End(f), received = End(p)
                 PROVE  Len(got) <= p - f
    BY DEF NothingMadeUp
  <2>2. End(f) <= End(p) /\ f \in Nat /\ p \in Nat
    BY <1>2, <1>3, <2>1, EndsOrdered DEF TypeOK
  <2>3. f <= p
    BY <1>2, <2>2, EndsOrdered DEF TypeOK
  <2> QED BY <1>3, <2>2, <2>3
<1> QED BY <1>2, <1>4, <1>5, <1>6, <1>7 DEF IInv

\* A read that has handed over nothing yet, or a connection that has ended.
LEMMA Afresh ==
    ASSUME TypeOK, market' = market, stream' = stream, got' = <<>>, read_pos' = 1,
           received' \in Nat, bytes_received' \in Nat, bytes_received' <= received',
           \A i \in 1 .. bytes_received' : buf'[i] = stream.text[received' - bytes_received' + i]
    PROVE  OnTrack' /\ OnceInOrder' /\ NothingMadeUp'
<1>1. Places' = Places /\ \A p \in Places : End(p)' = End(p)
  BY DEF Places, End
<1>2. Len(got') = 0 /\ began' = received' - bytes_received'
  BY DEF began
<1> HIDE DEF End
<1>3. OnTrack'
  <2>1. \A f \in Places : f + Len(got') = f /\ End(f) \in Nat
    BY <1>2, EndsOrdered DEF TypeOK
  <2>2. SUFFICES ASSUME NEW f \in Places, began' = End(f)
                 PROVE  /\ read_pos' = End(f) - began' + 1
                        /\ \A i \in read_pos' .. bytes_received' : buf'[i] = stream'.text[began' + i]
    BY <1>1, <2>1 DEF OnTrack
  <2>3. \A i \in read_pos' .. bytes_received' : buf'[i] = stream'.text[began' + i]
    BY <1>2
  <2>4. read_pos' = End(f) - began' + 1
    <3>1. End(f) - began' = 0
      BY <2>1, <2>2
    <3> QED BY <3>1
  <2> QED BY <2>3, <2>4
<1>4. OnceInOrder'
  <2>1. SUFFICES ASSUME NEW f \in Places, NEW p \in Places, f < p, p - f <= Len(got') PROVE FALSE
    BY <1>1 DEF OnceInOrder
  <2> QED BY <1>2, <2>1, EndsOrdered DEF TypeOK
<1>5. NothingMadeUp'
  <2>1. SUFFICES ASSUME NEW f \in Places, NEW p \in Places, began' = End(f), received' = End(p)
                 PROVE  Len(got') <= p - f
    BY <1>1 DEF NothingMadeUp
  <2>2. End(f) <= End(p) /\ f \in Nat /\ p \in Nat
    BY <1>2, <2>1, EndsOrdered DEF TypeOK
  <2>3. f <= p
    BY <2>2, EndsOrdered DEF TypeOK
  <2> QED BY <1>2, <2>2, <2>3
<1> QED BY <1>3, <1>4, <1>5

LEMMA ReadInv ==
    ASSUME IInv, NEW n \in 1 .. BufSize, read(n)
    PROVE  IInv'
<1>1. TypeOK /\ BufSize \in Nat /\ n \in Nat
  BY ReaderAssumption DEF IInv
<1>2. /\ received \in Nat /\ Total \in Nat /\ Total <= Len(stream.text) /\ Len(stream.text) \in Nat
      /\ stream.text \in Seq(Byte)
  BY <1>1, EndsOrdered, Ends DEF TypeOK, Places
<1>3. PICK behind \in Leftovers :
        buf' = [i \in Cells |-> IF i <= n THEN stream.text[received + i]
                                ELSE IF i <= BufSize THEN buf[i]
                                ELSE behind[i]]
  BY DEF read
<1>4. /\ received' = received + n /\ received + n <= Total /\ bytes_received' = n /\ read_pos' = 1
      /\ looping' = TRUE /\ got' = <<>> /\ market' = market /\ stream' = stream
  BY DEF read
<1>5. TypeOK'
  <2>1. buf' \in [Cells -> Byte]
    <3>1. \A i \in Cells : i <= n => received + i \in 1 .. Len(stream.text)
      BY <1>1, <1>2, <1>4 DEF Cells, OrderLen
    <3>2. \A i \in Cells : i <= n => stream.text[received + i] \in Byte
      BY <1>2, <3>1
    <3>3. \A i \in Cells : buf[i] \in Byte /\ behind[i] \in Byte
      BY <1>1, <1>3, ReaderAssumption DEF TypeOK
    <3> QED BY <1>3, <3>2, <3>3
  <2>2. received' \in 0 .. Total /\ Total' = Total
    <3>1. Total' = Total
      BY <1>4 DEF Total, End
    <3> QED BY <1>1, <1>2, <1>4, <3>1
  <2>3. got' \in Seq(Seq(Byte))
    BY <1>4
  <2>4. n \in 0 .. BufSize /\ n <= received + n
    BY <1>1, <1>2
  <2> QED BY <1>1, <1>4, <2>1, <2>2, <2>3, <2>4 DEF TypeOK
<1>6. Over'
  BY <1>4 DEF Over
<1>7. \A i \in 1 .. bytes_received' : buf'[i] = stream.text[received' - bytes_received' + i]
  <2>1. SUFFICES ASSUME NEW i \in 1 .. n PROVE buf'[i] = stream.text[received' - n + i]
    BY <1>4
  <2>2. i \in Cells /\ i <= n
    BY <1>1, <2>1 DEF Cells, OrderLen
  <2>3. received' - n + i = received + i
    BY <1>1, <1>2, <1>4, <2>1
  <2> QED BY <1>3, <2>2, <2>3
<1>8. received' \in Nat /\ bytes_received' \in Nat /\ bytes_received' <= received'
  BY <1>1, <1>2, <1>4
<1>9. OnTrack' /\ OnceInOrder' /\ NothingMadeUp'
  BY <1>1, <1>4, <1>7, <1>8, Afresh
<1> QED BY <1>5, <1>6, <1>9 DEF IInv

LEMMA ReconnectInv ==
    ASSUME IInv, reconnect
    PROVE  IInv'
<1>1. TypeOK
  BY DEF IInv
<1>2. PICK p \in DOMAIN stream.ends : received' = End(p)
  BY DEF reconnect
<1>3. p \in Places
  BY <1>1, Ends DEF TypeOK, Places
<1>4. End(p) \in 0 .. Total
  BY <1>1, <1>3, EndsOrdered DEF TypeOK
<1>5. /\ bytes_received' = 0 /\ read_pos' = 1 /\ got' = <<>> /\ market' = market /\ stream' = stream
      /\ buf' = buf /\ looping' = looping /\ Total' = Total
  BY DEF reconnect, Total, End
<1>6. TypeOK'
  <2>1. got' \in Seq(Seq(Byte)) /\ 0 \in 0 .. BufSize
    BY <1>5, ReaderAssumption
  <2>2. 0 <= End(p)
    BY <1>4
  <2> QED BY <1>1, <1>2, <1>4, <1>5, <2>1, <2>2 DEF TypeOK
<1>7. Over'
  BY <1>5 DEF Over
<1>8. received' \in Nat /\ bytes_received' \in Nat /\ bytes_received' <= received'
  <2>1. End(p) \in Nat
    BY <1>1, <1>3, EndsOrdered DEF TypeOK
  <2> QED BY <1>2, <1>5, <2>1
<1>9. OnTrack' /\ OnceInOrder' /\ NothingMadeUp'
  BY <1>1, <1>5, <1>8, Afresh
<1> QED BY <1>6, <1>7, <1>9 DEF IInv

\* On track, the next packet is under read_pos, if the read holds it whole.
LEMMA NextPacket ==
    ASSUME TypeOK, OnTrack, in_loop, NEW f \in Places, NEW p \in Places,
           began = End(f), p = f + Len(got) + 1, End(p) <= received
    PROVE  /\ len = End(p) - End(p - 1) /\ last = End(p) - began
           /\ last \in Cells /\ last <= bytes_received
           /\ slice(native, read_pos, last) = meant(p)
           /\ \A i \in Cells : i > last => native[i] = buf[i]
<1>1. f \in Nat /\ p \in Nat /\ Len(got) \in Nat
  BY EndsOrdered DEF TypeOK
<1>2. /\ p - 1 = f + Len(got) /\ p # 0
      /\ p - 1 \in Places /\ p - 1 <= p
  BY <1>1, Ends DEF Places, TypeOK
<1>3. End(p - 1) <= End(p) /\ End(p - 1) \in Nat /\ End(p) \in Nat /\ End(f) \in Nat
  BY <1>2, EndsOrdered DEF TypeOK
<1>4. End(p - 1) <= received
  <2>1. received \in Nat
    BY Ends, EndsOrdered DEF TypeOK, Places
  <2> QED BY <1>3, <2>1
<1>5. /\ read_pos = End(p - 1) - began + 1
      /\ \A i \in read_pos .. bytes_received : buf[i] = stream.text[began + i]
  BY <1>2, <1>4 DEF OnTrack
<1>6. began + read_pos - 1 = End(p - 1)
  BY <1>3, <1>5
<1> QED BY <1>2, <1>5, <1>6, WholePacket

LEMMA HandleInv ==
    ASSUME IInv, handle_packet
    PROVE  IInv'
<1>1. TypeOK /\ in_loop /\ OnTrack
  BY DEF IInv, handle_packet
<1>2. /\ read_pos \in 1 .. BufSize /\ BufSize \in Nat
      /\ len \in Nat /\ len >= 2 /\ len # 0 /\ last \in Int
      /\ native \in [Cells -> Byte]
      /\ slice(native, read_pos, IF last \in Cells THEN last ELSE BufSize) \in Seq(Byte)
  BY <1>1, LoopStep
<1> DEFINE handed == slice(native, read_pos, IF last \in Cells THEN last ELSE BufSize)
<1>3. /\ buf' \in {native, buf} /\ got' = Append(got, handed) /\ read_pos' = read_pos + len
      /\ market' = market /\ stream' = stream /\ received' = received
      /\ bytes_received' = bytes_received /\ looping' = looping
  <2>1. /\ buf' \in IF len # 0 THEN {native, buf} ELSE {buf}
        /\ got' = IF len # 0 THEN Append(got, handed) ELSE got
        /\ read_pos' = read_pos + len
        /\ UNCHANGED <<market, stream, received, bytes_received, looping>>
    BY DEF handle_packet, len, last, native
  <2> HIDE DEF handed
  <2> QED BY <1>2, <2>1
<1>4. /\ Places' = Places /\ began' = began /\ Total' = Total
      /\ \A p \in Places : End(p)' = End(p) /\ meant(p)' = meant(p)
  BY <1>3 DEF Places, began, Total, End, meant, is_order
<1>5. /\ market' = market /\ stream' = stream /\ received' = received
       /\ bytes_received' = bytes_received
  BY <1>3
<1>6. /\ got \in Seq(Seq(Byte)) /\ Len(got) \in Nat /\ Len(got') = Len(got) + 1
      /\ \A i \in 1 .. Len(got) : got'[i] = got[i]
      /\ got'[Len(got) + 1] = handed
      /\ got' \in Seq(Seq(Byte))
  <2>1. got \in Seq(Seq(Byte)) /\ handed \in Seq(Byte)
    BY <1>1, <1>2 DEF TypeOK
  <2> HIDE DEF handed
  <2> QED BY <1>3, <2>1
<1> HIDE DEF handed
<1>7. read_pos' = last + 1
  BY <1>2, <1>3 DEF last
<1>8. TypeOK'
  <2>1. read_pos + len \in Nat \ {0}
    BY <1>2
  <2>2. buf' \in [Cells -> Byte]
    BY <1>1, <1>2, <1>3 DEF TypeOK
  <2> QED BY <1>1, <1>3, <1>4, <1>6, <2>1, <2>2 DEF TypeOK
<1>9. OnTrack'
  <2>1. SUFFICES ASSUME NEW f \in Places, began = End(f),
                        f + Len(got) + 1 \in Places, End(f + Len(got) + 1) <= received
                 PROVE  /\ read_pos' = End(f + Len(got) + 1) - began + 1
                        /\ \A i \in read_pos' .. bytes_received : buf'[i] = stream.text[began + i]
    <3>1. \A f \in Places : f + Len(got') = f + Len(got) + 1
      <4>1. Len(got) \in Nat /\ Len(got') = Len(got) + 1
        BY <1>6
      <4>2. \A f \in Places : f \in Nat
        BY <1>1, EndsOrdered DEF TypeOK
      <4> QED BY <4>1, <4>2
    <3>2. \A f \in Places : End(f + Len(got))' = End(f + Len(got) + 1)
      BY <1>5, <3>1 DEF End
    <3>3. \A f \in Places : (f + Len(got) \in Places)' <=> f + Len(got) + 1 \in Places
      BY <1>4, <3>1
    <3>4. SUFFICES ASSUME NEW f \in Places, began' = End(f), (f + Len(got) \in Places)', (End(f + Len(got)) <= received)'
                   PROVE  /\ read_pos' = End(f + Len(got))' - began' + 1
                          /\ \A i \in read_pos' .. bytes_received' : buf'[i] = stream'.text[began' + i]
      BY <1>4 DEF OnTrack
    <3> HIDE DEF End
    <3> QED BY <1>4, <1>5, <3>2, <3>3, <3>4
  <2> DEFINE p == f + Len(got) + 1
  <2>2. /\ last = End(p) - began /\ last \in Cells /\ last <= bytes_received
        /\ \A i \in Cells : i > last => native[i] = buf[i]
    BY <1>1, <2>1, NextPacket
  <2>3. ASSUME NEW i \in read_pos' .. bytes_received
        PROVE  buf'[i] = stream.text[began + i]
    <3>1. i \in Cells /\ i > last /\ i > read_pos /\ i \in read_pos .. bytes_received
      BY <1>1, <1>2, <1>7, <2>2, <2>3 DEF TypeOK, Cells, OrderLen, last
    <3>2. buf'[i] = buf[i]
      BY <1>3, <2>2, <3>1
    <3>3. /\ f + Len(got) \in Places /\ End(f + Len(got)) <= received
      <4>1. f \in Nat /\ Len(got) \in Nat /\ f + Len(got) + 1 \in Nat /\ received \in Nat
        BY <1>1, <1>6, <2>1, EndsOrdered DEF TypeOK
      <4>2. f + Len(got) \in Places /\ f + Len(got) <= f + Len(got) + 1
        BY <1>1, <2>1, <4>1, Ends DEF Places, TypeOK
      <4>3. End(f + Len(got)) <= End(f + Len(got) + 1) /\ End(f + Len(got)) \in Nat /\ End(f + Len(got) + 1) \in Nat
        BY <1>1, <2>1, <4>2, EndsOrdered DEF TypeOK
      <4> QED BY <2>1, <4>1, <4>2, <4>3
    <3>4. buf[i] = stream.text[began + i]
      BY <1>1, <2>1, <3>1, <3>3 DEF OnTrack
    <3> QED BY <3>2, <3>4
  <2> QED BY <1>7, <2>2, <2>3
<1>10. Over'
  BY <1>1, <1>3 DEF Over, in_loop
<1>11. OnceInOrder'
  <2>1. SUFFICES ASSUME NEW f \in Places, NEW p \in Places,
                        began = End(f), f < p, End(p) <= received, p - f <= Len(got) + 1
                 PROVE  got'[p - f] = meant(p)
    BY <1>4, <1>6, <1>5 DEF OnceInOrder
  <2>2. f \in Nat /\ p \in Nat /\ Len(got) \in Nat
    BY <1>1, <1>6, EndsOrdered DEF TypeOK
  <2>3. CASE p - f <= Len(got)
    <3>1. p - f \in 1 .. Len(got)
      BY <1>6, <2>1, <2>2, <2>3
    <3>2. got[p - f] = meant(p)
      BY <2>1, <2>3 DEF IInv, OnceInOrder
    <3> QED BY <1>6, <3>1, <3>2
  <2>4. CASE p - f = Len(got) + 1
    <3>1. p = f + Len(got) + 1
      BY <2>2, <2>4
    <3>2. last \in Cells /\ slice(native, read_pos, last) = meant(p)
      BY <1>1, <2>1, <3>1, NextPacket
    <3>3. handed = meant(p)
      BY <3>2 DEF handed
    <3> QED BY <1>6, <2>4, <3>3
  <2> QED BY <1>6, <2>1, <2>2, <2>3, <2>4
<1>12. NothingMadeUp'
  <2>1. SUFFICES ASSUME NEW f \in Places, NEW p \in Places, began = End(f), received = End(p)
                 PROVE  Len(got) + 1 <= p - f
    BY <1>4, <1>6, <1>5 DEF NothingMadeUp
  <2>2. /\ f \in Nat /\ p \in Nat /\ End(f) \in Nat /\ End(p) \in Nat
        /\ Len(got) <= p - f /\ Len(got) \in Nat /\ bytes_received \in Nat
    BY <1>1, <1>2, <1>6, <2>1, EndsOrdered DEF TypeOK, IInv, NothingMadeUp
  <2>3. CASE Len(got) = p - f
    <3>1. f + Len(got) = p
      BY <1>6, <2>2, <2>3
    <3>2. read_pos = End(p) - began + 1
      <4>1. End(f + Len(got)) <= received
        BY <2>1, <2>2, <3>1
      <4> QED BY <1>1, <2>1, <3>1, <4>1 DEF OnTrack
    <3>3. read_pos <= received - began /\ began \in Int
      <4>1. received - began = bytes_received /\ began \in Int
        BY <2>1, <2>2 DEF began
      <4> QED BY <1>1, <4>1 DEF in_loop
    <3> HIDE DEF End, began
    <3> QED BY <2>1, <2>2, <3>2, <3>3
  <2> HIDE DEF End
  <2> QED BY <2>2, <2>3
<1> QED BY <1>8, <1>9, <1>10, <1>11, <1>12 DEF IInv

\* What speaks of a read holds as long as it is not another.
LEMMA SameRead ==
    ASSUME OnTrack, OnceInOrder, NothingMadeUp,
           UNCHANGED <<market, stream, received, buf, bytes_received, read_pos, got>>
    PROVE  OnTrack' /\ OnceInOrder' /\ NothingMadeUp'
<1>1. /\ Places' = Places /\ began' = began /\ received' = received /\ got' = got
      /\ \A p \in Places : End(p)' = End(p) /\ meant(p)' = meant(p)
  BY DEF Places, began, End, meant, is_order
<1>2. OnTrack'
  BY <1>1 DEF OnTrack, End
<1>3. OnceInOrder'
  BY <1>1 DEF OnceInOrder
<1>4. NothingMadeUp'
  BY <1>1 DEF NothingMadeUp
<1> QED BY <1>2, <1>3, <1>4

LEMMA EndInv ==
    ASSUME IInv, read_ends
    PROVE  IInv'
<1>1. /\ UNCHANGED <<market, stream, received, buf, bytes_received, read_pos, got>>
      /\ looping' = FALSE /\ looping /\ ~ in_loop
  BY DEF read_ends
<1>2. TypeOK'
  BY <1>1 DEF IInv, TypeOK, Total, End
<1>3. Over'
  <2>1. read_pos \in Nat /\ bytes_received \in Nat /\ ~ (read_pos <= bytes_received)
    BY <1>1, ReaderAssumption DEF IInv, TypeOK, in_loop
  <2> QED BY <1>1, <2>1 DEF Over
<1>4. OnTrack' /\ OnceInOrder' /\ NothingMadeUp'
  BY <1>1, SameRead DEF IInv
<1> QED BY <1>2, <1>3, <1>4 DEF IInv

LEMMA StutterInv ==
    ASSUME IInv, UNCHANGED vars
    PROVE  IInv'
<1>1. OnTrack' /\ OnceInOrder' /\ NothingMadeUp'
  BY SameRead DEF IInv, vars
<1>2. TypeOK' /\ Over'
  BY DEF vars, IInv, TypeOK, Over, Total, End
<1> QED BY <1>1, <1>2 DEF IInv

LEMMA NextInv == IInv /\ [Next]_vars => IInv'
<1>1. SUFFICES ASSUME IInv, [Next]_vars PROVE IInv'
  OBVIOUS
<1>2. ASSUME NEW n \in 1 .. BufSize, read(n) PROVE IInv'
  BY <1>1, <1>2, ReadInv
<1>3. CASE reconnect
  BY <1>1, <1>3, ReconnectInv
<1>4. CASE handle_packet
  BY <1>1, <1>4, HandleInv
<1>5. CASE read_ends
  BY <1>1, <1>5, EndInv
<1>6. CASE UNCHANGED vars
  BY <1>1, <1>6, StutterInv
<1> QED BY <1>1, <1>2, <1>3, <1>4, <1>5, <1>6 DEF Next

\* The invariant of the loops of SoupBinTCPServer::read and BOEServer::read.
THEOREM Invariance == Spec => []IInv
BY InitInv, NextInv, PTL DEF Spec

-----------------------------------------------------------------------------
(***************************************************************************)
(* What the invariant gives.                                               *)
(***************************************************************************)
\* The variables of the loop have their types whatever length it reads: the
\* place it comes to may lie behind the buffer, never before it.
THEOREM TypeCorrect == Spec => []TypeOK
<1>1. IInv => TypeOK
  BY DEF IInv
<1> QED BY <1>1, Invariance, PTL

\* Of a read that begins with a packet, handle_packet gets the packets the read
\* holds whole in their order, each once and with its number converted once,
\* whatever an older read has left in buf.
THEOREM PacketsOnceInOrder == Spec => []OnceInOrder
<1>1. IInv => OnceInOrder
  BY DEF IInv
<1> QED BY <1>1, Invariance, PTL

\* And it gets all of them: the loop does not end before the last.
THEOREM WholePacketsHandled == Spec => []NoneLeftOut
<1>1. IInv => NoneLeftOut
  <2>1. SUFFICES ASSUME IInv, ~looping, NEW f \in Places, NEW p \in Places,
                        began = End(f), f < p, End(p) <= received, ~ (p - f <= Len(got))
                 PROVE  FALSE
    BY DEF NoneLeftOut
  <2>2. TypeOK /\ OnTrack /\ read_pos > bytes_received
    BY <2>1 DEF IInv, Over
  <2>3. /\ f \in Nat /\ p \in Nat /\ Len(got) \in Nat
        /\ End(p) \in Nat /\ received \in Nat /\ bytes_received \in Nat
    BY <2>2, EndsOrdered, ReaderAssumption DEF TypeOK
  <2>4. f + Len(got) \in Places /\ f + Len(got) < p
    BY <2>1, <2>2, <2>3, Ends DEF Places, TypeOK
  <2>5. /\ End(f + Len(got)) \in Nat
        /\ End(f + Len(got)) + HeaderLen(market) <= End(p) /\ HeaderLen(market) \in {2, 4}
    BY <2>2, <2>4, Ends DEF TypeOK
  <2> HIDE DEF End, HeaderLen
  <2>6. End(f + Len(got)) < received
    BY <2>1, <2>3, <2>5
  <2>7. read_pos = End(f + Len(got)) - began + 1
    BY <2>1, <2>2, <2>3, <2>4, <2>5, <2>6 DEF OnTrack
  <2> QED BY <2>2, <2>3, <2>5, <2>6, <2>7 DEF began
<1> QED BY <1>1, Invariance, PTL

\* Of a read that ends with a packet too, the market gets packets and nothing
\* else.
THEOREM OnlyCutsMangle == Spec => []NothingMadeUp
<1>1. IInv => NothingMadeUp
  BY DEF IInv
<1> QED BY <1>1, Invariance, PTL

\* And the handlers of such a read convert numbers nowhere but in its own
\* bytes, since validate has compared the length with the message's.
THEOREM ConvertedInPlace == Spec => WritesInPlace
<1>1. IInv /\ [Next]_vars =>
        [looping /\ {began, received} \subseteq Boundaries
           => \A i \in Cells : i > bytes_received => buf'[i] = buf[i]]_vars
  <2>1. SUFFICES ASSUME IInv, Next, looping, began \in Boundaries, received \in Boundaries,
                        NEW i \in Cells, i > bytes_received
                 PROVE  buf'[i] = buf[i]
    OBVIOUS
  <2>2. CASE handle_packet
    <3>1. TypeOK /\ OnTrack /\ in_loop /\ NothingMadeUp
      BY <2>1, <2>2 DEF IInv, handle_packet
    <3>2. PICK f \in Places : began = End(f)
      BY <2>1 DEF Boundaries
    <3>3. PICK l \in Places : received = End(l)
      BY <2>1 DEF Boundaries
    <3>4. /\ f \in Nat /\ l \in Nat /\ Len(got) \in Nat /\ received \in Nat
      BY <3>1, <3>3, EndsOrdered DEF TypeOK
    <3>5. IInv'
      BY <2>1, <2>2, HandleInv
    <3>6. Len(got') <= l - f
      <4>1. Places' = Places /\ began' = began /\ received' = received /\ End(f)' = End(f) /\ End(l)' = End(l)
        BY <2>2 DEF handle_packet, Places, began, End
      <4> QED BY <3>2, <3>3, <3>5, <4>1 DEF IInv, NothingMadeUp
    <3>7. Len(got') = Len(got) + 1 /\ buf' \in {native, buf}
      <4>1. len # 0 /\ slice(native, read_pos, IF last \in Cells THEN last ELSE BufSize) \in Seq(Byte)
        BY <3>1, LoopStep
      <4>2. /\ got' = IF len # 0 THEN Append(got, slice(native, read_pos, IF last \in Cells THEN last ELSE BufSize))
                                 ELSE got
            /\ buf' \in IF len # 0 THEN {native, buf} ELSE {buf}
        BY <2>2 DEF handle_packet, len, last, native
      <4>3. got \in Seq(Seq(Byte))
        BY <3>1 DEF TypeOK
      <4>4. \A b \in Seq(Byte) : Len(Append(got, b)) = Len(got) + 1
        BY <4>3
      <4> QED BY <4>1, <4>2, <4>4
    <3>8. f + Len(got) + 1 \in Places /\ f + Len(got) + 1 <= l
      BY <3>1, <3>4, <3>6, <3>7, Ends DEF Places, TypeOK
    <3>9. End(f + Len(got) + 1) <= received
      BY <3>1, <3>3, <3>8, EndsOrdered DEF TypeOK
    <3>10. last <= bytes_received /\ last \in Cells /\ \A j \in Cells : j > last => native[j] = buf[j]
      BY <3>1, <3>2, <3>8, <3>9, NextPacket
    <3>11. i > last
      <4>1. bytes_received \in Int /\ i \in Int /\ last \in Int
        BY <3>1, <3>10 DEF TypeOK, Cells
      <4> QED BY <2>1, <3>10, <4>1
    <3> QED BY <3>7, <3>10, <3>11
  <2>3. CASE read_ends
    BY <2>3 DEF read_ends
  <2>4. ASSUME NEW n \in 1 .. BufSize, read(n) PROVE FALSE
    BY <2>1, <2>4 DEF read
  <2>5. CASE reconnect
    BY <2>1, <2>5 DEF reconnect
  <2> QED BY <2>1, <2>2, <2>3, <2>4, <2>5 DEF Next
<1> QED BY <1>1, Invariance, PTL DEF Spec, WritesInPlace
=============================================================================
