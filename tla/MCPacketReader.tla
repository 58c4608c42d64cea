--------------------------- MODULE MCPacketReader ---------------------------
(* An instance of PacketReader for TLC: three packets for each market that   *)
(* do not fit into one read, with numbers that are lengths of 40000 and      *)
(* 65534 when a packet is cut before them; orders of quantity 0, which look  *)
(* the same in either byte order; and a packet with nothing but the type of  *)
(* an order.                                                                 *)
EXTENDS PacketReader

order(hi, lo) == <<0, 3, Order, hi, lo>>
no_order == <<0, 1, Order>>

MCStreams ==
    [OUCH |-> {[text |-> order(0, 2) \o no_order \o order(255, 254), ends |-> <<5, 8, 13>>],
               [text |-> no_order \o order(0, 0) \o order(156, 64), ends |-> <<3, 8, 13>>]},
     BOE |-> {[text |-> <<186, 186, 2, 0>> \o <<186, 186, 4, 0, 255, 254>> \o <<186, 186, 3, 0, 85>>,
               ends |-> <<4, 10, 15>>]}]

MCLeftovers == {[i \in Cells |-> 0], [i \in Cells |-> 255]}
=============================================================================
