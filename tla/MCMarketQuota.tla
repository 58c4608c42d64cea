---------------------------- MODULE MCMarketQuota ----------------------------
(* Instances of MarketQuota for TLC: the operations under command. *)
EXTENDS MarketQuota

MCTickOperations == {"cancel_order", "execution"}
MCOperations == {"login", "cancel_order", "execution"}
=============================================================================
