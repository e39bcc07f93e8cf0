---------------------------- MODULE OrderBookMC ----------------------------
(***************************************************************************)
(* Instances of OrderBook for TLC; the .cfg files give the constants.      *)
(***************************************************************************)
EXTENDS OrderBook, BookInputs
=============================================================================
