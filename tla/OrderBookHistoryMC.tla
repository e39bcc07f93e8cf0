------------------------- MODULE OrderBookHistoryMC -------------------------
(***************************************************************************)
(* Instances of OrderBookHistory for TLC.                                  *)
(***************************************************************************)
EXTENDS OrderBookHistory, BookInputs
=============================================================================
