---------------------------- MODULE MCTradingBot ----------------------------
(***************************************************************************)
(* Constant values for the bot_*.cfg instances of TradingBot that a        *)
(* configuration file cannot write: sets with negative results.            *)
(***************************************************************************)
EXTENDS TradingBot

MCLoss == {-2}
=============================================================================
