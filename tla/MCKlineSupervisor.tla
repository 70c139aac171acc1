-------------------------- MODULE MCKlineSupervisor --------------------------
(* The supervisor with any owner of the channels that keeps receiving.     *)
EXTENDS KlineSupervisor

CONSTANT Candles

MCFrames == [candle : Candles, closed : BOOLEAN]
=============================================================================
