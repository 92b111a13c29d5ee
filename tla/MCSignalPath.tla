---------------------------- MODULE MCSignalPath ----------------------------
(* With the weights of the shipped configuration: scores that enter long,   *)
(* hold it, leave both, leave a long in volatile times, and enter short; and*)
(* features without a macd.  At the shipped threshold of 60 none enters     *)
(* long.                                                                    *)
EXTENDS SignalPath

Features(rsi, macd, volume, atr, number) ==
  [rsi |-> rsi, macd |-> macd, volume |-> volume, atr |-> atr, number |-> number]

MCReadings == {Features(20, 150, 200, 0, TRUE), Features(40, 100, 10, 0, TRUE),
               Features(50, 50, 100, 0, TRUE), Features(80, -100, 0, 300, TRUE),
               Features(50, 0, 100, 0, FALSE)}
MCMinima == {0, 50}
MCShort == -50
MCPenalty == -20
=============================================================================
