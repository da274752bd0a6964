------------------------------ MODULE MCAlerts ------------------------------
(***************************************************************************)
(* Values of the constants of PriceAlert for TLC.                          *)
(***************************************************************************)
EXTENDS PriceAlert

CONSTANTS p1, p2, s, u1, u2, t1, t2

\* Two users hold the same stock; the first one has set no stop loss price, the
\* second one no take profit price.
MCPortfolio ==
  [p \in Position |->
     [open |-> TRUE, monitored |-> FALSE, alerted |-> TRUE, buy |-> 1,
      take |-> IF p = p1 THEN 2 ELSE 0, stop |-> IF p = p1 THEN 0 ELSE 1]]

MCStockOf == [p \in Position |-> s]
MCOwnerOf == [p \in Position |-> IF p = p1 THEN u1 ELSE u2]

\* Quotes at the take profit price, at the stop loss price and far above, with
\* an old candle, without a market price and with several candles that count
MCQuotes ==
  LET candle(f, h, l) == [fresh |-> f, high |-> h, low |-> l]
  IN  {[market |-> 2, candles |-> <<candle(FALSE, 3, 1)>>],
       [market |-> 0, candles |-> <<candle(TRUE, 3, 2), candle(TRUE, 1, 1)>>],
       [market |-> 4, candles |-> <<>>]}
=============================================================================
