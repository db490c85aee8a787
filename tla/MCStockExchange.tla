--------------------------- MODULE MCStockExchange ---------------------------
(***************************************************************************)
(* StockExchange on a grid of 0.5: the bounds 3.0 and 6.0 are 6 and 12, a  *)
(* change is at most 1, and the start prices 1.0, 4.27 and 3.74 are 2, 9   *)
(* and 8.                                                                  *)
(***************************************************************************)
EXTENDS StockExchange

HalfPrices == [c \in {"PLN", "EUR", "CHF"} |->
                 CASE c = "PLN" -> 2 [] c = "EUR" -> 9 [] c = "CHF" -> 8]
=============================================================================
