------------------------- MODULE MCPolygonConnector -------------------------
(* PolygonConnector with a stock, a pair, the same pair written differently,  *)
(* a stock with the letters of the pair, and an instrument Polygon lacks.     *)
EXTENDS PolygonConnector, TLC

CONSTANTS s1, s2, r1

stock == [class |-> "EQUITY", symbol |-> <<"A">>]
pair == [class |-> "CRYPTO_SPOT", symbol |-> <<"B", "-", "U">>]
perp == [class |-> "CRYPTO_PERP", symbol |-> <<"B", "/", "U">>]
lookalike == [class |-> "EQUITY", symbol |-> <<"B", "U">>]
event == [class |-> "EVENT", symbol |-> <<"E">>]

\* The first stream is asked for every list and delivers, the second takes part
\* in the contention for threads.
MCWanted == (s1 :> {<<lookalike, pair>>, <<pair, perp>>, <<pair, lookalike>>, <<event>>, <<>>}
               @@ s2 :> {<<stock>>})
MCMaxMessages == (s1 :> 2 @@ s2 :> 0)
MCFeed == (s1 :> "trades" @@ s2 :> "second bars")
=============================================================================
