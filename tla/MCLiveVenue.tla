------------------------------ MODULE MCLiveVenue ------------------------------
(* LiveVenue with two orders: on each adapter the first is one of a few         *)
(* requests, among them one the adapter, the exchange or the way back changes.  *)
EXTENDS LiveVenue

CONSTANTS o1, o2, v1, v2

MCOrder == {o1, o2}
MCVenueId == [o \in MCOrder |-> IF o = o1 THEN v1 ELSE v2]

Inst(written, name, rest, class) ==
  [symbol |-> [written |-> written, name |-> name, rest |-> rest], class |-> class, canonical |-> TRUE]
Req(i, side, type, quantity, price, stop, tif) ==
  [instrument |-> i, side |-> side, type |-> type, quantity |-> quantity,
   price |-> price, stop |-> stop, tif |-> tif]

Swap == Inst("settled", "BTC", "USDT", "CRYPTO_PERP")
DashedSwap == Inst("dashed", "BTC", "USDT", "CRYPTO_PERP")
Stock == Inst("bare", "AAPL", "USD", "EQUITY")

MCRequested ==
  [ccxt |-> [o \in MCOrder |->
     IF o = o1 THEN {Req(Swap, "SELL", "LIMIT", 3, 7, 0, "IOC"), Req(Swap, "BUY", "STOP_LIMIT", 2, 7, 6, "GTC")}
     ELSE {Req(DashedSwap, "SELL", "MARKET", 2, 0, 0, "GTC")}],
   ibkr |-> [o \in MCOrder |->
     IF o = o1 THEN {Req(Stock, "SELL", "STOP_LIMIT", 4, 7, 6, "DAY")}
     ELSE {Req(Stock, "BUY", "LIMIT", 2, 7, 0, "GTC"), Req(Swap, "BUY", "MARKET", 2, 0, 0, "GTC")}],
   tastytrade |-> [o \in MCOrder |->
     IF o = o1 THEN {Req(Stock, "SELL", "LIMIT", 2, 7, 0, "FOK"), Req(Stock, "BUY", "MARKET", 1, 0, 0, "DAY")}
     ELSE {Req(Stock, "BUY", "STOP", 4, 0, 6, "GTC")}]]
===============================================================================
