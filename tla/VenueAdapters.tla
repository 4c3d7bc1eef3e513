----------------------------- MODULE VenueAdapters -----------------------------
(***************************************************************************)
(* What the adapters in execution/venues/ translate: instruments and order *)
(* requests for the exchange, statuses and positions of the exchange back. *)
(* An adapter is "ccxt", "ibkr" or "tastytrade".                           *)
(*                                                                         *)
(* A symbol is [written, name, rest]: "BTC/USDT" is a pair,                *)
(* "BTC/USDT:USDT" settled, "BTC/USDT:USDT-240329" dated, "BTC-USDT"       *)
(* dashed, "AAPL 20240315 150 C" in parts, anything else bare.  rest is    *)
(* what follows the name: the quote currency or the terms of the option;   *)
(* of a bare symbol it is the instrument's currency, as ccxt quotes it.    *)
(* An instrument has canonical fields when exchange, multiplier, tick and  *)
(* lot size are those the adapter puts into the instruments it builds.     *)
(* Quantities count half units; a price of 0 stands for None.              *)
(***************************************************************************)
EXTENDS Integers

Adapter == {"ccxt", "ibkr", "tastytrade"}

AssetClass == {"EQUITY", "CRYPTO_SPOT", "CRYPTO_PERP", "CRYPTO_FUTURE", "OPTION", "FUTURE", "EVENT"}
OrderType == {"MARKET", "LIMIT", "STOP", "STOP_LIMIT"}
TimeInForce == {"GTC", "IOC", "FOK", "DAY", "GTD"}

Limited == {"LIMIT", "STOP_LIMIT"}
Stopped == {"STOP", "STOP_LIMIT"}
WholeUnit == 2

Symbol == [written : {"pair", "settled", "dated", "dashed", "parts", "bare"}, name : STRING, rest : STRING]
Instrument == [symbol : Symbol, class : AssetClass, canonical : BOOLEAN]
OrderRequest == [instrument : Instrument, side : {"BUY", "SELL"}, type : OrderType,
                 quantity : Nat \ {0}, price : Nat, stop : Nat, tif : TimeInForce]

-------------------------------------------------------------------------------
(* Instruments *)

\* The market asked for.  A symbol with a slash is passed on as it is, the class
\* unseen; any other derivative becomes the perpetual swap.
CcxtMarket(i) ==
  CASE i.symbol.written = "pair" -> "spot"
    [] i.symbol.written = "settled" -> "swap"
    [] i.symbol.written = "dated" -> "future"
    [] OTHER -> IF i.class \in {"CRYPTO_PERP", "CRYPTO_FUTURE"} THEN "swap" ELSE "spot"

IbSecType ==
  [EQUITY |-> "STK", OPTION |-> "OPT", FUTURE |-> "FUT", CRYPTO_SPOT |-> "CASH"]

TtInstrumentType(class) ==
  CASE class \in {"OPTION", "FUTURE", "CRYPTO_SPOT"} -> class
    [] OTHER -> "EQUITY"

\* What the exchange is asked to trade: a market or security by name and terms.
\* tastytrade is told no currency.
Contract(adapter, i) ==
  [kind |-> CASE adapter = "ccxt" -> CcxtMarket(i)
              [] adapter = "ibkr" -> IbSecType[i.class]
              [] OTHER -> TtInstrumentType(i.class),
   name |-> i.symbol.name,
   rest |-> IF adapter = "tastytrade" /\ i.symbol.written = "bare" THEN "USD" ELSE i.symbol.rest]

CcxtClass == [spot |-> "CRYPTO_SPOT", swap |-> "CRYPTO_PERP", future |-> "CRYPTO_FUTURE"]
CcxtWritten == [spot |-> "pair", swap |-> "settled", future |-> "dated"]
IbClass == [STK |-> "EQUITY", OPT |-> "OPTION", FUT |-> "FUTURE", CASH |-> "CRYPTO_SPOT"]

\* The instrument get_positions() builds for a contract.  An option at Interactive
\* Brokers is named by its underlying alone.
BuildInstrument(adapter, c) ==
  CASE adapter = "ccxt" ->
         [symbol |-> [written |-> CcxtWritten[c.kind], name |-> c.name, rest |-> c.rest],
          class |-> CcxtClass[c.kind], canonical |-> TRUE]
    [] adapter = "ibkr" ->
         [symbol |-> [written |-> "bare", name |-> c.name,
                      rest |-> IF c.kind = "OPT" THEN "USD" ELSE c.rest],
          class |-> IbClass[c.kind], canonical |-> TRUE]
    [] OTHER ->
         [symbol |-> [written |-> IF c.kind = "OPTION" THEN "parts" ELSE "bare",
                      name |-> c.name, rest |-> c.rest],
          class |-> c.kind, canonical |-> TRUE]

\* Contracts that show up in get_positions(): ccxt asks for derivatives only.
IsPosition(adapter, c) == adapter = "ccxt" => c.kind # "spot"

\* Mutant: the side of the position is not looked at.
ReportedQuantity_Contracts(adapter, net) == IF net < 0 THEN -net ELSE net

\* ccxt reports contracts and a side, the others a signed number.
ReportedQuantity(adapter, net) ==
  LET contracts == IF net < 0 THEN -net ELSE net
      side == IF net < 0 THEN "short" ELSE "long"
  IN IF adapter = "ccxt" THEN (IF side = "short" THEN -contracts ELSE contracts) ELSE net

-------------------------------------------------------------------------------
(* Orders *)

\* Requests the adapter itself raises on.  supported_order_types is not consulted.
Translatable(adapter, r) ==
  adapter = "ibkr" =>
    /\ r.instrument.class \in DOMAIN IbSecType
    /\ r.type \in Limited => r.price # 0
    /\ r.type \in Stopped => r.stop # 0

\* The prices the order type has, no time in force.
IbOrder(r) ==
  [type |-> r.type, quantity |-> r.quantity, tif |-> "default",
   price |-> IF r.type \in Limited THEN r.price ELSE 0,
   stop |-> IF r.type \in Stopped THEN r.stop ELSE 0]

\* Neither stop price nor time in force.
CcxtOrder(r) ==
  [type |-> r.type, quantity |-> r.quantity, price |-> r.price, stop |-> 0, tif |-> "default"]

MapTimeInForce(tif) == IF tif = "FOK" THEN "DAY" ELSE tif

\* A buy opens, a sell closes; fractions of a unit are cut off.
TtOrder(r) ==
  [type |-> r.type, quantity |-> r.quantity - (r.quantity % WholeUnit), price |-> r.price,
   stop |-> r.stop, tif |-> MapTimeInForce(r.tif)]

NativeOrder(adapter, r) ==
  CASE adapter = "ccxt" -> CcxtOrder(r)
    [] adapter = "ibkr" -> IbOrder(r)
    [] OTHER -> TtOrder(r)

Sign(r) == IF r.side = "BUY" THEN 1 ELSE -1

-------------------------------------------------------------------------------
(* Statuses *)

CcxtStatusMap == [open |-> "ACCEPTED", closed |-> "FILLED", canceled |-> "CANCELLED",
                  expired |-> "EXPIRED", rejected |-> "REJECTED"]

\* Mutant: an order being cancelled counts as cancelled.
IbStatusMap_CancelAsked ==
  [PendingSubmit |-> "SUBMITTED", PendingCancel |-> "CANCELLED", PreSubmitted |-> "ACCEPTED",
   Submitted |-> "ACCEPTED", Filled |-> "FILLED", Cancelled |-> "CANCELLED",
   Inactive |-> "REJECTED", ApiPending |-> "PENDING", ApiCancelled |-> "CANCELLED"]

IbStatusMap ==
  [PendingSubmit |-> "SUBMITTED", PendingCancel |-> "ACCEPTED", PreSubmitted |-> "ACCEPTED",
   Submitted |-> "ACCEPTED", Filled |-> "FILLED", Cancelled |-> "CANCELLED",
   Inactive |-> "REJECTED", ApiPending |-> "PENDING", ApiCancelled |-> "CANCELLED"]

\* The names of the SDK without their blanks.
TtStatusMap ==
  [Received |-> "SUBMITTED", Routed |-> "ACCEPTED", InFlight |-> "ACCEPTED",
   Live |-> "ACCEPTED", Filled |-> "FILLED", Cancelled |-> "CANCELLED",
   CancelRequested |-> "ACCEPTED", Rejected |-> "REJECTED", Expired |-> "EXPIRED",
   Contingent |-> "PENDING", ReplaceRequested |-> "ACCEPTED", Removed |-> "CANCELLED",
   PartiallyRemoved |-> "CANCELLED"]

\* A status the adapter does not know is PENDING.
MapStatus(adapter, native) ==
  LET table == CASE adapter = "ccxt" -> CcxtStatusMap
                 [] adapter = "ibkr" -> IbStatusMap
                 [] OTHER -> TtStatusMap
  IN IF native \in DOMAIN table THEN table[native] ELSE "PENDING"
===============================================================================
