----------------------------- MODULE GmxMethods -----------------------------
(***************************************************************************)
(* The method tables of runtime.py: which exchange methods the bridge      *)
(* dispatches at all, which need a signing key and which need an account.  *)
(***************************************************************************)

SIGNING_REQUIRED_METHODS ==
  {"set_leverage", "add_margin", "reduce_margin", "create_order",
   "create_market_buy_order", "create_market_sell_order",
   "create_limit_order", "cancel_order", "cancel_orders"}

ACCOUNT_READ_METHODS ==
  {"fetch_balance", "fetch_open_orders", "fetch_my_trades",
   "fetch_positions", "fetch_order", "fetch_closed_orders", "fetch_orders"}

ALLOWED_METHODS ==
  {"describe", "load_markets", "fetch_markets", "fetch_market_leverage_tiers",
   "fetch_leverage_tiers", "fetch_ohlcv", "fetch_ticker", "fetch_tickers",
   "fetch_trades", "fetch_currencies", "fetch_time", "fetch_status",
   "fetch_open_interest", "fetch_open_interest_history",
   "fetch_open_interests", "fetch_funding_rate",
   "fetch_funding_rate_history", "fetch_funding_history", "fetch_apy",
   "fetch_balance", "fetch_open_orders", "fetch_my_trades",
   "fetch_positions", "set_leverage", "fetch_leverage", "add_margin",
   "reduce_margin", "create_order", "create_market_buy_order",
   "create_market_sell_order", "create_limit_order", "cancel_order",
   "cancel_orders", "fetch_order", "fetch_order_book",
   "fetch_closed_orders", "fetch_orders"}
=============================================================================
