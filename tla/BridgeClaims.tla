----------------------------- MODULE BridgeClaims -----------------------------
(***************************************************************************)
(* Two statements that the repository makes about the bridge and that its  *)
(* code does not keep.                                                     *)
(***************************************************************************)
EXTENDS BridgeRefinement

\* A worker thread is using the exchange object: a method of it, its web3
\* client (chain_id, get_balance) or its config (get_chain).
UsesExchange(t) ==
  \/ t[2] = "exchange" /\ job[t] \in {"begun", "sent"}
  \/ t[2] \in DiagnosticKinds /\ HoldsToken(t) /\ job[t] = "pending"

\* runtime.py:123 "it serialises access to the singleton exchange with
\* asyncio.Lock" and routes/call.py:5-6: while a thread is inside an exchange
\* method no other thread uses the exchange object.
AccessSerialised ==
  \A r \in Requests : InExchange(r) =>
    \A t \in Jobs : UsesExchange(t) => t = <<r, "exchange">>

\* docs/architecture.md:55 "Optional signing state comes from GMX_PRIVATE_KEY,
\* GMX_WALLET_ADDRESS in read-only mode, or an injected wallet object": with a
\* wallet in place no signing call is turned away for the lack of a key.
InjectedWalletSigns ==
  \A r \in Requests :
    config.wallet /\ Signs(r) => ~(answer[r] = "PermissionDeniedError" /\ runs[r] = 0)
=============================================================================
