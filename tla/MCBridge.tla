------------------------------- MODULE MCBridge -------------------------------
(* Small instances of BridgeRuntime for TLC. *)
EXTENDS BridgeClaims

Call(method) == [route |-> "call", method |-> method, bearer |-> TRUE, valid |-> TRUE]
Ping == [route |-> "ping", method |-> "", bearer |-> TRUE, valid |-> TRUE]
Describe == [route |-> "describe", method |-> "", bearer |-> TRUE, valid |-> TRUE]
Order == Call("create_order")
Status == Call("fetch_status")

\* The wallet modes of docs/tests.md:118-121.
Mode(key, address, wallet) ==
  [privateKey |-> key, walletAddress |-> address, wallet |-> wallet,
   authToken |-> TRUE, web3 |-> TRUE, chain |-> TRUE]
PrivateKeyWallet == Mode(TRUE, FALSE, TRUE)
ViewOnly == Mode(FALSE, FALSE, FALSE)
AddressOnly == Mode(FALSE, TRUE, FALSE)
LagoonWallet == Mode(FALSE, FALSE, TRUE)
NoToken == [PrivateKeyWallet EXCEPT !.authToken = FALSE]
\* An exchange object without a Web3 client or a get_chain().
BareExchange == [PrivateKeyWallet EXCEPT !.web3 = FALSE, !.chain = FALSE]

AllModes == {PrivateKeyWallet, ViewOnly, AddressOnly, LagoonWallet, NoToken, BareExchange}
SigningMode == {PrivateKeyWallet}
\* An exchange object without a get_chain(), so a status needs two reads only.
OrderMode == {[PrivateKeyWallet EXCEPT !.chain = FALSE]}
LagoonMode == {LagoonWallet}

AllShapes ==
  {Order, Status, Ping, Describe,
   Call("fetch_balance"), Call("fetch_ticker"), Call("withdraw"),
   [Order EXCEPT !.bearer = FALSE], [Order EXCEPT !.valid = FALSE]}
OrderShapes == {Order, Status}
MixedShapes == {Order, Ping, Status}
HangShapes == {Call("fetch_balance"), Ping, [Ping EXCEPT !.bearer = FALSE]}

\* fetch_ticker stands for a method the exchange object lacks.
Methods == {"create_order", "fetch_status", "fetch_balance", "describe"}

\* The bridge raises an AttributeError itself as well, a ConnectionError never.
ForeignNames == {"AttributeError", "ConnectionError"}

RequestSymmetry == Permutations(Requests)
=============================================================================
