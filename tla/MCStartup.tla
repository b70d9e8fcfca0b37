------------------------------- MODULE MCStartup -------------------------------
(* Small instances of Startup for TLC. *)
EXTENDS Startup

Keys == {<<"key">>}
\* "08000" and "+1" are numerals that str() does not write.
DecimalNumerals == {"0", "1", "8000", "65535", "65536"}
IntegerOf ==
  "0" :> 0 @@ "1" :> 1 @@ "8000" :> 8000 @@ "65535" :> 65535
    @@ "65536" :> 65536 @@ "08000" :> 8000 @@ "+1" :> 1
Levels == {"critical", "error", "warning", "info", "debug", "trace"}

NoVariables ==
  [address |-> Unset, authToken |-> Unset, legacyToken |-> Unset,
   logLevel |-> Unset, privateKey |-> Unset, walletAddress |-> Unset,
   vaultAddress |-> Unset, chainId |-> Unset, buffer |-> Unset, preload |-> Unset]

\* Wallet modes, preloading, and log levels of uvicorn, of Python, of neither.
BootEnvs ==
  {[NoVariables EXCEPT !.privateKey = k, !.walletAddress = w, !.preload = p, !.logLevel = l] :
     k \in {Unset, <<" ">>, <<" ", "key">>, <<"junk">>},
     w \in {Unset, <<"address">>},
     p \in {Unset, <<"true">>, <<>>},
     l \in {Unset, <<"debug">>, <<"INFO">>, <<"error">>, <<>>}}

\* Every address of up to five tokens.
AddressTokens == {" ", ":", "host", "0", "8000", "65536", "+1"}
Blank == {" ", ":"}
Addresses ==
  {t \in SeqOf(AddressTokens, 5) : \A i \in 1..(Len(t) - 1) : t[i] \in Blank \/ t[i + 1] \in Blank}

AddressEnvs == {[NoVariables EXCEPT !.address = a] : a \in Addresses}

\* Every combination of blank, padded and missing optional variables.
Optional == {Unset, <<>>, <<" ", " ">>, <<" ", "key">>}
OptionalEnvs ==
  {[NoVariables EXCEPT !.authToken = a, !.legacyToken = l, !.privateKey = k,
                       !.walletAddress = w, !.vaultAddress = v] :
     a \in Optional, l \in Optional, k \in Optional, w \in Optional, v \in Optional}
  \union
  {[NoVariables EXCEPT !.chainId = c, !.buffer = b, !.preload = p] :
     c \in {Unset, <<>>, <<" ">>, <<"1">>, <<" ", "1">>, <<"one">>},
     b \in {Unset, <<>>, <<" ", "2.2">>, <<"high">>},
     p \in {Unset, <<>>, <<"0">>, <<"maybe">>}}

AllTokens ==
  AddressTokens \union DOMAIN IntegerOf \union
  {"unset", "127.0.0.1", "key", "junk", "address", "true", "debug", "INFO", "error",
   "one", "2.2", "high", "maybe"}

AllEnvs == BootEnvs \union AddressEnvs \union OptionalEnvs
=============================================================================
