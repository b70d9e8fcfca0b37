-------------------------------- MODULE Config --------------------------------
(***************************************************************************)
(* From environment variables to settings: config.py.  A text is the       *)
(* sequence of its tokens: " ", ":", numerals and words.  Two words or     *)
(* numerals never stand side by side in it.  Python's None and "" are both *)
(* the empty text here: the code never tells them apart in a setting.      *)
(***************************************************************************)
EXTENDS Integers, SequencesExt

CONSTANTS
  Tokens,   \* what texts are made of
  IntOf,    \* Python's int(): the function from numerals to their integers
  Decimals  \* the numerals that str() writes integers as

Space == " "
DefaultHost == "127.0.0.1"
DefaultPort == "8000"

ASSUME TokensAssumption ==
  /\ IntOf \in [DOMAIN IntOf -> Int]
  /\ DOMAIN IntOf \subseteq Tokens \ {Space, ":"}
  /\ Decimals \subseteq DOMAIN IntOf
  /\ \A n \in DOMAIN IntOf : \E d \in Decimals : IntOf[d] = IntOf[n]
  /\ \A c, d \in Decimals : IntOf[c] = IntOf[d] => c = d
  /\ {":", DefaultHost} \subseteq Tokens
  /\ DefaultPort \in Decimals /\ IntOf[DefaultPort] = 8000

Unset == <<"unset">>   \* the variable is not in the environment

Decimal(n) == CHOOSE d \in Decimals : IntOf[d] = n

MAX_SERVER_PORT == 65535
DefaultAddress == <<DefaultHost, ":", DefaultPort>>
DEFAULT_EXECUTION_BUFFER == <<"2.2">>
\* What Pydantic takes for a bool or a float.
BoolOf == "true" :> TRUE @@ "1" :> TRUE @@ "false" :> FALSE @@ "0" :> FALSE
Floats == {"2.2"} \union Decimals

Solid(text) == {i \in DOMAIN text : text[i] # Space}

\* str.strip()
Strip(text) ==
  IF Solid(text) = {} THEN <<>>
  ELSE SubSeq(text, Min(Solid(text)), Max(Solid(text)))

Numeral(text) == Len(Strip(text)) = 1 /\ Strip(text)[1] \in DOMAIN IntOf

\* The position at which str.rsplit(":", 1) cuts, and what it leaves.
Colons(text) == {i \in DOMAIN text : text[i] = ":"}
HostText(text) == SubSeq(text, 1, Max(Colons(text)) - 1)
PortText(text) == SubSeq(text, Max(Colons(text)) + 1, Len(text))
PortOf(text) == IntOf[Strip(PortText(text))[1]]

\* The checks of normalize_address on a stripped text.
Bindable(text) ==
  /\ Colons(text) # {}
  /\ HostText(text) # <<>>
  /\ Numeral(PortText(text))
  /\ PortOf(text) \in 1..MAX_SERVER_PORT

AddressAccepted(text) == text \in {Unset, <<>>} \/ Bindable(Strip(text))

\* Mutant: the first colon is taken for the one before the port.
NormalizeAddress_FirstColon(text) ==
  IF text \in {Unset, <<>>} THEN DefaultAddress
  ELSE LET host == SubSeq(Strip(text), 1, Min(Colons(Strip(text))) - 1)
       IN host \o <<":", Decimal(PortOf(Strip(text)))>>

\* ServerSettings.normalize_address, of an accepted text
NormalizeAddress(text) ==
  IF text \in {Unset, <<>>} THEN DefaultAddress
  ELSE HostText(Strip(text)) \o <<":", Decimal(PortOf(Strip(text)))>>

\* Mutant: a text of blanks only is taken for a value.
OptionalEnv_Raw(text) == IF text = Unset THEN <<>> ELSE text

\* _optional_env, with the validators that turn "" into None
OptionalEnv(text) == IF text = Unset THEN <<>> ELSE Strip(text)

Default(text, default) == IF text = Unset THEN default ELSE text
Or(text, other) == IF text # <<>> THEN text ELSE other

\* load_config_from_env returns, rather than raise a ValidationError.
Loads(env) ==
  /\ AddressAccepted(env.address)
  /\ OptionalEnv(env.chainId) = <<>> \/ Numeral(env.chainId)
  /\ LET buffer == Strip(Default(env.buffer, DEFAULT_EXECUTION_BUFFER))
     IN Len(buffer) = 1 /\ buffer[1] \in Floats
  /\ LET flag == Default(env.preload, <<"false">>)
     IN Len(flag) = 1 /\ flag[1] \in DOMAIN BoolOf

\* load_config_from_env; one flag and one number stand for those like them.
LoadConfigFromEnv(env) ==
  [address       |-> NormalizeAddress(env.address),
   authToken     |-> Or(OptionalEnv(env.authToken), OptionalEnv(env.legacyToken)),
   logLevel      |-> Default(env.logLevel, <<"info">>),
   privateKey    |-> OptionalEnv(env.privateKey),
   walletAddress |-> OptionalEnv(env.walletAddress),
   vaultAddress  |-> OptionalEnv(env.vaultAddress),
   chainId       |-> OptionalEnv(env.chainId),
   preload       |-> BoolOf[Default(env.preload, <<"false">>)[1]]]

\* GmxSettings.to_exchange_parameters: an optional entry that is not set is
\* left out of the payload; the wallet address is never part of it.
ToExchangeParameters(config) ==
  LET given == [privateKey   |-> config.privateKey,
                chainId      |-> config.chainId,
                vaultAddress |-> config.vaultAddress]
  IN [key \in {k \in DOMAIN given : given[k] # <<>>} |-> given[key]]
=============================================================================
