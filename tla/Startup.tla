-------------------------------- MODULE Startup -------------------------------
(***************************************************************************)
(* How a bridge process comes to serve: __main__.main and                  *)
(* BridgeRuntime.from_config.  Boot runs in one event loop (asyncio.run),  *)
(* serving in another (uvicorn.run), and the asyncio.Lock that is made in  *)
(* the first is used in the second.  Each action is what runs from one     *)
(* await to the next; an exception anywhere ends the process.              *)
(*                                                                         *)
(* Outside src/, and modelled from how it is used: the exchange class, the *)
(* key check of eth_account, RPC reads, asyncio.Lock (which attaches to    *)
(* the running loop when a caller first has to wait) and uvicorn.          *)
(***************************************************************************)
EXTENDS Config

CONSTANTS
  Envs,       \* environments the process may be started in
  ValidKeys,  \* texts that Account.from_key accepts
  UvicornLevels, \* the names in uvicorn's LOG_LEVELS
  MaxWaiters  \* bound on the callers waiting for the lock while serving

\* The variables of the environment that are read; each holds a text.
Variables ==
  {"address", "authToken", "legacyToken", "logLevel", "privateKey", "walletAddress",
   "vaultAddress", "chainId", "buffer", "preload"}

ASSUME EnvsAssumption == Envs \subseteq [Variables -> Seq(Tokens)]
ASSUME MaxWaitersAssumption == MaxWaiters \in Nat
ASSUME UnsetIsNoKey == Unset \notin ValidKeys

VARIABLES
  env,       \* the process environment
  config,    \* the settings, once loaded
  phase,     \* where main() is
  exchange,  \* the exchange object, once constructed
  reads,     \* RPC reads that the current step awaits
  markets,   \* the exchange has loaded its markets
  locked,    \* asyncio.Lock: held or not
  waiting,   \* asyncio.Lock: how many callers wait for it
  lockLoop,  \* asyncio.Lock: the event loop it is attached to
  failed     \* the step that raised, or "none"

vars == <<env, config, phase, exchange, reads, markets, locked, waiting,
          lockLoop, failed>>
lockVars == <<locked, waiting, lockLoop>>
setupVars == <<env, config, exchange>>

BootPhases == {"validate", "construct", "hotWallet", "gasWarning", "preload", "loading"}
Phases == {"load", "app", "serving", "exited"} \union BootPhases
NoExchange == [parameters |-> <<>>, watches |-> <<>>, web3 |-> FALSE, chain |-> FALSE]

Init ==
  /\ env \in Envs
  /\ config = <<>>
  /\ phase = "load"
  /\ exchange = NoExchange
  /\ reads = {}
  /\ markets = FALSE
  /\ locked = FALSE /\ waiting = 0 /\ lockLoop = "none"
  /\ failed = "none"

Loop == IF phase \in BootPhases THEN "boot"
        ELSE IF phase = "serving" THEN "serving" ELSE "none"

IsReadOnlyMode == config.privateKey = <<>>

\* _wallet_address, where an address of the key's own stands for the signer.
SigningWalletAddress ==
  IF "privateKey" \in DOMAIN exchange.parameters
  THEN <<"signer", exchange.parameters.privateKey>> ELSE <<>>
WalletAddress ==
  IF IsReadOnlyMode THEN config.walletAddress ELSE SigningWalletAddress

GasReadable == WalletAddress # <<>> /\ exchange.web3

Goto(p) == phase' = p /\ UNCHANGED failed
Fail(step) == phase' = "exited" /\ failed' = step

-----------------------------------------------------------------------------
(* main() up to the boot loop, and the start of from_config.               *)

LoadSettings ==
  /\ phase = "load"
  /\ IF Loads(env) THEN config' = LoadConfigFromEnv(env) /\ Goto("validate")
     ELSE Fail("settings") /\ UNCHANGED config
  /\ UNCHANGED <<env, exchange, reads, markets, lockVars>>

\* _validate_private_key
KeyPasses == config.privateKey = <<>> \/ config.privateKey \in ValidKeys

ValidatePrivateKey ==
  /\ phase = "validate"
  /\ IF KeyPasses THEN Goto("construct") ELSE Fail("key")
  /\ UNCHANGED <<setupVars, reads, markets, lockVars>>

\* Mutant: the configured address is attached beside a signing key.
CreatedExchange_Attaches(web3, chain) ==
  [parameters |-> ToExchangeParameters(config), watches |-> config.walletAddress,
   web3 |-> web3, chain |-> chain]

\* _create_exchange; web3 and chain: the object has a Web3 client and a
\* config.get_chain().
CreatedExchange(web3, chain) ==
  [parameters |-> ToExchangeParameters(config),
   watches    |-> IF IsReadOnlyMode THEN config.walletAddress ELSE <<>>,
   web3       |-> web3,
   chain      |-> chain]

CreateExchange ==
  /\ phase = "construct"
  /\ \/ \E web3, chain \in BOOLEAN :
          /\ exchange' = CreatedExchange(web3, chain)
          /\ Goto("hotWallet")
          /\ reads' = {"start"}
     \/ Fail("exchange") /\ UNCHANGED <<exchange, reads>>
  /\ UNCHANGED <<env, config, markets, lockVars>>

-----------------------------------------------------------------------------
(* The boot-time reads.  "start" stands for a step that has yet to begin.  *)

\* Mutant: the log line also wants the chain id.
HotWalletReads_ChainId ==
  (IF exchange.chain THEN {"chain"} ELSE {}) \union
  (IF GasReadable THEN {"gas", "chainId"} ELSE {})

HotWalletReads ==
  (IF exchange.chain THEN {"chain"} ELSE {}) \union
  (IF GasReadable THEN {"gas"} ELSE {})

\* log_hot_wallet_balance up to its gather
LogHotWalletBalance ==
  /\ phase = "hotWallet" /\ reads = {"start"}
  /\ reads' = IF IsReadOnlyMode \/ SigningWalletAddress = <<>> THEN {}
              ELSE HotWalletReads
  /\ UNCHANGED <<setupVars, phase, markets, lockVars, failed>>

\* A gathered read comes back; the first that raises ends the gather.
HotWalletRead(read) ==
  /\ phase = "hotWallet" /\ read \in reads \ {"start"}
  /\ \/ reads' = reads \ {read} /\ UNCHANGED <<phase, failed>>
     \/ Fail("hotWallet") /\ UNCHANGED reads
  /\ UNCHANGED <<setupVars, markets, lockVars>>

HotWalletLogged ==
  /\ phase = "hotWallet" /\ reads = {}
  /\ Goto("gasWarning")
  /\ UNCHANGED <<setupVars, reads, markets, lockVars>>

AfterWarning == IF config.preload THEN "preload" ELSE "app"

\* Mutant: a wallet without gas cannot trade, so the server does not start.
WarnIfZeroGasBalance_Stops ==
  /\ phase = "gasWarning"
  /\ \/ Goto(AfterWarning)
     \/ GasReadable /\ phase' = "exited" /\ UNCHANGED failed
     \/ GasReadable /\ Fail("gasWarning")
  /\ UNCHANGED <<setupVars, reads, markets, lockVars>>

\* warn_if_zero_gas_balance: it reads the balance if it can, and only logs.
WarnIfZeroGasBalance ==
  /\ phase = "gasWarning"
  /\ Goto(AfterWarning) \/ (GasReadable /\ Fail("gasWarning"))
  /\ UNCHANGED <<setupVars, reads, markets, lockVars>>

-----------------------------------------------------------------------------
(* The optional preload: call("load_markets"), which takes the lock.       *)

\* Mutant: two calls are preloaded at once, so one waits for the lock.
BeginPreload_Gathered ==
  /\ phase = "preload"
  /\ locked' = TRUE /\ lockLoop' = Loop /\ UNCHANGED waiting
  /\ Goto("loading")
  /\ UNCHANGED <<setupVars, reads, markets>>

BeginPreload ==
  /\ phase = "preload" /\ ~locked
  /\ locked' = TRUE /\ UNCHANGED <<waiting, lockLoop>>
  /\ Goto("loading")
  /\ UNCHANGED <<setupVars, reads, markets>>

EndPreload ==
  /\ phase = "loading"
  /\ locked' = FALSE /\ UNCHANGED <<waiting, lockLoop>>
  /\ \/ markets' = TRUE /\ Goto("app")
     \/ Fail("preload") /\ UNCHANGED markets
  /\ UNCHANGED <<setupVars, reads>>

-----------------------------------------------------------------------------
(* create_app, uvicorn.run, and the calls that then contend for the lock.  *)

\* uvicorn looks the level up by name and binds the address only now.
Serve ==
  /\ phase = "app"
  /\ IF Len(config.logLevel) = 1 /\ config.logLevel[1] \in UvicornLevels
     THEN Goto("serving") \/ Fail("bind")
     ELSE Fail("logLevel")
  /\ UNCHANGED <<setupVars, reads, markets, lockVars>>

Acquire ==
  /\ phase = "serving" /\ ~locked /\ waiting = 0
  /\ locked' = TRUE
  /\ UNCHANGED <<setupVars, phase, reads, markets, waiting, lockLoop, failed>>

Wait ==
  /\ phase = "serving" /\ (locked \/ waiting > 0) /\ waiting < MaxWaiters
  /\ IF lockLoop \in {"none", Loop}
     THEN lockLoop' = Loop /\ waiting' = waiting + 1 /\ UNCHANGED failed
     ELSE failed' = "lock" /\ UNCHANGED <<lockLoop, waiting>>  \* RuntimeError
  /\ UNCHANGED <<setupVars, phase, reads, markets, locked>>

Release ==
  /\ phase = "serving" /\ locked
  /\ locked' = FALSE
  /\ UNCHANGED <<setupVars, phase, reads, markets, waiting, lockLoop, failed>>

WakeUp ==
  /\ phase = "serving" /\ ~locked /\ waiting > 0
  /\ locked' = TRUE /\ waiting' = waiting - 1
  /\ UNCHANGED <<setupVars, phase, reads, markets, lockLoop, failed>>

-----------------------------------------------------------------------------
ReadsStep == LogHotWalletBalance \/ HotWalletLogged \/ \E read \in reads : HotWalletRead(read)
BootStep ==
  \/ LoadSettings
  \/ ValidatePrivateKey
  \/ CreateExchange
  \/ ReadsStep
  \/ WarnIfZeroGasBalance
  \/ BeginPreload
  \/ EndPreload
  \/ Serve
CallStep == Acquire \/ Wait \/ Release \/ WakeUp
Next == BootStep \/ CallStep

Spec == Init /\ [][Next]_vars

\* main() goes on; constructor, reads and load_markets end or raise.
FairSpec == Spec /\ WF_vars(BootStep)

-----------------------------------------------------------------------------
\* Types; env is what the process was started in, and config is read from it.
StartupTypeOK ==
  /\ phase \in Phases
  /\ reads \subseteq {"start", "chain", "gas"}
  /\ \A v \in {markets, locked, exchange.web3, exchange.chain} : v \in BOOLEAN
  /\ waiting \in 0..MaxWaiters
  /\ lockLoop \in {"none", "boot", "serving"}

\* A server that serves has passed all of boot: its key is valid, no read is
\* left behind, its markets are loaded if that was asked for, and the account
\* that gas checks and diagnostics report is the one the exchange object uses,
\* the signer if there is a key and else the watched address (from_config).
ReadyToServe ==
  phase = "serving" =>
    /\ KeyPasses
    /\ reads = {}
    /\ config.preload => markets
    /\ WalletAddress = IF IsReadOnlyMode THEN exchange.watches
                       ELSE <<"signer", config.privateKey>>
    /\ ~IsReadOnlyMode => exchange.watches = <<>>

\* The lock is made while the boot loop runs, but is never attached to it, so
\* no caller is told that the lock belongs to another loop; and the boot
\* leaves it free (BridgeRuntime.__init__, asyncio.run).
LockOutlivesBoot ==
  /\ lockLoop # "none" => phase = "serving" /\ lockLoop = "serving"
  /\ phase = "app" => ~locked /\ waiting = 0
  /\ failed # "lock"

\* Boot comes to an end, and short of a step that raised the end is a server:
\* no wallet mode, missing client or empty balance keeps it from serving.
BootDecides == <>(phase = "serving" \/ failed # "none")

-----------------------------------------------------------------------------
(* Settings, against what their documentation says.                        *)

\* What a bind address must look like, said without an algorithm: a host that
\* is not blank, the last colon at i, and one numeral at k, in any blanks.
WellFormedAddress(text, i, k) ==
  /\ text[i] = ":" /\ i < k
  /\ \E j \in 1..(i - 1) : text[j] # Space
  /\ text[k] \in DOMAIN IntOf /\ IntOf[text[k]] \in 1..MAX_SERVER_PORT
  /\ \A j \in ((i + 1)..Len(text)) \ {k} : text[j] = Space

\* Boot goes on exactly with the well-formed addresses; what is split again
\* for uvicorn (properties host and port) is the host and the port that were
\* given, and the normalised address normalises to itself (config.py:23-58).
AddressRoundTrip ==
  LET given == env.address
      defaulted == given \in {Unset, <<>>}
      Read(i, k) == WellFormedAddress(given, i, k)
  IN /\ phase \notin {"load", "exited"} =>
          /\ Bindable(config.address)
          /\ NormalizeAddress(config.address) = config.address
          /\ defaulted \/ \E i, k \in DOMAIN given :
               /\ Read(i, k)
               /\ PortOf(config.address) = IntOf[given[k]]
               /\ HostText(config.address) = SubSeq(given, Min(Solid(given)), i - 1)
     /\ failed = "settings" /\ Loads([env EXCEPT !.address = Unset]) =>
          ~defaulted /\ ~\E i, k \in DOMAIN given : Read(i, k)

OptionalVariables ==
  {"authToken", "legacyToken", "privateKey", "walletAddress", "vaultAddress", "chainId"}

\* An optional variable that holds blanks only has no effect on any setting,
\* so a blank key or token can neither sign nor lock clients out, and a blank
\* token does not hide the older name of it (docs/config.md:30).
BlankMeansUnset ==
  phase \notin {"load", "exited"} =>
    \A v \in OptionalVariables :
      Solid(env[v]) = {} => config = LoadConfigFromEnv([env EXCEPT ![v] = Unset])

=============================================================================
