---------------------------- MODULE BridgeRuntime ----------------------------
(***************************************************************************)
(* The serving core of the GMX CCXT middleware: the route handlers and     *)
(* BridgeRuntime.  Every HTTP request is a coroutine on one event loop.  A *)
(* step of a coroutine runs without interruption from one await to the     *)
(* next, so each such segment is one action here.  Blocking work (the auth *)
(* dependency, RPC reads, the exchange method itself) is a job given to a  *)
(* thread pool of bounded size; the asyncio.Lock orders the exchange       *)
(* methods only.                                                           *)
(*                                                                         *)
(* Outside src/, and modelled from how it is used: the worker thread pool, *)
(* the asyncio.Lock, the exchange object with its signing wallet, and the  *)
(* chain that holds the wallet's native gas.                               *)
(***************************************************************************)
EXTENDS GmxMethods, Naturals, FiniteSets, SequencesExt

CONSTANTS
  Requests,        \* the HTTP requests, one coroutine each
  Tokens,          \* capacity of the thread pool
  Configs,         \* the settings the process may have been started with
  Shapes,          \* what clients may send
  ExchangeMethods, \* names under which the exchange has a callable attribute
  Exceptions,      \* class names of what the exchange, its web3 client or a conversion raise
  MaxGas,          \* bound on the wallet's native balance, in transactions
  MaxTransactions  \* bound on the transactions that one exchange call makes

Routes == {"call", "ping", "describe"}

\* privateKey, walletAddress, authToken: GMX_PRIVATE_KEY, GMX_WALLET_ADDRESS
\* and a bearer token are set; wallet, web3, chain: exchange.wallet.address,
\* exchange.web3 and exchange.config.get_chain exist.
ConfigType ==
  [privateKey : BOOLEAN, walletAddress : BOOLEAN, authToken : BOOLEAN,
   wallet : BOOLEAN, web3 : BOOLEAN, chain : BOOLEAN]

\* bearer: the Authorization header is the configured one; valid: the body is
\* a CallRequest with no extra keys.
ShapeType ==
  [route : Routes, method : STRING, bearer : BOOLEAN, valid : BOOLEAN]

ASSUME TokensAssumption == Tokens \in Nat \ {0}
ASSUME ConfigsAssumption == Configs \subseteq ConfigType
ASSUME ShapesAssumption == Shapes \subseteq ShapeType
ASSUME ExceptionsAssumption ==
  Exceptions \subseteq STRING \ {"none", "ok", "401", "422", "500"}
ASSUME MaxGasAssumption == MaxGas \in Nat
ASSUME MaxTransactionsAssumption == MaxTransactions \in Nat \ {0}

VARIABLES
  config,   \* the settings of this process; they never change
  shape,    \* shape[r]: the request r carries
  pc,       \* pc[r]: the await at which the coroutine of r is suspended
  job,      \* job[<<r, k>>]: how far the job of kind k of request r has come
  pool,     \* the submitted jobs, oldest first; the first Tokens of them run
  locked,   \* asyncio.Lock: held or not (the lock knows no owner)
  waiters,  \* asyncio.Lock: the requests queued for it, oldest first
  answer,   \* answer[r]: what the client is told
  runs,     \* runs[r]: how often r has entered its exchange method
  gas,      \* native balance of the signing wallet, on the chain
  nonce,    \* the exchange wallet's next nonce, in its memory
  drawn,    \* drawn[r]: the nonce the exchange call of r has read, while it runs
  sent,     \* the <<request, nonce>> pairs broadcast so far
  txsLeft   \* txsLeft[r]: how many more transactions the exchange call of r makes at most

vars == <<config, shape, pc, job, pool, locked, waiters, answer, runs,
          gas, nonce, drawn, sent, txsLeft>>
requestVars == <<config, shape>>
chainVars == <<gas, nonce, drawn, sent, txsLeft>>

Kinds == {"auth", "gas", "exchange", "chain", "chainId", "gasChain"}
Jobs == Requests \X Kinds
JobStates == {"none", "pending", "begun", "sent", "ok", "zero", "err"}

Labels == {"new", "auth", "gas", "lock", "exchange", "augment", "ping", "done"}

\* The class names of the exceptions that the bridge itself raises on a call.
\* Nothing keeps others from raising one of these as well, an AttributeError say.
OwnErrors ==
  {"MethodNotAllowedError", "PermissionDeniedError", "InsufficientFundsError",
   "AttributeError"}

\* "ok", the class name ("type") in the error object of a /call, or the HTTP
\* status where there is no such object.
Answers == {"none", "ok", "401", "422", "500"} \union OwnErrors \union Exceptions

TypeOK ==
  /\ config \in Configs
  /\ shape \in [Requests -> Shapes]
  /\ pc \in [Requests -> Labels]
  /\ job \in [Jobs -> JobStates]
  /\ pool \in Seq(Jobs)
  /\ locked \in BOOLEAN
  /\ waiters \in Seq(Requests)
  /\ answer \in [Requests -> Answers]
  /\ runs \in [Requests -> Nat]
  /\ gas \in 0..MaxGas
  /\ nonce \in Nat
  /\ drawn \in [Requests -> Nat]
  /\ sent \subseteq Requests \X Nat
  /\ txsLeft \in [Requests -> 0..MaxTransactions]

Init ==
  /\ config \in Configs
  /\ shape \in [Requests -> Shapes]
  /\ pc = [r \in Requests |-> "new"]
  /\ job = [t \in Jobs |-> "none"]
  /\ pool = <<>>
  /\ locked = FALSE
  /\ waiters = <<>>
  /\ answer = [r \in Requests |-> "none"]
  /\ runs = [r \in Requests |-> 0]
  /\ gas \in 0..MaxGas
  /\ nonce = 0
  /\ drawn = [r \in Requests |-> 0]
  /\ sent = {}
  /\ txsLeft = [r \in Requests |-> MaxTransactions]

-----------------------------------------------------------------------------
(* What the settings and a request's content decide.                       *)

Method(r) == IF shape[r].route = "describe" THEN "describe" ELSE shape[r].method

Signs(r) == Method(r) \in SIGNING_REQUIRED_METHODS

IsReadOnlyMode == ~config.privateKey

\* TRUE when there is an effective account address.
WalletAddress ==
  IF IsReadOnlyMode THEN config.walletAddress ELSE config.wallet

\* require_auth
Authorized(r) == config.authToken => shape[r].bearer

\* Mutant: only account reads are checked against the mode.
AllowedForMode_SignsUnkeyed(r) ==
  IsReadOnlyMode => (Method(r) \in ACCOUNT_READ_METHODS => WalletAddress)

\* _ensure_method_allowed_for_mode
AllowedForMode(r) ==
  IsReadOnlyMode => /\ ~Signs(r)
                    /\ Method(r) \in ACCOUNT_READ_METHODS => WalletAddress

\* _gas_balance_wei asks the chain, rather than returning None.
GasReadable == WalletAddress /\ config.web3

NeedsGasCheck(r) == Signs(r) /\ GasReadable

\* What the client is sent for an exception: /call passes on the class name,
\* whoever raised it, and on the other routes every exception is an HTTP 500.
ErrorSent(r, name) == IF shape[r].route = "call" THEN name ELSE "500"

\* What it may be sent for an exception that is not of the bridge's making; an
\* error object that cannot be rendered is an HTTP 500 on every route.
ForeignErrors(r) == {ErrorSent(r, name) : name \in Exceptions} \union {"500"}

\* The first check that turns the request away before any await, or "none".
Denial(r) ==
  IF ~Authorized(r) THEN "401"
  ELSE IF ~shape[r].valid THEN "422"
  ELSE IF shape[r].route = "ping" THEN "none"
  ELSE IF Method(r) \notin ALLOWED_METHODS THEN ErrorSent(r, "MethodNotAllowedError")
  ELSE IF ~AllowedForMode(r) THEN ErrorSent(r, "PermissionDeniedError")
  ELSE "none"

-----------------------------------------------------------------------------
(* The thread pool.                                                        *)

Position(t) == CHOOSE i \in 1..Len(pool) : pool[i] = t

Submitted(t) == \E i \in 1..Len(pool) : pool[i] = t

\* t has a pool token, so a worker thread runs it.
HoldsToken(t) == \E i \in 1..Len(pool) : i <= Tokens /\ pool[i] = t

\* Job t leaves the pool, giving its token back, and new jobs join at the end.
SwapJobs(t, new) ==
  /\ pool' = RemoveAt(pool, Position(t)) \o new
  /\ job' = [u \in Jobs |->
               IF \E i \in 1..Len(new) : new[i] = u THEN "pending" ELSE job[u]]

Goto(r, label) == pc' = [pc EXCEPT ![r] = label]

Reply(r, a) == Goto(r, "done") /\ answer' = [answer EXCEPT ![r] = a]

ReplyRaised(r) == \E a \in ForeignErrors(r) : Reply(r, a)

-----------------------------------------------------------------------------
(* From the arrival of a request to the lock.                              *)

\* The request is accepted and FastAPI sends the dependency to the pool.
Arrive(r) ==
  /\ pc[r] = "new"
  /\ Goto(r, "auth")
  /\ pool' = Append(pool, <<r, "auth">>)
  /\ job' = [job EXCEPT ![<<r, "auth">>] = "pending"]
  /\ UNCHANGED <<requestVars, locked, waiters, answer, runs, chainVars>>

\* The coroutine resumes from require_auth.
Authenticated(r) == pc[r] = "auth" /\ HoldsToken(<<r, "auth">>)

Deny(r) ==
  /\ Authenticated(r)
  /\ Denial(r) # "none"
  /\ Reply(r, Denial(r))
  /\ SwapJobs(<<r, "auth">>, <<>>)
  /\ UNCHANGED <<requestVars, locked, waiters, runs, chainVars>>

StartGasCheck(r) ==
  /\ Authenticated(r)
  /\ Denial(r) = "none" /\ shape[r].route # "ping" /\ NeedsGasCheck(r)
  /\ Goto(r, "gas")
  /\ SwapJobs(<<r, "auth">>, <<<<r, "gas">>>>)
  /\ UNCHANGED <<requestVars, locked, waiters, answer, runs, chainVars>>

\* The worker thread asks the chain; the answer may be old when it is used.
ReadGas(r) ==
  /\ HoldsToken(<<r, "gas">>) /\ job[<<r, "gas">>] = "pending"
  /\ \E value \in {IF gas = 0 THEN "zero" ELSE "ok", "err"} :
       job' = [job EXCEPT ![<<r, "gas">>] = value]
  /\ UNCHANGED <<requestVars, pc, pool, locked, waiters, answer, runs, chainVars>>

GasRead(r) ==
  pc[r] = "gas" /\ HoldsToken(<<r, "gas">>) /\ job[<<r, "gas">>] # "pending"

\* Mutant: the outcome of the read is passed on under no error's name.
FailGasCheck_Raw(r) ==
  /\ GasRead(r) /\ job[<<r, "gas">>] # "ok"
  /\ Reply(r, job[<<r, "gas">>])
  /\ SwapJobs(<<r, "gas">>, <<>>)
  /\ UNCHANGED <<requestVars, locked, waiters, runs, chainVars>>

\* An empty wallet, or whatever the read has raised.
FailGasCheck(r) ==
  /\ GasRead(r) /\ job[<<r, "gas">>] # "ok"
  /\ IF job[<<r, "gas">>] = "zero"
       THEN Reply(r, ErrorSent(r, "InsufficientFundsError"))
       ELSE ReplyRaised(r)
  /\ SwapJobs(<<r, "gas">>, <<>>)
  /\ UNCHANGED <<requestVars, locked, waiters, runs, chainVars>>

\* The job that the coroutine has awaited last when it gets past the checks.
LastCheck(r) == IF pc[r] = "gas" THEN <<r, "gas">> ELSE <<r, "auth">>

PassedChecks(r) ==
  \/ /\ Authenticated(r)
     /\ Denial(r) = "none" /\ shape[r].route # "ping" /\ ~NeedsGasCheck(r)
  \/ GasRead(r) /\ job[<<r, "gas">>] = "ok"

MissingMethod(r) ==
  /\ PassedChecks(r)
  /\ Method(r) \notin ExchangeMethods
  /\ Reply(r, ErrorSent(r, "AttributeError"))
  /\ SwapJobs(LastCheck(r), <<>>)
  /\ UNCHANGED <<requestVars, locked, waiters, runs, chainVars>>

\* The fast path of asyncio.Lock.acquire: free, and nobody is queued.
LockIsFree == ~locked /\ waiters = <<>>

\* The exchange method is submitted.
EnterExchange(r) ==
  /\ PassedChecks(r) /\ Method(r) \in ExchangeMethods
  /\ Goto(r, "exchange")
  /\ SwapJobs(LastCheck(r), <<<<r, "exchange">>>>)
  /\ UNCHANGED <<requestVars, waiters, answer, runs, chainVars>>

\* Mutants: no lock at all; a lock that is left before the method runs; a lock
\* that whoever comes first after a release takes.
AcquireLock_Never(r) == EnterExchange(r) /\ UNCHANGED locked
AcquireLock_Brief(r) == LockIsFree /\ EnterExchange(r) /\ UNCHANGED locked
AcquireLock_Barging(r) == ~locked /\ locked' = TRUE /\ EnterExchange(r)

AcquireLock(r) == LockIsFree /\ locked' = TRUE /\ EnterExchange(r)

\* Mutant: a worker thread blocks on the lock instead of the coroutine.
QueueForLock_InThread(r) ==
  /\ PassedChecks(r) /\ Method(r) \in ExchangeMethods
  /\ ~LockIsFree
  /\ waiters' = Append(waiters, r)
  /\ Goto(r, "lock")
  /\ UNCHANGED <<requestVars, pool, job, locked, answer, runs, chainVars>>

QueueForLock(r) ==
  /\ PassedChecks(r) /\ Method(r) \in ExchangeMethods
  /\ ~LockIsFree
  /\ waiters' = Append(waiters, r)
  /\ Goto(r, "lock")
  /\ SwapJobs(LastCheck(r), <<>>)
  /\ UNCHANGED <<requestVars, locked, answer, runs, chainVars>>

\* The oldest waiter, woken by the release, takes the lock.
WakeUp(r) ==
  /\ pc[r] = "lock"
  /\ ~locked /\ waiters # <<>> /\ Head(waiters) = r
  /\ locked' = TRUE
  /\ waiters' = Tail(waiters)
  /\ Goto(r, "exchange")
  /\ pool' = Append(pool, <<r, "exchange">>)
  /\ job' = [job EXCEPT ![<<r, "exchange">>] = "pending"]
  /\ UNCHANGED <<requestVars, answer, runs, chainVars>>

-----------------------------------------------------------------------------
(* The exchange method, in its worker thread.                              *)

BeginExchange(r) ==
  /\ HoldsToken(<<r, "exchange">>) /\ job[<<r, "exchange">>] = "pending"
  /\ job' = [job EXCEPT ![<<r, "exchange">>] = "begun"]
  /\ runs' = [runs EXCEPT ![r] = @ + 1]
  /\ drawn' = [drawn EXCEPT ![r] = IF Signs(r) THEN nonce ELSE 0]
  /\ UNCHANGED <<requestVars, pc, pool, locked, waiters, answer, gas, nonce, sent, txsLeft>>

\* A signing method signs with the nonce it has read, which is then spent, and
\* broadcasts; the node takes a transaction only from a wallet that can pay.
Broadcast(r) ==
  /\ job[<<r, "exchange">>] = "begun" /\ Signs(r)
  /\ gas > 0 /\ txsLeft[r] > 0
  /\ gas' = gas - 1
  /\ nonce' = drawn[r] + 1
  /\ sent' = sent \union {<<r, drawn[r]>>}
  /\ txsLeft' = [txsLeft EXCEPT ![r] = @ - 1]
  /\ job' = [job EXCEPT ![<<r, "exchange">>] = "sent"]
  /\ UNCHANGED <<requestVars, pc, pool, locked, waiters, answer, runs, drawn>>

\* It goes on to the next transaction: the order after its approval, the next
\* order of a batch.
DrawAgain(r) ==
  /\ job[<<r, "exchange">>] = "sent" /\ txsLeft[r] > 0
  /\ drawn' = [drawn EXCEPT ![r] = nonce]
  /\ job' = [job EXCEPT ![<<r, "exchange">>] = "begun"]
  /\ UNCHANGED <<requestVars, pc, pool, locked, waiters, answer, runs, gas, nonce, sent, txsLeft>>

\* The node takes no transaction from an empty wallet, and may refuse others.
RefuseBroadcast(r) ==
  /\ job[<<r, "exchange">>] = "begun" /\ Signs(r)
  /\ nonce' = drawn[r] + 1
  /\ drawn' = [drawn EXCEPT ![r] = 0]
  /\ job' = [job EXCEPT ![<<r, "exchange">>] = "err"]
  /\ UNCHANGED <<requestVars, pc, pool, locked, waiters, answer, runs, gas, sent, txsLeft>>

\* It returns or raises; it may raise after a broadcast (no receipt in time,
\* the keeper cancelled the order).
EndExchange(r) ==
  /\ job[<<r, "exchange">>] \in {"begun", "sent"}
  /\ \E outcome \in {"ok", "err"} :
       job' = [job EXCEPT ![<<r, "exchange">>] = outcome]
  /\ drawn' = [drawn EXCEPT ![r] = 0]
  /\ UNCHANGED <<requestVars, pc, pool, locked, waiters, answer, runs, gas, nonce, sent, txsLeft>>

-----------------------------------------------------------------------------
(* From the exchange's result to the answer.                               *)

\* Jobs in the order they are submitted; get_chain is asked twice for a status.
PingJobs(r) ==
  (IF config.chain THEN <<<<r, "chain">>>> ELSE <<>>)
  \o (IF config.web3 THEN <<<<r, "chainId">>>> ELSE <<>>)
StatusJobs(r) ==
  PingJobs(r)
  \o (IF config.chain THEN <<<<r, "gasChain">>>> ELSE <<>>)
  \o (IF GasReadable THEN <<<<r, "gas">>>> ELSE <<>>)

Returned(r) ==
  /\ pc[r] = "exchange" /\ HoldsToken(<<r, "exchange">>)
  /\ job[<<r, "exchange">>] \in {"ok", "err"}

\* Leaving the async with block frees the lock on every path.
LeaveLock(r, new) ==
  /\ locked' = FALSE
  /\ SwapJobs(<<r, "exchange">>, new)
  /\ UNCHANGED <<requestVars, waiters, runs, chainVars>>

\* A result is answered, unless its conversion or its rendering raises.
AnswerResult(r) == \E a \in {"ok"} \union ForeignErrors(r) : Reply(r, a)

\* Mutants: the bridge tries again by itself; it gives up on a thread that is
\* still running; an exception leaves the lock taken.
RaiseExchangeError_Retry(r) ==
  /\ Returned(r) /\ job[<<r, "exchange">>] = "err"
  /\ SwapJobs(<<r, "exchange">>, <<<<r, "exchange">>>>)
  /\ UNCHANGED <<requestVars, pc, answer, locked, waiters, runs, chainVars>>
RaiseExchangeError_Timeout(r) ==
  /\ pc[r] = "exchange" /\ HoldsToken(<<r, "exchange">>)
  /\ ReplyRaised(r)
  /\ LeaveLock(r, <<>>)
RaiseExchangeError_KeepsLock(r) ==
  /\ Returned(r) /\ job[<<r, "exchange">>] = "err"
  /\ ReplyRaised(r)
  /\ SwapJobs(<<r, "exchange">>, <<>>)
  /\ UNCHANGED <<requestVars, locked, waiters, runs, chainVars>>

RaiseExchangeError(r) ==
  /\ Returned(r) /\ job[<<r, "exchange">>] = "err"
  /\ ReplyRaised(r)
  /\ LeaveLock(r, <<>>)

\* Mutant: an exception of the exchange is swallowed.
AnswerCall_Swallows(r) ==
  /\ Returned(r)
  /\ AnswerResult(r)
  /\ LeaveLock(r, <<>>)

\* Any method but fetch_status, or a fetch_status result that is no dict.
AnswerCall(r) ==
  /\ Returned(r) /\ job[<<r, "exchange">>] = "ok"
  /\ AnswerResult(r)
  /\ LeaveLock(r, <<>>)

Augment(r) ==
  /\ Returned(r) /\ job[<<r, "exchange">>] = "ok"
  /\ Method(r) = "fetch_status" /\ StatusJobs(r) # <<>>
  /\ Goto(r, "augment")
  /\ LeaveLock(r, StatusJobs(r))
  /\ UNCHANGED answer

StartPing(r) ==
  /\ Authenticated(r)
  /\ Denial(r) = "none" /\ shape[r].route = "ping"
  /\ IF PingJobs(r) = <<>>
       THEN Reply(r, "ok")
       ELSE Goto(r, "ping") /\ UNCHANGED answer
  /\ SwapJobs(<<r, "auth">>, PingJobs(r))
  /\ UNCHANGED <<requestVars, locked, waiters, runs, chainVars>>

DiagnosticKinds == {"chain", "chainId", "gasChain", "gas"}

\* A gathered read comes back.  get_chain and chain_id return something the
\* model does not look at, or raise.
ReadBack(r, k, good) ==
  /\ k \in DiagnosticKinds /\ HoldsToken(<<r, k>>)
  /\ k = "gas" => pc[r] # "gas" /\ job[<<r, k>>] # "pending" /\ (good <=> job[<<r, k>>] # "err")
  /\ pool' = RemoveAt(pool, Position(<<r, k>>))
  /\ job' = [job EXCEPT ![<<r, k>>] = IF k = "gas" THEN @ ELSE IF good THEN "ok" ELSE "err"]
  /\ UNCHANGED <<requestVars, locked, waiters, runs, chainVars>>

Gathering(r) == pc[r] \in {"ping", "augment"}

LastRead(r, k) == \A j \in DiagnosticKinds \ {k} : ~Submitted(<<r, j>>)

\* asyncio.gather still waits for another read.
AwaitMoreReads(r, k) ==
  /\ Gathering(r) /\ ~LastRead(r, k)
  /\ ReadBack(r, k, TRUE)
  /\ UNCHANGED <<pc, answer>>

AnswerPing(r, k) ==
  /\ pc[r] = "ping" /\ LastRead(r, k)
  /\ ReadBack(r, k, TRUE)
  /\ Reply(r, "ok")

AnswerStatus(r, k) ==
  /\ pc[r] = "augment" /\ LastRead(r, k)
  /\ ReadBack(r, k, TRUE)
  /\ AnswerResult(r)

\* gather raises the first exception at once; the other reads go on alone.
FailGather(r, k) ==
  /\ Gathering(r)
  /\ ReadBack(r, k, FALSE)
  /\ ReplyRaised(r)

\* Mutant: nobody collects the reads that a failed gather leaves behind.
DropOrphan_Never(r, k) == FALSE

\* A read whose request is answered already gives its token back.
DropOrphan(r, k) ==
  /\ pc[r] = "done"
  /\ \E good \in BOOLEAN : ReadBack(r, k, good)
  /\ UNCHANGED <<pc, answer>>

-----------------------------------------------------------------------------
\* Somebody sends native gas to the wallet.
Fund ==
  /\ gas < MaxGas
  /\ gas' = gas + 1
  /\ UNCHANGED <<requestVars, pc, job, pool, locked, waiters, answer, runs,
                 nonce, drawn, sent, txsLeft>>

\* The event loop's steps for r once the request is there.
LoopStep(r) ==
  \/ Deny(r)
  \/ StartGasCheck(r)
  \/ FailGasCheck(r)
  \/ MissingMethod(r)
  \/ AcquireLock(r)
  \/ QueueForLock(r)
  \/ WakeUp(r)
  \/ RaiseExchangeError(r)
  \/ AnswerCall(r)
  \/ Augment(r)
  \/ StartPing(r)

ReadStep(r, k) ==
  \/ AwaitMoreReads(r, k)
  \/ AnswerPing(r, k)
  \/ AnswerStatus(r, k)
  \/ FailGather(r, k)
  \/ DropOrphan(r, k)

\* The steps of the exchange's worker thread.
ExchangeStep(r) ==
  \/ BeginExchange(r)
  \/ Broadcast(r)
  \/ DrawAgain(r)
  \/ RefuseBroadcast(r)
  \/ EndExchange(r)

Next ==
  \/ \E r \in Requests :
       \/ Arrive(r)
       \/ LoopStep(r)
       \/ ReadGas(r)
       \/ ExchangeStep(r)
       \/ \E k \in DiagnosticKinds : ReadStep(r, k)
  \/ Fund

Spec == Init /\ [][Next]_vars

\* The loop runs what is ready and RPC reads return or time out.
LoopFairness ==
  \A r \in Requests :
    /\ WF_vars(LoopStep(r))
    /\ WF_vars(ReadGas(r))
    /\ \A k \in DiagnosticKinds : WF_vars(ReadStep(r, k))

\* Every exchange method returns or raises some day ...
FairSpec ==
  Spec /\ LoopFairness
       /\ \A r \in Requests : WF_vars(BeginExchange(r)) /\ WF_vars(EndExchange(r))

\* ... or may hang for ever, as nothing in the bridge bounds it.
HangSpec == Spec /\ LoopFairness

-----------------------------------------------------------------------------
(* Safety.                                                                 *)

InExchange(r) == job[<<r, "exchange">>] \in {"begun", "sent"}

\* Two requests are never inside exchange methods at the same time, however
\* the checks before the lock, the queue and the pool interleave: the promise
\* of runtime.py:123 for the methods that call() dispatches.
ExchangeExclusive ==
  \A r, q \in Requests : InExchange(r) /\ InExchange(q) => r = q

\* No two transactions carry the same nonce, although every signing call reads
\* the wallet's nonce and advances it in separate steps.
NonceNeverReused ==
  \A x, y \in sent : x[2] = y[2] => x = y

\* A call may make several transactions, an approval and then its order, the
\* orders of a batch: no other call's transaction gets between them, although
\* the call draws a nonce for each of them anew and waits in between.
CallsSendInOneBlock ==
  \A x, y, z \in sent : x[1] = y[1] /\ x[2] < z[2] /\ z[2] < y[2] => z[1] = x[1]

\* The answers that nobody but the bridge gives.
OnlyTheBridgeSays == {"401", "422"} \union (OwnErrors \ Exceptions)

\* What the answer to a /call or /describe tells of the exchange method: "ok"
\* means exactly one run, which succeeded; a name that only the bridge raises,
\* like an HTTP 401 or 422, means no run.  Any other class name and an HTTP 500
\* tell nothing: the method may have run, and its transactions may be on the
\* chain, or it may never have been reached.
AnswerTellsEffect ==
  \A r \in Requests : pc[r] = "done" /\ shape[r].route # "ping" =>
    /\ answer[r] = "ok" => runs[r] = 1 /\ job[<<r, "exchange">>] = "ok"
    /\ answer[r] \in OnlyTheBridgeSays => runs[r] = 0

\* Only a request that passed every gate gets to the exchange, whatever the
\* wallet mode: the bearer token, the allow-list, the mode, and for a signing
\* method a gas balance that was read as nonzero if it could be read at all.
OnlyAdmittedRun ==
  \A r \in Requests : runs[r] > 0 =>
    /\ Authorized(r) /\ shape[r].valid
    /\ Method(r) \in ALLOWED_METHODS \intersect ExchangeMethods
    /\ Signs(r) => config.privateKey
    /\ NeedsGasCheck(r) => job[<<r, "gas">>] = "ok"
    /\ Method(r) \in ACCOUNT_READ_METHODS /\ IsReadOnlyMode => config.walletAddress

\* What a suspended coroutine waits for is on its way, whichever step of whom
\* failed: its own job is with the pool, and behind the lock there is a holder
\* with a job in the pool or an oldest waiter who can be woken.
NobodyStranded ==
  /\ \A r \in Requests :
       /\ pc[r] \in {"auth", "gas", "exchange"} => Submitted(<<r, pc[r]>>)
       /\ Gathering(r) => \E k \in DiagnosticKinds : Submitted(<<r, k>>)
       /\ pc[r] = "lock" => waiters # <<>> /\ pc[Head(waiters)] = "lock"
  /\ locked => \E r \in Requests : pc[r] = "exchange"

\* The kinds of jobs that a request may have in the pool.
Awaited(label) ==
  IF label \in {"auth", "gas", "exchange"} THEN {label}
  ELSE IF label \in {"ping", "augment", "done"} THEN DiagnosticKinds ELSE {}

\* The pool's threads work for requests that await them, once on each job, or
\* on reads that gather has given up, and never for one that waits at the lock:
\* who holds the lock is not kept from a thread by those who want the lock.
NoHoldAndWait ==
  /\ \A t \in Jobs : Submitted(t) => t[2] \in Awaited(pc[t[1]])
  /\ \A i, j \in 1..Len(pool) : pool[i] = pool[j] => i = j

\* r has a check or a diagnostic read that its thread may go on with, or whose
\* outcome waits to be taken.
CanGoOnAside(r) ==
  \/ Authenticated(r)
  \/ HoldsToken(<<r, "gas">>) /\ job[<<r, "gas">>] = "pending"
  \/ GasRead(r)
  \/ \E k \in DiagnosticKinds :
       /\ HoldsToken(<<r, k>>) /\ (k = "gas" => job[<<r, k>>] # "pending")
       /\ Gathering(r) \/ pc[r] = "done"

\* So it is, or with the exchange method, or r is the waiter that the free lock
\* has woken.
CanGoOn(r) ==
  \/ CanGoOnAside(r)
  \/ HoldsToken(<<r, "exchange">>) /\ job[<<r, "exchange">>] = "pending"
  \/ InExchange(r)
  \/ Returned(r)
  \/ pc[r] = "lock" /\ ~locked /\ waiters # <<>> /\ Head(waiters) = r

\* Whatever a job came to, in every mode and for every method, a branch of the
\* code takes it: no result, error or late read is left lying.
EveryOutcomeTaken ==
  \A r \in Requests : CanGoOn(r) =>
    ENABLED (\/ LoopStep(r) \/ ReadGas(r) \/ ExchangeStep(r)
             \/ \E k \in DiagnosticKinds : ReadStep(r, k))

\* However long an exchange call hangs, what does not need the lock goes on: if
\* the pool has a second thread, some check or read in the pool has a thread or
\* its outcome can be taken, without a step of any exchange method.
HungCallStopsNobody ==
  Tokens > 1 /\ (\E t \in Jobs : Submitted(t) /\ t[2] # "exchange") =>
    \E r \in Requests : CanGoOnAside(r)

\* Nobody gets to the exchange before a request that has waited at the lock for
\* longer: not one that comes later, not one that is woken out of turn.
NoOvertaking ==
  [][\A r, q \in Requests :
       pc[r] = "lock" /\ q # r /\ pc[q] # "exchange" /\ pc'[q] = "exchange" =>
         \E i, j \in 1..Len(waiters) : i < j /\ waiters[i] = q /\ waiters[j] = r]_vars

\* Once a client has its answer its request does nothing more: no later run of
\* the method and no later transaction, and the answer does not change.
AnswerIsFinal ==
  [][\A r \in Requests : pc[r] = "done" =>
       /\ pc'[r] = "done" /\ answer'[r] = answer[r] /\ runs'[r] = runs[r]
       /\ \A x \in sent' \ sent : x[1] # r]_vars

\* How many labels a coroutine may still pass, and how many steps a job's
\* thread may still need for an outcome.
LabelsAhead ==
  [new |-> 6, auth |-> 5, gas |-> 4, lock |-> 3, exchange |-> 2,
   augment |-> 1, ping |-> 1, done |-> 0]
StepsToOutcome ==
  [none |-> 0, pending |-> 3, begun |-> 2, sent |-> 3, ok |-> 0, zero |-> 0, err |-> 0]

\* A submitted job has its steps to go and then to leave the pool.
JobLeft(t) == IF Submitted(t) THEN 1 + StepsToOutcome[job[t]] ELSE 0

JobsLeft(r) ==
  JobLeft(<<r, "auth">>) + JobLeft(<<r, "gas">>) + JobLeft(<<r, "exchange">>)
  + JobLeft(<<r, "chain">>) + JobLeft(<<r, "chainId">>) + JobLeft(<<r, "gasChain">>)

\* What is left of a request: a label outweighs what six jobs may have left, and
\* a transaction that may still be made the step that it adds to its job.
Left(r) == 25 * LabelsAhead[pc[r]] + JobsLeft(r) + 2 * txsLeft[r]

\* Every step brings one request nearer to its end, at nobody's expense: the
\* bridge never retries, requeues or sends anyone back, not behind the lock,
\* not after a failed gather and not for a late read.
EveryStepGetsOn ==
  [][\/ \E r \in Requests :
          /\ Left(r)' < Left(r)
          /\ \A q \in Requests \ {r} : Left(q)' = Left(q)
     \/ gas' = gas + 1 /\ \A r \in Requests : Left(r)' = Left(r)]_vars

-----------------------------------------------------------------------------
(* The inductive invariant behind the safety properties.                   *)

ExchangeJob(r) == job[<<r, "exchange">>]

\* Whoever is past the lock holds it, and alone.
LockInv ==
  \A r \in Requests : pc[r] = "exchange" =>
    locked /\ \A q \in Requests : pc[q] = "exchange" => q = r

\* Who is suspended at the lock is in its queue.
QueueInv ==
  \A r \in Requests : pc[r] = "lock" => \E i \in 1..Len(waiters) : waiters[i] = r

\* The await a coroutine is suspended at tells how far its exchange job is.
JobFitsLabel(r) ==
  /\ pc[r] \in {"new", "auth", "gas", "lock", "ping"} => ExchangeJob(r) = "none"
  /\ pc[r] = "exchange" => ExchangeJob(r) # "none"
  /\ pc[r] = "augment" => ExchangeJob(r) = "ok"
  /\ pc[r] = "done" => ExchangeJob(r) \in {"none", "ok", "err"}
  /\ pc[r] = "ping" => shape[r].route = "ping"
  /\ runs[r] = IF ExchangeJob(r) \in {"none", "pending"} THEN 0 ELSE 1

JobInv == \A r \in Requests : JobFitsLabel(r)

\* The running signing call has read the nonce that is next, and every nonce
\* used is older.
NonceInv ==
  /\ \A r \in Requests : ExchangeJob(r) = "begun" /\ Signs(r) => drawn[r] = nonce
  /\ \A x \in sent : x[2] < nonce
  /\ \A x, y \in sent : x[2] = y[2] => x = y

\* Whoever has a transaction has begun its exchange call, and while that call
\* goes on its transactions are the latest.
SentInv ==
  /\ \A x \in sent : ExchangeJob(x[1]) \in {"begun", "sent", "ok", "err"}
  /\ \A x, z \in sent : InExchange(x[1]) /\ z[1] # x[1] => z[2] < x[2]
  /\ CallsSendInOneBlock

\* The answer agrees with the exchange job.
AnswerFitsJob(r) ==
  pc[r] = "done" /\ shape[r].route # "ping" =>
    /\ answer[r] = "ok" => ExchangeJob(r) = "ok"
    /\ answer[r] \in OnlyTheBridgeSays => ExchangeJob(r) = "none"

AnswerInv == \A r \in Requests : AnswerFitsJob(r)

\* Past a gate the reason to pass it still holds.
GatesHold(r) ==
  /\ pc[r] \in {"gas", "lock", "exchange", "augment"} \/ ExchangeJob(r) # "none" =>
       Denial(r) = "none" /\ shape[r].route # "ping"
  /\ pc[r] \in {"lock", "exchange", "augment"} \/ ExchangeJob(r) # "none" =>
       /\ Method(r) \in ExchangeMethods
       /\ NeedsGasCheck(r) => job[<<r, "gas">>] = "ok"

GateInv == \A r \in Requests : GatesHold(r)

IInv == TypeOK /\ LockInv /\ QueueInv /\ JobInv /\ NonceInv /\ SentInv /\ AnswerInv /\ GateInv

-----------------------------------------------------------------------------
(* Liveness.                                                               *)

\* Under FairSpec every request is answered: no failure path keeps the lock,
\* and tasks that wait for the lock leave tokens to the one that holds it.
EveryRequestAnswered ==
  \A r \in Requests : pc[r] = "auth" ~> pc[r] = "done"

\* Under FairSpec every job leaves the pool, the reads that gather abandoned
\* when it raised included.
TokensReturned ==
  \A t \in Jobs : Submitted(t) ~> ~Submitted(t)

\* Under HangSpec, if the pool has a second thread, one exchange call that never
\* returns does not stop /ping: the lock lets at most one thread be stuck.
PingSurvivesHungCall ==
  \A r \in Requests :
    pc[r] = "auth" /\ shape[r].route = "ping" ~> pc[r] = "done"

\* Under HangSpec a request the bridge turns away still gets its refusal.
RefusalSurvivesHungCall ==
  \A r \in Requests : pc[r] = "auth" /\ Denial(r) # "none" ~> pc[r] = "done"
=============================================================================
