# Verification of the GMX CCXT middleware

The program is an HTTP bridge: a FastAPI process that owns one synchronous GMX exchange object and lets remote CCXT clients
call a fixed list of its methods. This directory holds TLA+ specifications of it, TLC configurations that check them on small
instances, and TLAPS proofs of the main safety properties for every value of the constants. `PROJECT.json` is the index: which
definition models which lines, which run checks which property, which hazards the code has.

    tlc -workers 2 -config orders.cfg MCBridge      # a run
    tlapm BridgeRefinementProofs.tla                # proofs

## The system

| Component | State | Operations | Talks to |
| --- | --- | --- | --- |
| Dispatch (`runtime.py`, `BridgeRuntime.call`) | settings, `asyncio.Lock` | allow-list, mode check, gas check, lock, run the method, augment a status | pool, exchange |
| Routes and auth (`routes/*.py`, `app.py`) | none (`app.state.runtime`) | `/call`, `/ping`, `/describe`, `require_auth`, error envelope | dispatch, diagnostics |
| Diagnostics (`_chain_name`, `_chain_id`, `_gas_balance_wei`, `health_payload`, `_augment_fetch_status_result`) | none | gathered blocking reads | pool, `exchange.web3`, `exchange.config` |
| Startup (`__main__.py`, `from_config`, boot logs) | the runtime before it serves | validate the key, build the exchange, read balances, preload markets | pool, exchange |
| Configuration (`config.py`) | none | environment to settings | |
| Serialisation (`serialization.py`) | none | Python values to JSON values | |
| Logging (`logging_utils.py`) | log handlers | formatting | |
| Example client (`docs/example.js`) | snapshots of markets and positions | open, poll, close | bridge |
| Release (`scripts/release.sh`, `docker.yml`) | tags, images | next tag, push, publish `latest` | GitHub |
| Smoke test, CI, JS tests | none that matters | start a server, poll `/ping` | bridge |

A request is a coroutine on one event loop. Blocking work goes to a thread pool of bounded size
(`run_in_threadpool`; also the `def` dependency `require_auth`, which FastAPI runs there). Everything between two awaits is
atomic with respect to the loop; everything in a worker thread interleaves with it. `asyncio.Lock` is taken around the exchange
method only: authentication, the gas check before it, and the diagnostics after it and of `/ping` run outside it.

What is hard here: the gap between a check and its use (the gas check is made before the request queues for the lock), a
method that has taken effect before something later raises, errors that look the same to the client whether the method ran or not, `asyncio.gather` that raises while its other reads go on, a
lock and a bounded pool that are both needed, a method that never returns, and two threads at the exchange's in-memory nonce.

What makes each component correct:

- Dispatch: one exchange method at a time; first come, first served; nobody past a gate who should have been stopped; "ok" only
  for a method that ran once and succeeded; every request answered if the methods end. More than that an answer does not tell: an RPC
  error of the gas check, before any run, and one of the exchange method, perhaps after a broadcast, are the same error object.
- Routes and auth: no request gets anywhere without the token; an HTTP 401 or 422, or a class name that nobody but the bridge
  raises, means that nothing ran.
- Diagnostics: they never keep a thread for good; they survive a call that hangs.
- Startup: the server serves with a lock that its loop can wait on, and does not fail for a read that only feeds a log line.
- Configuration: the server binds to the address that was given; a variable set to blanks has no effect.
- Serialisation: nothing but JSON leaves, nothing is lost on the way, and what cannot be converted or rendered is never an "ok".
- Client: it ends; "All ok" is true; starting it again does not double the position.
- Release: what a run announces is true; `latest` moves forward.

## The modules

| Module | Content |
| --- | --- |
| `GmxMethods` | the method tables of `runtime.py:15-81` |
| `BridgeRuntime` | the serving core: routes, checks, lock, pool, exchange method, diagnostics; its properties and its inductive invariant |
| `SerialBridge` | what the core promises: a server that runs one call at a time, each at most once, and calls a success nothing but a good effect |
| `BridgeRefinement` | the mapping under which `BridgeRuntime` implements `SerialBridge` |
| `BridgeClaims` | two statements of the repository that the code does not keep |
| `MCBridge` | settings, requests and methods for the TLC instances |
| `Config` | environment to settings, the address validator, the exchange's parameters (`config.py`) |
| `Startup`, `MCStartup` | `main` and `from_config` up to the server that serves; the lock in two event loops |
| `OrderFlow`, `MCOrderFlow` | runs of `docs/example.js` against the bridge, the GMX keeper and a wallet's position |
| `Release`, `MCRelease` | runs of `release.sh` from several clones, and the workflow of each pushed tag |
| `Serialization`, `MCSerialization` | `serialize_for_json`, `serialize_exception` and the routes that answer with them |
| `BridgeRuntimeProofs` | proofs: types, the lock, exclusion |
| `BridgeSafetyProofs` | proofs: nonces, answers, gates, transactions, order, finality |
| `BridgeWaitingProofs` | proofs: nobody waits for what does not come; the lock and the pool do not deadlock; a hung call takes one thread; every step gets on |
| `BridgeRefinementProofs` | proof that `BridgeRuntime` implements `SerialBridge` |
| `StartupProofs` | proofs: types, the lock in two loops, what a server that serves has passed, and the settings of `Config` |
| `OrderFlowProofs`, `ReleaseProofs` | proofs: types and safety of these components |
| `SerializationProofs` | proofs: what the recursion answers, keeps and cannot convert |

`Startup` extends `Config`; the other components do not share modules. `OrderFlow` takes from `BridgeRuntime` what is proved there (calls
queue first come first served, one at a time runs, a signing call is checked for gas before it queues) and adds the client, the
chain and the crash of the server, which `BridgeRuntime` leaves out.

### How `BridgeRuntime` corresponds to the code

`pc[r]` is the await at which request `r` is suspended: `auth` (the dependency), `gas` (`_ensure_signing_wallet_has_gas`), `lock`
(`async with self._lock`), `exchange` (`run_in_threadpool` inside it), `augment` and `ping` (the gathers). `job[<<r, k>>]` is how far
the blocking job of kind `k` has come, `pool` is the queue of submitted jobs: the first `Tokens` of them hold a token of the
limiter, so they run. An action of the loop (`LoopStep`) resumes one coroutine from an await, runs its code up to the next await or to
the answer, gives back the token of the job awaited and submits the next one (`SwapJobs`). Actions of worker threads
(`ReadGas`, `ExchangeStep`) change a job.

- `Arrive`, `Deny`: `require_auth`, body validation, allow-list and mode in the order of the code (`Denial`).
- `StartGasCheck`, `ReadGas`, `FailGasCheck`: the gas check; the value read is kept in the job and may be old when it is used.
- `MissingMethod`, `AcquireLock`, `QueueForLock`, `WakeUp`: `getattr`, then the lock. The lock has a flag and a queue and no owner,
  as `asyncio.Lock` has; the exclusion is a theorem about them and not part of the representation.
- `BeginExchange`, `Broadcast`, `DrawAgain`, `RefuseBroadcast`, `EndExchange`: the method in its thread. A signing method reads the wallet's
  nonce in one step and advances it in another, for each of its transactions: it may send an approval before its order
  (`docs/images/architecture-open-position-sequence.mmd:16`), or the orders of a batch (`cancel_orders`). It may end without a broadcast, or
  raise after one. A transaction costs one unit of gas.
- `RaiseExchangeError`, `AnswerCall`, `Augment`: `__aexit__` frees the lock on every path; the answer follows.
- `StartPing`, `AwaitMoreReads`, `AnswerPing`, `AnswerStatus`, `FailGather`, `DropOrphan`: the gathers. `gather` raises the first
  exception at once and leaves the other reads running; `DropOrphan` is such a read that comes back to nobody.

An answer is what the client is sent: "ok", the class name in the error object of `/call` (`serialize_exception` passes on the class of whatever was
raised, by whom it may), or the HTTP status where there is no such object: 401 and 422, and 500 for every exception on `/describe` and `/ping`
and for an answer that cannot be rendered. `Exceptions` are the class names that the exchange, the node's client or the conversion may raise, names of the
bridge's own among them (`AttributeError`). So `AnswerTellsEffect` makes no difference between a failure before the run and one after it where the envelope makes none. The
message is left out: its text is the upstream's, and nothing in the code keeps two causes apart by it. `ccxt_error` is left out too: it is
the class name or, for two of the bridge's exceptions, a name of CCXT's that the exchange may raise as well, so it tells less than `type`.

Merged steps, with the reason: the return of an `auth`, `chain` or `chainId` job and the resumption of its coroutine are one step, as
what they return depends on nothing that changes; the scheduling point in the limiter is merged with the submission; a
released `asyncio.Lock` wakes its oldest waiter in a later step (`WakeUp`), and newcomers queue behind it meanwhile; the nested gather of
`_gas_status_info` is flattened into the outer one, whose exceptions it passes on; a body that is no JSON at all is refused before
authentication in FastAPI, and is counted here with the invalid bodies, refused after it. Client disconnects cancel nothing: the
handlers take no notice of them.

Outside the repository, modelled from their use: the pool (first in, first out), the lock, the exchange object, its wallet, the chain.
That a signing method draws its nonce from the wallet's memory is taken from `docs/images/architecture-open-position-sequence.mmd:19`
(`sign_transaction_with_new_nonce`).

### How `Startup` and `Config` correspond to the code

`phase` is where `main()` is: before the settings (`load`), at each await of `from_config` (`validate` to `loading`), with an app that is not
served yet (`app`), in `uvicorn.run` (`serving`), or gone (`exited`, with the step that raised in `failed`). `LoadSettings`, `ValidatePrivateKey`,
`CreateExchange`, `LogHotWalletBalance`/`HotWalletRead`/`HotWalletLogged`, `WarnIfZeroGasBalance`, `BeginPreload`/`EndPreload` and `Serve` follow
lines 163-170 of `runtime.py` and 13-25 of `__main__.py` in their order. The lock is `locked`, `waiting` and `lockLoop`, the event loop it is
attached to: `asyncio.Lock` attaches when a caller first waits and raises if it already belongs to another loop. `Acquire`, `Wait`, `Release`
and `WakeUp` are calls while serving, as far as the lock sees them. `load_markets` needs no gas check and no wallet, so the
preload is the lock and the method.

`Config` keeps a text as its sequence of tokens, which is what `strip`, `rsplit` and `int` tell apart. `None` and `""` are one value, as every
reader of a setting treats them alike. One flag and one number stand for the four flags and two numbers that Pydantic reads in the same way,
and one optional variable for those that no property tells apart (`GMX_RPC_URL`, `GMX_SUBSQUID_ENDPOINT`).

### How `OrderFlow` corresponds to the code

A script is one run of `main()` in `docs/example.js`. `at[s]` is the call it awaits: the position read before (`before`), the opening order
(`open`), the read after (`after`), the closing order (`close`), the order's status (`confirm`), or how it ended. `Begin` stands for lines
549-623; the calls before it read no position and can only end the script, which then never starts here. Actions of the script run from one
answer to the next call. `TimeOut` is the adapter's `timeout: 180000`: the script ends and its call goes on in the bridge. `CheckGas`,
`EnterExchange` and the exchange methods follow `runtime.py:238-246`; `Crash` ends the process, which is started again and remembers nothing.
`Execute` is the keeper (executes or cancels), `Settle` the moment when position reads show the latest execution, as
`example.js:616-618` warns. Sizes are counted in orders of `POSITION_SIZE_USD`; the direction of the position and slippage are left out, and so
is a snapshot without a readable size.

`excuses` is a history variable for the three ways in which a repeat can double the position, and `overlap` for the fourth: two scripts under way at
once. `last` is the script that started last.

### How `Release` corresponds to the code

`remote` and `local[m]` are the tags of origin and of each clone; a tag object is known by its maker, since two annotated tags of one name from
two clones differ. Each git or gh command of `release.sh` that reads or changes tags is an action; `set -e` ends a run at the first that
fails and leaves what it did. `git fetch --tags` adds tags and refuses to clobber. A push may succeed and its answer be lost.
`BuildImage` and `PublishImage` are the two jobs of `docker.yml` for a pushed tag; the tags of one image are pushed together.

### How `Serialization` corresponds to the code

An object is the set of checks of `serialize_for_json` that it passes, its text, and its items under keys, so that objects which pass several
checks (a class that is a dataclass, `HexBytes` with attributes, an `Enum` of texts) meet the order of the branches. Items are objects again: a `graph`
in which they may be shared or lead back to what holds them. The recursion is the stack `calls`. `Call` goes into the first item that is not converted,
`Return` leaves an object whose items are, and `Raise` unwinds everything. `MustRaise` says when: where `asdict` or `model_dump` raises, and where an object is met
inside itself, which in the code ends at Python's recursion limit. `asdict` and `model_dump` unfold what is nested at once and the recursion then passes
over the copies; since a copy has the same form, the model unfolds one level at a time. An object that was converted once is not entered again: its second
conversion takes the same steps. `SerializeForJson` is one level of the value that is returned. The four actions `Answer...` say which of the routes turns the outcome
into a result, an error envelope (of the method's exception or of the one that the conversion raised) or an internal error. `Renders` is what comes after
the handler: the response's class encodes with `allow_nan=False` and raises on NaN and the infinities, which pass `serialize_for_json` as floats
(`serialization.py:15-16`), and no `try` of the route is around it. Texts are taken to be valid Unicode.

## The runs

| Run | Instance | What it shows |
| --- | --- | --- |
| `modes` | 2 requests of 9 shapes, 6 settings, 2 threads | `TypeOK`; `AnswerTellsEffect`: "ok" means one good run, and an answer that nobody but the bridge gives means none, whatever the exchange raises; `OnlyAdmittedRun`: token, allow-list, mode and gas gates hold on every path; `NobodyStranded`, `NoHoldAndWait`, `EveryOutcomeTaken`: what a request waits for is on its way, no thread works for one that waits at the lock, and a branch of the code takes whatever a job came to; `EveryStepGetsOn`: each step lessens what is left of one request, and of no other |
| `orders` | 3 orders or status reads, 2 threads, 2 transactions for each order, gas for 1 | `ExchangeExclusive`, `NonceNeverReused`, `NoOvertaking`, `AnswerIsFinal`; `CallsSendInOneBlock`: no transaction of another call gets between those of one, an approval and its order say; and the refinement `ImplementsSerialBridge` |
| `answered` | 2 requests, 1 thread, `FairSpec` | `EveryRequestAnswered`, `TokensReturned`: one thread is enough; no path keeps the lock or a token |
| `hang` | 3 requests, 2 threads, `HangSpec` | `PingSurvivesHungCall`, `RefusalSurvivesHungCall`: one hung method costs one thread and not the service; `HungCallStopsNobody`: at no moment are all threads in exchange methods while a check or a read is waiting for one |
| `serialised` | expected violation | see Findings |
| `lagoon` | expected violation | see Findings |
| `boot` | 3994 environments, any failure, 2 waiters, `FairSpec` | `StartupTypeOK`; `ReadyToServe`: what a server that serves has passed; `LockOutlivesBoot`: no caller meets a lock of the dead loop; `BootDecides`: short of a step that raised, boot ends in a server; `AddressRoundTrip`, `BlankMeansUnset`: the settings are what was given |
| `releases` | 3 maintainers, 2 tags | `ReleaseTypeOK`, `AnnouncedTagIsOwn`, `LatestFallsOnlyOnOverlap`; `LoserStaysOut`, `OnlyLosersStuck`: a clone that lost a race can never release again by the script, and no other clone is stuck |
| `scripts` | 2 scripts, overlapping or not, `FairSpec` | `FlowTypeOK`, `AllOkMeansClosed`, `EveryScriptEnds`; `TimeoutAloneNeverDoubles`: a repeat after a timeout waits behind the first run's call in the bridge's queue and finds the position; `AllOkIsFlatUnexcused`: an "All ok" leaves a position only for one of the named reasons |
| `json` | 31260 starts: graphs of 5 objects over 12 kinds of leaf and 5 of container, nested, shared and referring back | `AnswerIsJson`; `EveryTextArrives`; `OkUnlessUnfit`: only a dataclass that holds something uncopyable, what contains itself and a number without JSON keep a result from being answered, and only the last, or an exception's arguments of the first two kinds, costs `/call` its envelope |
| `latest`, `flat` | expected violations | see Findings |

Bounds. `Requests`: two requests are enough for every pair of steps that could conflict; three are needed for two waiters at the lock
and a newcomer, and for a hung call, a waiter and a ping. `Tokens`: one (the worst case for deadlock) and two (the least number with real
parallelism); the default of the library is 40. `MaxGas` bounds the wallet's balance: with 1 the balance
pays for one transaction at a time, so in `orders` three orders pass the check and the gas runs out before two of them run, unless `Fund` tops it
up in between (which it may, up to the bound). `MaxTransactions` bounds those of one call: two in `modes`, `orders` and `answered`, so that a call draws its nonce again
while others want to; one where transactions do not matter. `Exceptions` are one class name that the bridge raises too and one that it never does. `orders`
takes an exchange without `get_chain`, so that a status needs two reads after the lock and not three, which it tells nothing apart by. `Shapes` and `Configs`
hold the wallet modes of `docs/tests.md:118-121`, with and without a token, and one exchange without Web3. Runs do not check deadlock:
when every request is answered nothing is left to do. `orders` uses the symmetry of the requests, as no property in it is a
liveness property and `Requests` are interchangeable model values.

`Envs` of `boot` are three groups: keys that are unset, blank, padded and malformed with a watched address, preload settings and log levels; every
address of up to five tokens, which hold a host with a colon of its own, blanks and a port at each boundary; and every mix of missing, empty,
blank and padded optional variables. `MaxWaiters` bounds the callers that wait for the lock: one makes it attach, the second finds it attached.
The objects of `json` are an outer and an inner container, a hash and two more, so that an order of the branches, a collapsed key, a shared item and a
reference to oneself or to what is outside all occur. `MaxTag` ends the numbering of releases: `releases` has two tags, so that a failed run or a race has a successor, and
three maintainers, so that there is a bystander to two who race; `latest` has two maintainers and three tags, so that builds can overtake each other. Two `Scripts` are a run and
its repeat; the theorems hold for any number. The runs of `Startup`, `OrderFlow`, `Release` and `Serialization` check no deadlock, as processes,
scripts, releases up to the bound and answers come to an end. `releases`, `latest` and `flat` use the symmetry of maintainers or scripts, and have
no liveness property.

Fairness. `LoopFairness`: the event loop runs every ready callback (weak fairness of each request's loop steps), and RPC reads return,
since the HTTP provider behind Web3 has a timeout. `FairSpec` adds that exchange methods begin once they have a token and end; the code
does not bound them, so `HangSpec` drops that assumption and the `hang` run says what is left. Nothing is assumed of `Fund` or `Arrive`.
`Startup`'s `FairSpec` is weak fairness of the boot steps: `main` is sequential, and its reads have the provider's timeout. `OrderFlow`'s is weak
fairness of each script's step or timeout: the JavaScript timer fires whether or not the bridge answers, so nothing is assumed of the bridge, the
keeper or the chain. `Release` and `Serialization` have none: nobody is obliged to release, and no property asks when an answer comes.

## Findings

- `serialised`: `runtime.py:123` and `routes/call.py:5-6` say that access to the exchange is serialised with the lock. Only the method of
  `call()` is; `get_chain`, `chain_id` and `get_balance` (`runtime.py:282`, `294`, `341`) use the object from other threads while it runs.
- `lagoon`: `docs/architecture.md:55` names an injected wallet object as a source of signing. `_is_read_only_mode` (`runtime.py:254`) looks
  at the key setting only, so every signing method is refused with such a wallet.
- `latest`: `docs/development.md:86` reserves the image tag for the most recent release. Builds of two tags run side by side and the one that ends
  last wins (`docker.yml:90`). `LatestFallsOnlyOnOverlap` says that this is the only way.
- `flat`: `README.md:54` promises a flat wallet after the example. It closes what an earlier snapshot showed (`example.js:692`) and confirms that close
  only, so a position opened by an order that was still pending stays open under "All ok".

Met while modelling, and in no run: `routes/call.py:32-34` says that successes always carry `ok: true` with a result and that "failures are also normalized into JSON", but
a NaN or an infinity in a result leaves `/call` as a bare HTTP 500 after the method has run (`OkUnlessUnfit` says exactly when); a failed order and one that never ran may be answered with
the same error object, so a client cannot know from it whether to send again; the startup warning for the signing wallet (`runtime.py:399-406`) goes by the resolved address and is also logged
for the watched address of a read-only server; a log level in capitals passes `configure_logging` and fails in uvicorn after all of boot
(`__main__.py:22`; `Serve` has this failure, and no property says more, since `docs/config.md:13` lists lower-case names only); a tag left in the clone by a failed push makes the next run skip its number (`release.sh:128`; `MakeTag`
and `PushFails` have it).

## The proofs

Assumptions of the bridge's proofs: `TokensAssumption` (at least one thread), `ConfigsAssumption`, `ShapesAssumption`, `ExceptionsAssumption` (class names are no HTTP statuses), `MaxGasAssumption`, `MaxTransactionsAssumption`. They are checked by TLC
in every run of `MCBridge`. The number of requests, the size of the pool, the settings and the exchange's methods are arbitrary.

The inductive invariant is `IInv`, with named parts, each used by the theorem that needs it:

- `TypeOK` (`TypeCorrect`).
- `LockInv` and `JobInv`. `ExchangeExclusive` speaks of jobs in threads and the lock of coroutines: `JobInv` ties the job to the label of
  its coroutine (a job under way means `pc = "exchange"`), and `LockInv` says that whoever has this label holds the lock, alone. Together
  they are inductive, although the lock records no owner (`ExchangeIsExclusive`).
- `NonceInv`: the one call that has read the nonce has read the current one. It needs exclusion (`NoncesAreUnique`).
- `AnswerInv` (`AnswersTellEffects`), for which `ErrorsAreNoSuccess` says what an exception of each origin may be sent as, and `GateInv` (`OnlyAdmittedRequestsRun`): the answer, and the reason to pass each gate, as a function of
  label and job. `GateInv` needs that a gas read once found good is not repeated for the same signing request.
- `QueueInv`: whoever is suspended at the lock is in its queue. Without it a waiter could be lost, and `NoOvertaking` (`LockIsFair`)
  would say nothing of it.
- `SentInv`: whoever has a transaction has begun its exchange call, and while that call goes on its transactions are the latest, so whoever sends next
  either goes on with its own block or begins one behind all others. It needs exclusion, `NonceInv` and `SettledJobStays` (nothing submits an exchange
  job a second time) and gives `CallsSendInOneBlock` (`CallsAreSentInOneBlock`).
- The action property `AnswerIsFinal` (`AnswersAreFinal`) follows from `JobInv` step by step: an answered request has no job under way.
- `BridgeImplementsSerialBridge`: every step maps to a step of `SerialBridge` or to a stutter. One lemma per abstract action
  (`BeginMaps`, `ReportMaps`, ...) says when it is that action, one per group of concrete actions which applies. `LockInv` of the next state
  shows that `Begin` finds nobody running; `GateInv` that a ping never shows an effect.

`BridgeWaitingProofs` is about what suspended coroutines wait for. `NobodyStranded` (`NobodyIsStranded`) and `NoHoldAndWait` (`NobodyHoldsAndWaits`) need an
invariant about the pool that leaves its order aside: a job is in the pool once, exactly if it is under way or its outcome is not yet taken, and it is of a kind that its
coroutine awaits, or a read that `gather` gave up. So whoever waits at the lock has nothing in the pool, and whoever holds the lock has: it cannot be kept from a
thread for good by those who want the lock. `SomebodyCanGoOn` draws the conclusion for any pool, one thread included: while a request is unanswered or a job is in the
pool, some request meets `CanGoOn`. That `CanGoOn` implies an enabled step is `EveryOutcomeTaken`, which has `ENABLED` in it and is left to TLC. Together they are freedom from deadlock,
the safety half of `EveryRequestAnswered`.

The other half is that there is an end to get to. `Left(r)` counts what is left of a request: the labels that its coroutine may still pass, each outweighing
all that six jobs may have left, the steps of its jobs in the pool (`LabelOutweighsJobs`, `JobCounts`), and two for every transaction that it may yet make (`BroadcastGetsOn`). `EveryStepCounts` proves that every step but the
funding of the wallet lessens it for one request and leaves it as it is for all others (`EveryStepGetsOn`), and `WorkIsBounded` that it is a number up to `174 + 2 * MaxTransactions`, of which
nothing but unused transactions is left just when the request is answered and has no job in the pool. So no schedule and no failure makes the bridge work for ever: what `EveryRequestAnswered` and `TokensReturned` need
of fairness is no more than that a step which can be taken is taken. `HungCallTakesOneThread` is the same for `PingSurvivesHungCall`: by `LockInv` and the
uniqueness of jobs at most one of the first two jobs in the pool is an exchange method, so with a second thread a check or a read has one (`HungCallStopsNobody`).

`Moves` describes what an action does to the label and the exchange job of its request; the lemmas `...Moves` reduce each action to it
once, so that the proofs of the invariants never look into the pool again.

`StartupProofs` assumes `UnsetIsNoKey` (no key check accepts the marker for a missing variable) and `MaxWaitersAssumption`.
`LockInv` says for each phase whether the lock is held, waited for and attached; its part for the boot is why `LockOutlivesBoot` holds (`LockSurvivesBoot`): the
preload is the one caller, and a lone caller never waits. `BootInv` collects what each phase has behind it (`Validated`, `Constructed`, `NoReadLeft`,
`Preloaded`), and at `serving` it is `ReadyToServe` (`ServesWhenReady`).

The settings are proved for environments of any texts (`EnvsAssumption`, `Config`'s `TokensAssumption`). The latter says of Python's `int()` and `str()` what the
code relies on: numerals are neither blanks nor colons, every integer that `int()` reads has exactly one numeral that `str()` writes, and the default port is one.
`LoadedInv` ties the settings past loading to the environment. Then the operators decide: `StripSolid` says what `strip` keeps, `SplitIsBindable` and `BindableSplits` that the
text before the last colon and the numeral after it are what is validated, and `NormalForm` that the address which is put together from them is taken apart
in the same way and put together again as it was (`AddressesRoundTrip`). `BlanksHaveNoEffect` follows from `StripBlank`.

`ReleaseProofs` holds for any number of maintainers and tags (`NoneAssumption`, `MaxTagAssumption`). `TagInv` adds to the types that whoever is past the
fetch has a tag. Pushes are the only steps that change `remote`, and they need a free number, so
no other run takes away what one has announced (`AnnouncedTagsAreOwn`). `LatestMovesForward` needs `BuiltFromTags` (a workflow run exists only for a tag of origin) and `OneAtATime`:
without an overlap there is at most one run between fetch and push, its number is above every tag of origin and every published one, and at most
one build is under way, the newest. `CloneInv` adds what clones hold: the
number that a run is about to tag is free in its clone (`FreshTag`), so a run never writes over a tag it has, and a tag in a clone that the clone did not make is origin's
(`OwnOrOrigins`). So a clone that disagrees with origin has made a tag that lost to another's (`OnlyLosersAreStuck`); and since neither of the two ever moves, it disagrees for
good, and its runs end at the fetch (`LosersStayOut`). That the maximum of a finite set of numbers exists is proved from the well-foundedness of `<`.

`OrderFlowProofs` holds for any number of scripts. `ConfirmInv` relates a script's label to its closing order: an order once executed stays so, and a confirmed
status is that of the script's own order (`AllOkIsTrue`). `RepeatsNeverDouble` needs two invariants that hold as long as no
two scripts have overlapped (`FlowInv`). `ActiveInv`: at most one script awaits a
call, a script that has yet to begin has made none, and the queue holds exactly the waiting calls, once each. `ClearInv`, under `excuses = {}`: a pending order is owned by the
call that is running (`Owned`), an opening order is only asked for when there is room for it (`Room`), and a script that reads the position
first does so behind every opening order (`Behind`). They were checked with TLC before they were proved.

`AllOkLeavesNothing` adds `SizedInv` (nobody closes without having seen a position) and `FlatInv`: barring an overlap the last script to start is the only one under way (`LastInv`),
and barring the excuses no other opening order is pending once it has read the position (`Alone`), so that by `Room` there is at most one order's size and
its close leaves nothing (`Flat`).

`SerializationProofs` holds for any objects, however nested, shared or referring back, and any keys; `GraphsAssumption` says only that an object's items are
objects, that all containers but lists, tuples and sets have a key for each, and that what is not finite is a float. The first lemmas are about one object: `BranchIsFirst`
and `BranchKinds` find the branch from the order of the checks, `ContainerForm` says that there is one entry for every name, the last. `RecursionInv` is about the stack
and what has returned. `ConvertedInv` is its heart: what is converted is so with everything inside it, holds nothing frozen, and has no set of objects in which each leads
to another one (`Cyclic`). `StillEnds` shows that a return keeps this without looking at the graph's shape, and `RecurringIsCyclic` that
an object met inside itself closes such a set. Reachability is the least closed set, so what the answer holds lies within `converted` (`BodyIsConverted`).
`EntriesAreKept` shows that what `SerializeForJson` enters into a conversion are just the items that no later one of the same name replaces, and `RendersTheFinite` that rendering raises
on just the floats without JSON among these. `AnswersAreJson`, `TextsArrive` and `FitResultsAreAnswered` follow.

Only model-checked, being out of the prover's reach: liveness under fairness (`answered`, `hang`, `BootDecides`, `EveryScriptEnds`) and `EveryOutcomeTaken`, which has `ENABLED` in
it. Every other property of a passing run is a theorem.

## Not modelled

- The acceptance smoke test, the CI workflows and the JavaScript tests with their helpers: harnesses that start a server and look at it. They
  were read for how clients use the bridge.
- `logging_utils.py`, which sets the root level and the layout of log lines, and the example's summaries and checks of balances, which read nothing that a property is about.
- Builds of `main` and of pull requests, which push other image tags than a release does.
- The JavaScript and Python adapters live in a submodule whose directory is empty here; of them only the timeout that `example.js` passes is used.
- A bound on an exchange method's time, and gas at the time of execution: the code promises neither.

## Plan

Everything planned is done: `BridgeRuntime` with its abstraction, then `Startup` with `Config`, `OrderFlow`, `Release` and `Serialization`, with the proofs of
all five. What could follow if the code grows: a composition of `OrderFlow` with `SerialBridge` in place of its own queue, should the bridge
come to recognise repeated request ids, and a bound on exchange calls in `BridgeRuntime`, should the runtime get one.
