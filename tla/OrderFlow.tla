------------------------------- MODULE OrderFlow -------------------------------
(***************************************************************************)
(* The example client docs/example.js against the bridge, the GMX chain    *)
(* and its keeper.  A run of the script ("script") makes one call at a     *)
(* time; a call that times out goes on in the bridge, for which the script *)
(* is over.  Of the bridge, BridgeRuntime says: a signing call is checked  *)
(* for gas first, calls queue first come first served, one at a time runs. *)
(* Sizes are counted in POSITION_SIZE_USD.                                 *)
(*                                                                         *)
(* Outside src/, and modelled from their use: the CCXT adapter with its    *)
(* timeout, the exchange methods behind the bridge (with                   *)
(* wait_for_execution, create_order ends when the keeper has dealt with    *)
(* the order), the keeper, and the lag of position reads.                  *)
(***************************************************************************)
EXTENDS Integers, SequencesExt

CONSTANT Scripts  \* runs of the example

VARIABLES
  at,       \* at[s]: the call of script s under way, or how it ended
  mode,     \* mode[s]: TRADE
  seen,     \* seen[s]: the size in the snapshot that s goes by, 0 if none
  step,     \* step[s]: what the last call of s asks for
  stage,    \* stage[s]: how far the bridge is with that call
  result,   \* result[s]: what its answer says
  queue,    \* callers waiting for the lock, oldest first
  order,    \* order[<<s, k>>]: the order k of s on GMX
  position, \* the size of the wallet's position
  visible,  \* the size that position reads show
  excuses,  \* history: what may have doubled a position, see Excuses
  last,     \* history: the script that started last
  overlap   \* history: a script has started while another was under way

scriptVars == <<at, mode, seen, last, overlap>>
bridgeVars == <<step, stage, result, queue>>
chainVars == <<order, position, visible>>
vars == <<scriptVars, bridgeVars, chainVars, excuses>>

Kinds == {"open", "close"}
Steps == {"before", "open", "after", "close", "confirm"}
Ends == {"allOk", "left", "failed"}
Live == {"checking", "queued", "running"}

\* lag: a position read did not show the latest executions; lost: the bridge
\* or its process failed while an order of it was pending; late: the script
\* gave up an opening order that had yet to queue for the lock.
Excuses == {"lag", "lost", "late"}

FlowTypeOK ==
  /\ at \in [Scripts -> {"idle"} \union Steps \union Ends]
  /\ mode \in [Scripts -> {"open_and_close", "open_only"}]
  /\ seen \in [Scripts -> Nat]
  /\ step \in [Scripts -> {"none"} \union Steps]
  /\ stage \in [Scripts -> {"none", "ok", "err"} \union Live]
  /\ result \in [Scripts -> Nat]
  /\ queue \in Seq(Scripts)
  /\ order \in [Scripts \X Kinds -> {"none", "submitted", "executed", "cancelled"}]
  /\ position \in Nat
  /\ visible \in Nat
  /\ excuses \subseteq Excuses
  /\ last \in Scripts
  /\ overlap \in BOOLEAN

Init ==
  /\ at = [s \in Scripts |-> "idle"]
  /\ mode \in [Scripts -> {"open_and_close", "open_only"}]
  /\ seen = [s \in Scripts |-> 0]
  /\ step = [s \in Scripts |-> "none"]
  /\ stage = [s \in Scripts |-> "none"]
  /\ result = [s \in Scripts |-> 0]
  /\ queue = <<>>
  /\ order = [o \in Scripts \X Kinds |-> "none"]
  /\ position \in 0..1
  /\ visible = position
  /\ excuses = {}
  /\ last \in Scripts
  /\ overlap = FALSE

-----------------------------------------------------------------------------
(* The script: from the answer to one call to the next call.               *)

Goes(s, to) == at' = [at EXCEPT ![s] = to]

\* Send the call of a step; only create_order is checked for gas.
Ask(s, next) ==
  /\ Goes(s, next)
  /\ step' = [step EXCEPT ![s] = next]
  /\ IF next \in Kinds
     THEN stage' = [stage EXCEPT ![s] = "checking"] /\ UNCHANGED queue
     ELSE stage' = [stage EXCEPT ![s] = "queued"] /\ queue' = Append(queue, s)
  /\ UNCHANGED <<mode, result, chainVars, excuses>>

End(s, how) == Goes(s, how) /\ UNCHANGED <<mode, bridgeVars, chainVars, excuses, last, overlap>>

\* main() up to its first position read; its checks of the wallet may stop it.
Begin(s) ==
  /\ at[s] = "idle"
  /\ last' = s
  /\ overlap' = (overlap \/ \E t \in Scripts : at[t] \in Steps)
  /\ Ask(s, "before")
  /\ UNCHANGED seen

Answered(s, at_) == at[s] = at_ /\ stage[s] = "ok"

\* A position that is there is reused.
ReadBefore(s) ==
  /\ Answered(s, "before")
  /\ seen' = [seen EXCEPT ![s] = result[s]]
  /\ \/ result[s] = 0 /\ Ask(s, "open") /\ UNCHANGED <<last, overlap>>
     \/ result[s] > 0 /\ mode[s] = "open_only" /\ End(s, "left")
     \/ result[s] > 0 /\ mode[s] # "open_only" /\ Ask(s, "close") /\ UNCHANGED <<last, overlap>>

Opened(s) ==
  /\ Answered(s, "open")
  /\ Ask(s, "after")
  /\ UNCHANGED <<seen, last, overlap>>

\* Mutant: the close goes by the snapshot from before the opening order.
ReadAfter_Stale(s) ==
  /\ Answered(s, "after")
  /\ UNCHANGED seen
  /\ \/ mode[s] = "open_only" /\ End(s, "left")
     \/ mode[s] # "open_only" /\ result[s] = 0 /\ End(s, "failed")
     \/ mode[s] # "open_only" /\ result[s] > 0 /\ Ask(s, "close") /\ UNCHANGED <<last, overlap>>

ReadAfter(s) ==
  /\ Answered(s, "after")
  /\ seen' = [seen EXCEPT ![s] = result[s]]
  /\ \/ mode[s] = "open_only" /\ End(s, "left")
     \/ mode[s] # "open_only" /\ result[s] = 0 /\ End(s, "failed")
     \/ mode[s] # "open_only" /\ result[s] > 0 /\ Ask(s, "close") /\ UNCHANGED <<last, overlap>>

Closed(s) ==
  /\ Answered(s, "close")
  /\ Ask(s, "confirm")
  /\ UNCHANGED <<seen, last, overlap>>

\* "All ok" if the status of the order is "closed", which is 1 here.
Confirmed(s) ==
  /\ Answered(s, "confirm")
  /\ End(s, IF result[s] = 1 THEN "allOk" ELSE "failed")
  /\ UNCHANGED seen

\* An error answer, or none because the connection broke.
GetError(s) ==
  /\ at[s] \in Steps /\ stage[s] = "err"
  /\ End(s, "failed")
  /\ UNCHANGED seen

\* Mutant: the client waits for ever.
TimeOut_Never(s) == FALSE /\ UNCHANGED vars

\* timeout: 180000
TimeOut(s) ==
  /\ at[s] \in Steps /\ stage[s] \in Live
  /\ Goes(s, "failed")
  /\ excuses' = IF step[s] = "open" /\ stage[s] = "checking"
                THEN excuses \union {"late"} ELSE excuses
  /\ UNCHANGED <<mode, seen, last, overlap, bridgeVars, chainVars>>

-----------------------------------------------------------------------------
(* The bridge, as BridgeRuntime promises it.                               *)

To(s, to) == stage' = [stage EXCEPT ![s] = to]
Order(s) == <<s, step[s]>>

\* The gas check of a signing call, before it queues for the lock.
CheckGas(s) ==
  /\ stage[s] = "checking"
  /\ \/ To(s, "queued") /\ queue' = Append(queue, s)
     \/ To(s, "err") /\ UNCHANGED queue
  /\ UNCHANGED <<scriptVars, step, result, chainVars, excuses>>

\* Mutant: the lock is given up while an order waits for its keeper.
LockFree_Shared == \A t \in Scripts : stage[t] = "running" => step[t] = "open"

LockFree == \A t \in Scripts : stage[t] # "running"

EnterExchange(s) ==
  /\ queue # <<>> /\ Head(queue) = s
  /\ LockFree
  /\ To(s, "running") /\ queue' = Tail(queue)
  /\ UNCHANGED <<scriptVars, step, result, chainVars, excuses>>

FailRead(s) ==
  /\ stage[s] = "running" /\ step[s] \notin Kinds
  /\ To(s, "err")
  /\ UNCHANGED <<scriptVars, step, result, queue, chainVars, excuses>>

\* fetch_positions
ReadPosition(s) ==
  /\ stage[s] = "running" /\ step[s] \in {"before", "after"}
  /\ To(s, "ok")
  /\ result' = [result EXCEPT ![s] = visible]
  /\ excuses' = IF visible # position THEN excuses \union {"lag"} ELSE excuses
  /\ UNCHANGED <<scriptVars, step, queue, chainVars>>

\* Mutant: the close is confirmed by a position read.
OrderStatus_Snapshot(s) == IF visible = 0 THEN 1 ELSE 0

\* Mutant: an order that is not closed yet has no number.
OrderStatus_Signed(s) == OrderStatus_Snapshot(s) - 1

\* fetch_order follows the order itself.
OrderStatus(s) == IF order[<<s, "close">>] = "executed" THEN 1 ELSE 0

ReadOrder(s) ==
  /\ stage[s] = "running" /\ step[s] = "confirm"
  /\ To(s, "ok")
  /\ result' = [result EXCEPT ![s] = OrderStatus(s)]
  /\ UNCHANGED <<scriptVars, step, queue, chainVars, excuses>>

Submit(s) ==
  /\ stage[s] = "running" /\ step[s] \in Kinds /\ order[Order(s)] = "none"
  /\ order' = [order EXCEPT ![Order(s)] = "submitted"]
  /\ UNCHANGED <<scriptVars, bridgeVars, position, visible, excuses>>

EndOrder(s) ==
  /\ stage[s] = "running" /\ step[s] \in Kinds
  /\ order[Order(s)] \in {"executed", "cancelled"}
  /\ To(s, "ok")
  /\ UNCHANGED <<scriptVars, step, result, queue, chainVars, excuses>>

\* create_order raises: nothing was submitted, the order was cancelled, or an
\* RPC read failed while it was pending.
FailOrder(s) ==
  /\ stage[s] = "running" /\ step[s] \in Kinds
  /\ To(s, "err")
  /\ excuses' = IF order[Order(s)] = "submitted" THEN excuses \union {"lost"} ELSE excuses
  /\ UNCHANGED <<scriptVars, step, result, queue, chainVars>>

\* The process dies and is started again; it remembers nothing.
Crash ==
  /\ \E s \in Scripts : stage[s] \in Live
  /\ stage' = [s \in Scripts |-> IF stage[s] \in Live THEN "err" ELSE stage[s]]
  /\ queue' = <<>>
  /\ excuses' = IF \E s \in Scripts : /\ stage[s] = "running" /\ step[s] \in Kinds
                                      /\ order[Order(s)] = "submitted"
                THEN excuses \union {"lost"} ELSE excuses
  /\ UNCHANGED <<scriptVars, step, result, chainVars>>

-----------------------------------------------------------------------------
(* GMX.                                                                    *)

\* The keeper deals with a pending order; a close takes at most what is there
\* and is cancelled if nothing is.
Execute(o) ==
  /\ order[o] = "submitted"
  /\ \/ order' = [order EXCEPT ![o] = "cancelled"] /\ UNCHANGED position
     \/ /\ order' = [order EXCEPT ![o] = "executed"]
        /\ \/ o[2] = "open" /\ position' = position + 1
           \/ /\ o[2] = "close" /\ position > 0
              /\ position' = IF seen[o[1]] > position THEN 0 ELSE position - seen[o[1]]
  /\ UNCHANGED <<scriptVars, bridgeVars, visible, excuses>>

Settle ==
  /\ visible # position
  /\ visible' = position
  /\ UNCHANGED <<scriptVars, bridgeVars, order, position, excuses>>

-----------------------------------------------------------------------------
ScriptStep(s) ==
  \/ ReadBefore(s)
  \/ Opened(s)
  \/ ReadAfter(s)
  \/ Closed(s)
  \/ Confirmed(s)
  \/ GetError(s)
BridgeStep(s) ==
  \/ CheckGas(s)
  \/ EnterExchange(s)
  \/ FailRead(s)
  \/ ReadPosition(s)
  \/ ReadOrder(s)
  \/ Submit(s)
  \/ EndOrder(s)
  \/ FailOrder(s)
Next ==
  \/ \E s \in Scripts : Begin(s) \/ ScriptStep(s) \/ TimeOut(s) \/ BridgeStep(s)
  \/ Crash
  \/ \E o \in Scripts \X Kinds : Execute(o)
  \/ Settle

Spec == Init /\ [][Next]_vars

\* Timers fire and answers are read.  Nothing is assumed of the bridge.
FairSpec == Spec /\ \A s \in Scripts : WF_vars(ScriptStep(s) \/ TimeOut(s))

-----------------------------------------------------------------------------
\* A script says "All ok" only if its own closing order was executed, whatever
\* crashed, timed out or lagged, and whatever other scripts did meanwhile
\* (docs/example.js:707-720).
AllOkMeansClosed ==
  \A s \in Scripts : at[s] = "allOk" => order[<<s, "close">>] = "executed"

\* Starting the script again, after it has ended, does not double the position by
\* itself, also not after a timeout: the second run reads positions behind the first run's call in the
\* bridge's queue, and create_order waits for its execution.  It takes an
\* order that is pending after the bridge lost it, a lagging read, or a call
\* given up before it queued (example.js:625-645, runtime.py:238-246).
TimeoutAloneNeverDoubles == position > 1 => overlap \/ excuses # {}

\* As far as README.md:54 is true: barring overlapping runs and the excuses
\* above, an "All ok" leaves no position, also not that of an earlier run which
\* timed out, whose opening order was executed later or which was left open.
AllOkIsFlatUnexcused ==
  at[last] = "allOk" => position = 0 \/ overlap \/ excuses # {}

\* Every script comes to an end, also if the bridge hangs.
EveryScriptEnds ==
  \A s \in Scripts : at[s] \in Steps ~> at[s] \in Ends

\* README.md:54: the script "opens and closes a small ETH long so the wallet is
\* returned to flat exposure afterwards": when it has said "All ok" and nothing
\* is under way any more, nothing is open, with one run after the other.  The
\* code does not keep this.
AllOkIsFlat ==
  /\ ~overlap
  /\ at[last] = "allOk"
  /\ \A s \in Scripts : stage[s] \notin Live
  /\ \A o \in Scripts \X Kinds : order[o] # "submitted"
  => position = 0
=============================================================================
