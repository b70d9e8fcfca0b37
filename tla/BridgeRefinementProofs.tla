------------------------ MODULE BridgeRefinementProofs ------------------------
(***************************************************************************)
(* BridgeRuntime implements SerialBridge, for any number of requests, any  *)
(* pool, any settings and any exchange.                                    *)
(***************************************************************************)
EXTENDS BridgeSafetyProofs, BridgeRefinement

\* What a step leaves of the mapped state: all but the entry of r.
OthersKept(r) ==
  \A q \in Requests \ {r} : PhaseOf(q)' = PhaseOf(q) /\ EffectOf(q)' = EffectOf(q)

LEMMA OthersMapped ==
  ASSUME TypeOK, [Next]_vars, NEW r \in Requests, StepOf(r)
  PROVE  OthersKept(r)
<1>1. \A q \in Requests : shape'[q] = shape[q]
  BY DecisionsFixed
<1>2. \A q \in Requests \ {r} :
        pc'[q] = pc[q] /\ answer'[q] = answer[q] /\ ExchangeJob(q)' = ExchangeJob(q)
  BY OthersStay
<1> QED
  BY <1>1, <1>2 DEF OthersKept, PhaseOf, PhaseWhenDone, EffectOf, ExchangeJob

\* The mapped state changes in the entry of r alone.
LEMMA MappedChange ==
  ASSUME NEW r \in Requests, OthersKept(r)
  PROVE  /\ [q \in Requests |-> PhaseOf(q)]'
              = [[q \in Requests |-> PhaseOf(q)] EXCEPT ![r] = PhaseOf(r)']
         /\ [q \in Requests |-> EffectOf(q)]'
              = [[q \in Requests |-> EffectOf(q)] EXCEPT ![r] = EffectOf(r)']
BY DEF OthersKept

LEMMA StutterMaps ==
  ASSUME NEW r \in Requests, OthersKept(r),
         PhaseOf(r)' = PhaseOf(r), EffectOf(r)' = EffectOf(r)
  PROVE  UNCHANGED Serial!svars
BY DEF OthersKept, Serial!svars

LEMMA RefuseMaps ==
  ASSUME NEW r \in Requests, OthersKept(r), PhaseOf(r) = "waiting",
         PhaseOf(r)' = "refused", EffectOf(r)' = EffectOf(r)
  PROVE  Serial!SNext
BY MappedChange DEF Serial!SNext, Serial!Refuse, Serial!To

LEMMA BeginMaps ==
  ASSUME NEW r \in Requests, OthersKept(r), PhaseOf(r) = "waiting",
         \A q \in Requests : PhaseOf(q) # "running",
         PhaseOf(r)' = "running", EffectOf(r)' = EffectOf(r)
  PROVE  Serial!SNext
BY MappedChange DEF Serial!SNext, Serial!Begin, Serial!To

LEMMA PerformMaps ==
  ASSUME NEW r \in Requests, OthersKept(r), PhaseOf(r) = "running", EffectOf(r) = "none",
         PhaseOf(r)' = PhaseOf(r), EffectOf(r)' \in {"ok", "err"}
  PROVE  Serial!SNext
BY MappedChange DEF Serial!SNext, Serial!Perform

LEMMA ReleaseMaps ==
  ASSUME NEW r \in Requests, OthersKept(r), PhaseOf(r) = "running", EffectOf(r) = "ok",
         PhaseOf(r)' = "reporting", EffectOf(r)' = EffectOf(r)
  PROVE  Serial!SNext
BY MappedChange DEF Serial!SNext, Serial!Release, Serial!To

LEMMA ReportMaps ==
  ASSUME NEW r \in Requests, OthersKept(r), PhaseOf(r) \in {"running", "reporting"},
         EffectOf(r) # "none", EffectOf(r)' = EffectOf(r),
         PhaseOf(r)' = "failed" \/ (PhaseOf(r)' = "succeeded" /\ EffectOf(r) = "ok")
  PROVE  Serial!SNext
BY MappedChange DEF Serial!SNext, Serial!Report, Serial!To

-----------------------------------------------------------------------------
(* One request's step, seen from SerialBridge.                             *)

\* The phase of a call whose coroutine is at the label, with its exchange job in
\* the state and the answer a.
PhaseAt(label, state, a) ==
  IF label = "exchange" THEN "running"
  ELSE IF label = "augment" THEN "reporting"
  ELSE IF label # "done" THEN "waiting"
  ELSE IF a = "ok" THEN "succeeded"
  ELSE IF state = "none" THEN "refused" ELSE "failed"

EffectAt(state) == IF state \in {"ok", "err"} THEN state ELSE "none"

LEMMA MappedMove ==
  ASSUME TypeOK, [Next]_vars, NEW r \in Requests, shape[r].route # "ping",
         NEW label, NEW state, Moves(r, label, state)
  PROVE  /\ PhaseOf(r)' = PhaseAt(label, state, answer'[r])
         /\ EffectOf(r)' = EffectAt(state)
<1>1. shape'[r] = shape[r]
  BY DecisionsFixed
<1>2. pc'[r] = label /\ ExchangeJob(r)' = state
  BY DEF Moves, TypeOK
<1> QED
  BY <1>1, <1>2 DEF PhaseOf, PhaseWhenDone, PhaseAt, EffectOf, EffectAt, ExchangeJob

LEMMA MappedNow ==
  ASSUME NEW r \in Requests, shape[r].route # "ping"
  PROVE  PhaseOf(r) = PhaseAt(pc[r], ExchangeJob(r), answer[r]) /\ EffectOf(r) = EffectAt(ExchangeJob(r))
BY DEF PhaseOf, PhaseWhenDone, PhaseAt, EffectOf, EffectAt, ExchangeJob

LEMMA LoopStepMaps ==
  ASSUME TypeOK, LockInv, LockInv', JobInv, [Next]_vars,
         NEW r \in Requests, shape[r].route # "ping", OthersKept(r), LoopStep(r)
  PROVE  Serial!SNext \/ UNCHANGED Serial!svars
<1>n. PhaseOf(r) = PhaseAt(pc[r], ExchangeJob(r), answer[r]) /\ EffectOf(r) = EffectAt(ExchangeJob(r))
  BY MappedNow
<1>m. ASSUME NEW label, NEW state, Moves(r, label, state)
      PROVE  PhaseOf(r)' = PhaseAt(label, state, answer'[r]) /\ EffectOf(r)' = EffectAt(state)
  BY <1>m, MappedMove
<1>a. ASSUME NEW a, Reply(r, a)
      PROVE  answer'[r] = a
  BY <1>a DEF Reply, TypeOK
<1>w. ASSUME pc[r] \in {"auth", "gas", "lock"}
      PROVE  ExchangeJob(r) = "none" /\ PhaseOf(r) = "waiting"
  BY <1>w, <1>n DEF JobInv, JobFitsLabel, PhaseAt
<1>e. EffectAt("none") = "none" /\ EffectAt("pending") = "none"
      /\ EffectAt("ok") = "ok" /\ EffectAt("err") = "err"
  BY DEF EffectAt
<1>r. ASSUME NEW a, a # "ok", Reply(r, a), Moves(r, "done", ExchangeJob(r)),
             pc[r] \in {"auth", "gas"}
      PROVE  Serial!SNext
  <2>1. PhaseAt("done", "none", a) = "refused"
    BY <1>r DEF PhaseAt
  <2>2. PhaseOf(r)' = "refused" /\ EffectOf(r)' = EffectOf(r)
    BY <1>r, <1>a, <1>m, <1>n, <1>w, <2>1
  <2> QED
    BY <1>r, <1>w, <2>2, RefuseMaps
<1>b. ASSUME Moves(r, "exchange", "pending"), pc[r] \in {"auth", "gas", "lock"}
      PROVE  Serial!SNext
  <2>1. PhaseOf(r)' = "running" /\ EffectOf(r)' = EffectOf(r)
    BY <1>b, <1>m, <1>n, <1>w, <1>e DEF PhaseAt
  <2>2. \A q \in Requests : pc[q] # "exchange"
    BY <1>b DEF LockInv, Moves, TypeOK
  <2>3. \A q \in Requests : PhaseOf(q) # "running"
    BY <2>2 DEF PhaseOf, PhaseWhenDone
  <2> QED
    BY <1>b, <1>w, <2>1, <2>3, BeginMaps
<1>s. ASSUME NEW label \in {"gas", "lock"}, Moves(r, label, ExchangeJob(r)),
             pc[r] \in {"auth", "gas"}
      PROVE  UNCHANGED Serial!svars
  <2>1. PhaseOf(r)' = PhaseOf(r) /\ EffectOf(r)' = EffectOf(r)
    BY <1>s, <1>m, <1>n, <1>w DEF PhaseAt
  <2> QED
    BY <2>1, StutterMaps
<1>d. ASSUME NEW a, NEW state \in {"ok", "err"}
      PROVE  PhaseAt("done", state, a) = IF a = "ok" THEN "succeeded" ELSE "failed"
  BY <1>d DEF PhaseAt
<1>x. ASSUME Returned(r)
      PROVE  PhaseOf(r) = "running"
  BY <1>x, <1>n DEF Returned, PhaseAt
<1>1. CASE Deny(r) /\ Moves(r, "done", ExchangeJob(r))
  BY <1>1, <1>r, ErrorsAreNoSuccess DEF Deny, Authenticated
<1>2. CASE StartGasCheck(r) /\ Moves(r, "gas", ExchangeJob(r))
  BY <1>2, <1>s DEF StartGasCheck, Authenticated
<1>3. CASE FailGasCheck(r) /\ Moves(r, "done", ExchangeJob(r))
  <2>1. \E a : a # "ok" /\ Reply(r, a)
    BY <1>3, ErrorsAreNoSuccess DEF FailGasCheck, ReplyRaised, OwnErrors
  <2> QED
    BY <1>3, <2>1, <1>r DEF FailGasCheck, GasRead
<1>4. CASE MissingMethod(r) /\ Moves(r, "done", ExchangeJob(r))
  <2>1. \E a : a # "ok" /\ Reply(r, a)
    BY <1>4, ErrorsAreNoSuccess DEF MissingMethod, OwnErrors
  <2> QED
    BY <1>4, <2>1, <1>r DEF MissingMethod, PassedChecks, Authenticated, GasRead
<1>5. CASE AcquireLock(r) /\ Moves(r, "exchange", "pending")
  BY <1>5, <1>b DEF AcquireLock, EnterExchange, PassedChecks, Authenticated, GasRead
<1>6. CASE QueueForLock(r) /\ Moves(r, "lock", ExchangeJob(r))
  BY <1>6, <1>s DEF QueueForLock, PassedChecks, Authenticated, GasRead
<1>7. CASE WakeUp(r) /\ Moves(r, "exchange", "pending")
  BY <1>7, <1>b DEF WakeUp
<1>8. CASE RaiseExchangeError(r) /\ Moves(r, "done", ExchangeJob(r))
  <2>1. Returned(r) /\ ExchangeJob(r) = "err" /\ answer'[r] # "ok"
    BY <1>8, <1>a, ErrorsAreNoSuccess DEF RaiseExchangeError, ReplyRaised, ExchangeJob
  <2> QED
    BY <1>8, <2>1, <1>d, <1>x, <1>m, <1>n, <1>e, ReportMaps
<1>9. CASE AnswerCall(r) /\ Moves(r, "done", ExchangeJob(r))
  <2>1. Returned(r) /\ ExchangeJob(r) = "ok"
    BY <1>9 DEF AnswerCall, ExchangeJob
  <2> QED
    BY <1>9, <2>1, <1>d, <1>x, <1>m, <1>n, <1>e, ReportMaps
<1>10. CASE Augment(r) /\ Moves(r, "augment", ExchangeJob(r))
  <2>1. Returned(r) /\ ExchangeJob(r) = "ok"
    BY <1>10 DEF Augment, ExchangeJob
  <2>2. PhaseAt("augment", "ok", answer'[r]) = "reporting"
    BY DEF PhaseAt
  <2> QED
    BY <1>10, <2>1, <2>2, <1>x, <1>m, <1>n, <1>e, ReleaseMaps
<1>11. CASE StartPing(r)
  BY <1>11 DEF StartPing
<1> QED
  BY <1>1, <1>2, <1>3, <1>4, <1>5, <1>6, <1>7, <1>8, <1>9, <1>10, <1>11, LoopStepMoves

LEMMA ExchangeStepMaps ==
  ASSUME TypeOK, JobInv, [Next]_vars,
         NEW r \in Requests, shape[r].route # "ping", OthersKept(r), ExchangeStep(r)
  PROVE  Serial!SNext \/ UNCHANGED Serial!svars
<1>n. PhaseOf(r) = PhaseAt(pc[r], ExchangeJob(r), answer[r]) /\ EffectOf(r) = EffectAt(ExchangeJob(r))
  BY MappedNow
<1>j. ExchangeJob(r) \in {"pending", "begun", "sent"} /\ answer' = answer
  BY DEF ExchangeStep, BeginExchange, Broadcast, DrawAgain, RefuseBroadcast, EndExchange, ExchangeJob
<1>p. pc[r] = "exchange"
  BY <1>j, RunsUnderLock
<1>1. PhaseOf(r) = "running" /\ EffectOf(r) = "none"
  BY <1>n, <1>j, <1>p DEF PhaseAt, EffectAt
<1>2. PICK state \in {"begun", "sent", "ok", "err"} : Moves(r, pc[r], state)
  BY ExchangeStepMoves
<1>3. PhaseOf(r)' = "running" /\ EffectOf(r)' = EffectAt(state)
  BY <1>2, <1>p, MappedMove DEF PhaseAt
<1>4. CASE state \in {"begun", "sent"}
  BY <1>1, <1>3, <1>4, StutterMaps DEF EffectAt
<1>5. CASE state \in {"ok", "err"}
  BY <1>1, <1>3, <1>5, PerformMaps DEF EffectAt
<1> QED
  BY <1>4, <1>5

LEMMA ReadStepMaps ==
  ASSUME TypeOK, JobInv, [Next]_vars, NEW r \in Requests, shape[r].route # "ping",
         OthersKept(r), NEW k \in DiagnosticKinds, ReadStep(r, k)
  PROVE  Serial!SNext \/ UNCHANGED Serial!svars
<1>n. PhaseOf(r) = PhaseAt(pc[r], ExchangeJob(r), answer[r]) /\ EffectOf(r) = EffectAt(ExchangeJob(r))
  BY MappedNow
<1>m. ASSUME NEW label, Moves(r, label, ExchangeJob(r))
      PROVE  /\ PhaseOf(r)' = PhaseAt(label, ExchangeJob(r), answer'[r])
             /\ EffectOf(r)' = EffectOf(r)
  BY <1>m, <1>n, MappedMove
<1>p. pc[r] # "ping"
  BY DEF JobInv, JobFitsLabel
<1>g. ASSUME pc[r] = "augment"
      PROVE  PhaseOf(r) = "reporting" /\ EffectOf(r) = "ok"
  BY <1>g, <1>n DEF JobInv, JobFitsLabel, PhaseAt, EffectAt
<1>d. ASSUME Moves(r, "done", ExchangeJob(r)), pc[r] = "augment"
      PROVE  /\ PhaseOf(r)' = "failed" \/ PhaseOf(r)' = "succeeded"
             /\ PhaseOf(r) = "reporting" /\ EffectOf(r) = "ok" /\ EffectOf(r)' = EffectOf(r)
  <2>1. ExchangeJob(r) = "ok"
    BY <1>d DEF JobInv, JobFitsLabel
  <2> QED
    BY <2>1, <1>d, <1>g, <1>m DEF PhaseAt
<1>1. CASE (AwaitMoreReads(r, k) \/ DropOrphan(r, k)) /\ Moves(r, pc[r], ExchangeJob(r))
  <2>1. answer' = answer
    BY <1>1 DEF AwaitMoreReads, DropOrphan
  <2> QED
    BY <1>1, <2>1, <1>m, <1>n, StutterMaps
<1>2. CASE AnswerPing(r, k)
  BY <1>2, <1>p DEF AnswerPing
<1>3. CASE AnswerStatus(r, k) /\ Moves(r, "done", ExchangeJob(r))
  <2>1. pc[r] = "augment"
    BY <1>3 DEF AnswerStatus
  <2> QED
    BY <1>3, <2>1, <1>d, ReportMaps
<1>4. CASE FailGather(r, k) /\ Moves(r, "done", ExchangeJob(r))
  <2>1. pc[r] = "augment"
    BY <1>4, <1>p DEF FailGather, Gathering
  <2> QED
    BY <1>4, <2>1, <1>d, ReportMaps
<1> QED
  BY <1>1, <1>2, <1>3, <1>4, ReadStepMoves

\* A ping never gets an exchange job, so it stays what it maps to.
LEMMA PingMaps ==
  ASSUME GateInv, GateInv', [Next]_vars,
         NEW r \in Requests, shape[r].route = "ping", OthersKept(r)
  PROVE  UNCHANGED Serial!svars
<1>1. shape'[r] = shape[r]
  BY DecisionsFixed
<1>2. ExchangeJob(r) = "none" /\ ExchangeJob(r)' = "none"
  BY <1>1 DEF GateInv, GatesHold
<1>3. PhaseOf(r)' = PhaseOf(r) /\ EffectOf(r)' = EffectOf(r)
  BY <1>1, <1>2 DEF PhaseOf, EffectOf, ExchangeJob
<1> QED
  BY <1>3, StutterMaps

LEMMA NextMaps ==
  TypeOK /\ LockInv /\ LockInv' /\ JobInv /\ GateInv /\ GateInv' /\ [Next]_vars
    => [Serial!SNext]_(Serial!svars)
<1> SUFFICES ASSUME TypeOK, LockInv, LockInv', JobInv, GateInv, GateInv', [Next]_vars
             PROVE  Serial!SNext \/ UNCHANGED Serial!svars
  OBVIOUS
<1>1. ASSUME NEW r \in Requests, StepOf(r)
      PROVE  Serial!SNext \/ UNCHANGED Serial!svars
  <2>o. OthersKept(r)
    BY <1>1, OthersMapped
  <2>1. CASE shape[r].route = "ping"
    BY <2>o, <2>1, PingMaps
  <2>2. CASE shape[r].route # "ping"
    <3>1. CASE Arrive(r)
      <4>1. answer' = answer /\ pc[r] = "new"
        BY <3>1 DEF Arrive
      <4>2. PhaseOf(r)' = PhaseAt("auth", ExchangeJob(r), answer[r]) /\ EffectOf(r)' = EffectAt(ExchangeJob(r))
        BY <2>2, <3>1, <4>1, ArriveMoves, MappedMove
      <4> QED
        BY <2>o, <2>2, <4>1, <4>2, MappedNow, StutterMaps DEF PhaseAt
    <3>2. CASE ReadGas(r)
      <4>1. answer' = answer
        BY <3>2 DEF ReadGas
      <4>2. PhaseOf(r)' = PhaseAt(pc[r], ExchangeJob(r), answer[r]) /\ EffectOf(r)' = EffectAt(ExchangeJob(r))
        BY <2>2, <3>2, <4>1, ReadGasMoves, MappedMove
      <4> QED
        BY <2>o, <2>2, <4>2, MappedNow, StutterMaps
    <3> QED
      BY <1>1, <2>o, <2>2, <3>1, <3>2, LoopStepMaps, ExchangeStepMaps, ReadStepMaps DEF StepOf
  <2> QED
    BY <2>1, <2>2
<1>2. CASE Fund \/ UNCHANGED vars
  <2>1. UNCHANGED <<shape, pc, job, answer>>
    BY <1>2, RequestsFixed DEF Fund, vars, requestVars
  <2> QED
    BY <2>1 DEF Serial!svars, PhaseOf, PhaseWhenDone, EffectOf
<1> QED
  BY <1>1, <1>2, NextCases

LEMMA InitMaps == Init => Serial!SInit
BY DEF Init, Serial!SInit, PhaseOf, EffectOf, Jobs, Kinds

\* The bridge is a server of one call at a time: with its checks outside the
\* lock, its pool and its diagnostics it does nothing that SerialBridge may not.
\* So a call runs at most once, one that is over without a run never runs, and
\* "ok" is said of good effects only; of errors the client learns nothing here.
THEOREM BridgeImplementsSerialBridge == Spec => ImplementsSerialBridge
<1>1. Spec => [](TypeOK /\ LockInv /\ JobInv /\ GateInv)
  BY ControlInvariant, GateInit, GateNext, PTL DEF Spec
<1> QED
  BY <1>1, InitMaps, NextMaps, PTL DEF Spec, ImplementsSerialBridge, Serial!SSpec
=============================================================================
