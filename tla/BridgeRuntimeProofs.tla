------------------------- MODULE BridgeRuntimeProofs -------------------------
(***************************************************************************)
(* Theorems about BridgeRuntime, for any number of requests, threads,      *)
(* modes and methods.                                                      *)
(***************************************************************************)
EXTENDS BridgeRuntime, SequenceTheorems, TLAPS

-----------------------------------------------------------------------------
(* The pool.                                                               *)

LEMMA RemoveAtType ==
  ASSUME NEW S, NEW s \in Seq(S), NEW i \in 1..Len(s)
  PROVE  RemoveAt(s, i) \in Seq(S)
<1>1. SubSeq(s, 1, i-1) \in Seq(S)
  BY SubSeqProperties
<1>2. SubSeq(s, i+1, Len(s)) \in Seq(S)
  BY SubSeqProperties, LenProperties
<1> QED
  BY <1>1, <1>2, ConcatProperties DEF RemoveAt

LEMMA PositionInPool ==
  ASSUME NEW t, HoldsToken(t)
  PROVE  Position(t) \in 1..Len(pool)
BY DEF HoldsToken, Position

LEMMA SwapJobsType ==
  ASSUME TypeOK, NEW t \in Jobs, HoldsToken(t), NEW new \in Seq(Jobs), SwapJobs(t, new)
  PROVE  pool' \in Seq(Jobs) /\ job' \in [Jobs -> JobStates]
<1>1. RemoveAt(pool, Position(t)) \in Seq(Jobs)
  BY PositionInPool, RemoveAtType DEF TypeOK
<1>2. pool' \in Seq(Jobs)
  BY <1>1, ConcatProperties DEF SwapJobs
<1>3. job' \in [Jobs -> JobStates]
  BY DEF SwapJobs, TypeOK, JobStates
<1> QED
  BY <1>2, <1>3

LEMMA StatusJobsType ==
  ASSUME NEW r \in Requests
  PROVE  PingJobs(r) \in Seq(Jobs) /\ StatusJobs(r) \in Seq(Jobs)
<1>1. <<>> \in Seq(Jobs)
  BY EmptySeq
<1>2. \A k \in Kinds : <<<<r, k>>>> \in Seq(Jobs)
  BY DEF Jobs
<1>3. PingJobs(r) \in Seq(Jobs)
  BY <1>1, <1>2, ConcatProperties DEF PingJobs, Kinds
<1>4. (IF config.chain THEN <<<<r, "gasChain">>>> ELSE <<>>) \in Seq(Jobs)
  BY <1>1, <1>2 DEF Kinds
<1>5. (IF GasReadable THEN <<<<r, "gas">>>> ELSE <<>>) \in Seq(Jobs)
  BY <1>1, <1>2 DEF Kinds
<1> QED
  BY <1>3, <1>4, <1>5, ConcatProperties DEF StatusJobs

LEMMA LastCheckHoldsToken ==
  ASSUME NEW r \in Requests, PassedChecks(r)
  PROVE  LastCheck(r) \in Jobs /\ HoldsToken(LastCheck(r))
<1>1. CASE pc[r] = "gas"
  BY <1>1 DEF PassedChecks, Authenticated, GasRead, LastCheck, Jobs, Kinds
<1>2. CASE pc[r] # "gas"
  BY <1>2 DEF PassedChecks, Authenticated, GasRead, LastCheck, Jobs, Kinds
<1> QED
  BY <1>1, <1>2

-----------------------------------------------------------------------------
(* Type correctness.                                                       *)

\* Whatever an exception is answered with is an answer.
LEMMA ErrorsAreAnswers ==
  ASSUME NEW r
  PROVE  /\ \A name \in OwnErrors : ErrorSent(r, name) \in Answers
         /\ ForeignErrors(r) \subseteq Answers
         /\ Denial(r) \in Answers
<1>1. \A name \in OwnErrors \union Exceptions : ErrorSent(r, name) \in Answers
  BY DEF ErrorSent, Answers
<1>2. ForeignErrors(r) \subseteq Answers
  BY <1>1 DEF ForeignErrors, Answers
<1>3. Denial(r) \in Answers
  BY <1>1 DEF Denial, Answers, OwnErrors
<1> QED
  BY <1>1, <1>2, <1>3

LEMMA TypeInit == Init => TypeOK
<1> SUFFICES ASSUME Init
             PROVE  TypeOK
  OBVIOUS
<1>1. pool \in Seq(Jobs) /\ waiters \in Seq(Requests)
  BY EmptySeq DEF Init
<1>2. job \in [Jobs -> JobStates]
  BY DEF Init, JobStates
<1>3. pc \in [Requests -> Labels] /\ answer \in [Requests -> Answers]
  BY DEF Init, Labels, Answers
<1>4. txsLeft \in [Requests -> 0..MaxTransactions]
  <2>1. MaxTransactions \in 0..MaxTransactions
    BY MaxTransactionsAssumption
  <2> QED
    BY <2>1 DEF Init
<1> QED
  BY <1>1, <1>2, <1>3, <1>4 DEF Init, TypeOK

LEMMA TypeNext == TypeOK /\ [Next]_vars => TypeOK'
<1> SUFFICES ASSUME TypeOK, [Next]_vars
             PROVE  TypeOK'
  OBVIOUS
<1> USE DEF requestVars, chainVars
<1>a. ASSUME NEW r \in Requests, NEW a \in Answers, Reply(r, a)
      PROVE  pc' \in [Requests -> Labels] /\ answer' \in [Requests -> Answers]
  BY <1>a DEF Reply, Goto, TypeOK, Labels
<1>1. ASSUME NEW r \in Requests, Arrive(r)
      PROVE  TypeOK'
  <2>1. pool' \in Seq(Jobs)
    BY <1>1, AppendProperties DEF Arrive, TypeOK, Jobs, Kinds
  <2> QED
    BY <1>1, <2>1 DEF Arrive, Goto, TypeOK, Labels, JobStates
<1>2. ASSUME NEW r \in Requests, LoopStep(r)
      PROVE  TypeOK'
  <2> DEFINE JobsTyped == pool' \in Seq(Jobs) /\ job' \in [Jobs -> JobStates]
  <2>e. <<>> \in Seq(Jobs)
    BY EmptySeq
  <2>j. \A k \in Kinds : <<r, k>> \in Jobs /\ <<<<r, k>>>> \in Seq(Jobs)
    BY DEF Jobs
  <2>r. AnswerResult(r) => \E a \in Answers : Reply(r, a)
    BY ErrorsAreAnswers DEF AnswerResult, Answers
  <2>1. CASE Deny(r)
    <3>1. JobsTyped
      BY <2>1, <2>e, <2>j, SwapJobsType DEF Deny, Authenticated, Kinds
    <3> QED
      BY <2>1, <3>1, <1>a, ErrorsAreAnswers DEF Deny, TypeOK
  <2>2. CASE StartGasCheck(r)
    <3>1. JobsTyped
      BY <2>2, <2>j, SwapJobsType DEF StartGasCheck, Authenticated, Kinds
    <3> QED
      BY <2>2, <3>1 DEF StartGasCheck, Goto, TypeOK, Labels
  <2>3. CASE FailGasCheck(r)
    <3>1. JobsTyped
      BY <2>3, <2>e, <2>j, SwapJobsType DEF FailGasCheck, GasRead, Kinds
    <3>2. \E a \in Answers : Reply(r, a)
      BY <2>3, ErrorsAreAnswers DEF FailGasCheck, ReplyRaised, OwnErrors
    <3> QED
      BY <2>3, <3>1, <3>2, <1>a DEF FailGasCheck, TypeOK
  <2>4. CASE MissingMethod(r)
    <3>1. JobsTyped
      BY <2>4, <2>e, LastCheckHoldsToken, SwapJobsType DEF MissingMethod
    <3>2. \E a \in Answers : Reply(r, a)
      BY <2>4, ErrorsAreAnswers DEF MissingMethod, OwnErrors
    <3> QED
      BY <2>4, <3>1, <3>2, <1>a DEF MissingMethod, TypeOK
  <2>5. CASE AcquireLock(r)
    <3>1. JobsTyped
      BY <2>5, <2>j, LastCheckHoldsToken, SwapJobsType DEF AcquireLock, EnterExchange, Kinds
    <3> QED
      BY <2>5, <3>1 DEF AcquireLock, EnterExchange, Goto, TypeOK, Labels
  <2>6. CASE QueueForLock(r)
    <3>1. JobsTyped
      BY <2>6, <2>e, LastCheckHoldsToken, SwapJobsType DEF QueueForLock
    <3>2. waiters' \in Seq(Requests)
      BY <2>6, AppendProperties DEF QueueForLock, TypeOK
    <3> QED
      BY <2>6, <3>1, <3>2 DEF QueueForLock, Goto, TypeOK, Labels
  <2>7. CASE WakeUp(r)
    <3>1. pool' \in Seq(Jobs)
      BY <2>7, <2>j, AppendProperties DEF WakeUp, TypeOK, Kinds
    <3>2. waiters' \in Seq(Requests)
      BY <2>7, HeadTailProperties DEF WakeUp, TypeOK
    <3> QED
      BY <2>7, <3>1, <3>2 DEF WakeUp, Goto, TypeOK, Labels, JobStates
  <2>8. CASE RaiseExchangeError(r)
    <3>1. JobsTyped
      BY <2>8, <2>e, <2>j, SwapJobsType DEF RaiseExchangeError, LeaveLock, Returned, Kinds
    <3>2. \E a \in Answers : Reply(r, a)
      BY <2>8, ErrorsAreAnswers DEF RaiseExchangeError, ReplyRaised
    <3> QED
      BY <2>8, <3>1, <3>2, <1>a DEF RaiseExchangeError, LeaveLock, TypeOK
  <2>9. CASE AnswerCall(r)
    <3>1. JobsTyped
      BY <2>9, <2>e, <2>j, SwapJobsType DEF AnswerCall, LeaveLock, Returned, Kinds
    <3>2. \E a \in Answers : Reply(r, a)
      BY <2>9, <2>r DEF AnswerCall
    <3> QED
      BY <2>9, <3>1, <3>2, <1>a DEF AnswerCall, LeaveLock, TypeOK
  <2>10. CASE Augment(r)
    <3>1. JobsTyped
      BY <2>10, <2>j, StatusJobsType, SwapJobsType DEF Augment, LeaveLock, Returned, Kinds
    <3> QED
      BY <2>10, <3>1 DEF Augment, LeaveLock, Goto, TypeOK, Labels
  <2>11. CASE StartPing(r)
    <3>1. JobsTyped
      BY <2>11, <2>j, StatusJobsType, SwapJobsType DEF StartPing, Authenticated, Kinds
    <3> QED
      BY <2>11, <3>1 DEF StartPing, Reply, Goto, TypeOK, Labels, Answers
  <2> QED
    BY <1>2, <2>1, <2>2, <2>3, <2>4, <2>5, <2>6, <2>7, <2>8, <2>9, <2>10, <2>11 DEF LoopStep
<1>3. ASSUME NEW r \in Requests, ReadGas(r)
      PROVE  TypeOK'
  BY <1>3 DEF ReadGas, TypeOK, JobStates
<1>4. ASSUME NEW r \in Requests, ExchangeStep(r)
      PROVE  TypeOK'
  <2>1. CASE BeginExchange(r)
    <3>1. runs' \in [Requests -> Nat]
      BY <2>1 DEF BeginExchange, TypeOK
    <3>2. job' \in [Jobs -> JobStates]
      BY <2>1 DEF BeginExchange, TypeOK, JobStates
    <3>3. drawn' \in [Requests -> Nat]
      <4> DEFINE d == IF Signs(r) THEN nonce ELSE 0
      <4>1. d \in Nat
        BY DEF TypeOK
      <4>2. drawn' = [drawn EXCEPT ![r] = d]
        BY <2>1 DEF BeginExchange
      <4> HIDE DEF d
      <4> QED
        BY <4>1, <4>2 DEF TypeOK
    <3> QED
      BY <2>1, <3>1, <3>2, <3>3 DEF BeginExchange, TypeOK
  <2>2. CASE Broadcast(r)
    <3>1. gas' \in 0..MaxGas /\ nonce' \in Nat
      BY <2>2, MaxGasAssumption DEF Broadcast, TypeOK
    <3>2. sent' \subseteq Requests \X Nat
      BY <2>2 DEF Broadcast, TypeOK
    <3>3. job' \in [Jobs -> JobStates]
      BY <2>2 DEF Broadcast, TypeOK, JobStates
    <3>4. txsLeft' \in [Requests -> 0..MaxTransactions]
      <4>1. txsLeft[r] \in 0..MaxTransactions /\ txsLeft[r] > 0
        BY <2>2 DEF Broadcast, TypeOK
      <4>2. txsLeft[r] - 1 \in 0..MaxTransactions
        BY <4>1, MaxTransactionsAssumption
      <4> QED
        BY <2>2, <4>2 DEF Broadcast, TypeOK
    <3> QED
      BY <2>2, <3>1, <3>2, <3>3, <3>4 DEF Broadcast, TypeOK
  <2>3. CASE EndExchange(r)
    BY <2>3 DEF EndExchange, TypeOK, JobStates
  <2>4. CASE RefuseBroadcast(r)
    <3>1. nonce' \in Nat /\ drawn' \in [Requests -> Nat]
      BY <2>4 DEF RefuseBroadcast, TypeOK
    <3>2. job' \in [Jobs -> JobStates]
      BY <2>4 DEF RefuseBroadcast, TypeOK, JobStates
    <3> QED
      BY <2>4, <3>1, <3>2 DEF RefuseBroadcast, TypeOK
  <2>5. CASE DrawAgain(r)
    BY <2>5 DEF DrawAgain, TypeOK, JobStates
  <2> QED
    BY <1>4, <2>1, <2>2, <2>3, <2>4, <2>5 DEF ExchangeStep
<1>5. ASSUME NEW r \in Requests, NEW k \in DiagnosticKinds, ReadStep(r, k)
      PROVE  TypeOK'
  <2>1. ASSUME NEW good, ReadBack(r, k, good)
        PROVE  /\ pool' \in Seq(Jobs) /\ job' \in [Jobs -> JobStates]
               /\ UNCHANGED <<requestVars, locked, waiters, runs, chainVars>>
    <3>1. pool' \in Seq(Jobs)
      BY <2>1, PositionInPool, RemoveAtType DEF ReadBack, TypeOK
    <3>2. <<r, k>> \in Jobs
      BY DEF Jobs, Kinds, DiagnosticKinds
    <3>3. job' \in [Jobs -> JobStates]
      BY <2>1, <3>2 DEF ReadBack, TypeOK, JobStates
    <3> QED
      BY <2>1, <3>1, <3>3 DEF ReadBack
  <2>2. CASE AwaitMoreReads(r, k)
    BY <2>1, <2>2 DEF AwaitMoreReads, TypeOK
  <2>3. CASE AnswerPing(r, k)
    BY <2>1, <2>3 DEF AnswerPing, Reply, Goto, TypeOK, Labels, Answers
  <2>4. CASE AnswerStatus(r, k)
    <3>1. \E a \in Answers : Reply(r, a)
      BY <2>4, ErrorsAreAnswers DEF AnswerStatus, AnswerResult, Answers
    <3> QED
      BY <2>1, <2>4, <3>1, <1>a DEF AnswerStatus, TypeOK
  <2>5. CASE FailGather(r, k)
    <3>1. \E a \in Answers : Reply(r, a)
      BY <2>5, ErrorsAreAnswers DEF FailGather, ReplyRaised
    <3> QED
      BY <2>1, <2>5, <3>1, <1>a DEF FailGather, TypeOK
  <2>6. CASE DropOrphan(r, k)
    BY <2>1, <2>6 DEF DropOrphan, TypeOK
  <2> QED
    BY <1>5, <2>2, <2>3, <2>4, <2>5, <2>6 DEF ReadStep
<1>6. CASE Fund
  BY <1>6, MaxGasAssumption DEF Fund, TypeOK
<1>7. CASE UNCHANGED vars
  BY <1>7 DEF vars, TypeOK
<1> QED
  BY <1>1, <1>2, <1>3, <1>4, <1>5, <1>6, <1>7 DEF Next

\* In every behaviour of the bridge each variable keeps its type: coroutines
\* and jobs stay in known states, the pool and the lock's queue hold only jobs
\* and requests, and the wallet's balance stays within its bounds.
THEOREM TypeCorrect == Spec => []TypeOK
BY TypeInit, TypeNext, PTL DEF Spec

-----------------------------------------------------------------------------
(* What each step does to the label and the exchange job of its request;   *)
(* those of the others stay.                                               *)

Moves(r, label, state) ==
  /\ pc' = [pc EXCEPT ![r] = label]
  /\ \A q \in Requests : ExchangeJob(q)' = IF q = r THEN state ELSE ExchangeJob(q)

LEMMA SwapNothing ==
  ASSUME TypeOK, NEW t, SwapJobs(t, <<>>)
  PROVE  \A u \in Jobs : job'[u] = job[u]
BY DEF SwapJobs

LEMMA SwapOne ==
  ASSUME TypeOK, NEW t, NEW u \in Jobs, SwapJobs(t, <<u>>)
  PROVE  \A v \in Jobs : job'[v] = IF v = u THEN "pending" ELSE job[v]
BY DEF SwapJobs

LEMMA DiagnosticJobs ==
  ASSUME NEW r \in Requests
  PROVE  /\ \A i \in 1..Len(PingJobs(r)) : PingJobs(r)[i][1] = r /\ PingJobs(r)[i][2] \in DiagnosticKinds
         /\ \A i \in 1..Len(StatusJobs(r)) : StatusJobs(r)[i][1] = r /\ StatusJobs(r)[i][2] \in DiagnosticKinds
<1> DEFINE Diagnostic(s) == \A i \in 1..Len(s) : s[i][1] = r /\ s[i][2] \in DiagnosticKinds
<1> DEFINE Chain == IF config.chain THEN <<<<r, "chain">>>> ELSE <<>>
           Id    == IF config.web3 THEN <<<<r, "chainId">>>> ELSE <<>>
           Gas1  == IF config.chain THEN <<<<r, "gasChain">>>> ELSE <<>>
           Gas2  == IF GasReadable THEN <<<<r, "gas">>>> ELSE <<>>
<1>1. Chain \in Seq(Jobs) /\ Id \in Seq(Jobs) /\ Gas1 \in Seq(Jobs) /\ Gas2 \in Seq(Jobs)
  BY EmptySeq DEF Jobs, Kinds
<1>2. Diagnostic(Chain) /\ Diagnostic(Id) /\ Diagnostic(Gas1) /\ Diagnostic(Gas2)
  BY DEF DiagnosticKinds
<1>3. ASSUME NEW s \in Seq(Jobs), NEW u \in Seq(Jobs), Diagnostic(s), Diagnostic(u)
      PROVE  s \o u \in Seq(Jobs) /\ Diagnostic(s \o u)
  BY <1>3, ConcatProperties
<1>4. PingJobs(r) = Chain \o Id /\ StatusJobs(r) = (Chain \o Id \o Gas1) \o Gas2
  BY DEF PingJobs, StatusJobs
<1> HIDE DEF Chain, Id, Gas1, Gas2, Diagnostic
<1>5. Chain \o Id \in Seq(Jobs) /\ Diagnostic(Chain \o Id)
  BY <1>1, <1>2, <1>3
<1>6. Chain \o Id \o Gas1 \in Seq(Jobs) /\ Diagnostic(Chain \o Id \o Gas1)
  BY <1>1, <1>2, <1>3, <1>5
<1>7. Diagnostic((Chain \o Id \o Gas1) \o Gas2)
  BY <1>1, <1>2, <1>3, <1>6
<1> QED
  BY <1>4, <1>5, <1>7 DEF Diagnostic

LEMMA SwapDiagnostics ==
  ASSUME TypeOK, NEW r \in Requests, NEW t,
         SwapJobs(t, PingJobs(r)) \/ SwapJobs(t, StatusJobs(r))
  PROVE  \A u \in Jobs : u[2] \notin DiagnosticKinds \/ u[1] # r => job'[u] = job[u]
BY DiagnosticJobs DEF SwapJobs

LEMMA ArriveMoves ==
  ASSUME TypeOK, NEW r \in Requests, Arrive(r)
  PROVE  Moves(r, "auth", ExchangeJob(r))
BY DEF Arrive, Goto, Moves, ExchangeJob, TypeOK, Jobs, Kinds

LEMMA LoopStepMoves ==
  ASSUME TypeOK, NEW r \in Requests, LoopStep(r)
  PROVE  \/ Deny(r) /\ Moves(r, "done", ExchangeJob(r))
         \/ StartGasCheck(r) /\ Moves(r, "gas", ExchangeJob(r))
         \/ FailGasCheck(r) /\ Moves(r, "done", ExchangeJob(r))
         \/ MissingMethod(r) /\ Moves(r, "done", ExchangeJob(r))
         \/ AcquireLock(r) /\ Moves(r, "exchange", "pending")
         \/ QueueForLock(r) /\ Moves(r, "lock", ExchangeJob(r))
         \/ WakeUp(r) /\ Moves(r, "exchange", "pending")
         \/ RaiseExchangeError(r) /\ Moves(r, "done", ExchangeJob(r))
         \/ AnswerCall(r) /\ Moves(r, "done", ExchangeJob(r))
         \/ Augment(r) /\ Moves(r, "augment", ExchangeJob(r))
         \/ StartPing(r) /\ (Moves(r, "done", ExchangeJob(r)) \/ Moves(r, "ping", ExchangeJob(r)))
<1>j. \A q \in Requests : \A k \in Kinds : <<q, k>> \in Jobs
  BY DEF Jobs
<1>1. ASSUME NEW label, NEW t, Goto(r, label), SwapJobs(t, <<>>)
      PROVE  Moves(r, label, ExchangeJob(r))
  BY <1>1, <1>j, SwapNothing DEF Moves, Goto, ExchangeJob, Kinds
<1>2. ASSUME NEW label, NEW t, Goto(r, label), SwapJobs(t, <<<<r, "gas">>>>)
      PROVE  Moves(r, label, ExchangeJob(r))
  BY <1>2, <1>j, SwapOne DEF Moves, Goto, ExchangeJob, Kinds
<1>3. ASSUME NEW label, NEW t, Goto(r, label), SwapJobs(t, <<<<r, "exchange">>>>)
      PROVE  Moves(r, label, "pending")
  BY <1>3, <1>j, SwapOne DEF Moves, Goto, ExchangeJob, Kinds
<1>4. ASSUME NEW label, NEW t, Goto(r, label),
             SwapJobs(t, PingJobs(r)) \/ SwapJobs(t, StatusJobs(r))
      PROVE  Moves(r, label, ExchangeJob(r))
  <2>1. \A q \in Requests : job'[<<q, "exchange">>] = job[<<q, "exchange">>]
    BY <1>4, <1>j, SwapDiagnostics DEF DiagnosticKinds, Kinds
  <2> QED
    BY <1>4, <2>1 DEF Moves, Goto, ExchangeJob
<1>5. CASE Deny(r)
  BY <1>5, <1>1 DEF Deny, Reply
<1>6. CASE StartGasCheck(r)
  BY <1>6, <1>2 DEF StartGasCheck
<1>7. CASE FailGasCheck(r)
  BY <1>7, <1>1 DEF FailGasCheck, ReplyRaised, Reply
<1>8. CASE MissingMethod(r)
  BY <1>8, <1>1 DEF MissingMethod, Reply
<1>9. CASE AcquireLock(r)
  BY <1>9, <1>3 DEF AcquireLock, EnterExchange
<1>10. CASE QueueForLock(r)
  BY <1>10, <1>1 DEF QueueForLock
<1>11. CASE WakeUp(r)
  BY <1>11, <1>j DEF WakeUp, Goto, Moves, ExchangeJob, TypeOK, Kinds
<1>12. CASE RaiseExchangeError(r)
  BY <1>12, <1>1 DEF RaiseExchangeError, LeaveLock, ReplyRaised, Reply
<1>13. CASE AnswerCall(r)
  BY <1>13, <1>1 DEF AnswerCall, AnswerResult, LeaveLock, Reply
<1>14. CASE Augment(r)
  BY <1>14, <1>4 DEF Augment, LeaveLock
<1>15. CASE StartPing(r)
  BY <1>15, <1>4 DEF StartPing, Reply
<1> QED
  BY <1>5, <1>6, <1>7, <1>8, <1>9, <1>10, <1>11, <1>12, <1>13, <1>14, <1>15 DEF LoopStep

LEMMA ReadGasMoves ==
  ASSUME TypeOK, NEW r \in Requests, ReadGas(r)
  PROVE  Moves(r, pc[r], ExchangeJob(r))
<1>1. \A q \in Requests : job'[<<q, "exchange">>] = job[<<q, "exchange">>]
  BY DEF ReadGas, TypeOK, Jobs, Kinds
<1> QED
  BY <1>1 DEF ReadGas, Moves, ExchangeJob, TypeOK

LEMMA ExchangeStepMoves ==
  ASSUME TypeOK, NEW r \in Requests, ExchangeStep(r)
  PROVE  \/ BeginExchange(r) /\ Moves(r, pc[r], "begun")
         \/ Broadcast(r) /\ Moves(r, pc[r], "sent")
         \/ DrawAgain(r) /\ Moves(r, pc[r], "begun")
         \/ RefuseBroadcast(r) /\ Moves(r, pc[r], "err")
         \/ EndExchange(r) /\ \E outcome \in {"ok", "err"} : Moves(r, pc[r], outcome)
<1>j. \A q \in Requests : <<q, "exchange">> \in Jobs
  BY DEF Jobs, Kinds
<1>1. ASSUME NEW state, pc' = pc, job' = [job EXCEPT ![<<r, "exchange">>] = state]
      PROVE  Moves(r, pc[r], state)
  BY <1>1, <1>j DEF Moves, ExchangeJob, TypeOK
<1>2. CASE BeginExchange(r)
  BY <1>2, <1>1 DEF BeginExchange
<1>3. CASE Broadcast(r)
  BY <1>3, <1>1 DEF Broadcast
<1>4. CASE RefuseBroadcast(r)
  BY <1>4, <1>1 DEF RefuseBroadcast
<1>5. CASE EndExchange(r)
  BY <1>5, <1>1 DEF EndExchange
<1>6. CASE DrawAgain(r)
  BY <1>6, <1>1 DEF DrawAgain
<1> QED
  BY <1>2, <1>3, <1>4, <1>5, <1>6 DEF ExchangeStep

LEMMA ReadStepMoves ==
  ASSUME TypeOK, NEW r \in Requests, NEW k \in DiagnosticKinds, ReadStep(r, k)
  PROVE  \/ AwaitMoreReads(r, k) /\ Moves(r, pc[r], ExchangeJob(r))
         \/ AnswerPing(r, k) /\ Moves(r, "done", ExchangeJob(r))
         \/ AnswerStatus(r, k) /\ Moves(r, "done", ExchangeJob(r))
         \/ FailGather(r, k) /\ Moves(r, "done", ExchangeJob(r))
         \/ DropOrphan(r, k) /\ Moves(r, pc[r], ExchangeJob(r))
<1>1. ASSUME NEW good, ReadBack(r, k, good)
      PROVE  \A q \in Requests : ExchangeJob(q)' = ExchangeJob(q)
  BY <1>1 DEF ReadBack, ExchangeJob, TypeOK, Jobs, Kinds, DiagnosticKinds
<1>2. CASE AwaitMoreReads(r, k)
  BY <1>2, <1>1 DEF AwaitMoreReads, Moves, TypeOK
<1>3. CASE AnswerPing(r, k)
  BY <1>3, <1>1 DEF AnswerPing, Reply, Goto, Moves
<1>4. CASE AnswerStatus(r, k)
  BY <1>4, <1>1 DEF AnswerStatus, AnswerResult, Reply, Goto, Moves
<1>5. CASE FailGather(r, k)
  BY <1>5, <1>1 DEF FailGather, ReplyRaised, Reply, Goto, Moves
<1>6. CASE DropOrphan(r, k)
  BY <1>6, <1>1 DEF DropOrphan, Moves, TypeOK
<1> QED
  BY <1>2, <1>3, <1>4, <1>5, <1>6 DEF ReadStep

-----------------------------------------------------------------------------
(* Mutual exclusion.                                                       *)

\* The lock is taken where a coroutine enters the label "exchange" and touched
\* nowhere else but where one leaves it.
LockFollows(r, label) ==
  /\ pc[r] # "exchange" /\ label = "exchange" => ~locked /\ locked'
  /\ (pc[r] = "exchange" <=> label = "exchange") => locked' = locked

LEMMA LockStep ==
  ASSUME TypeOK, LockInv, NEW r \in Requests, NEW label, NEW state,
         Moves(r, label, state), LockFollows(r, label)
  PROVE  LockInv'
BY DEF TypeOK, LockInv, Moves, LockFollows

LEMMA JobStep ==
  ASSUME TypeOK, JobInv, NEW r \in Requests, NEW label, NEW state,
         Moves(r, label, state), UNCHANGED shape,
         \A q \in Requests \ {r} : runs'[q] = runs[q],
         JobFitsLabel(r)'
  PROVE  JobInv'
<1> SUFFICES ASSUME NEW q \in Requests, q # r
             PROVE  JobFitsLabel(q)'
  BY DEF JobInv
<1>1. pc'[q] = pc[q] /\ ExchangeJob(q)' = ExchangeJob(q) /\ runs'[q] = runs[q]
  BY DEF Moves, TypeOK
<1> QED
  BY <1>1 DEF JobInv, JobFitsLabel

LEMMA ControlInit == Init => LockInv /\ JobInv
BY DEF Init, LockInv, JobInv, JobFitsLabel, ExchangeJob, Jobs, Kinds

LEMMA ControlNext == TypeOK /\ LockInv /\ JobInv /\ [Next]_vars => (LockInv /\ JobInv)'
<1> SUFFICES ASSUME TypeOK, LockInv, JobInv, [Next]_vars
             PROVE  (LockInv /\ JobInv)'
  OBVIOUS
<1> USE DEF requestVars, chainVars
<1>s. ASSUME NEW r \in Requests, NEW label, NEW state, Moves(r, label, state),
             LockFollows(r, label), UNCHANGED shape,
             \A q \in Requests \ {r} : runs'[q] = runs[q],
             JobFitsLabel(r)'
      PROVE  (LockInv /\ JobInv)'
  BY <1>s, LockStep, JobStep
<1>m. ASSUME NEW r \in Requests, NEW label, NEW state, Moves(r, label, state)
      PROVE  pc'[r] = label /\ ExchangeJob(r)' = state
  BY <1>m DEF Moves, TypeOK
<1>1. ASSUME NEW r \in Requests, Arrive(r)
      PROVE  (LockInv /\ JobInv)'
  <2>1. Moves(r, "auth", ExchangeJob(r))
    BY <1>1, ArriveMoves
  <2>2. JobFitsLabel(r)'
    BY <1>1, <1>m, <2>1 DEF Arrive, JobInv, JobFitsLabel
  <2> QED
    BY <1>1, <1>s, <2>1, <2>2 DEF Arrive, LockFollows
<1>2. ASSUME NEW r \in Requests, LoopStep(r)
      PROVE  (LockInv /\ JobInv)'
  <2>1. CASE Deny(r) /\ Moves(r, "done", ExchangeJob(r))
    <3>1. JobFitsLabel(r)'
      BY <2>1, <1>m DEF Deny, Authenticated, JobInv, JobFitsLabel
    <3> QED
      BY <2>1, <3>1, <1>s DEF Deny, Authenticated, LockFollows
  <2>2. CASE StartGasCheck(r) /\ Moves(r, "gas", ExchangeJob(r))
    <3>1. JobFitsLabel(r)'
      BY <2>2, <1>m DEF StartGasCheck, Authenticated, JobInv, JobFitsLabel
    <3> QED
      BY <2>2, <3>1, <1>s DEF StartGasCheck, Authenticated, LockFollows
  <2>3. CASE FailGasCheck(r) /\ Moves(r, "done", ExchangeJob(r))
    <3>1. JobFitsLabel(r)'
      BY <2>3, <1>m DEF FailGasCheck, GasRead, JobInv, JobFitsLabel
    <3> QED
      BY <2>3, <3>1, <1>s DEF FailGasCheck, GasRead, LockFollows
  <2>p. PassedChecks(r) => pc[r] \in {"auth", "gas"}
    BY DEF PassedChecks, Authenticated, GasRead
  <2>q. Returned(r) => pc[r] = "exchange" /\ ExchangeJob(r) \in {"ok", "err"}
    BY DEF Returned, ExchangeJob
  <2>4. CASE MissingMethod(r) /\ Moves(r, "done", ExchangeJob(r))
    <3>1. JobFitsLabel(r)'
      BY <2>4, <2>p, <1>m DEF MissingMethod, JobInv, JobFitsLabel
    <3> QED
      BY <2>4, <2>p, <3>1, <1>s DEF MissingMethod, LockFollows
  <2>5. CASE AcquireLock(r) /\ Moves(r, "exchange", "pending")
    <3>1. JobFitsLabel(r)'
      BY <2>5, <2>p, <1>m DEF AcquireLock, EnterExchange, JobInv, JobFitsLabel
    <3> QED
      BY <2>5, <2>p, <3>1, <1>s DEF AcquireLock, EnterExchange, LockIsFree, LockFollows
  <2>6. CASE QueueForLock(r) /\ Moves(r, "lock", ExchangeJob(r))
    <3>1. JobFitsLabel(r)'
      BY <2>6, <2>p, <1>m DEF QueueForLock, JobInv, JobFitsLabel
    <3> QED
      BY <2>6, <2>p, <3>1, <1>s DEF QueueForLock, LockFollows
  <2>7. CASE WakeUp(r) /\ Moves(r, "exchange", "pending")
    <3>1. JobFitsLabel(r)'
      BY <2>7, <1>m DEF WakeUp, JobInv, JobFitsLabel
    <3> QED
      BY <2>7, <3>1, <1>s DEF WakeUp, LockFollows
  <2>8. CASE RaiseExchangeError(r) /\ Moves(r, "done", ExchangeJob(r))
    <3>1. JobFitsLabel(r)'
      BY <2>8, <2>q, <1>m DEF RaiseExchangeError, LeaveLock, JobInv, JobFitsLabel
    <3> QED
      BY <2>8, <3>1, <1>s DEF RaiseExchangeError, Returned, LeaveLock, LockFollows
  <2>9. CASE AnswerCall(r) /\ Moves(r, "done", ExchangeJob(r))
    <3>1. JobFitsLabel(r)'
      BY <2>9, <2>q, <1>m DEF AnswerCall, LeaveLock, JobInv, JobFitsLabel
    <3> QED
      BY <2>9, <3>1, <1>s DEF AnswerCall, Returned, LeaveLock, LockFollows
  <2>10. CASE Augment(r) /\ Moves(r, "augment", ExchangeJob(r))
    <3>0. ExchangeJob(r) = "ok"
      BY <2>10 DEF Augment, ExchangeJob
    <3>1. JobFitsLabel(r)'
      BY <3>0, <2>10, <2>q, <1>m DEF Augment, LeaveLock, JobInv, JobFitsLabel
    <3> QED
      BY <2>10, <3>1, <1>s DEF Augment, Returned, LeaveLock, LockFollows
  <2>11. ASSUME StartPing(r), NEW label \in {"done", "ping"}, Moves(r, label, ExchangeJob(r))
         PROVE  (LockInv /\ JobInv)'
    <3>1. JobFitsLabel(r)'
      BY <2>11, <1>m DEF StartPing, Authenticated, JobInv, JobFitsLabel
    <3> QED
      BY <2>11, <3>1, <1>s DEF StartPing, Authenticated, LockFollows
  <2> QED
    BY <1>2, <2>1, <2>2, <2>3, <2>4, <2>5, <2>6, <2>7, <2>8, <2>9, <2>10, <2>11, LoopStepMoves
<1>3. ASSUME NEW r \in Requests, ReadGas(r)
      PROVE  (LockInv /\ JobInv)'
  <2>1. Moves(r, pc[r], ExchangeJob(r))
    BY <1>3, ReadGasMoves
  <2>2. JobFitsLabel(r)'
    BY <1>3, <1>m, <2>1 DEF ReadGas, JobInv, JobFitsLabel
  <2> QED
    BY <1>3, <1>s, <2>1, <2>2 DEF ReadGas, LockFollows
<1>4. ASSUME NEW r \in Requests, ExchangeStep(r)
      PROVE  (LockInv /\ JobInv)'
  <2>j. pc[r] \in Labels /\ (ExchangeJob(r) \in {"pending", "begun", "sent"} => pc[r] = "exchange")
    BY DEF JobInv, JobFitsLabel, TypeOK, Labels
  <2>b. ExchangeJob(r) \in {"begun", "sent"} => pc[r] = "exchange" /\ runs[r] = 1
    BY <2>j DEF JobInv, JobFitsLabel
  <2>1. CASE BeginExchange(r) /\ Moves(r, pc[r], "begun")
    <3>1. JobFitsLabel(r)' /\ \A q \in Requests \ {r} : runs'[q] = runs[q]
      BY <2>1, <2>j, <1>m DEF BeginExchange, ExchangeJob, JobInv, JobFitsLabel, TypeOK
    <3> QED
      BY <2>1, <3>1, <1>s DEF BeginExchange, LockFollows
  <2>2. CASE Broadcast(r) /\ Moves(r, pc[r], "sent")
    <3>0. ExchangeJob(r) = "begun" /\ pc' = pc /\ runs' = runs /\ shape' = shape
      BY <2>2 DEF Broadcast, ExchangeJob
    <3>1. JobFitsLabel(r)'
      BY <3>0, <2>2, <2>b, <1>m DEF JobFitsLabel
    <3> QED
      BY <2>2, <3>1, <1>s DEF Broadcast, LockFollows
  <2>3. CASE RefuseBroadcast(r) /\ Moves(r, pc[r], "err")
    <3>0. ExchangeJob(r) = "begun" /\ pc' = pc /\ runs' = runs /\ shape' = shape
      BY <2>3 DEF RefuseBroadcast, ExchangeJob
    <3>1. JobFitsLabel(r)'
      BY <3>0, <2>3, <2>b, <1>m DEF JobFitsLabel
    <3> QED
      BY <2>3, <3>1, <1>s DEF RefuseBroadcast, LockFollows
  <2>4. ASSUME EndExchange(r), NEW outcome \in {"ok", "err"}, Moves(r, pc[r], outcome)
        PROVE  (LockInv /\ JobInv)'
    <3>0. /\ ExchangeJob(r) \in {"begun", "sent"} /\ ExchangeJob(r)' \in {"ok", "err"}
          /\ pc' = pc /\ runs' = runs /\ shape' = shape
      BY <2>4, <1>m DEF EndExchange, ExchangeJob
    <3>1. JobFitsLabel(r)'
      BY <3>0, <2>b DEF JobFitsLabel
    <3> QED
      BY <2>4, <3>1, <1>s DEF EndExchange, LockFollows
  <2>5. CASE DrawAgain(r) /\ Moves(r, pc[r], "begun")
    <3>0. ExchangeJob(r) = "sent" /\ pc' = pc /\ runs' = runs /\ shape' = shape
      BY <2>5 DEF DrawAgain, ExchangeJob
    <3>1. JobFitsLabel(r)'
      BY <3>0, <2>5, <2>b, <1>m DEF JobFitsLabel
    <3> QED
      BY <2>5, <3>1, <1>s DEF DrawAgain, LockFollows
  <2> QED
    BY <1>4, <2>1, <2>2, <2>3, <2>4, <2>5, ExchangeStepMoves
<1>5. ASSUME NEW r \in Requests, NEW k \in DiagnosticKinds, ReadStep(r, k)
      PROVE  (LockInv /\ JobInv)'
  <2>r. ASSUME NEW good, ReadBack(r, k, good)
        PROVE  UNCHANGED <<shape, runs, locked>>
    BY <2>r DEF ReadBack
  <2>1. UNCHANGED <<shape, runs, locked>>
    BY <1>5, <2>r DEF ReadStep, AwaitMoreReads, AnswerPing, AnswerStatus, FailGather, DropOrphan
  <2>2. CASE Moves(r, pc[r], ExchangeJob(r))
    <3>1. JobFitsLabel(r)'
      BY <2>1, <2>2, <1>m DEF JobInv, JobFitsLabel
    <3> QED
      BY <2>1, <2>2, <3>1, <1>s DEF LockFollows
  <2>3. CASE pc[r] \in {"ping", "augment"} /\ Moves(r, "done", ExchangeJob(r))
    <3>1. JobFitsLabel(r)'
      BY <2>1, <2>3, <1>m DEF JobInv, JobFitsLabel
    <3> QED
      BY <2>1, <2>3, <3>1, <1>s DEF LockFollows
  <2> QED
    BY <1>5, <2>2, <2>3, ReadStepMoves DEF AnswerPing, AnswerStatus, FailGather, Gathering
<1>6. CASE Fund
  BY <1>6 DEF Fund, LockInv, JobInv, JobFitsLabel, ExchangeJob
<1>7. CASE UNCHANGED vars
  BY <1>7 DEF vars, LockInv, JobInv, JobFitsLabel, ExchangeJob
<1> QED
  BY <1>1, <1>2, <1>3, <1>4, <1>5, <1>6, <1>7 DEF Next

LEMMA ControlInvariant == Spec => [](TypeOK /\ LockInv /\ JobInv)
BY TypeInit, TypeNext, ControlInit, ControlNext, PTL DEF Spec

LEMMA RunsUnderLock ==
  ASSUME TypeOK, JobInv, NEW r \in Requests, ExchangeJob(r) \in {"pending", "begun", "sent"}
  PROVE  pc[r] = "exchange"
BY DEF TypeOK, Labels, JobInv, JobFitsLabel

LEMMA LockExcludes == TypeOK /\ LockInv /\ JobInv => ExchangeExclusive
BY RunsUnderLock DEF LockInv, ExchangeExclusive, InExchange, ExchangeJob

\* The exchange methods are mutually exclusive for any number of requests and
\* of threads: the asyncio.Lock in BridgeRuntime.call does its job.
THEOREM ExchangeIsExclusive == Spec => []ExchangeExclusive
BY ControlInvariant, LockExcludes, PTL
=============================================================================
