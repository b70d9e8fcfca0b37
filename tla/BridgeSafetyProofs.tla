-------------------------- MODULE BridgeSafetyProofs --------------------------
(***************************************************************************)
(* The safety properties of BridgeRuntime that rest on mutual exclusion:   *)
(* nonces, answers, gates, transactions, and the order at the lock.        *)
(***************************************************************************)
EXTENDS BridgeRuntimeProofs

\* A step that some request takes.
StepOf(r) ==
  \/ Arrive(r)
  \/ LoopStep(r)
  \/ ReadGas(r)
  \/ ExchangeStep(r)
  \/ \E k \in DiagnosticKinds : ReadStep(r, k)

LEMMA NextCases ==
  ASSUME [Next]_vars
  PROVE  (\E r \in Requests : StepOf(r)) \/ Fund \/ UNCHANGED vars
BY DEF Next, StepOf

-----------------------------------------------------------------------------
(* What no step changes: the settings and the requests' contents, and all  *)
(* that is decided by them.                                                *)

LEMMA RequestsFixed ==
  ASSUME [Next]_vars
  PROVE  UNCHANGED requestVars
<1>1. ASSUME NEW r \in Requests, NEW k, ReadStep(r, k)
      PROVE  UNCHANGED requestVars
  <2>1. \E good \in BOOLEAN : ReadBack(r, k, good)
    BY <1>1 DEF ReadStep, AwaitMoreReads, AnswerPing, AnswerStatus, FailGather, DropOrphan
  <2> QED
    BY <2>1 DEF ReadBack
<1>2. ASSUME NEW r \in Requests, LoopStep(r)
      PROVE  UNCHANGED requestVars
  BY <1>2 DEF LoopStep, Deny, StartGasCheck, FailGasCheck, MissingMethod, AcquireLock,
       EnterExchange, QueueForLock, WakeUp, RaiseExchangeError, AnswerCall, Augment, StartPing, LeaveLock
<1>3. ASSUME NEW r \in Requests, ExchangeStep(r)
      PROVE  UNCHANGED requestVars
  BY <1>3 DEF ExchangeStep, BeginExchange, Broadcast, DrawAgain, RefuseBroadcast, EndExchange
<1>4. ASSUME NEW r \in Requests, Arrive(r) \/ ReadGas(r)
      PROVE  UNCHANGED requestVars
  BY <1>4 DEF Arrive, ReadGas
<1> QED
  BY <1>1, <1>2, <1>3, <1>4, NextCases DEF StepOf, Fund, vars, requestVars

LEMMA DecisionsFixed ==
  ASSUME [Next]_vars, NEW r
  PROVE  /\ shape'[r] = shape[r]
         /\ Method(r)' = Method(r) /\ (Signs(r)' <=> Signs(r))
         /\ (NeedsGasCheck(r)' <=> NeedsGasCheck(r)) /\ Denial(r)' = Denial(r)
BY RequestsFixed DEF requestVars, Method, Signs, NeedsGasCheck, GasReadable, WalletAddress,
     IsReadOnlyMode, Denial, Authorized, AllowedForMode, ErrorSent

-----------------------------------------------------------------------------
(* Nonces.                                                                 *)

\* Only the exchange's thread touches the wallet and the chain, and the loop
\* begins no exchange method by itself.
LEMMA NonceFrame ==
  ASSUME TypeOK, NEW r \in Requests, StepOf(r), ~ExchangeStep(r)
  PROVE  /\ UNCHANGED <<nonce, drawn, sent>>
         /\ \A q \in Requests : ExchangeJob(q)' = "begun" => ExchangeJob(q) = "begun"
<1>m. ASSUME NEW label, NEW state, state = ExchangeJob(r) \/ state = "pending",
             Moves(r, label, state)
      PROVE  \A q \in Requests : ExchangeJob(q)' = "begun" => ExchangeJob(q) = "begun"
  BY <1>m DEF Moves
<1>1. CASE Arrive(r)
  BY <1>1, <1>m, ArriveMoves DEF Arrive, chainVars
<1>2. CASE LoopStep(r)
  <2>1. UNCHANGED <<nonce, drawn, sent>>
    BY <1>2 DEF LoopStep, Deny, StartGasCheck, FailGasCheck, MissingMethod, AcquireLock,
         EnterExchange, QueueForLock, WakeUp, RaiseExchangeError, AnswerCall, Augment, StartPing, LeaveLock,
         chainVars
  <2> QED
    BY <1>2, <1>m, <2>1, LoopStepMoves
<1>3. CASE ReadGas(r)
  BY <1>3, <1>m, ReadGasMoves DEF ReadGas, chainVars
<1>4. ASSUME NEW k \in DiagnosticKinds, ReadStep(r, k)
      PROVE  /\ UNCHANGED <<nonce, drawn, sent>>
             /\ \A q \in Requests : ExchangeJob(q)' = "begun" => ExchangeJob(q) = "begun"
  <2>1. \E good \in BOOLEAN : ReadBack(r, k, good)
    BY <1>4 DEF ReadStep, AwaitMoreReads, AnswerPing, AnswerStatus, FailGather, DropOrphan
  <2>2. UNCHANGED <<nonce, drawn, sent>>
    BY <2>1 DEF ReadBack, chainVars
  <2> QED
    BY <1>4, <1>m, <2>2, ReadStepMoves
<1> QED
  BY <1>1, <1>2, <1>3, <1>4 DEF StepOf

LEMMA NonceNext ==
  TypeOK /\ LockInv /\ JobInv /\ NonceInv /\ [Next]_vars => NonceInv'
<1> SUFFICES ASSUME TypeOK, LockInv, JobInv, NonceInv, [Next]_vars
             PROVE  NonceInv'
  OBVIOUS
<1>f. \A q \in Requests : Signs(q)' <=> Signs(q)
  BY DecisionsFixed
<1>k. ASSUME UNCHANGED <<nonce, drawn, sent>>,
             \A q \in Requests : ExchangeJob(q)' = "begun" => ExchangeJob(q) = "begun"
      PROVE  NonceInv'
  BY <1>f, <1>k DEF NonceInv
<1>1. ASSUME NEW r \in Requests, ExchangeStep(r)
      PROVE  NonceInv'
  <2>x. ASSUME NEW q \in Requests, q # r, ExchangeJob(r) = "begun"
        PROVE  ExchangeJob(q) # "begun"
    BY <2>x, LockExcludes DEF ExchangeExclusive, InExchange, ExchangeJob
  <2>1. CASE BeginExchange(r) /\ Moves(r, pc[r], "begun")
    <3>1. nonce' = nonce /\ sent' = sent
      BY <2>1 DEF BeginExchange
    <3>2. Signs(r) => drawn'[r] = nonce
      BY <2>1 DEF BeginExchange, TypeOK
    <3>3. \A q \in Requests \ {r} : drawn'[q] = drawn[q] /\ ExchangeJob(q)' = ExchangeJob(q)
      BY <2>1 DEF BeginExchange, TypeOK, Moves
    <3> QED
      BY <1>f, <3>1, <3>2, <3>3 DEF NonceInv
  <2>5. CASE DrawAgain(r) /\ Moves(r, pc[r], "begun")
    <3>1. nonce' = nonce /\ sent' = sent /\ drawn'[r] = nonce
      BY <2>5 DEF DrawAgain, TypeOK
    <3>2. \A q \in Requests \ {r} : drawn'[q] = drawn[q] /\ ExchangeJob(q)' = ExchangeJob(q)
      BY <2>5 DEF DrawAgain, TypeOK, Moves
    <3> QED
      BY <1>f, <3>1, <3>2 DEF NonceInv
  <2>2. CASE Broadcast(r) /\ Moves(r, pc[r], "sent")
    <3>1. drawn[r] = nonce /\ nonce \in Nat /\ ExchangeJob(r) = "begun"
      BY <2>2 DEF Broadcast, NonceInv, ExchangeJob, TypeOK
    <3>2. nonce' = nonce + 1 /\ sent' = sent \union {<<r, nonce>>}
      BY <2>2, <3>1 DEF Broadcast
    <3>3. \A x \in sent' : x[2] < nonce'
      BY <3>1, <3>2 DEF NonceInv, TypeOK
    <3>4. \A x, y \in sent' : x[2] = y[2] => x = y
      <4>1. \A x \in sent : x[2] \in Nat /\ x[2] < nonce
        BY DEF NonceInv, TypeOK
      <4>2. \A x \in sent : x[2] # nonce
        BY <3>1, <4>1
      <4>3. \A x \in sent' : x \in sent \/ x = <<r, nonce>>
        BY <3>2
      <4>4. <<r, nonce>>[2] = nonce
        OBVIOUS
      <4> QED
        BY <4>2, <4>3, <4>4 DEF NonceInv
    <3>5. \A q \in Requests : ExchangeJob(q)' # "begun"
      BY <2>2, <2>x, <3>1 DEF Moves
    <3> QED
      BY <3>3, <3>4, <3>5 DEF NonceInv
  <2>3. CASE RefuseBroadcast(r) /\ Moves(r, pc[r], "err")
    <3>1. drawn[r] = nonce /\ nonce \in Nat /\ ExchangeJob(r) = "begun"
      BY <2>3 DEF RefuseBroadcast, NonceInv, ExchangeJob, TypeOK
    <3>2. nonce' = nonce + 1 /\ sent' = sent
      BY <2>3, <3>1 DEF RefuseBroadcast
    <3>3. \A x \in sent' : x[2] < nonce'
      BY <3>1, <3>2 DEF NonceInv, TypeOK
    <3>4. \A q \in Requests : ExchangeJob(q)' # "begun"
      BY <2>3, <2>x, <3>1 DEF Moves
    <3> QED
      BY <3>2, <3>3, <3>4 DEF NonceInv
  <2>4. ASSUME EndExchange(r), NEW outcome \in {"ok", "err"}, Moves(r, pc[r], outcome)
        PROVE  NonceInv'
    <3>1. nonce' = nonce /\ sent' = sent
      BY <2>4 DEF EndExchange
    <3>2. ExchangeJob(r)' # "begun"
      BY <2>4 DEF Moves
    <3>3. \A q \in Requests \ {r} : drawn'[q] = drawn[q] /\ ExchangeJob(q)' = ExchangeJob(q)
      BY <2>4 DEF EndExchange, TypeOK, Moves
    <3> QED
      BY <1>f, <3>1, <3>2, <3>3 DEF NonceInv
  <2> QED
    BY <1>1, <2>1, <2>2, <2>3, <2>4, <2>5, ExchangeStepMoves
<1>2. CASE Fund
  BY <1>2, <1>k DEF Fund, ExchangeJob
<1>3. CASE UNCHANGED vars
  BY <1>3, <1>k DEF vars, ExchangeJob
<1> QED
  BY <1>k, <1>1, <1>2, <1>3, NonceFrame, NextCases

LEMMA NonceInit == Init => NonceInv
BY DEF Init, NonceInv, ExchangeJob, Jobs, Kinds

\* No nonce is ever used by two transactions, although each signing call reads
\* and advances the wallet's nonce in two steps: the lock makes them one.
THEOREM NoncesAreUnique == Spec => []NonceNeverReused
<1>1. NonceInv => NonceNeverReused
  BY DEF NonceInv, NonceNeverReused
<1> QED
  BY <1>1, ControlInvariant, NonceInit, NonceNext, PTL DEF Spec

-----------------------------------------------------------------------------
(* Answers.                                                                *)

\* A step of one request leaves the labels, jobs and answers of the others.
LEMMA OthersStay ==
  ASSUME TypeOK, NEW r \in Requests, StepOf(r)
  PROVE  \A q \in Requests \ {r} :
           /\ pc'[q] = pc[q] /\ answer'[q] = answer[q] /\ runs'[q] = runs[q]
           /\ ExchangeJob(q)' = ExchangeJob(q)
           /\ job'[<<q, "gas">>] = job[<<q, "gas">>]
<1>m. ASSUME NEW label, NEW state, Moves(r, label, state)
      PROVE  \A q \in Requests \ {r} : pc'[q] = pc[q] /\ ExchangeJob(q)' = ExchangeJob(q)
  BY <1>m DEF Moves, TypeOK
<1>1. \A q \in Requests \ {r} : pc'[q] = pc[q] /\ ExchangeJob(q)' = ExchangeJob(q)
  BY <1>m, ArriveMoves, LoopStepMoves, ReadGasMoves, ExchangeStepMoves, ReadStepMoves
     DEF StepOf
<1>a. ASSUME NEW a, Reply(r, a)
      PROVE  \A q \in Requests \ {r} : answer'[q] = answer[q]
  BY <1>a DEF Reply, TypeOK
<1>g. \A q \in Requests : \A k \in Kinds : <<q, k>> \in Jobs
  BY DEF Jobs
<1>s. ASSUME NEW t, NEW k \in Kinds,
             \/ SwapJobs(t, <<>>) \/ SwapJobs(t, <<<<r, k>>>>)
             \/ SwapJobs(t, PingJobs(r)) \/ SwapJobs(t, StatusJobs(r))
      PROVE  \A q \in Requests \ {r} : job'[<<q, "gas">>] = job[<<q, "gas">>]
  BY <1>s, <1>g, SwapNothing, SwapOne, SwapDiagnostics DEF Kinds
<1>u. ASSUME NEW k \in Kinds, NEW state, job' = [job EXCEPT ![<<r, k>>] = state]
      PROVE  \A q \in Requests \ {r} : job'[<<q, "gas">>] = job[<<q, "gas">>]
  BY <1>u, <1>g DEF TypeOK, Kinds
<1> DEFINE Rest == \A q \in Requests \ {r} :
                     /\ answer'[q] = answer[q] /\ runs'[q] = runs[q]
                     /\ job'[<<q, "gas">>] = job[<<q, "gas">>]
<1>2. CASE Arrive(r)
  BY <1>1, <1>2, <1>u DEF Arrive, Kinds
<1>3. CASE LoopStep(r)
  <2>1. runs' = runs
    BY <1>3 DEF LoopStep, Deny, StartGasCheck, FailGasCheck, MissingMethod, AcquireLock,
         EnterExchange, QueueForLock, WakeUp, RaiseExchangeError, AnswerCall, Augment, StartPing, LeaveLock
  <2>2. answer' = answer \/ \E a : Reply(r, a)
    BY <1>3 DEF LoopStep, Deny, StartGasCheck, FailGasCheck, MissingMethod, AcquireLock,
         EnterExchange, QueueForLock, WakeUp, RaiseExchangeError, AnswerCall, AnswerResult,
         ReplyRaised, Augment, StartPing
  <2>3. \/ \E t : \/ SwapJobs(t, <<>>)
                  \/ \E k \in Kinds : SwapJobs(t, <<<<r, k>>>>)
                  \/ SwapJobs(t, PingJobs(r)) \/ SwapJobs(t, StatusJobs(r))
        \/ job' = [job EXCEPT ![<<r, "exchange">>] = "pending"]
    BY <1>3 DEF LoopStep, Deny, StartGasCheck, FailGasCheck, MissingMethod, AcquireLock,
         EnterExchange, QueueForLock, WakeUp, RaiseExchangeError, AnswerCall, Augment, StartPing, LeaveLock,
         Kinds
  <2>4. \A q \in Requests \ {r} : answer'[q] = answer[q]
    BY <2>2, <1>a
  <2>5. "exchange" \in Kinds
    BY DEF Kinds
  <2>6. \A q \in Requests \ {r} : job'[<<q, "gas">>] = job[<<q, "gas">>]
    BY <2>3, <2>5, <1>s, <1>u
  <2> QED
    BY <1>1, <2>1, <2>4, <2>6
<1>4. CASE ReadGas(r)
  BY <1>1, <1>4, <1>u DEF ReadGas, Kinds
<1>5. CASE ExchangeStep(r)
  <2>1. UNCHANGED answer /\ \A q \in Requests \ {r} : runs'[q] = runs[q]
    BY <1>5 DEF ExchangeStep, BeginExchange, Broadcast, DrawAgain, RefuseBroadcast, EndExchange, TypeOK
  <2>2. \E state : job' = [job EXCEPT ![<<r, "exchange">>] = state]
    BY <1>5 DEF ExchangeStep, BeginExchange, Broadcast, DrawAgain, RefuseBroadcast, EndExchange
  <2> QED
    BY <1>1, <1>u, <2>1, <2>2 DEF Kinds
<1>6. ASSUME NEW k \in DiagnosticKinds, ReadStep(r, k)
      PROVE  Rest
  <2>1. \E good \in BOOLEAN : ReadBack(r, k, good)
    BY <1>6 DEF ReadStep, AwaitMoreReads, AnswerPing, AnswerStatus, FailGather, DropOrphan
  <2>2. \E state : job' = [job EXCEPT ![<<r, k>>] = state]
    BY <2>1 DEF ReadBack
  <2>3. runs' = runs
    BY <2>1 DEF ReadBack
  <2>4. \A q \in Requests \ {r} : answer'[q] = answer[q]
    BY <1>6, <1>a DEF ReadStep, AwaitMoreReads, AnswerPing, AnswerStatus, AnswerResult,
         FailGather, ReplyRaised, DropOrphan
  <2>5. k \in Kinds
    BY DEF DiagnosticKinds, Kinds
  <2> QED
    BY <1>u, <2>2, <2>3, <2>4, <2>5
<1> QED
  BY <1>1, <1>2, <1>3, <1>4, <1>5, <1>6 DEF StepOf

\* An exception is never answered with "ok", and one that is not of the bridge's
\* making never with what only the bridge says.
LEMMA ErrorsAreNoSuccess ==
  ASSUME NEW r
  PROVE  /\ \A name \in OwnErrors : ErrorSent(r, name) # "ok"
         /\ Denial(r) # "ok"
         /\ \A a \in ForeignErrors(r) : a # "ok" /\ a \notin OnlyTheBridgeSays
<1>1. \A name \in OwnErrors : ErrorSent(r, name) # "ok"
  BY DEF ErrorSent, OwnErrors
<1>2. Denial(r) # "ok"
  BY <1>1 DEF Denial, OwnErrors
<1>3. \A a \in ForeignErrors(r) : a = "500" \/ a \in Exceptions
  BY DEF ForeignErrors, ErrorSent
<1>4. "500" # "ok" /\ "500" \notin OnlyTheBridgeSays
  BY DEF OnlyTheBridgeSays, OwnErrors
<1>5. \A a \in Exceptions : a # "ok" /\ a \notin OnlyTheBridgeSays
  BY ExceptionsAssumption DEF OnlyTheBridgeSays
<1> QED
  BY <1>1, <1>2, <1>3, <1>4, <1>5

LEMMA AnswerNext ==
  TypeOK /\ JobInv /\ AnswerInv /\ [Next]_vars => AnswerInv'
<1> SUFFICES ASSUME TypeOK, JobInv, AnswerInv, [Next]_vars
             PROVE  AnswerInv'
  OBVIOUS
<1>d. \A q \in Requests : shape'[q] = shape[q]
  BY DecisionsFixed
<1>m. ASSUME NEW r \in Requests, NEW label, NEW state, Moves(r, label, state)
      PROVE  pc'[r] = label /\ ExchangeJob(r)' = state
  BY <1>m DEF Moves, TypeOK
<1>a. ASSUME NEW r \in Requests, NEW a, Reply(r, a)
      PROVE  answer'[r] = a
  BY <1>a DEF Reply, TypeOK
<1>n. ASSUME NEW r \in Requests, pc[r] \in {"new", "auth", "gas", "lock", "ping"}
      PROVE  ExchangeJob(r) = "none"
  BY <1>n DEF JobInv, JobFitsLabel
<1>ok. "ok" \notin OnlyTheBridgeSays
  BY DEF OnlyTheBridgeSays, OwnErrors
<1>s. ASSUME NEW r \in Requests, StepOf(r), AnswerFitsJob(r)'
      PROVE  AnswerInv'
  <2>1. ASSUME NEW q \in Requests, q # r
        PROVE  AnswerFitsJob(q)'
    BY <2>1, <1>s, <1>d, OthersStay DEF AnswerInv, AnswerFitsJob
  <2> QED
    BY <1>s, <2>1 DEF AnswerInv
<1>1. ASSUME NEW r \in Requests, Arrive(r)
      PROVE  AnswerFitsJob(r)'
  BY <1>1, <1>m, ArriveMoves DEF AnswerFitsJob
<1>2. ASSUME NEW r \in Requests, LoopStep(r)
      PROVE  AnswerFitsJob(r)'
  <2> USE DEF AnswerFitsJob
  <2>1. CASE Deny(r) /\ Moves(r, "done", ExchangeJob(r))
    BY <2>1, <1>m, <1>a, <1>n, ErrorsAreNoSuccess DEF Deny, Authenticated
  <2>2. CASE StartGasCheck(r) /\ Moves(r, "gas", ExchangeJob(r))
    BY <2>2, <1>m
  <2>3. CASE FailGasCheck(r) /\ Moves(r, "done", ExchangeJob(r))
    <3>1. \E a : Reply(r, a) /\ a # "ok"
      BY <2>3, ErrorsAreNoSuccess DEF FailGasCheck, ReplyRaised, OwnErrors
    <3> QED
      BY <2>3, <3>1, <1>m, <1>a, <1>n DEF FailGasCheck, GasRead
  <2>4. CASE MissingMethod(r) /\ Moves(r, "done", ExchangeJob(r))
    <3>1. \E a : Reply(r, a) /\ a # "ok"
      BY <2>4, ErrorsAreNoSuccess DEF MissingMethod, OwnErrors
    <3> QED
      BY <2>4, <3>1, <1>m, <1>a, <1>n DEF MissingMethod, PassedChecks, Authenticated, GasRead
  <2>5. CASE AcquireLock(r) /\ Moves(r, "exchange", "pending")
    BY <2>5, <1>m
  <2>6. CASE QueueForLock(r) /\ Moves(r, "lock", ExchangeJob(r))
    BY <2>6, <1>m
  <2>7. CASE WakeUp(r) /\ Moves(r, "exchange", "pending")
    BY <2>7, <1>m
  <2>8. CASE RaiseExchangeError(r) /\ Moves(r, "done", ExchangeJob(r))
    BY <2>8, <1>m, <1>a, ErrorsAreNoSuccess DEF RaiseExchangeError, ReplyRaised
  <2>9. CASE AnswerCall(r) /\ Moves(r, "done", ExchangeJob(r))
    <3>1. ExchangeJob(r) = "ok"
      BY <2>9 DEF AnswerCall, ExchangeJob
    <3> QED
      BY <2>9, <3>1, <1>m, <1>a, <1>ok, ErrorsAreNoSuccess DEF AnswerCall, AnswerResult
  <2>10. CASE Augment(r) /\ Moves(r, "augment", ExchangeJob(r))
    BY <2>10, <1>m
  <2>11. CASE StartPing(r)
    BY <2>11, <1>d DEF StartPing
  <2> QED
    BY <1>2, <2>1, <2>2, <2>3, <2>4, <2>5, <2>6, <2>7, <2>8, <2>9, <2>10, <2>11, LoopStepMoves
<1>3. ASSUME NEW r \in Requests, ReadGas(r)
      PROVE  AnswerFitsJob(r)'
  <2>1. pc'[r] = pc[r] /\ ExchangeJob(r)' = ExchangeJob(r)
    BY <1>3, <1>m, ReadGasMoves
  <2>2. answer' = answer
    BY <1>3 DEF ReadGas
  <2> QED
    BY <2>1, <2>2, <1>d DEF AnswerInv, AnswerFitsJob
<1>4. ASSUME NEW r \in Requests, ExchangeStep(r)
      PROVE  AnswerFitsJob(r)'
  <2>1. ExchangeJob(r) \in {"pending", "begun", "sent"} /\ pc' = pc
    BY <1>4 DEF ExchangeStep, BeginExchange, Broadcast, DrawAgain, RefuseBroadcast, EndExchange, ExchangeJob
  <2> QED
    BY <2>1, RunsUnderLock DEF AnswerFitsJob
<1>5. ASSUME NEW r \in Requests, NEW k \in DiagnosticKinds, ReadStep(r, k)
      PROVE  AnswerFitsJob(r)'
  <2>1. CASE AwaitMoreReads(r, k) /\ Moves(r, pc[r], ExchangeJob(r))
    BY <2>1, <1>m, <1>d DEF AwaitMoreReads, AnswerInv, AnswerFitsJob
  <2>2. CASE AnswerPing(r, k) /\ Moves(r, "done", ExchangeJob(r))
    BY <2>2, <1>m, <1>d DEF AnswerPing, JobInv, JobFitsLabel, AnswerFitsJob
  <2>3. CASE AnswerStatus(r, k) /\ Moves(r, "done", ExchangeJob(r))
    <3>1. ExchangeJob(r) = "ok"
      BY <2>3 DEF AnswerStatus, JobInv, JobFitsLabel
    <3> QED
      BY <2>3, <3>1, <1>m, <1>a, <1>ok, ErrorsAreNoSuccess DEF AnswerStatus, AnswerResult, AnswerFitsJob
  <2>4. CASE FailGather(r, k) /\ Moves(r, "done", ExchangeJob(r))
    BY <2>4, <1>m, <1>a, ErrorsAreNoSuccess DEF FailGather, ReplyRaised, AnswerFitsJob
  <2>5. CASE DropOrphan(r, k) /\ Moves(r, pc[r], ExchangeJob(r))
    BY <2>5, <1>m, <1>d DEF DropOrphan, AnswerInv, AnswerFitsJob
  <2> QED
    BY <1>5, <2>1, <2>2, <2>3, <2>4, <2>5, ReadStepMoves
<1>6. CASE Fund
  BY <1>6, <1>d DEF Fund, AnswerInv, AnswerFitsJob, ExchangeJob
<1>7. CASE UNCHANGED vars
  BY <1>7, <1>d DEF vars, AnswerInv, AnswerFitsJob, ExchangeJob
<1> QED
  BY <1>s, <1>1, <1>2, <1>3, <1>4, <1>5, <1>6, <1>7, NextCases DEF StepOf

LEMMA AnswerInit == Init => AnswerInv
BY DEF Init, AnswerInv, AnswerFitsJob

\* What a client may infer from its answer, whatever the exchange raises: "ok"
\* means one run that succeeded, and what only the bridge says, the HTTP statuses
\* 401 and 422 and the class names that nobody else raises, means that nothing ran.
THEOREM AnswersTellEffects == Spec => []AnswerTellsEffect
<1>1. ASSUME TypeOK, JobInv, AnswerInv
      PROVE  AnswerTellsEffect
  <2> SUFFICES ASSUME NEW r \in Requests, pc[r] = "done", shape[r].route # "ping"
               PROVE  /\ answer[r] = "ok" => runs[r] = 1 /\ job[<<r, "exchange">>] = "ok"
                      /\ answer[r] \in OnlyTheBridgeSays => runs[r] = 0
    BY DEF AnswerTellsEffect
  <2>1. AnswerFitsJob(r) /\ runs[r] = IF ExchangeJob(r) \in {"none", "pending"} THEN 0 ELSE 1
    BY <1>1 DEF AnswerInv, JobInv, JobFitsLabel
  <2> QED
    BY <2>1 DEF AnswerFitsJob, ExchangeJob
<1> QED
  BY <1>1, ControlInvariant, AnswerInit, AnswerNext, PTL DEF Spec

-----------------------------------------------------------------------------
(* Gates.                                                                  *)

\* The request is past the checks before the first await, or past them all.
PastDenial(r) == pc[r] \in {"gas", "lock", "exchange", "augment"} \/ ExchangeJob(r) # "none"
PastChecks(r) == pc[r] \in {"lock", "exchange", "augment"} \/ ExchangeJob(r) # "none"

LEMMA PastOfMove ==
  ASSUME TypeOK, NEW r \in Requests, NEW label, NEW state, Moves(r, label, state)
  PROVE  /\ PastDenial(r)' <=> (label \in {"gas", "lock", "exchange", "augment"} \/ state # "none")
         /\ PastChecks(r)' <=> (label \in {"lock", "exchange", "augment"} \/ state # "none")
BY DEF Moves, PastDenial, PastChecks, TypeOK

LEMMA GateNext ==
  TypeOK /\ JobInv /\ GateInv /\ [Next]_vars => GateInv'
<1> SUFFICES ASSUME TypeOK, JobInv, GateInv, [Next]_vars
             PROVE  GateInv'
  OBVIOUS
<1>d. \A q \in Requests : /\ shape'[q] = shape[q] /\ Method(q)' = Method(q)
                          /\ (NeedsGasCheck(q)' <=> NeedsGasCheck(q)) /\ Denial(q)' = Denial(q)
  BY DecisionsFixed
<1>h. \A q \in Requests :
        /\ PastDenial(q) => Denial(q) = "none" /\ shape[q].route # "ping"
        /\ PastChecks(q) => Method(q) \in ExchangeMethods
                            /\ (NeedsGasCheck(q) => job[<<q, "gas">>] = "ok")
  BY DEF GateInv, GatesHold, PastDenial, PastChecks
<1>n. \A q \in Requests : pc[q] \in {"new", "auth", "gas", "lock", "ping"} => ExchangeJob(q) = "none"
  BY DEF JobInv, JobFitsLabel
<1>k. ASSUME NEW q \in Requests,
             PastDenial(q)' => Denial(q) = "none" /\ shape[q].route # "ping",
             PastChecks(q)' => Method(q) \in ExchangeMethods
                               /\ (NeedsGasCheck(q) => job'[<<q, "gas">>] = "ok")
      PROVE  GatesHold(q)'
  BY <1>k, <1>d DEF GatesHold, PastDenial, PastChecks
<1>l. ASSUME NEW q \in Requests, PastDenial(q)' => PastDenial(q), PastChecks(q)' => PastChecks(q),
             \/ job'[<<q, "gas">>] = job[<<q, "gas">>]
             \/ PastChecks(q)' => ~NeedsGasCheck(q)
      PROVE  GatesHold(q)'
  BY <1>l, <1>k, <1>h
<1>s. ASSUME NEW r \in Requests, StepOf(r), GatesHold(r)'
      PROVE  GateInv'
  <2>1. ASSUME NEW q \in Requests, q # r
        PROVE  GatesHold(q)'
    BY <2>1, <1>s, <1>l, OthersStay DEF PastDenial, PastChecks
  <2> QED
    BY <1>s, <2>1 DEF GateInv
<1>z. ASSUME NEW r \in Requests, ~PastDenial(r)', ~PastChecks(r)'
      PROVE  GatesHold(r)'
  BY <1>z, <1>k
<1>1. ASSUME NEW r \in Requests, Arrive(r)
      PROVE  GatesHold(r)'
  <2>1. ExchangeJob(r) = "none"
    BY <1>1, <1>n DEF Arrive
  <2> QED
    BY <1>1, <2>1, <1>z, ArriveMoves, PastOfMove
<1>2. ASSUME NEW r \in Requests, LoopStep(r)
      PROVE  GatesHold(r)'
  <2>p. ASSUME PassedChecks(r)
        PROVE  /\ ExchangeJob(r) = "none"
               /\ Denial(r) = "none" /\ shape[r].route # "ping"
               /\ NeedsGasCheck(r) => job[<<r, "gas">>] = "ok"
    <3>1. CASE GasRead(r) /\ job[<<r, "gas">>] = "ok"
      BY <3>1, <1>n, <1>h DEF GasRead, PastDenial
    <3>2. CASE Authenticated(r) /\ Denial(r) = "none" /\ shape[r].route # "ping" /\ ~NeedsGasCheck(r)
      BY <3>2, <1>n DEF Authenticated
    <3> QED
      BY <2>p, <3>1, <3>2 DEF PassedChecks
  <2>z. ASSUME \/ Moves(r, "done", ExchangeJob(r))
               \/ Moves(r, "ping", ExchangeJob(r)),
               ExchangeJob(r) = "none"
        PROVE  GatesHold(r)'
    BY <2>z, <1>z, PastOfMove
  <2>s. ASSUME job'[<<r, "gas">>] = job[<<r, "gas">>], Moves(r, "done", ExchangeJob(r))
        PROVE  GatesHold(r)'
    <3>1. ExchangeJob(r) # "none" => PastDenial(r) /\ PastChecks(r)
      BY DEF PastDenial, PastChecks
    <3>2. (PastDenial(r)' <=> ExchangeJob(r) # "none") /\ (PastChecks(r)' <=> ExchangeJob(r) # "none")
      BY <2>s, PastOfMove
    <3> QED
      BY <2>s, <3>1, <3>2, <1>l
  <2>1. CASE Deny(r) /\ Moves(r, "done", ExchangeJob(r))
    BY <2>1, <2>z, <1>n DEF Deny, Authenticated
  <2>2. CASE StartGasCheck(r) /\ Moves(r, "gas", ExchangeJob(r))
    <3>1. ExchangeJob(r) = "none" /\ Denial(r) = "none" /\ shape[r].route # "ping"
      BY <2>2, <1>n DEF StartGasCheck, Authenticated
    <3>2. ~PastChecks(r)'
      BY <2>2, <3>1, PastOfMove
    <3> QED
      BY <3>1, <3>2, <1>k
  <2>3. CASE FailGasCheck(r) /\ Moves(r, "done", ExchangeJob(r))
    BY <2>3, <2>z, <1>n DEF FailGasCheck, GasRead
  <2>4. CASE MissingMethod(r) /\ Moves(r, "done", ExchangeJob(r))
    BY <2>4, <2>z, <2>p DEF MissingMethod
  <2>5. CASE AcquireLock(r) \/ QueueForLock(r)
    <3>1. PassedChecks(r) /\ Method(r) \in ExchangeMethods
      BY <2>5 DEF AcquireLock, EnterExchange, QueueForLock
    <3>2. job'[<<r, "gas">>] = job[<<r, "gas">>]
      <4>1. <<r, "gas">> \in Jobs /\ <<r, "exchange">> \in Jobs
        BY DEF Jobs, Kinds
      <4>2. CASE SwapJobs(LastCheck(r), <<>>)
        BY <4>1, <4>2, SwapNothing
      <4>3. CASE SwapJobs(LastCheck(r), <<<<r, "exchange">>>>)
        BY <4>1, <4>3, SwapOne
      <4> QED
        BY <2>5, <4>2, <4>3 DEF AcquireLock, EnterExchange, QueueForLock
    <3> QED
      BY <3>1, <3>2, <2>p, <1>k
  <2>6. CASE WakeUp(r)
    <3>1. PastDenial(r) /\ PastChecks(r)
      BY <2>6 DEF WakeUp, PastDenial, PastChecks
    <3>2. job'[<<r, "gas">>] = job[<<r, "gas">>]
      BY <2>6 DEF WakeUp, TypeOK, Jobs, Kinds
    <3> QED
      BY <3>1, <3>2, <1>l
  <2>7. CASE (RaiseExchangeError(r) \/ AnswerCall(r)) /\ Moves(r, "done", ExchangeJob(r))
    <3>1. job'[<<r, "gas">>] = job[<<r, "gas">>]
      <4>1. <<r, "gas">> \in Jobs
        BY DEF Jobs, Kinds
      <4>2. \E t : SwapJobs(t, <<>>)
        BY <2>7 DEF RaiseExchangeError, AnswerCall, LeaveLock
      <4> QED
        BY <4>1, <4>2, SwapNothing
    <3> QED
      BY <2>7, <3>1, <2>s
  <2>8. CASE Augment(r)
    <3>1. PastDenial(r) /\ PastChecks(r)
      BY <2>8 DEF Augment, Returned, PastDenial, PastChecks
    <3>2. ~NeedsGasCheck(r)
      BY <2>8 DEF Augment, NeedsGasCheck, Signs, SIGNING_REQUIRED_METHODS
    <3> QED
      BY <3>1, <3>2, <1>l
  <2>9. CASE StartPing(r) /\ (Moves(r, "done", ExchangeJob(r)) \/ Moves(r, "ping", ExchangeJob(r)))
    BY <2>9, <2>z, <1>n DEF StartPing, Authenticated
  <2> QED
    BY <1>2, <2>1, <2>2, <2>3, <2>4, <2>5, <2>6, <2>7, <2>8, <2>9, LoopStepMoves
<1>3. ASSUME NEW r \in Requests, ReadGas(r)
      PROVE  GatesHold(r)'
  <2>1. (PastDenial(r)' <=> PastDenial(r)) /\ (PastChecks(r)' <=> PastChecks(r))
    BY <1>3, ReadGasMoves, PastOfMove DEF PastDenial, PastChecks
  <2>2. PastChecks(r) => ~NeedsGasCheck(r)
    BY <1>3, <1>h DEF ReadGas
  <2> QED
    BY <2>1, <2>2, <1>l
<1>4. ASSUME NEW r \in Requests, ExchangeStep(r)
      PROVE  GatesHold(r)'
  <2>1. ExchangeJob(r) \in {"pending", "begun", "sent"}
    BY <1>4 DEF ExchangeStep, BeginExchange, Broadcast, DrawAgain, RefuseBroadcast, EndExchange, ExchangeJob
  <2>2. PastDenial(r) /\ PastChecks(r)
    BY <2>1 DEF PastDenial, PastChecks
  <2>3. job'[<<r, "gas">>] = job[<<r, "gas">>]
    <3>1. \E state : job' = [job EXCEPT ![<<r, "exchange">>] = state]
      BY <1>4 DEF ExchangeStep, BeginExchange, Broadcast, DrawAgain, RefuseBroadcast, EndExchange
    <3> QED
      BY <3>1 DEF TypeOK, Jobs, Kinds
  <2> QED
    BY <2>2, <2>3, <1>l
<1>5. ASSUME NEW r \in Requests, NEW k \in DiagnosticKinds, ReadStep(r, k)
      PROVE  GatesHold(r)'
  <2>1. \/ Moves(r, pc[r], ExchangeJob(r))
        \/ Moves(r, "done", ExchangeJob(r))
    BY <1>5, ReadStepMoves
  <2>2. (PastDenial(r)' => PastDenial(r)) /\ (PastChecks(r)' => PastChecks(r))
    BY <2>1, PastOfMove DEF PastDenial, PastChecks
  <2>3. job'[<<r, "gas">>] = job[<<r, "gas">>]
    <3>1. StepOf(r)
      BY <1>5 DEF StepOf
    <3>2. ReadBack(r, k, TRUE) \/ ReadBack(r, k, FALSE)
      BY <1>5 DEF ReadStep, AwaitMoreReads, AnswerPing, AnswerStatus, FailGather, DropOrphan
    <3>3. CASE k # "gas"
      <4>1. \E state : job' = [job EXCEPT ![<<r, k>>] = state]
        BY <3>2 DEF ReadBack
      <4> QED
        BY <3>3, <4>1 DEF TypeOK, Jobs, Kinds, DiagnosticKinds
    <3>4. CASE k = "gas"
      BY <3>2, <3>4 DEF ReadBack, TypeOK, Jobs, Kinds
    <3> QED
      BY <3>3, <3>4
  <2> QED
    BY <2>2, <2>3, <1>l
<1>6. CASE Fund
  BY <1>6, <1>d DEF Fund, GateInv, GatesHold, ExchangeJob
<1>7. CASE UNCHANGED vars
  BY <1>7, <1>d DEF vars, GateInv, GatesHold, ExchangeJob
<1> QED
  BY <1>s, <1>1, <1>2, <1>3, <1>4, <1>5, <1>6, <1>7, NextCases DEF StepOf

LEMMA GateInit == Init => GateInv
BY DEF Init, GateInv, GatesHold, ExchangeJob, Jobs, Kinds

\* No request reaches an exchange method but through the bearer check, the
\* allow-list, the wallet mode and, if it signs, the gas check.
THEOREM OnlyAdmittedRequestsRun == Spec => []OnlyAdmittedRun
<1>1. ASSUME TypeOK, JobInv, GateInv
      PROVE  OnlyAdmittedRun
  <2> SUFFICES ASSUME NEW r \in Requests, runs[r] > 0
               PROVE  /\ Authorized(r) /\ shape[r].valid
                      /\ Method(r) \in ALLOWED_METHODS \intersect ExchangeMethods
                      /\ Signs(r) => config.privateKey
                      /\ NeedsGasCheck(r) => job[<<r, "gas">>] = "ok"
                      /\ Method(r) \in ACCOUNT_READ_METHODS /\ IsReadOnlyMode
                           => config.walletAddress
    BY DEF OnlyAdmittedRun
  <2>1. ExchangeJob(r) # "none"
    BY <1>1 DEF JobInv, JobFitsLabel
  <2>2. /\ Denial(r) = "none" /\ shape[r].route # "ping"
        /\ Method(r) \in ExchangeMethods
        /\ NeedsGasCheck(r) => job[<<r, "gas">>] = "ok"
    BY <1>1, <2>1 DEF GateInv, GatesHold
  <2>3. Authorized(r) /\ shape[r].valid /\ Method(r) \in ALLOWED_METHODS /\ AllowedForMode(r)
    BY <2>2 DEF Denial, ErrorSent
  <2> QED
    BY <2>2, <2>3 DEF AllowedForMode, IsReadOnlyMode, WalletAddress
<1> QED
  BY <1>1, ControlInvariant, GateInit, GateNext, PTL DEF Spec

-----------------------------------------------------------------------------
(* Transactions.                                                           *)

\* Outside the exchange's thread only a first submission changes an exchange job.
LEMMA SettledJobStays ==
  ASSUME TypeOK, JobInv, NEW r \in Requests, StepOf(r), ~ExchangeStep(r),
         NEW q \in Requests, ExchangeJob(q) # "none"
  PROVE  ExchangeJob(q)' = ExchangeJob(q)
<1>m. ASSUME NEW label, Moves(r, label, ExchangeJob(r))
      PROVE  ExchangeJob(q)' = ExchangeJob(q)
  BY <1>m DEF Moves
<1>1. CASE q # r
  BY <1>1, OthersStay
<1>2. CASE q = r /\ LoopStep(r)
  <2>1. ~AcquireLock(r) /\ ~WakeUp(r)
    <3>1. pc[r] \notin {"auth", "gas", "lock"}
      BY <1>2 DEF JobInv, JobFitsLabel
    <3> QED
      BY <3>1 DEF AcquireLock, EnterExchange, PassedChecks, Authenticated, GasRead, WakeUp
  <2> QED
    BY <1>2, <1>m, <2>1, LoopStepMoves
<1>3. CASE q = r /\ ~LoopStep(r)
  BY <1>3, <1>m, ArriveMoves, ReadGasMoves, ReadStepMoves DEF StepOf
<1> QED
  BY <1>1, <1>2, <1>3

LEMMA SentNext ==
  TypeOK /\ LockInv /\ JobInv /\ NonceInv /\ SentInv /\ [Next]_vars => SentInv'
<1> SUFFICES ASSUME TypeOK, LockInv, JobInv, NonceInv, SentInv, [Next]_vars
             PROVE  SentInv'
  OBVIOUS
<1> DEFINE Past == {"begun", "sent", "ok", "err"}
<1>t. \A x \in sent : x[1] \in Requests /\ x[2] \in Nat
  BY DEF TypeOK
<1>b. \A x \in sent : ExchangeJob(x[1]) \in Past
  BY DEF SentInv
<1>k. ASSUME sent' = sent,
             \A q \in Requests : ExchangeJob(q) \in Past =>
               /\ ExchangeJob(q)' \in Past
               /\ InExchange(q)' => InExchange(q)
      PROVE  SentInv'
  BY <1>k, <1>t DEF SentInv, CallsSendInOneBlock
<1>1. ASSUME NEW r \in Requests, ExchangeStep(r)
      PROVE  SentInv'
  <2>o. ASSUME NEW state, Moves(r, pc[r], state)
        PROVE  /\ ExchangeJob(r)' = state
               /\ \A q \in Requests \ {r} : ExchangeJob(q)' = ExchangeJob(q)
    BY <2>o DEF Moves
  <2>i. \A q \in Requests : /\ InExchange(q) <=> ExchangeJob(q) \in {"begun", "sent"}
                            /\ InExchange(q)' <=> ExchangeJob(q)' \in {"begun", "sent"}
    BY DEF InExchange, ExchangeJob
  <2>1. CASE BeginExchange(r) /\ Moves(r, pc[r], "begun")
    <3>1. sent' = sent /\ ExchangeJob(r) = "pending"
      BY <2>1 DEF BeginExchange, ExchangeJob
    <3> QED
      BY <2>1, <2>o, <2>i, <3>1, <1>k
  <2>2. CASE Broadcast(r) /\ Moves(r, pc[r], "sent")
    <3>1. ExchangeJob(r) = "begun" /\ drawn[r] = nonce /\ nonce \in Nat
      BY <2>2 DEF Broadcast, ExchangeJob, NonceInv, TypeOK
    <3>2. sent' = sent \union {<<r, nonce>>}
      BY <2>2, <3>1 DEF Broadcast
    <3>3. \A x \in sent' : x \in sent \/ (x[1] = r /\ x[2] = nonce)
      BY <3>2
    <3>4. \A x \in sent : x[2] < nonce
      BY DEF NonceInv
    <3>5. \A q \in Requests : InExchange(q)' => q = r
      BY <2>2, <2>o, <2>i, <3>1, LockExcludes DEF ExchangeExclusive
    <3>6. \A x \in sent' : ExchangeJob(x[1])' \in Past
      BY <1>b, <1>t, <2>2, <2>o, <3>3
    <3>7. \A z \in sent' : z[1] # r => \A x \in sent' : x[1] = r => z[2] < x[2]
      <4>1. InExchange(r)
        BY <2>i, <3>1
      <4> QED
        BY <3>3, <3>4, <4>1 DEF SentInv
    <3>8. \A x, z \in sent' : InExchange(x[1])' /\ z[1] # x[1] => z[2] < x[2]
      <4>1. \A x \in sent' : x[1] \in Requests
        BY <1>t, <3>3
      <4> QED
        BY <3>5, <3>7, <4>1
    <3>9. ASSUME NEW x \in sent', NEW y \in sent', NEW z \in sent',
                 x[1] = y[1], x[2] < z[2], z[2] < y[2]
          PROVE  z[1] = x[1]
      <4>0. x[2] \in Nat /\ y[2] \in Nat /\ z[2] \in Nat
        BY <1>t, <3>1, <3>3
      <4>1. CASE x[1] = r
        BY <3>7, <3>9, <4>0, <4>1
      <4>2. CASE x[1] # r
        <5>1. x \in sent /\ y \in sent
          BY <3>3, <3>9, <4>2
        <5>2. z \in sent
          BY <3>3, <3>4, <3>9, <4>0, <5>1
        <5> QED
          BY <3>9, <5>1, <5>2 DEF SentInv, CallsSendInOneBlock
      <4> QED
        BY <4>1, <4>2
    <3>10. CallsSendInOneBlock'
      BY <3>9 DEF CallsSendInOneBlock
    <3> QED
      BY <3>6, <3>8, <3>10 DEF SentInv
  <2>3. CASE RefuseBroadcast(r) /\ Moves(r, pc[r], "err")
    <3>1. sent' = sent
      BY <2>3 DEF RefuseBroadcast
    <3> QED
      BY <2>3, <2>o, <2>i, <3>1, <1>k
  <2>4. ASSUME EndExchange(r), NEW outcome \in {"ok", "err"}, Moves(r, pc[r], outcome)
        PROVE  SentInv'
    <3>1. sent' = sent
      BY <2>4 DEF EndExchange
    <3> QED
      BY <2>4, <2>o, <2>i, <3>1, <1>k
  <2>5. CASE DrawAgain(r) /\ Moves(r, pc[r], "begun")
    <3>1. sent' = sent /\ ExchangeJob(r) = "sent"
      BY <2>5 DEF DrawAgain, ExchangeJob
    <3> QED
      BY <2>5, <2>o, <2>i, <3>1, <1>k
  <2> QED
    BY <1>1, <2>1, <2>2, <2>3, <2>4, <2>5, ExchangeStepMoves
<1>2. ASSUME NEW r \in Requests, StepOf(r), ~ExchangeStep(r)
      PROVE  SentInv'
  <2>1. sent' = sent
    BY <1>2, NonceFrame
  <2>2. \A q \in Requests : ExchangeJob(q) \in Past => ExchangeJob(q)' = ExchangeJob(q)
    BY <1>2, SettledJobStays
  <2> QED
    BY <1>k, <2>1, <2>2 DEF InExchange, ExchangeJob
<1>3. CASE Fund \/ UNCHANGED vars
  BY <1>3, <1>k DEF Fund, vars, ExchangeJob, InExchange
<1> QED
  BY <1>1, <1>2, <1>3, NextCases

LEMMA SentInit == Init => SentInv
BY DEF Init, SentInv, CallsSendInOneBlock

\* The transactions of one call have no other call's transaction between them,
\* however many it makes: approval and order, or a whole batch, reach the chain
\* as one block of nonces.
THEOREM CallsAreSentInOneBlock == Spec => []CallsSendInOneBlock
<1>1. SentInv => CallsSendInOneBlock
  BY DEF SentInv
<1> QED
  BY <1>1, ControlInvariant, NonceInit, NonceNext, SentInit, SentNext, PTL DEF Spec

-----------------------------------------------------------------------------
(* What a step may never do.                                               *)

LEMMA QueueInit == Init => QueueInv
BY DEF Init, QueueInv

\* Only QueueForLock and WakeUp touch the lock's queue or move to and from it.
LEMMA QueueFrame ==
  ASSUME TypeOK, NEW r \in Requests, StepOf(r), ~QueueForLock(r), ~WakeUp(r)
  PROVE  waiters' = waiters /\ (pc'[r] = "lock" => pc[r] = "lock")
<1>m. ASSUME NEW label, NEW state, Moves(r, label, state)
      PROVE  pc'[r] = label
  BY <1>m DEF Moves, TypeOK
<1>1. CASE Arrive(r)
  BY <1>1, <1>m, ArriveMoves DEF Arrive
<1>2. CASE LoopStep(r)
  <2>1. waiters' = waiters
    BY <1>2 DEF LoopStep, Deny, StartGasCheck, FailGasCheck, MissingMethod, AcquireLock,
         EnterExchange, RaiseExchangeError, AnswerCall, Augment, StartPing, LeaveLock
  <2> QED
    BY <1>2, <2>1, <1>m, LoopStepMoves
<1>3. CASE ReadGas(r)
  BY <1>3, <1>m, ReadGasMoves DEF ReadGas
<1>4. CASE ExchangeStep(r)
  BY <1>4 DEF ExchangeStep, BeginExchange, Broadcast, DrawAgain, RefuseBroadcast, EndExchange
<1>5. ASSUME NEW k \in DiagnosticKinds, ReadStep(r, k)
      PROVE  waiters' = waiters /\ (pc'[r] = "lock" => pc[r] = "lock")
  <2>1. \E good \in BOOLEAN : ReadBack(r, k, good)
    BY <1>5 DEF ReadStep, AwaitMoreReads, AnswerPing, AnswerStatus, FailGather, DropOrphan
  <2>2. waiters' = waiters
    BY <2>1 DEF ReadBack
  <2> QED
    BY <1>5, <2>2, <1>m, ReadStepMoves
<1> QED
  BY <1>1, <1>2, <1>3, <1>4, <1>5 DEF StepOf

LEMMA QueueNext ==
  TypeOK /\ QueueInv /\ [Next]_vars => QueueInv'
<1> SUFFICES ASSUME TypeOK, QueueInv, [Next]_vars
             PROVE  QueueInv'
  OBVIOUS
<1> USE DEF QueueInv
<1>1. ASSUME NEW r \in Requests, StepOf(r), ~QueueForLock(r), ~WakeUp(r)
      PROVE  QueueInv'
  BY <1>1, QueueFrame, OthersStay
<1>2. ASSUME NEW r \in Requests, StepOf(r), QueueForLock(r)
      PROVE  QueueInv'
  <2>1. waiters' = Append(waiters, r) /\ waiters \in Seq(Requests)
    BY <1>2 DEF QueueForLock, TypeOK
  <2>2. /\ Len(waiters') = Len(waiters) + 1 /\ waiters'[Len(waiters) + 1] = r
        /\ \A i \in 1..Len(waiters) : waiters'[i] = waiters[i]
    BY <2>1
  <2>3. Len(waiters) \in Nat
    BY <2>1
  <2>4. ASSUME NEW q \in Requests, pc'[q] = "lock"
        PROVE  \E i \in 1..Len(waiters') : waiters'[i] = q
    <3>1. CASE q = r
      <4>1. Len(waiters) + 1 \in 1..Len(waiters')
        BY <2>2, <2>3
      <4> QED
        BY <3>1, <4>1, <2>2
    <3>2. CASE q # r
      <4>1. pc[q] = "lock"
        BY <3>2, <2>4, <1>2, OthersStay
      <4>2. PICK i \in 1..Len(waiters) : waiters[i] = q
        BY <4>1
      <4> QED
        BY <4>2, <2>2, <2>3
    <3> QED
      BY <3>1, <3>2
  <2> QED
    BY <2>4
<1>3. ASSUME NEW r \in Requests, StepOf(r), WakeUp(r)
      PROVE  QueueInv'
  <2>1. /\ waiters \in Seq(Requests) /\ waiters # <<>> /\ waiters' = Tail(waiters)
        /\ waiters[1] = r
    BY <1>3 DEF WakeUp, TypeOK
  <2>2. /\ Len(waiters) \in Nat \ {0} /\ Len(waiters') = Len(waiters) - 1
        /\ \A i \in 1..Len(waiters') : waiters'[i] = waiters[i + 1]
    BY <2>1
  <2>3. pc'[r] = "exchange"
    BY <1>3 DEF WakeUp, Goto, TypeOK
  <2>4. ASSUME NEW q \in Requests, pc'[q] = "lock"
        PROVE  \E i \in 1..Len(waiters') : waiters'[i] = q
    <3>1. q # r /\ pc[q] = "lock"
      BY <2>3, <2>4, <1>3, OthersStay
    <3>2. PICK i \in 1..Len(waiters) : waiters[i] = q
      BY <3>1
    <3>3. i - 1 \in 1..Len(waiters') /\ waiters'[i - 1] = q
      BY <3>1, <3>2, <2>1, <2>2
    <3> QED
      BY <3>3
  <2> QED
    BY <2>4
<1>4. CASE Fund \/ UNCHANGED vars
  BY <1>4 DEF Fund, vars
<1> QED
  BY <1>1, <1>2, <1>3, <1>4, NextCases

LEMMA OrderKept ==
  ASSUME TypeOK, QueueInv, [Next]_vars, NEW r \in Requests, NEW q \in Requests,
         pc[r] = "lock", q # r, pc[q] # "exchange", pc'[q] = "exchange"
  PROVE  \E i, j \in 1..Len(waiters) : i < j /\ waiters[i] = q /\ waiters[j] = r
<1>m. ASSUME NEW label, NEW state, Moves(q, label, state)
      PROVE  pc'[q] = label
  BY <1>m DEF Moves, TypeOK
<1>1. StepOf(q)
  <2>1. ~Fund /\ ~UNCHANGED vars
    BY DEF Fund, vars
  <2> QED
    BY <2>1, NextCases, OthersStay
<1>2. LoopStep(q)
  BY <1>1, <1>m, ArriveMoves, ReadGasMoves, ExchangeStepMoves, ReadStepMoves DEF StepOf
<1>3. AcquireLock(q) \/ WakeUp(q)
  BY <1>2, <1>m, LoopStepMoves
<1>4. PICK j \in 1..Len(waiters) : waiters[j] = r
  BY DEF QueueInv
<1>5. waiters \in Seq(Requests) /\ Len(waiters) \in Nat
  BY DEF TypeOK
<1>6. waiters # <<>>
  BY <1>4, <1>5
<1>7. waiters[1] = q
  BY <1>3, <1>6 DEF AcquireLock, LockIsFree, WakeUp
<1>8. 1 \in 1..Len(waiters) /\ 1 < j
  BY <1>4, <1>5, <1>7
<1> QED
  BY <1>4, <1>7, <1>8

\* The lock is first come, first served.
THEOREM LockIsFair == Spec => NoOvertaking
<1>1. TypeOK /\ QueueInv /\ [Next]_vars =>
        [\A r, q \in Requests :
           pc[r] = "lock" /\ q # r /\ pc[q] # "exchange" /\ pc'[q] = "exchange" =>
             \E i, j \in 1..Len(waiters) : i < j /\ waiters[i] = q /\ waiters[j] = r]_vars
  BY OrderKept
<1> QED
  BY <1>1, TypeCorrect, QueueInit, QueueNext, PTL DEF Spec, NoOvertaking

LEMMA DoneStays ==
  ASSUME TypeOK, JobInv, [Next]_vars, NEW r \in Requests, pc[r] = "done"
  PROVE  /\ pc'[r] = "done" /\ answer'[r] = answer[r] /\ runs'[r] = runs[r]
         /\ \A x \in sent' \ sent : x[1] # r
<1>1. ASSUME NEW q \in Requests, q # r, StepOf(q)
      PROVE  \A x \in sent' \ sent : x[1] # r
  <2>1. CASE ExchangeStep(q)
    <3>1. sent' = sent \/ sent' = sent \union {<<q, drawn[q]>>}
      BY <2>1 DEF ExchangeStep, BeginExchange, Broadcast, DrawAgain, RefuseBroadcast, EndExchange
    <3> QED
      BY <1>1, <3>1
  <2>2. CASE ~ExchangeStep(q)
    BY <1>1, <2>2, NonceFrame
  <2> QED
    BY <2>1, <2>2
<1>2. CASE StepOf(r)
  <2>1. ~ExchangeStep(r)
    <3>1. ExchangeJob(r) \in {"none", "ok", "err"}
      BY DEF JobInv, JobFitsLabel
    <3> QED
      BY <3>1 DEF ExchangeStep, BeginExchange, Broadcast, DrawAgain, RefuseBroadcast, EndExchange, ExchangeJob
  <2>2. ~Arrive(r)
    BY DEF Arrive
  <2>3. ~LoopStep(r)
    BY DEF LoopStep, Deny, StartGasCheck, FailGasCheck, MissingMethod, AcquireLock,
         EnterExchange, QueueForLock, WakeUp, RaiseExchangeError, AnswerCall, Augment, StartPing,
         PassedChecks, Authenticated, GasRead, Returned
  <2>4. ReadGas(r) \/ \E k \in DiagnosticKinds : DropOrphan(r, k)
    <3>1. ASSUME NEW k \in DiagnosticKinds, ReadStep(r, k)
          PROVE  DropOrphan(r, k)
      BY <3>1 DEF ReadStep, AwaitMoreReads, AnswerPing, AnswerStatus, FailGather, Gathering
    <3> QED
      BY <1>2, <2>1, <2>2, <2>3, <3>1 DEF StepOf
  <2>5. UNCHANGED <<pc, answer, runs, sent>>
    BY <2>4 DEF ReadGas, DropOrphan, ReadBack, chainVars
  <2> QED
    BY <2>5
<1>3. CASE Fund \/ UNCHANGED vars
  BY <1>3 DEF Fund, vars
<1> QED
  BY <1>1, <1>2, <1>3, NextCases, OthersStay

\* An answered request is over: nothing runs for it any more and no
\* transaction of it can still appear.
THEOREM AnswersAreFinal == Spec => AnswerIsFinal
<1>1. TypeOK /\ JobInv /\ [Next]_vars =>
        [\A r \in Requests : pc[r] = "done" =>
           /\ pc'[r] = "done" /\ answer'[r] = answer[r] /\ runs'[r] = runs[r]
           /\ \A x \in sent' \ sent : x[1] # r]_vars
  BY DoneStays
<1> QED
  BY <1>1, ControlInvariant, PTL DEF Spec, AnswerIsFinal
=============================================================================
