---------------------------- MODULE OrderFlowProofs ----------------------------
(***************************************************************************)
(* Theorems about OrderFlow, for any number of runs of the script.         *)
(***************************************************************************)
EXTENDS OrderFlow, SequenceTheorems, TLAPS

-----------------------------------------------------------------------------
(* Types.                                                                  *)

LEMMA TypeInit == Init => FlowTypeOK
<1> SUFFICES ASSUME Init
             PROVE  FlowTypeOK
  OBVIOUS
<1>1. queue \in Seq(Scripts)
  BY EmptySeq DEF Init
<1>2. position \in Nat /\ visible \in Nat
  BY DEF Init
<1> QED
  BY <1>1, <1>2 DEF Init, FlowTypeOK

LEMMA AskType ==
  ASSUME FlowTypeOK, NEW s \in Scripts, NEW next \in Steps, Ask(s, next)
  PROVE  /\ at' \in [Scripts -> {"idle"} \union Steps \union Ends]
         /\ step' \in [Scripts -> {"none"} \union Steps]
         /\ stage' \in [Scripts -> {"none", "ok", "err"} \union Live]
         /\ queue' \in Seq(Scripts)
         /\ UNCHANGED <<mode, result, order, position, visible, excuses>>
<1>1. Append(queue, s) \in Seq(Scripts)
  BY AppendProperties DEF FlowTypeOK
<1> QED
  BY <1>1 DEF FlowTypeOK, Ask, Goes, Live, chainVars

LEMMA EndType ==
  ASSUME FlowTypeOK, NEW s \in Scripts, NEW how \in Ends, End(s, how)
  PROVE  /\ at' \in [Scripts -> {"idle"} \union Steps \union Ends]
         /\ UNCHANGED <<mode, step, stage, result, queue, order, position, visible, excuses, last, overlap>>
BY DEF FlowTypeOK, End, Goes, bridgeVars, chainVars

LEMMA TypeNext == FlowTypeOK /\ [Next]_vars => FlowTypeOK'
<1> SUFFICES ASSUME FlowTypeOK, [Next]_vars
             PROVE  FlowTypeOK'
  OBVIOUS
<1> USE DEF FlowTypeOK
<1>1. ASSUME NEW s \in Scripts, Begin(s)
      PROVE  FlowTypeOK'
  BY <1>1, AskType DEF Begin, Steps
<1>2. ASSUME NEW s \in Scripts, ReadBefore(s) \/ ReadAfter(s)
      PROVE  FlowTypeOK'
  <2>1. seen' \in [Scripts -> Nat]
    BY <1>2 DEF ReadBefore, ReadAfter
  <2> QED
    BY <1>2, <2>1, AskType, EndType DEF ReadBefore, ReadAfter, Steps, Ends
<1>3. ASSUME NEW s \in Scripts, Opened(s) \/ Closed(s)
      PROVE  FlowTypeOK'
  BY <1>3, AskType DEF Opened, Closed, Steps
<1>4. ASSUME NEW s \in Scripts, Confirmed(s) \/ GetError(s)
      PROVE  FlowTypeOK'
  BY <1>4, EndType DEF Confirmed, GetError, Ends
<1>5. ASSUME NEW s \in Scripts, TimeOut(s)
      PROVE  FlowTypeOK'
  BY <1>5 DEF TimeOut, Goes, Ends, Excuses, bridgeVars, chainVars
<1>6. ASSUME NEW s \in Scripts, CheckGas(s)
      PROVE  FlowTypeOK'
  <2>1. Append(queue, s) \in Seq(Scripts)
    BY AppendProperties
  <2> QED
    BY <1>6, <2>1 DEF CheckGas, To, Live, scriptVars, chainVars
<1>7. ASSUME NEW s \in Scripts, EnterExchange(s)
      PROVE  FlowTypeOK'
  <2>1. Tail(queue) \in Seq(Scripts)
    BY <1>7, HeadTailProperties DEF EnterExchange
  <2> QED
    BY <1>7, <2>1 DEF EnterExchange, To, Live, scriptVars, chainVars
<1>8. ASSUME NEW s \in Scripts, FailRead(s) \/ EndOrder(s)
      PROVE  FlowTypeOK'
  BY <1>8 DEF FailRead, EndOrder, To, scriptVars, chainVars
<1>9. ASSUME NEW s \in Scripts, ReadPosition(s) \/ ReadOrder(s)
      PROVE  FlowTypeOK'
  <2>1. result' \in [Scripts -> Nat]
    <3>1. OrderStatus(s) \in Nat
      BY DEF OrderStatus
    <3> QED
      BY <1>9, <3>1 DEF ReadPosition, ReadOrder
  <2>2. excuses' \subseteq Excuses
    BY <1>9 DEF ReadPosition, ReadOrder, Excuses
  <2> QED
    BY <1>9, <2>1, <2>2 DEF ReadPosition, ReadOrder, To, scriptVars, chainVars
<1>10. ASSUME NEW s \in Scripts, Submit(s) \/ FailOrder(s)
      PROVE  FlowTypeOK'
  BY <1>10 DEF Submit, FailOrder, Order, To, Excuses, scriptVars, bridgeVars, chainVars
<1>11. CASE Crash
  <2>1. queue' \in Seq(Scripts)
    BY <1>11, EmptySeq DEF Crash
  <2> QED
    BY <1>11, <2>1 DEF Crash, Excuses, scriptVars, chainVars
<1>12. ASSUME NEW o \in Scripts \X Kinds, Execute(o)
      PROVE  FlowTypeOK'
  <2>1. seen[o[1]] \in Nat
    OBVIOUS
  <2>2. position' \in Nat
    BY <1>12, <2>1 DEF Execute
  <2> QED
    BY <1>12, <2>2 DEF Execute, scriptVars, bridgeVars
<1>13. CASE Settle
  BY <1>13 DEF Settle, scriptVars, bridgeVars
<1>14. CASE UNCHANGED vars
  BY <1>14 DEF vars, scriptVars, bridgeVars, chainVars
<1> QED
  BY <1>1, <1>2, <1>3, <1>4, <1>5, <1>6, <1>7, <1>8, <1>9, <1>10, <1>11, <1>12, <1>13, <1>14
  DEF Next, ScriptStep, BridgeStep

\* Every variable of the order flow keeps its type.
THEOREM FlowTypeCorrect == Spec => []FlowTypeOK
BY TypeInit, TypeNext, PTL DEF Spec

-----------------------------------------------------------------------------
(* "All ok".                                                               *)

Executed(s) == order[<<s, "close">>] = "executed"

\* A script asks for what it waits for; a good answer to "confirm" is about an
\* order that was executed, and so is "All ok".
ConfirmInv ==
  \A s \in Scripts :
    /\ at[s] \in Steps => step[s] = at[s]
    /\ step[s] = "confirm" /\ stage[s] = "ok" /\ result[s] = 1 => Executed(s)
    /\ at[s] = "allOk" => Executed(s)

\* What was executed stays so.
LEMMA ExecutedStays ==
  ASSUME FlowTypeOK, [Next]_vars, NEW s \in Scripts, Executed(s)
  PROVE  Executed(s)'
<1> USE DEF Executed
<1>1. ASSUME NEW t \in Scripts, Submit(t)
      PROVE  Executed(s)'
  BY <1>1 DEF FlowTypeOK, Submit, Order, Kinds
<1>2. ASSUME NEW o \in Scripts \X Kinds, Execute(o)
      PROVE  Executed(s)'
  BY <1>2 DEF FlowTypeOK, Execute, Kinds
<1>3. CASE UNCHANGED order
  BY <1>3
<1> QED
  BY <1>1, <1>2, <1>3 DEF Next, ScriptStep, BridgeStep, Begin, Ask, End, ReadBefore, Opened, ReadAfter,
    Closed, Confirmed, GetError, TimeOut, CheckGas, EnterExchange, FailRead, ReadPosition, ReadOrder,
    EndOrder, FailOrder, Crash, Settle, vars, chainVars, bridgeVars

LEMMA ConfirmNext == FlowTypeOK /\ ConfirmInv /\ [Next]_vars => ConfirmInv'
<1> SUFFICES ASSUME FlowTypeOK, ConfirmInv, [Next]_vars, NEW s \in Scripts
             PROVE  /\ at'[s] \in Steps => step'[s] = at'[s]
                    /\ step'[s] = "confirm" /\ stage'[s] = "ok" /\ result'[s] = 1 => Executed(s)'
                    /\ at'[s] = "allOk" => Executed(s)'
  BY DEF ConfirmInv
<1> DEFINE Good == /\ at'[s] \in Steps => step'[s] = at'[s]
                   /\ step'[s] = "confirm" /\ stage'[s] = "ok" /\ result'[s] = 1 => Executed(s)'
                   /\ at'[s] = "allOk" => Executed(s)'
<1>0. Executed(s) => Executed(s)'
  BY ExecutedStays
<1> USE <1>0 DEF FlowTypeOK, ConfirmInv
<1>1. ASSUME NEW t \in Scripts, NEW next \in Steps, Ask(t, next)
      PROVE  Good
  BY <1>1 DEF Ask, Goes, Steps
<1>2. ASSUME NEW t \in Scripts, NEW how \in {"left", "failed"}, End(t, how)
      PROVE  Good
  BY <1>2 DEF End, Goes, Steps, bridgeVars
<1>3. ASSUME NEW t \in Scripts, Confirmed(t)
      PROVE  Good
  BY <1>3 DEF Confirmed, Answered, End, Goes, Steps, bridgeVars
<1>4. ASSUME NEW t \in Scripts, TimeOut(t)
      PROVE  Good
  BY <1>4 DEF TimeOut, Goes, Steps, bridgeVars
<1>5. ASSUME NEW t \in Scripts, ReadOrder(t)
      PROVE  Good
  <2>1. UNCHANGED <<at, step, order>> /\ step[t] = "confirm"
    BY <1>5 DEF ReadOrder, scriptVars, chainVars
  <2>2. s # t => stage'[s] = stage[s] /\ result'[s] = result[s]
    BY <1>5 DEF ReadOrder, To
  <2>3. result'[t] = 1 => Executed(t)
    BY <1>5 DEF ReadOrder, OrderStatus, Executed
  <2> QED
    BY <2>1, <2>2, <2>3
<1>6. ASSUME NEW t \in Scripts, ReadPosition(t) \/ EndOrder(t)
      PROVE  Good
  <2>1. UNCHANGED <<at, step>> /\ step[t] # "confirm"
    BY <1>6 DEF ReadPosition, EndOrder, Kinds, scriptVars
  <2>2. s # t => stage'[s] = stage[s] /\ result'[s] = result[s]
    BY <1>6 DEF ReadPosition, EndOrder, To
  <2> QED
    BY <2>1, <2>2
<1>7. ASSUME NEW t \in Scripts, CheckGas(t) \/ EnterExchange(t) \/ FailRead(t) \/ FailOrder(t)
      PROVE  Good
  BY <1>7 DEF CheckGas, EnterExchange, FailRead, FailOrder, To, scriptVars
<1>8. CASE Crash
  BY <1>8 DEF Crash, scriptVars
<1>9. CASE UNCHANGED <<at, step, stage, result>>
  BY <1>9
<1> QED
  BY <1>1, <1>2, <1>3, <1>4, <1>5, <1>6, <1>7, <1>8, <1>9 DEF Next, ScriptStep, BridgeStep, Begin, ReadBefore,
    Opened, ReadAfter, Closed, GetError, Submit, Execute, Settle, Steps, vars, scriptVars, bridgeVars

\* "All ok" is true of the script's own closing order, for any number of runs
\* that overlap, with crashes, timeouts and lag at any point.
THEOREM AllOkIsTrue == Spec => []AllOkMeansClosed
<1>1. Init => ConfirmInv
  BY DEF Init, ConfirmInv, Steps
<1>2. ConfirmInv => AllOkMeansClosed
  BY DEF ConfirmInv, AllOkMeansClosed, Executed
<1> QED
  BY <1>1, <1>2, ConfirmNext, FlowTypeCorrect, PTL DEF Spec

-----------------------------------------------------------------------------
(* No doubled position.                                                    *)

InQueue(s) == \E i \in DOMAIN queue : queue[i] = s

OnceEach == \A i, j \in DOMAIN queue : queue[i] = queue[j] => i = j

\* One script at a time is under way; a script that has yet to begin has made
\* no call; the queue holds those that wait, once each.
ActiveInv ==
  /\ \A s, t \in Scripts : at[s] \in Steps /\ at[t] \in Steps => s = t
  /\ \A s \in Scripts : at[s] = "idle" => stage[s] = "none"
  /\ \A s \in Scripts : stage[s] = "queued" <=> InQueue(s)
  /\ OnceEach

LEMMA AppendedQueue ==
  ASSUME FlowTypeOK, NEW s \in Scripts, queue' = Append(queue, s)
  PROVE  /\ DOMAIN queue' = 1..(Len(queue) + 1)
         /\ \A i \in DOMAIN queue : i \in DOMAIN queue' /\ queue'[i] = queue[i]
         /\ queue'[Len(queue) + 1] = s
         /\ DOMAIN queue = 1..Len(queue) /\ Len(queue) \in Nat
BY AppendProperties DEF FlowTypeOK

LEMMA AppendedMembers ==
  ASSUME FlowTypeOK, NEW s \in Scripts, queue' = Append(queue, s)
  PROVE  /\ \A t \in Scripts : InQueue(t)' <=> t = s \/ InQueue(t)
         /\ OnceEach /\ ~InQueue(s) => OnceEach'
<1>1. \A i \in DOMAIN queue' : i \in DOMAIN queue \/ i = Len(queue) + 1
  BY AppendedQueue
<1>2. Len(queue) + 1 \in DOMAIN queue'
  BY AppendedQueue
<1>3. \A t \in Scripts : InQueue(t)' <=> t = s \/ InQueue(t)
  BY <1>1, <1>2, AppendedQueue DEF InQueue
<1>4. OnceEach /\ ~InQueue(s) => OnceEach'
  BY <1>1, AppendedQueue DEF InQueue, OnceEach
<1> QED
  BY <1>3, <1>4

LEMMA TailQueue ==
  ASSUME FlowTypeOK, queue # <<>>, queue' = Tail(queue)
  PROVE  /\ \A i \in DOMAIN queue' : i \in Nat /\ i + 1 \in DOMAIN queue /\ queue'[i] = queue[i + 1]
         /\ \A i \in DOMAIN queue : i # 1 => i - 1 \in DOMAIN queue' /\ queue'[i - 1] = queue[i]
         /\ 1 \in DOMAIN queue /\ Head(queue) = queue[1]
         /\ DOMAIN queue \subseteq Nat
<1>1. Len(queue) \in Nat /\ Len(queue) # 0 /\ DOMAIN queue = 1..Len(queue)
  BY EmptySeq, LenProperties DEF FlowTypeOK
<1>2. queue' \in Seq(Scripts) /\ Len(queue') = Len(queue) - 1
  BY HeadTailProperties DEF FlowTypeOK
<1>3. DOMAIN queue' = 1..(Len(queue) - 1)
  BY <1>2, LenProperties
<1>4. \A i \in 1..(Len(queue) - 1) : queue'[i] = queue[i + 1]
  BY <1>1, <1>3 DEF FlowTypeOK
<1>5. \A i \in DOMAIN queue' : i \in Nat /\ i + 1 \in DOMAIN queue
  BY <1>1, <1>3
<1>6. ASSUME NEW i \in DOMAIN queue, i # 1
      PROVE  i - 1 \in DOMAIN queue' /\ queue'[i - 1] = queue[i]
  <2>1. i - 1 \in 1..(Len(queue) - 1) /\ (i - 1) + 1 = i
    BY <1>1, <1>6
  <2> QED
    BY <1>3, <1>4, <2>1
<1>7. 1 \in DOMAIN queue /\ DOMAIN queue \subseteq Nat
  BY <1>1
<1>8. Head(queue) = queue[1]
  BY DEF FlowTypeOK
<1> QED
  BY <1>3, <1>4, <1>5, <1>6, <1>7, <1>8

LEMMA TailMembers ==
  ASSUME FlowTypeOK, OnceEach, queue # <<>>, queue' = Tail(queue)
  PROVE  /\ InQueue(Head(queue))
         /\ \A t \in Scripts : InQueue(t)' <=> InQueue(t) /\ t # Head(queue)
         /\ OnceEach'
<1>1. InQueue(Head(queue))
  BY TailQueue DEF InQueue
<1>2. ASSUME NEW t \in Scripts, InQueue(t)'
      PROVE  InQueue(t) /\ t # Head(queue)
  <2>1. PICK i \in DOMAIN queue' : queue'[i] = t
    BY <1>2 DEF InQueue
  <2>2. i + 1 # 1 /\ i + 1 \in DOMAIN queue /\ queue[i + 1] = t
    BY <2>1, TailQueue
  <2> QED
    BY <2>2, TailQueue DEF InQueue, OnceEach
<1>3. ASSUME NEW t \in Scripts, InQueue(t), t # Head(queue)
      PROVE  InQueue(t)'
  <2>1. PICK i \in DOMAIN queue : queue[i] = t
    BY <1>3 DEF InQueue
  <2>2. i # 1
    BY <1>3, <2>1, TailQueue
  <2> QED
    BY <2>1, <2>2, TailQueue DEF InQueue
<1>4. ASSUME NEW i \in DOMAIN queue', NEW j \in DOMAIN queue', queue'[i] = queue'[j]
      PROVE  i = j
  <2>1. i + 1 = j + 1
    BY <1>4, TailQueue DEF OnceEach
  <2> QED
    BY <2>1, TailQueue
<1> QED
  BY <1>1, <1>2, <1>3, <1>4 DEF OnceEach

LEMMA OverlapStays == [Next]_vars /\ overlap => overlap'
<1> SUFFICES ASSUME [Next]_vars, overlap
             PROVE  overlap'
  OBVIOUS
<1>1. ASSUME NEW s \in Scripts, Begin(s) \/ TimeOut(s) \/ ScriptStep(s)
      PROVE  overlap'
  BY <1>1 DEF Begin, TimeOut, ScriptStep, ReadBefore, Opened, ReadAfter, Closed, Confirmed, GetError, End
<1>2. ASSUME NEW s \in Scripts, BridgeStep(s)
      PROVE  overlap'
  BY <1>2 DEF BridgeStep, CheckGas, EnterExchange, FailRead, ReadPosition, ReadOrder, Submit, EndOrder,
    FailOrder, scriptVars
<1>3. CASE UNCHANGED scriptVars
  BY <1>3 DEF scriptVars
<1> QED
  BY <1>1, <1>2, <1>3 DEF Next, Crash, Execute, Settle, vars

LEMMA ActiveNext ==
  ASSUME ~overlap'
  PROVE  FlowTypeOK /\ ActiveInv /\ [Next]_vars => ActiveInv'
<1> SUFFICES ASSUME FlowTypeOK, ActiveInv, [Next]_vars
             PROVE  ActiveInv'
  OBVIOUS
<1> USE DEF ActiveInv, FlowTypeOK
<1>1. ASSUME NEW s \in Scripts, Begin(s)
      PROVE  ActiveInv'
  <2>1. \A t \in Scripts : at[t] \notin Steps
    BY <1>1 DEF Begin, Steps, Ends
  <2>2. /\ at' = [at EXCEPT ![s] = "before"]
        /\ stage' = [stage EXCEPT ![s] = "queued"]
        /\ queue' = Append(queue, s)
    BY <1>1 DEF Begin, Ask, Goes, Kinds
  <2>3. stage[s] = "none"
    BY <1>1 DEF Begin
  <2> QED
    BY <2>1, <2>2, <2>3, AppendedMembers
<1>2. ASSUME NEW s \in Scripts, NEW next \in Steps, Ask(s, next), at[s] \in Steps, stage[s] = "ok"
      PROVE  ActiveInv'
  <2>1. at' = [at EXCEPT ![s] = next] /\ next # "idle"
    BY <1>2 DEF Ask, Goes, Steps
  <2>2. CASE next \in Kinds
    <3>1. stage' = [stage EXCEPT ![s] = "checking"] /\ queue' = queue
      BY <1>2, <2>2 DEF Ask
    <3> QED
      BY <1>2, <2>1, <3>1 DEF InQueue, OnceEach
  <2>3. CASE next \notin Kinds
    <3>1. stage' = [stage EXCEPT ![s] = "queued"] /\ queue' = Append(queue, s)
      BY <1>2, <2>3 DEF Ask
    <3> QED
      BY <1>2, <2>1, <3>1, AppendedMembers
  <2> QED
    BY <2>2, <2>3
<1>3. ASSUME NEW s \in Scripts, NEW how \in Ends, Goes(s, how), UNCHANGED <<stage, queue>>
      PROVE  ActiveInv'
  BY <1>3 DEF Goes, Ends, Steps, InQueue, OnceEach
<1>4. ASSUME NEW s \in Scripts, CheckGas(s)
      PROVE  ActiveInv'
  <2>1. CASE To(s, "queued") /\ queue' = Append(queue, s)
    BY <1>4, <2>1, AppendedMembers DEF CheckGas, To, scriptVars
  <2>2. CASE To(s, "err") /\ queue' = queue
    BY <1>4, <2>2 DEF CheckGas, To, scriptVars, InQueue, OnceEach
  <2> QED
    BY <1>4, <2>1, <2>2 DEF CheckGas
<1>5. ASSUME NEW s \in Scripts, EnterExchange(s)
      PROVE  ActiveInv'
  <2>1. stage' = [stage EXCEPT ![s] = "running"] /\ at' = at /\ s = Head(queue)
    BY <1>5 DEF EnterExchange, To, scriptVars
  <2>2. /\ InQueue(s) /\ OnceEach'
        /\ \A t \in Scripts : InQueue(t)' <=> InQueue(t) /\ t # s
    BY <1>5, <2>1, TailMembers DEF EnterExchange
  <2> QED
    BY <2>1, <2>2
<1>6. ASSUME NEW s \in Scripts, NEW to \in {"ok", "err"}, To(s, to), stage[s] = "running", UNCHANGED <<at, queue>>
      PROVE  ActiveInv'
  BY <1>6 DEF To, InQueue, OnceEach
<1>7. CASE Crash
  BY <1>7 DEF Crash, scriptVars, Live, InQueue, OnceEach
<1>8. CASE UNCHANGED <<at, stage, queue>>
  BY <1>8 DEF InQueue, OnceEach
<1>9. ASSUME NEW s \in Scripts, ScriptStep(s) \/ TimeOut(s)
      PROVE  ActiveInv'
  <2>1. at[s] \in Steps
    BY <1>9 DEF ScriptStep, TimeOut, ReadBefore, Opened, ReadAfter, Closed, Confirmed, GetError, Answered, Steps
  <2>2. \/ stage[s] = "ok" /\ \E next \in Steps : Ask(s, next)
        \/ \E how \in Ends : Goes(s, how) /\ UNCHANGED <<stage, queue>>
    <3>1. CASE ReadBefore(s) \/ ReadAfter(s)
      BY <3>1 DEF ReadBefore, ReadAfter, Answered, End, Steps, Ends, bridgeVars
    <3>2. CASE Opened(s) \/ Closed(s)
      BY <3>2 DEF Opened, Closed, Answered, Steps
    <3>3. CASE Confirmed(s) \/ GetError(s) \/ TimeOut(s)
      BY <3>3 DEF Confirmed, GetError, TimeOut, End, Ends, bridgeVars
    <3> QED
      BY <1>9, <3>1, <3>2, <3>3 DEF ScriptStep
  <2> QED
    BY <1>2, <1>3, <2>1, <2>2
<1>10. ASSUME NEW s \in Scripts, BridgeStep(s)
       PROVE  ActiveInv'
  <2>1. ASSUME FailRead(s) \/ ReadPosition(s) \/ ReadOrder(s) \/ EndOrder(s) \/ FailOrder(s)
        PROVE  /\ stage[s] = "running" /\ UNCHANGED <<at, queue>>
               /\ \E to \in {"ok", "err"} : To(s, to)
    BY <2>1 DEF FailRead, ReadPosition, ReadOrder, EndOrder, FailOrder, scriptVars
  <2>2. Submit(s) => UNCHANGED <<at, stage, queue>>
    BY DEF Submit, scriptVars, bridgeVars
  <2> QED
    BY <1>4, <1>5, <1>6, <1>8, <1>10, <2>1, <2>2 DEF BridgeStep
<1> QED
  BY <1>1, <1>7, <1>8, <1>9, <1>10 DEF Next, Execute, Settle, vars, scriptVars, bridgeVars
\* Opening orders that may yet be executed.
Opening ==
  {s \in Scripts : /\ step[s] = "open" /\ stage[s] \in Live
                   /\ order[<<s, "open">>] \in {"none", "submitted"}}

\* While nothing excuses a doubled position, a pending order has its call in
\* the exchange, there is room for one position or one opening order, and a
\* script that reads the position first does so behind every opening order.
Owned ==
  \A s \in Scripts, k \in Kinds :
    order[<<s, k>>] = "submitted" => stage[s] = "running" /\ step[s] = k
Room ==
  /\ \A s, t \in Opening : s = t
  /\ position <= 1
  /\ Opening # {} => position = 0
  /\ \A s \in Opening : stage[s] = "checking" => at[s] = "open"
Behind ==
  \A s \in Scripts : at[s] = "before" =>
    /\ stage[s] = "queued" =>
         \A i, j \in DOMAIN queue : queue[i] \in Opening /\ queue[j] = s => i < j
    /\ stage[s] = "running" => Opening = {}
    /\ stage[s] = "ok" /\ result[s] = 0 => position = 0 /\ Opening = {}
ClearInv == excuses = {} => Owned /\ Room /\ Behind

\* What a script does with an answer, in the terms of these invariants.
Continues(s) ==
  /\ at[s] \in Steps /\ stage[s] = "ok"
  /\ \E next \in Steps \ {"before"} : Ask(s, next) /\ (next = "open" => at[s] = "before" /\ result[s] = 0)
Stops(s) ==
  /\ at[s] \in Steps /\ stage[s] \notin Live
  /\ \E how \in Ends : Goes(s, how)
  /\ UNCHANGED <<step, stage, result, queue, order, position, visible, excuses>>

LEMMA ScriptMoves ==
  ASSUME NEW s \in Scripts, ScriptStep(s)
  PROVE  Continues(s) \/ Stops(s)
<1>1. CASE ReadBefore(s)
  BY <1>1 DEF ReadBefore, Answered, End, Steps, Ends, Live, Continues, Stops, bridgeVars, chainVars
<1>2. CASE ReadAfter(s)
  BY <1>2 DEF ReadAfter, Answered, End, Steps, Ends, Live, Continues, Stops, bridgeVars, chainVars
<1>3. CASE Opened(s) \/ Closed(s)
  BY <1>3 DEF Opened, Closed, Answered, Steps, Continues
<1>4. CASE Confirmed(s) \/ GetError(s)
  BY <1>4 DEF Confirmed, GetError, Answered, End, Steps, Ends, Live, Stops, bridgeVars, chainVars
<1> QED
  BY <1>1, <1>2, <1>3, <1>4 DEF ScriptStep

LEMMA OwnedNext ==
  ASSUME FlowTypeOK, ActiveInv, Owned, [Next]_vars, excuses' = {}
  PROVE  Owned'
<1> USE DEF FlowTypeOK, Owned
<1>1. ASSUME NEW s \in Scripts, NEW next \in Steps, Ask(s, next), stage[s] \in {"none", "ok"}
      PROVE  Owned'
  BY <1>1 DEF Ask, chainVars
<1>2. ASSUME NEW s \in Scripts, Stops(s) \/ TimeOut(s)
      PROVE  Owned'
  BY <1>2 DEF Stops, TimeOut, bridgeVars, chainVars
<1>3. ASSUME NEW s \in Scripts, CheckGas(s) \/ EnterExchange(s)
      PROVE  Owned'
  BY <1>3 DEF CheckGas, EnterExchange, To, chainVars
<1>4. ASSUME NEW s \in Scripts, FailRead(s) \/ ReadPosition(s) \/ ReadOrder(s)
      PROVE  Owned'
  <2>1. step[s] \notin Kinds
    BY <1>4 DEF FailRead, ReadPosition, ReadOrder, Kinds
  <2>2. UNCHANGED <<step, order>> /\ \E to \in {"ok", "err"} : To(s, to)
    BY <1>4 DEF FailRead, ReadPosition, ReadOrder, chainVars
  <2> QED
    BY <2>1, <2>2 DEF To
<1>5. ASSUME NEW s \in Scripts, Submit(s)
      PROVE  Owned'
  BY <1>5 DEF Submit, Order, bridgeVars, Kinds
<1>6. ASSUME NEW s \in Scripts, EndOrder(s) \/ FailOrder(s)
      PROVE  Owned'
  <2>1. order[<<s, step[s]>>] # "submitted"
    BY <1>6 DEF EndOrder, FailOrder, Order
  <2>2. UNCHANGED <<step, order>> /\ \E to \in {"ok", "err"} : To(s, to)
    BY <1>6 DEF EndOrder, FailOrder, chainVars
  <2>3. \A t \in Scripts : t # s => stage'[t] = stage[t]
    BY <2>2 DEF To
  <2>4. \A k \in Kinds : order[<<s, k>>] # "submitted"
    BY <2>1
  <2> QED
    BY <2>2, <2>3, <2>4
<1>7. CASE Crash
  BY <1>7 DEF Crash, Order, chainVars
<1>8. ASSUME NEW o \in Scripts \X Kinds, Execute(o)
      PROVE  Owned'
  BY <1>8 DEF Execute, bridgeVars
<1>9. CASE UNCHANGED <<step, stage, order>>
  BY <1>9
<1>10. ASSUME NEW s \in Scripts, Begin(s)
       PROVE  Owned'
  BY <1>1, <1>10 DEF Begin, ActiveInv, Steps
<1>11. ASSUME NEW s \in Scripts, ScriptStep(s)
       PROVE  Owned'
  BY <1>1, <1>2, <1>11, ScriptMoves DEF Continues
<1> QED
  BY <1>2, <1>3, <1>4, <1>5, <1>6, <1>7, <1>8, <1>9, <1>10, <1>11
  DEF Next, BridgeStep, Settle, vars, bridgeVars, chainVars
\* Apart from a script that asks for an opening order, no step adds one.
LEMMA AskOpens ==
  ASSUME FlowTypeOK, NEW s \in Scripts, NEW next \in Steps, Ask(s, next)
  PROVE  Opening' \subseteq IF next = "open" THEN Opening \union {s} ELSE Opening
BY DEF FlowTypeOK, Ask, Opening, Steps, chainVars

LEMMA CallMoves ==
  ASSUME FlowTypeOK, ActiveInv, NEW s \in Scripts, BridgeStep(s)
  PROVE  Opening' \subseteq Opening /\ UNCHANGED <<at, step, position>>
<1> USE DEF FlowTypeOK
<1>1. CASE CheckGas(s)
  BY <1>1 DEF CheckGas, To, Opening, Live, scriptVars, chainVars
<1>2. CASE EnterExchange(s)
  <2>1. stage[s] = "queued"
    BY <1>2, TailMembers DEF ActiveInv, EnterExchange
  <2> QED
    BY <1>2, <2>1 DEF EnterExchange, To, Opening, Live, scriptVars, chainVars
<1>3. CASE FailRead(s) \/ ReadPosition(s) \/ ReadOrder(s) \/ EndOrder(s) \/ FailOrder(s)
  <2>1. UNCHANGED <<at, step, position, order>> /\ \E to \in {"ok", "err"} : To(s, to)
    BY <1>3 DEF FailRead, ReadPosition, ReadOrder, EndOrder, FailOrder, scriptVars, chainVars
  <2> QED
    BY <2>1 DEF To, Opening, Live
<1>4. CASE Submit(s)
  BY <1>4 DEF Submit, Order, Opening, scriptVars, bridgeVars, Kinds
<1> QED
  BY <1>1, <1>2, <1>3, <1>4 DEF BridgeStep

LEMMA ExecuteTakesRoom ==
  ASSUME FlowTypeOK, Owned, Room, NEW o \in Scripts \X Kinds, Execute(o)
  PROVE  /\ Opening' \subseteq Opening
         /\ position' <= 1 /\ (Opening' # {} => position' = 0)
         /\ position = 0 /\ Opening = {} => position' = 0
<1> USE DEF FlowTypeOK, Room
<1>1. Opening' \subseteq Opening
  <2>1. \A x \in Scripts \X Kinds : order'[x] \in {"none", "submitted"} => order[x] = order'[x]
    BY DEF Execute
  <2>2. \A s \in Scripts : <<s, "open">> \in Scripts \X Kinds
    BY DEF Kinds
  <2> QED
    BY <2>1, <2>2 DEF Execute, Opening, bridgeVars
<1>2. CASE UNCHANGED position
  BY <1>1, <1>2
<1>3. CASE o[2] = "open" /\ order' = [order EXCEPT ![o] = "executed"] /\ position' = position + 1
  <2>1. o = <<o[1], "open">> /\ o[1] \in Scripts /\ "open" \in Kinds
    BY <1>3 DEF Kinds
  <2>2. stage[o[1]] = "running" /\ step[o[1]] = "open"
    BY <2>1 DEF Owned, Execute
  <2>3. o[1] \in Opening
    BY <2>1, <2>2 DEF Opening, Live, Execute
  <2>4. o[1] \notin Opening'
    BY <1>3, <2>1 DEF Opening
  <2> QED
    BY <1>1, <1>3, <2>3, <2>4
<1>4. CASE position > 0 /\ position' = IF seen[o[1]] > position THEN 0 ELSE position - seen[o[1]]
  <2>1. seen[o[1]] \in Nat
    OBVIOUS
  <2>2. position' <= position /\ position' \in Nat
    BY <1>4, <2>1
  <2> QED
    BY <1>1, <1>4, <2>2
<1> QED
  BY <1>2, <1>3, <1>4 DEF Execute

LEMMA RoomShrinks ==
  ASSUME Room, Opening' \subseteq Opening, UNCHANGED position,
         \A s \in Opening' : stage'[s] = "checking" => at'[s] = "open"
  PROVE  Room'
BY DEF Room

LEMMA RoomNext ==
  ASSUME FlowTypeOK, ActiveInv, Owned, Room, Behind, [Next]_vars, excuses' = {}
  PROVE  Room'
<1> USE DEF FlowTypeOK, Room
<1>1. ASSUME NEW s \in Scripts, Begin(s)
      PROVE  Room'
  <2>1. Ask(s, "before") /\ "before" \in Steps /\ at[s] = "idle" /\ stage[s] = "none"
    BY <1>1 DEF Begin, Steps, ActiveInv
  <2>2. Opening' \subseteq Opening /\ s \notin Opening
    BY <2>1, AskOpens DEF Opening, Live
  <2>3. s \notin Opening'
    BY <2>1 DEF Ask, Opening
  <2>4. \A t \in Opening' : t # s /\ at'[t] = at[t] /\ stage'[t] = stage[t]
    BY <2>1, <2>3 DEF Ask, Goes, Opening
  <2> QED
    BY <2>1, <2>2, <2>4, RoomShrinks DEF Ask, chainVars
<1>2. ASSUME NEW s \in Scripts, Continues(s)
      PROVE  Room'
  <2>1. PICK next \in Steps : Ask(s, next) /\ (next = "open" => at[s] = "before" /\ result[s] = 0)
    BY <1>2 DEF Continues
  <2>2. s \notin Opening /\ UNCHANGED position
    BY <1>2, <2>1 DEF Continues, Opening, Live, Ask, chainVars
  <2>3. CASE next = "open"
    <3>1. position = 0 /\ Opening = {}
      BY <1>2, <2>1, <2>3 DEF Continues, Behind
    <3>2. Opening' \subseteq {s} /\ at'[s] = "open"
      BY <2>1, <2>3, <3>1, AskOpens DEF Ask, Goes
    <3> QED
      BY <2>2, <3>1, <3>2
  <2>4. CASE next # "open"
    <3>1. Opening' \subseteq Opening
      BY <2>1, <2>4, AskOpens
    <3>2. \A t \in Scripts : t # s => at'[t] = at[t] /\ stage'[t] = stage[t]
      BY <2>1 DEF Ask, Goes
    <3>3. \A t \in Opening' : t \in Scripts /\ t # s
      BY <2>2, <3>1 DEF Opening
    <3> QED
      BY <2>2, <3>1, <3>2, <3>3, RoomShrinks
  <2> QED
    BY <2>3, <2>4
<1>3. ASSUME NEW s \in Scripts, Stops(s)
      PROVE  Room'
  <2>1. s \notin Opening /\ Opening' = Opening
    BY <1>3 DEF Stops, Opening
  <2>2. \A t \in Opening' : at'[t] = at[t] /\ stage'[t] = stage[t]
    BY <1>3, <2>1 DEF Stops, Goes, Opening
  <2> QED
    BY <1>3, <2>1, <2>2, RoomShrinks DEF Stops
<1>4. ASSUME NEW s \in Scripts, TimeOut(s)
      PROVE  Room'
  <2>1. Opening' = Opening /\ UNCHANGED <<position, stage>>
    BY <1>4 DEF TimeOut, Opening, bridgeVars, chainVars
  <2>2. s \in Opening => stage[s] # "checking"
    BY <1>4 DEF TimeOut, Opening
  <2>3. \A t \in Opening' : t # s => at'[t] = at[t]
    BY <1>4 DEF TimeOut, Goes, Opening
  <2> QED
    BY <2>1, <2>2, <2>3, RoomShrinks
<1>5. ASSUME NEW s \in Scripts, BridgeStep(s)
      PROVE  Room'
  <2>1. \A t \in Scripts : stage'[t] = "checking" => stage[t] = "checking"
    BY <1>5 DEF BridgeStep, CheckGas, EnterExchange, FailRead, ReadPosition, ReadOrder, Submit, EndOrder,
      FailOrder, To, bridgeVars
  <2> QED
    BY <1>5, <2>1, CallMoves, RoomShrinks DEF Opening
<1>6. CASE Crash
  <2>1. Opening' = {}
    BY <1>6 DEF Crash, Opening, Live
  <2> QED
    BY <1>6, <2>1, RoomShrinks DEF Crash, chainVars
<1>7. ASSUME NEW o \in Scripts \X Kinds, Execute(o)
      PROVE  Room'
  <2>1. UNCHANGED <<at, stage>>
    BY <1>7 DEF Execute, scriptVars, bridgeVars
  <2> QED
    BY <1>7, <2>1, ExecuteTakesRoom
<1>8. CASE UNCHANGED <<at, step, stage, order, position>>
  BY <1>8, RoomShrinks DEF Opening
<1> QED
  BY <1>1, <1>2, <1>3, <1>4, <1>5, <1>6, <1>7, <1>8, ScriptMoves
  DEF Next, Settle, vars, scriptVars, bridgeVars, chainVars
LEMMA BehindStays ==
  ASSUME Behind, Opening' \subseteq Opening, UNCHANGED <<at, stage, queue, result, position>>
  PROVE  Behind'
BY DEF Behind

LEMMA NobodyReadsFirst ==
  ASSUME \A s \in Scripts : at'[s] # "before"
  PROVE  Behind'
BY DEF Behind

LEMMA ScriptKeepsBehind ==
  ASSUME FlowTypeOK, ActiveInv, NEW s \in Scripts, Continues(s) \/ Stops(s) \/ TimeOut(s)
  PROVE  Behind'
<1>1. at[s] \in Steps
  BY DEF Continues, Stops, TimeOut
<1>2. \A t \in Scripts : t # s => at[t] \notin Steps /\ at'[t] = at[t]
  <2>1. \A t \in Scripts : t # s => at'[t] = at[t]
    BY DEF FlowTypeOK, Continues, Stops, TimeOut, Ask, Goes
  <2> QED
    BY <1>1, <2>1 DEF ActiveInv
<1>3. at'[s] # "before"
  BY DEF FlowTypeOK, Continues, Stops, TimeOut, Ask, Goes, Ends, Steps
<1> QED
  BY <1>2, <1>3, NobodyReadsFirst DEF Steps

LEMMA BeginKeepsBehind ==
  ASSUME FlowTypeOK, ActiveInv, ~overlap', NEW s \in Scripts, Begin(s)
  PROVE  Behind'
<1>1. Ask(s, "before") /\ "before" \in Steps /\ at[s] = "idle"
  BY DEF Begin, Steps
<1>2. /\ at' = [at EXCEPT ![s] = "before"] /\ stage' = [stage EXCEPT ![s] = "queued"]
      /\ step' = [step EXCEPT ![s] = "before"] /\ queue' = Append(queue, s)
  BY <1>1 DEF Ask, Goes, Kinds
<1>3. \A t \in Scripts : t # s => at'[t] # "before"
  BY <1>2 DEF FlowTypeOK, Begin, Steps, Ends
<1>4. s \notin Opening' /\ stage'[s] = "queued"
  BY <1>2 DEF FlowTypeOK, Opening
<1>5. ~InQueue(s)
  BY <1>1 DEF ActiveInv
<1>6. ASSUME NEW i \in DOMAIN queue', NEW j \in DOMAIN queue', queue'[i] \in Opening', queue'[j] = s
      PROVE  i < j
  <2>1. j = Len(queue) + 1
    BY <1>2, <1>5, <1>6, AppendedQueue DEF InQueue
  <2>2. i # Len(queue) + 1
    BY <1>2, <1>4, <1>6, AppendedQueue
  <2> QED
    BY <1>2, <1>6, <2>1, <2>2, AppendedQueue
<1> QED
  BY <1>3, <1>4, <1>6 DEF Behind

LEMMA CheckGasKeepsBehind ==
  ASSUME FlowTypeOK, ConfirmInv, ActiveInv, Room, Behind, NEW s \in Scripts, CheckGas(s)
  PROVE  Behind'
<1> SUFFICES ASSUME NEW t \in Scripts, at'[t] = "before"
             PROVE  /\ stage'[t] = "queued" =>
                         \A i, j \in DOMAIN queue' : queue'[i] \in Opening' /\ queue'[j] = t => i < j
                    /\ stage'[t] = "running" => Opening' = {}
                    /\ stage'[t] = "ok" /\ result'[t] = 0 => position' = 0 /\ Opening' = {}
  BY DEF Behind
<1>1. Opening' \subseteq Opening /\ UNCHANGED <<at, step, position, result>>
  BY CallMoves DEF BridgeStep, CheckGas
<1>2. stage[s] = "checking" /\ \E to \in {"queued", "err"} : To(s, to)
  BY DEF CheckGas
<1>3. s \notin Opening' \/ s # t
  BY <1>1 DEF ConfirmInv, Steps, Opening
<1>4. t # s => s \notin Opening'
  BY <1>1, <1>2 DEF Room, ActiveInv, Steps
<1>5. ASSUME stage'[t] = "queued", NEW i \in DOMAIN queue', NEW j \in DOMAIN queue',
             queue'[i] \in Opening', queue'[j] = t
      PROVE  i < j
  <2>1. CASE queue' = queue
    <3>1. stage[t] = "queued"
      BY <1>2, <1>5, <2>1 DEF FlowTypeOK, ActiveInv, InQueue
    <3> QED
      BY <1>1, <1>5, <2>1, <3>1 DEF Behind
  <2>2. CASE queue' = Append(queue, s)
    <3>1. i \in DOMAIN queue /\ queue'[i] = queue[i]
      BY <1>3, <1>4, <1>5, <2>2, AppendedQueue
    <3>2. CASE j = Len(queue) + 1
      BY <2>2, <3>1, <3>2, AppendedQueue
    <3>3. CASE j # Len(queue) + 1
      <4>1. j \in DOMAIN queue /\ queue[j] = t
        BY <1>5, <2>2, <3>3, AppendedQueue
      <4>2. stage[t] = "queued"
        BY <4>1 DEF ActiveInv, InQueue
      <4> QED
        BY <1>1, <1>5, <3>1, <4>1, <4>2 DEF Behind
    <3> QED
      BY <3>2, <3>3
  <2> QED
    BY <2>1, <2>2 DEF CheckGas
<1>6. stage'[t] \in {"running", "ok"} => stage[t] = stage'[t]
  BY <1>2 DEF To, FlowTypeOK
<1> QED
  BY <1>1, <1>5, <1>6 DEF Behind

LEMMA EnterKeepsBehind ==
  ASSUME FlowTypeOK, ConfirmInv, ActiveInv, Room, Behind, NEW s \in Scripts, EnterExchange(s)
  PROVE  Behind'
<1> SUFFICES ASSUME NEW t \in Scripts, at'[t] = "before"
             PROVE  /\ stage'[t] = "queued" =>
                         \A i, j \in DOMAIN queue' : queue'[i] \in Opening' /\ queue'[j] = t => i < j
                    /\ stage'[t] = "running" => Opening' = {}
                    /\ stage'[t] = "ok" /\ result'[t] = 0 => position' = 0 /\ Opening' = {}
  BY DEF Behind
<1>1. Opening' \subseteq Opening /\ UNCHANGED <<at, step, position, result>>
  BY CallMoves DEF BridgeStep, EnterExchange
<1>2. queue # <<>> /\ queue' = Tail(queue) /\ s = Head(queue) /\ LockFree /\ stage' = [stage EXCEPT ![s] = "running"]
  BY DEF EnterExchange, To
<1>3. stage[s] = "queued"
  BY <1>2, TailMembers DEF ActiveInv
<1>4. CASE t = s
  <2>1. ASSUME NEW u \in Opening
        PROVE  FALSE
    <3>1. u # s
      BY <1>1, <1>4 DEF Opening, ConfirmInv, Steps
    <3>2. stage[u] # "checking"
      BY <1>1, <1>4, <3>1 DEF Room, ActiveInv, Steps, Opening
    <3>3. stage[u] # "running"
      BY <1>2 DEF LockFree, Opening
    <3>4. stage[u] = "queued"
      BY <3>2, <3>3 DEF Opening, Live
    <3>5. PICK i \in DOMAIN queue : queue[i] = u
      BY <3>4 DEF ActiveInv, InQueue, Opening
    <3>6. i < 1
      BY <1>1, <1>2, <1>3, <1>4, <3>5, TailQueue DEF Behind
    <3>7. i \in 1..Len(queue) /\ Len(queue) \in Nat
      BY LenProperties DEF FlowTypeOK
    <3> QED
      BY <3>6, <3>7
  <2> QED
    BY <1>1, <1>2, <1>4, <2>1 DEF FlowTypeOK
<1>5. CASE t # s
  <2>1. stage'[t] = stage[t] /\ at[t] = "before"
    BY <1>1, <1>2, <1>5 DEF FlowTypeOK
  <2>2. ASSUME stage[t] = "queued", NEW i \in DOMAIN queue', NEW j \in DOMAIN queue',
               queue'[i] \in Opening', queue'[j] = t
        PROVE  i < j
    <3>1. /\ i + 1 \in DOMAIN queue /\ queue[i + 1] = queue'[i] /\ i \in Nat
          /\ j + 1 \in DOMAIN queue /\ queue[j + 1] = t /\ j \in Nat
      BY <1>2, <2>2, TailQueue
    <3>2. i + 1 < j + 1
      BY <1>1, <2>1, <2>2, <3>1 DEF Behind
    <3> QED
      BY <3>1, <3>2
  <2> QED
    BY <1>1, <2>1, <2>2 DEF Behind
<1> QED
  BY <1>4, <1>5
LEMMA AnswerKeepsBehind ==
  ASSUME FlowTypeOK, ConfirmInv, ActiveInv, Behind, excuses' = {}, NEW s \in Scripts,
         FailRead(s) \/ ReadPosition(s) \/ ReadOrder(s) \/ EndOrder(s) \/ FailOrder(s)
  PROVE  Behind'
<1>1. Opening' \subseteq Opening /\ UNCHANGED <<at, step, position>>
  BY CallMoves DEF BridgeStep
<1>2. UNCHANGED queue /\ stage[s] = "running" /\ \E to \in {"ok", "err"} : To(s, to)
  BY DEF FailRead, ReadPosition, ReadOrder, EndOrder, FailOrder
<1>3. \A t \in Scripts : t # s => stage'[t] = stage[t] /\ result'[t] = result[t]
  BY DEF FlowTypeOK, FailRead, ReadPosition, ReadOrder, EndOrder, FailOrder, To
<1>4. stage'[s] \in {"ok", "err"}
  BY <1>2 DEF FlowTypeOK, To
<1>5. ASSUME at'[s] = "before", stage'[s] = "ok", result'[s] = 0
      PROVE  position' = 0 /\ Opening' = {}
  <2>1. step[s] = "before"
    BY <1>1, <1>5 DEF ConfirmInv, Steps
  <2>2. ReadPosition(s)
    BY <1>5, <2>1 DEF FlowTypeOK, FailRead, ReadOrder, EndOrder, FailOrder, Kinds, To
  <2>3. result'[s] = visible /\ visible = position
    BY <2>2 DEF FlowTypeOK, ReadPosition
  <2>4. Opening = {}
    BY <1>1, <1>2, <1>5 DEF Behind
  <2> QED
    BY <1>1, <1>5, <2>3, <2>4
<1> QED
  BY <1>1, <1>2, <1>3, <1>4, <1>5 DEF Behind

LEMMA ExecuteKeepsBehind ==
  ASSUME FlowTypeOK, Owned, Room, Behind, NEW o \in Scripts \X Kinds, Execute(o)
  PROVE  Behind'
<1>1. UNCHANGED <<at, stage, queue, result>>
  BY DEF Execute, scriptVars, bridgeVars
<1>2. Opening' \subseteq Opening /\ (position = 0 /\ Opening = {} => position' = 0)
  BY ExecuteTakesRoom
<1> QED
  BY <1>1, <1>2 DEF Behind

LEMMA BehindNext ==
  ASSUME ~overlap', FlowTypeOK, ConfirmInv, ActiveInv, Owned, Room, Behind, [Next]_vars, excuses' = {}
  PROVE  Behind'
<1>1. ASSUME NEW s \in Scripts, Begin(s) \/ ScriptStep(s) \/ TimeOut(s)
      PROVE  Behind'
  BY <1>1, BeginKeepsBehind, ScriptKeepsBehind, ScriptMoves
<1>2. ASSUME NEW s \in Scripts, Submit(s)
      PROVE  Behind'
  <2>1. Opening' \subseteq Opening
    BY <1>2, CallMoves DEF BridgeStep
  <2> QED
    BY <1>2, <2>1, BehindStays DEF Submit, scriptVars, bridgeVars
<1>3. ASSUME NEW s \in Scripts, BridgeStep(s)
      PROVE  Behind'
  BY <1>2, <1>3, CheckGasKeepsBehind, EnterKeepsBehind, AnswerKeepsBehind DEF BridgeStep
<1>4. CASE Crash
  <2>1. Opening' = {}
    BY <1>4 DEF Crash, Opening, Live
  <2>2. \A t \in Scripts : stage'[t] \notin {"queued", "running"} /\ (stage'[t] = "ok" => stage[t] = "ok")
    BY <1>4 DEF Crash, Live
  <2> QED
    BY <1>4, <2>1, <2>2 DEF Crash, Behind, scriptVars, chainVars
<1>5. ASSUME NEW o \in Scripts \X Kinds, Execute(o)
      PROVE  Behind'
  BY <1>5, ExecuteKeepsBehind
<1>6. CASE UNCHANGED <<at, step, stage, order, queue, result, position>>
  BY <1>6, BehindStays DEF Opening
<1> QED
  BY <1>1, <1>3, <1>4, <1>5, <1>6 DEF Next, Settle, vars, scriptVars, bridgeVars, chainVars

LEMMA ExcusesStay == FlowTypeOK /\ [Next]_vars /\ excuses' = {} => excuses = {}
<1> SUFFICES ASSUME [Next]_vars
             PROVE  excuses \subseteq excuses'
  OBVIOUS
<1>1. ASSUME NEW s \in Scripts, Begin(s) \/ TimeOut(s) \/ ScriptStep(s)
      PROVE  excuses \subseteq excuses'
  <2>1. CASE ScriptStep(s)
    BY <2>1, ScriptMoves DEF Continues, Stops, Ask
  <2> QED
    BY <1>1, <2>1 DEF Begin, Ask, TimeOut
<1>2. ASSUME NEW s \in Scripts, BridgeStep(s)
      PROVE  excuses \subseteq excuses'
  BY <1>2 DEF BridgeStep, CheckGas, EnterExchange, FailRead, ReadPosition, ReadOrder, Submit, EndOrder, FailOrder
<1>3. CASE Crash
  BY <1>3 DEF Crash
<1>4. CASE UNCHANGED excuses
  BY <1>4
<1> QED
  BY <1>1, <1>2, <1>3, <1>4 DEF Next, Execute, Settle, vars

LEMMA ClearNext ==
  ASSUME ~overlap'
  PROVE  FlowTypeOK /\ ConfirmInv /\ ActiveInv /\ ClearInv /\ [Next]_vars => ClearInv'
BY OwnedNext, RoomNext, BehindNext, ExcusesStay DEF ClearInv

\* Both hold as long as no two scripts have overlapped.
FlowInv == ~overlap => ActiveInv /\ ClearInv

LEMMA FlowInvariant == Spec => [](FlowTypeOK /\ ConfirmInv /\ FlowInv)
<1>1. Init => ConfirmInv /\ FlowInv
  <2> SUFFICES ASSUME Init
               PROVE  ConfirmInv /\ ActiveInv /\ ClearInv
    BY DEF FlowInv
  <2>1. ConfirmInv
    BY DEF Init, ConfirmInv, Steps
  <2>2. ActiveInv
    BY DEF Init, ActiveInv, InQueue, OnceEach, Steps
  <2>3. Opening = {}
    BY DEF Init, Opening
  <2>4. position <= 1
    BY DEF Init
  <2> QED
    BY <2>1, <2>2, <2>3, <2>4 DEF Init, ClearInv, Owned, Room, Behind
<1>2. FlowTypeOK /\ ConfirmInv /\ FlowInv /\ [Next]_vars => FlowInv'
  BY OverlapStays, ActiveNext, ClearNext DEF FlowInv
<1> QED
  BY <1>1, <1>2, ConfirmNext, FlowTypeCorrect, PTL DEF Spec

\* Runs of the script one after the other never double the position by
\* timeouts and repeats alone, for any number of runs.
THEOREM RepeatsNeverDouble == Spec => []TimeoutAloneNeverDoubles
<1>1. FlowTypeOK /\ FlowInv => TimeoutAloneNeverDoubles
  BY DEF FlowTypeOK, FlowInv, ClearInv, Room, TimeoutAloneNeverDoubles
<1> QED
  BY <1>1, FlowInvariant, PTL

-----------------------------------------------------------------------------
(* A flat wallet.                                                          *)

\* A script that closes goes by a snapshot that shows a position.
SizedInv == \A s \in Scripts : step[s] = "close" => seen[s] > 0

\* Of runs one after the other, the last is the one under way, and one that
\* has yet to begin has closed nothing.
LastInv ==
  /\ \A s \in Scripts : at[s] \in Steps => s = last
  /\ \A s \in Scripts : at[s] = "idle" => order[<<s, "close">>] = "none"

\* Once the last run has read the position, no other opening order is pending,
\* and none at all once its own is done.
Alone ==
  /\ step[last] = "open" => Opening \subseteq {last}
  /\ at[last] = "before" /\ stage[last] = "ok" => Opening = {}
  /\ step[last] \in {"after", "close", "confirm"} => Opening = {}

\* Its close, when executed, has left nothing.
Flat == Executed(last) => position = 0 /\ step[last] \in {"close", "confirm"}

LEMMA SizedNext == FlowTypeOK /\ ConfirmInv /\ SizedInv /\ [Next]_vars => SizedInv'
<1> SUFFICES ASSUME FlowTypeOK, ConfirmInv, SizedInv, [Next]_vars
             PROVE  SizedInv'
  OBVIOUS
<1> USE DEF FlowTypeOK, SizedInv
<1>1. ASSUME NEW s \in Scripts, Begin(s) \/ Opened(s) \/ Closed(s)
      PROVE  SizedInv'
  BY <1>1 DEF Begin, Opened, Closed, Ask
<1>2. ASSUME NEW s \in Scripts, ReadBefore(s) \/ ReadAfter(s)
      PROVE  SizedInv'
  <2>1. step[s] # "close"
    BY <1>2 DEF ConfirmInv, ReadBefore, ReadAfter, Answered, Steps
  <2>2. \A t \in Scripts : t # s => step'[t] = step[t] /\ seen'[t] = seen[t]
    BY <1>2 DEF ReadBefore, ReadAfter, Ask, End, bridgeVars
  <2>3. step'[s] = "close" => seen'[s] > 0
    BY <1>2, <2>1 DEF ReadBefore, ReadAfter, Ask, End, bridgeVars
  <2> QED
    BY <2>2, <2>3
<1>3. CASE UNCHANGED <<step, seen>>
  BY <1>3
<1> QED
  BY <1>1, <1>2, <1>3 DEF Next, ScriptStep, BridgeStep, Confirmed, GetError, End, TimeOut, CheckGas,
    EnterExchange, FailRead, ReadPosition, ReadOrder, Submit, EndOrder, FailOrder, Crash, Execute,
    Settle, vars, scriptVars, bridgeVars

\* Only Begin makes another run the last one.
LEMMA LastStays ==
  ASSUME [Next]_vars, \A s \in Scripts : ~Begin(s)
  PROVE  last' = last
<1>1. ASSUME NEW s \in Scripts, ScriptStep(s)
      PROVE  last' = last
  BY <1>1 DEF ScriptStep, ReadBefore, Opened, ReadAfter, Closed, Confirmed, GetError, End
<1>2. ASSUME NEW s \in Scripts, BridgeStep(s)
      PROVE  last' = last
  BY <1>2 DEF BridgeStep, CheckGas, EnterExchange, FailRead, ReadPosition, ReadOrder, Submit,
    EndOrder, FailOrder, scriptVars
<1> QED
  BY <1>1, <1>2 DEF Next, TimeOut, Crash, Execute, Settle, vars, scriptVars

LEMMA LastNext ==
  ASSUME ~overlap', FlowTypeOK, ActiveInv, LastInv, [Next]_vars
  PROVE  LastInv'
<1> USE DEF FlowTypeOK
<1>1. ASSUME NEW s \in Scripts, Begin(s)
      PROVE  LastInv'
  <2>1. last' = s /\ UNCHANGED order /\ \A t \in Scripts : at[t] \notin Steps
    BY <1>1 DEF Begin, Ask, chainVars
  <2>2. \A t \in Scripts : t # s => at'[t] = at[t]
    BY <1>1 DEF Begin, Ask, Goes
  <2>3. at'[s] # "idle"
    BY <1>1 DEF Begin, Ask, Goes
  <2> QED
    BY <2>1, <2>2, <2>3 DEF LastInv
<1>2. ASSUME NEW s \in Scripts, ScriptStep(s) \/ TimeOut(s), last' = last
      PROVE  LastInv'
  <2>1. at[s] \in Steps /\ UNCHANGED order
    BY <1>2, ScriptMoves DEF Continues, Stops, TimeOut, Ask, chainVars
  <2>2. \A t \in Scripts : t # s => at'[t] = at[t]
    BY <1>2, ScriptMoves DEF Continues, Stops, TimeOut, Ask, Goes
  <2>3. at'[s] # "idle"
    BY <1>2, ScriptMoves DEF Continues, Stops, TimeOut, Ask, Goes, Steps, Ends
  <2> QED
    BY <1>2, <2>1, <2>2, <2>3 DEF LastInv
<1>3. ASSUME NEW s \in Scripts, Submit(s), last' = last
      PROVE  LastInv'
  <2>1. at[s] # "idle" /\ UNCHANGED at
    BY <1>3 DEF Submit, ActiveInv, scriptVars
  <2>2. \A t \in Scripts : t # s => order'[<<t, "close">>] = order[<<t, "close">>]
    BY <1>3 DEF Submit, Order, Kinds
  <2> QED
    BY <1>3, <2>1, <2>2 DEF LastInv
<1>4. ASSUME NEW o \in Scripts \X Kinds, Execute(o), last' = last
      PROVE  LastInv'
  <2>1. UNCHANGED at /\ \A x \in Scripts \X Kinds : order[x] = "none" => order'[x] = "none"
    BY <1>4 DEF Execute, scriptVars
  <2>2. \A t \in Scripts : <<t, "close">> \in Scripts \X Kinds
    BY DEF Kinds
  <2> QED
    BY <1>4, <2>1, <2>2 DEF LastInv
<1>5. CASE UNCHANGED <<at, order, last>>
  BY <1>5 DEF LastInv
<1>6. ASSUME NEW s \in Scripts, BridgeStep(s), ~Submit(s)
      PROVE  UNCHANGED <<at, order, last>>
  BY <1>6 DEF BridgeStep, CheckGas, EnterExchange, FailRead, ReadPosition, ReadOrder, EndOrder,
    FailOrder, scriptVars, chainVars
<1>7. Crash \/ Settle \/ UNCHANGED vars => UNCHANGED <<at, order, last>>
  BY DEF Crash, Settle, vars, scriptVars, chainVars
<1> QED
  BY <1>1, <1>2, <1>3, <1>4, <1>5, <1>6, <1>7, LastStays DEF Next

LEMMA AloneNext ==
  ASSUME ~overlap', FlowTypeOK, ConfirmInv, ActiveInv, Owned, Room, Behind, LastInv, Alone,
         [Next]_vars
  PROVE  Alone'
<1> USE DEF FlowTypeOK
<1>k. ASSUME Opening' \subseteq Opening, UNCHANGED <<last, step>>,
             at'[last] = "before" /\ stage'[last] = "ok" =>
               at[last] = "before" /\ (stage[last] = "ok" \/ Opening = {})
      PROVE  Alone'
  BY <1>k DEF Alone
<1>1. ASSUME NEW s \in Scripts, Begin(s)
      PROVE  Alone'
  <2>1. last' = s /\ step'[s] = "before" /\ stage'[s] = "queued"
    BY <1>1 DEF Begin, Ask, Kinds
  <2> QED
    BY <2>1 DEF Alone
<1>2. ASSUME NEW s \in Scripts, ScriptStep(s), last' = last
      PROVE  Alone'
  <2>1. at[s] \in Steps /\ s = last
    BY <1>2, ScriptMoves DEF Continues, Stops, LastInv
  <2>2. CASE Stops(s)
    <3>1. Opening' = Opening /\ UNCHANGED <<step, stage>> /\ at'[s] # "before"
      BY <2>2 DEF Stops, Opening, Goes, Ends
    <3> QED
      BY <1>2, <1>k, <2>1, <3>1
  <2>3. ASSUME NEW next \in Steps, Ask(s, next), next # "before", stage[s] = "ok",
               next = "open" \/ Opening = {}, Opening = {} \/ step[s] = "open"
        PROVE  Alone'
    <3>1. step'[s] = next /\ at'[s] = next
      BY <2>3 DEF Ask, Goes
    <3>2. Opening = {}
      <4>1. s \notin Opening
        BY <2>3 DEF Opening, Live
      <4> QED
        BY <2>1, <2>3, <4>1 DEF Alone
    <3>3. Opening' \subseteq IF next = "open" THEN {s} ELSE {}
      BY <2>3, <3>2, AskOpens
    <3> QED
      BY <1>2, <2>1, <2>3, <3>1, <3>3 DEF Alone
  <2>4. CASE Continues(s)
    <3>1. PICK next \in Steps \ {"before"} :
            Ask(s, next) /\ (next = "open" => at[s] = "before" /\ result[s] = 0)
      BY <2>4 DEF Continues
    <3>2. stage[s] = "ok" /\ step[s] = at[s]
      BY <2>1, <2>4 DEF Continues, ConfirmInv
    <3>3. s \notin Opening
      BY <3>2 DEF Opening, Live
    <3>4. Opening = {}
      BY <2>1, <3>2, <3>3 DEF Alone, Steps
    <3> QED
      BY <2>3, <3>1, <3>2, <3>4
  <2> QED
    BY <1>2, <2>2, <2>4, ScriptMoves
<1>3. ASSUME NEW s \in Scripts, TimeOut(s), last' = last
      PROVE  Alone'
  <2>1. Opening' = Opening /\ UNCHANGED <<step, stage>> /\ s = last /\ at'[s] # "before"
    BY <1>3 DEF TimeOut, Opening, Goes, LastInv, bridgeVars, chainVars
  <2> QED
    BY <1>3, <1>k, <2>1
<1>4. ASSUME NEW s \in Scripts, BridgeStep(s), last' = last
      PROVE  Alone'
  <2>1. Opening' \subseteq Opening /\ UNCHANGED <<at, step>>
    BY <1>4, CallMoves
  <2>2. stage'[last] = "ok" => stage[last] \in {"ok", "running"}
    BY <1>4 DEF BridgeStep, CheckGas, EnterExchange, FailRead, ReadPosition, ReadOrder, Submit,
      EndOrder, FailOrder, To, bridgeVars
  <2> QED
    BY <1>4, <1>k, <2>1, <2>2 DEF Behind
<1>5. CASE Crash /\ last' = last
  <2>1. Opening' = {}
    BY <1>5 DEF Crash, Opening, Live
  <2> QED
    BY <1>5, <2>1 DEF Alone
<1>6. ASSUME NEW o \in Scripts \X Kinds, Execute(o), last' = last
      PROVE  Alone'
  <2>1. Opening' \subseteq Opening
    BY <1>6, ExecuteTakesRoom
  <2> QED
    BY <1>6, <1>k, <2>1 DEF Execute, scriptVars, bridgeVars
<1>7. CASE Settle \/ UNCHANGED vars
  BY <1>7, <1>k DEF Settle, Opening, vars, scriptVars, bridgeVars, chainVars
<1> QED
  BY <1>1, <1>2, <1>3, <1>4, <1>5, <1>6, <1>7, LastStays DEF Next

LEMMA FlatNext ==
  ASSUME ~overlap', FlowTypeOK, ConfirmInv, ActiveInv, Owned, Room, SizedInv, LastInv, Alone, Flat,
         [Next]_vars
  PROVE  Flat'
<1> USE DEF FlowTypeOK
<1>k. ASSUME UNCHANGED <<last, order, position>>, step'[last] = step[last] \/ step'[last] = "confirm"
      PROVE  Flat'
  BY <1>k DEF Flat, Executed
<1>1. ASSUME NEW s \in Scripts, Begin(s)
      PROVE  Flat'
  <2>1. last' = s /\ order' = order /\ order[<<s, "close">>] = "none"
    BY <1>1 DEF Begin, Ask, LastInv, chainVars
  <2> QED
    BY <2>1 DEF Flat, Executed
<1>2. ASSUME NEW s \in Scripts, ScriptStep(s), last' = last
      PROVE  Flat'
  <2>1. at[s] \in Steps /\ s = last /\ step[s] = at[s] /\ UNCHANGED <<order, position>>
    BY <1>2, ScriptMoves DEF Continues, Stops, LastInv, ConfirmInv, Ask, chainVars
  <2>2. CASE Stops(s)
    BY <1>2, <1>k, <2>1, <2>2 DEF Stops
  <2>3. CASE Closed(s)
    <3>1. step'[last] = "confirm"
      BY <2>1, <2>3 DEF Closed, Ask
    <3> QED
      BY <1>2, <1>k, <2>1, <3>1
  <2>4. CASE ReadBefore(s) \/ Opened(s) \/ ReadAfter(s)
    <3>1. step[s] \in {"before", "open", "after"}
      BY <2>1, <2>4 DEF ReadBefore, Opened, ReadAfter, Answered
    <3>2. ~Executed(last)
      BY <2>1, <3>1 DEF Flat
    <3> QED
      BY <1>2, <2>1, <3>2 DEF Flat, Executed
  <2>5. Confirmed(s) \/ GetError(s) => Stops(s)
    BY DEF Confirmed, GetError, Answered, End, Steps, Ends, Live, Stops, bridgeVars, chainVars
  <2> QED
    BY <1>2, <2>2, <2>3, <2>4, <2>5 DEF ScriptStep
<1>3. ASSUME NEW s \in Scripts, TimeOut(s) \/ BridgeStep(s), ~Submit(s), last' = last
      PROVE  Flat'
  <2>1. UNCHANGED <<step, order, position>>
    BY <1>3 DEF TimeOut, BridgeStep, CheckGas, EnterExchange, FailRead, ReadPosition, ReadOrder,
      EndOrder, FailOrder, bridgeVars, chainVars
  <2> QED
    BY <1>3, <1>k, <2>1
<1>4. ASSUME NEW s \in Scripts, Submit(s), last' = last
      PROVE  Flat'
  <2>1. UNCHANGED <<step, position>> /\ order' = [order EXCEPT ![<<s, step[s]>>] = "submitted"]
    BY <1>4 DEF Submit, Order, bridgeVars
  <2>2. <<last, "close">> \in Scripts \X Kinds
    BY DEF Kinds
  <2>3. Executed(last)' => Executed(last)
    BY <1>4, <2>1, <2>2 DEF Executed
  <2> QED
    BY <1>4, <2>1, <2>3 DEF Flat
<1>5. ASSUME NEW o \in Scripts \X Kinds, Execute(o), last' = last
      PROVE  Flat'
  <2>1. UNCHANGED step /\ order[o] = "submitted" /\ stage[o[1]] = "running" /\ step[o[1]] = o[2]
    <3>1. o = <<o[1], o[2]>> /\ o[1] \in Scripts /\ o[2] \in Kinds
      OBVIOUS
    <3> QED
      BY <1>5, <3>1 DEF Execute, Owned, bridgeVars
  <2>2. <<last, "close">> \in Scripts \X Kinds
    BY DEF Kinds
  <2>3. CASE o = <<last, "close">>
    <3>1. step[last] = "close" /\ seen[last] > 0 /\ seen[last] \in Nat
      BY <2>1, <2>3 DEF SizedInv
    <3>2. Executed(last)' => position > 0 /\ position' = IF seen[last] > position THEN 0 ELSE position - seen[last]
      BY <1>5, <2>2, <2>3 DEF Execute, Executed
    <3>3. position \in Nat /\ position <= 1
      BY DEF Room
    <3>4. Executed(last)' => position' = 0
      BY <3>1, <3>2, <3>3
    <3> QED
      BY <1>5, <2>1, <3>1, <3>4 DEF Flat
  <2>4. CASE o # <<last, "close">>
    <3>1. Executed(last)' => Executed(last)
      BY <1>5, <2>2, <2>4 DEF Execute, Executed
    <3>2. Executed(last) => position = 0 /\ Opening = {}
      BY DEF Flat, Alone
    <3>3. position = 0 /\ Opening = {} => position' = 0
      BY <1>5, ExecuteTakesRoom
    <3> QED
      BY <1>5, <2>1, <3>1, <3>2, <3>3 DEF Flat
  <2> QED
    BY <2>3, <2>4
<1>6. CASE Crash \/ Settle \/ UNCHANGED vars
  BY <1>6, <1>k DEF Crash, Settle, vars, scriptVars, bridgeVars, chainVars
<1> QED
  BY <1>1, <1>2, <1>3, <1>4, <1>5, <1>6, LastStays DEF Next

\* Barring overlap and excuses.
FlatInv == ~overlap => LastInv /\ (excuses = {} => Alone /\ Flat)

\* For any number of runs one after the other, what README.md:54 says of the
\* example is true unless a read lagged, the bridge lost a pending order, or a
\* call was given up before it queued.
THEOREM AllOkLeavesNothing == Spec => []AllOkIsFlatUnexcused
<1>1. Init => SizedInv /\ FlatInv
  <2> SUFFICES ASSUME Init
               PROVE  SizedInv /\ LastInv /\ Alone /\ Flat
    BY DEF FlatInv
  <2>1. SizedInv /\ LastInv
    BY DEF Init, SizedInv, LastInv, Steps, Kinds
  <2>2. Opening = {}
    BY DEF Init, Opening
  <2>3. Alone /\ Flat
    BY <2>2 DEF Init, Alone, Flat, Executed, Kinds
  <2> QED
    BY <2>1, <2>3
<1>2. FlowTypeOK /\ ConfirmInv /\ FlowInv /\ SizedInv /\ FlatInv /\ [Next]_vars => FlatInv'
  <2> SUFFICES ASSUME FlowTypeOK, ConfirmInv, FlowInv, SizedInv, FlatInv, [Next]_vars, ~overlap'
               PROVE  LastInv' /\ (excuses' = {} => Alone' /\ Flat')
    BY DEF FlatInv
  <2>1. ~overlap /\ ActiveInv /\ ClearInv /\ LastInv
    BY OverlapStays DEF FlowInv, FlatInv
  <2>2. excuses' = {} => Owned /\ Room /\ Behind /\ Alone /\ Flat
    BY <2>1, ExcusesStay DEF ClearInv, FlatInv
  <2> QED
    BY <2>1, <2>2, LastNext, AloneNext, FlatNext
<1>3. FlowTypeOK /\ ConfirmInv /\ FlatInv => AllOkIsFlatUnexcused
  BY DEF FlowTypeOK, ConfirmInv, FlatInv, Flat, AllOkIsFlatUnexcused
<1> QED
  BY <1>1, <1>2, <1>3, SizedNext, FlowInvariant, PTL DEF Spec
=============================================================================
