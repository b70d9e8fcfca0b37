------------------------- MODULE BridgeWaitingProofs -------------------------
(***************************************************************************)
(* What suspended coroutines of BridgeRuntime wait for: the jobs in the    *)
(* pool and the lock, why they never all wait for one another, and why     *)
(* every step brings one of them nearer to its end.                        *)
(***************************************************************************)
EXTENDS BridgeSafetyProofs

-----------------------------------------------------------------------------
(* The pool's jobs, apart from their order.                                *)

In(x, s) == \E i \in 1..Len(s) : s[i] = x
Distinct(s) == \A i, j \in 1..Len(s) : s[i] = s[j] => i = j

LEMMA SingletonSeq ==
  ASSUME NEW S, NEW x \in S
  PROVE  <<x>> \in Seq(S) /\ Distinct(<<x>>) /\ \A u : In(u, <<x>>) <=> u = x
<1> DEFINE s == <<x>>
<1>1. s \in Seq(S)
  OBVIOUS
<1>2. Len(s) = 1 /\ s[1] = x
  OBVIOUS
<1> HIDE DEF s
<1>3. Distinct(s) /\ \A u : In(u, s) <=> u = x
  BY <1>2 DEF Distinct, In
<1> QED
  BY <1>1, <1>3 DEF s

LEMMA RemovedFromSeq ==
  ASSUME NEW S, NEW s \in Seq(S), Distinct(s), NEW i \in 1..Len(s)
  PROVE  /\ RemoveAt(s, i) \in Seq(S) /\ Distinct(RemoveAt(s, i))
         /\ \A x : In(x, RemoveAt(s, i)) <=> In(x, s) /\ x # s[i]
<1> DEFINE front == SubSeq(s, 1, i - 1)
           back  == SubSeq(s, i + 1, Len(s))
           z     == RemoveAt(s, i)
           n     == Len(s)
<1>1. n \in Nat /\ i \in Int /\ 1 <= i /\ i <= n /\ \A j \in 1..n : s[j] \in S
  BY ElementOfSeq
<1>2. /\ front \in Seq(S) /\ Len(front) = i - 1
      /\ \A j \in 1..(i - 1) : front[j] = s[j]
  <2>1. /\ front \in Seq(S) /\ Len(front) = IF 1 <= i - 1 THEN i - 1 - 1 + 1 ELSE 0
        /\ \A j \in 1..(i - 1 - 1 + 1) : front[j] = s[1 + j - 1]
    BY <1>1, SubSeqProperties
  <2> QED
    BY <1>1, <2>1
<1>3. /\ back \in Seq(S) /\ Len(back) = n - i
      /\ \A j \in 1..(n - i) : back[j] = s[i + j]
  <2>1. /\ back \in Seq(S) /\ Len(back) = IF i + 1 <= n THEN n - (i + 1) + 1 ELSE 0
        /\ \A j \in 1..(n - (i + 1) + 1) : back[j] = s[i + 1 + j - 1]
    BY <1>1, SubSeqProperties
  <2> QED
    BY <1>1, <2>1
<1>4. z = front \o back
  BY DEF RemoveAt
<1> HIDE DEF front, back
<1>5. /\ z \in Seq(S) /\ Len(z) = n - 1
      /\ \A j \in 1..(n - 1) : z[j] = IF j < i THEN s[j] ELSE s[j + 1]
  <2>1. /\ z \in Seq(S) /\ Len(z) = Len(front) + Len(back)
        /\ \A j \in 1..(Len(front) + Len(back)) :
             z[j] = IF j <= Len(front) THEN front[j] ELSE back[j - Len(front)]
    <3>1. front \in Seq(S) /\ back \in Seq(S)
      BY <1>2, <1>3
    <3> QED
      BY <3>1, <1>4, ConcatProperties
  <2>2. ASSUME NEW j \in 1..(n - 1)
        PROVE  z[j] = IF j < i THEN s[j] ELSE s[j + 1]
    <3>1. z[j] = IF j <= i - 1 THEN front[j] ELSE back[j - (i - 1)]
      BY <1>1, <1>2, <1>3, <2>1
    <3>2. CASE j < i
      BY <1>1, <1>2, <3>1, <3>2
    <3>3. CASE ~(j < i)
      <4>1. j - (i - 1) \in 1..(n - i) /\ i + (j - (i - 1)) = j + 1
        BY <1>1, <3>3
      <4> QED
        BY <1>1, <1>3, <3>1, <3>3, <4>1
    <3> QED
      BY <3>2, <3>3
  <2> QED
    BY <1>1, <1>2, <1>3, <2>1, <2>2
<1> HIDE DEF z
<1>6. Distinct(z)
  BY <1>1, <1>5 DEF Distinct
<1>7. ASSUME NEW x, In(x, z)
      PROVE  In(x, s) /\ x # s[i]
  <2>1. PICK j \in 1..(n - 1) : z[j] = x
    BY <1>5, <1>7 DEF In
  <2> QED
    BY <1>1, <1>5, <2>1 DEF In, Distinct
<1>8. ASSUME NEW x, In(x, s), x # s[i]
      PROVE  In(x, z)
  <2>1. PICK j \in 1..n : s[j] = x
    BY <1>8 DEF In
  <2>2. CASE j < i
    BY <1>1, <1>5, <2>1, <2>2 DEF In
  <2>3. CASE j > i
    <3>1. j - 1 \in 1..(n - 1) /\ z[j - 1] = x
      BY <1>1, <1>5, <2>1, <2>3
    <3> QED
      BY <1>5, <3>1 DEF In
  <2> QED
    BY <1>1, <1>8, <2>1, <2>2, <2>3
<1> QED
  BY <1>5, <1>6, <1>7, <1>8 DEF z

LEMMA JoinedSeqs ==
  ASSUME NEW S, NEW s \in Seq(S), NEW u \in Seq(S), Distinct(s), Distinct(u),
         \A x : ~(In(x, s) /\ In(x, u))
  PROVE  /\ s \o u \in Seq(S) /\ Distinct(s \o u)
         /\ \A x : In(x, s \o u) <=> In(x, s) \/ In(x, u)
<1> DEFINE z == s \o u
           m == Len(s)
           n == Len(u)
<1>1. /\ m \in Nat /\ n \in Nat /\ z \in Seq(S) /\ Len(z) = m + n
      /\ \A j \in 1..(m + n) : z[j] = IF j <= m THEN s[j] ELSE u[j - m]
  BY ConcatProperties, LenProperties
<1> HIDE DEF z
<1>2. \A i \in 1..m, j \in 1..n : s[i] # u[j]
  BY DEF In
<1>3. ASSUME NEW i \in 1..(m + n), NEW j \in 1..(m + n), z[i] = z[j]
      PROVE  i = j
  <2>1. CASE i <= m /\ j <= m
    BY <1>1, <1>3, <2>1 DEF Distinct
  <2>2. CASE i > m /\ j > m
    <3>1. i - m \in 1..n /\ j - m \in 1..n /\ z[i] = u[i - m] /\ z[j] = u[j - m]
      BY <1>1, <2>2
    <3>2. i - m = j - m
      BY <1>3, <3>1 DEF Distinct
    <3> QED
      BY <1>1, <3>2
  <2>3. CASE i <= m /\ j > m
    <3>1. i \in 1..m /\ j - m \in 1..n /\ z[i] = s[i] /\ z[j] = u[j - m]
      BY <1>1, <2>3
    <3> QED
      BY <1>2, <1>3, <3>1
  <2>4. CASE i > m /\ j <= m
    <3>1. j \in 1..m /\ i - m \in 1..n /\ z[j] = s[j] /\ z[i] = u[i - m]
      BY <1>1, <2>4
    <3> QED
      BY <1>2, <1>3, <3>1
  <2> QED
    BY <1>1, <2>1, <2>2, <2>3, <2>4
<1>4. Distinct(z)
  BY <1>1, <1>3 DEF Distinct
<1>5. ASSUME NEW x, In(x, z)
      PROVE  In(x, s) \/ In(x, u)
  <2>1. PICK j \in 1..(m + n) : z[j] = x
    BY <1>1, <1>5 DEF In
  <2>2. CASE j <= m
    BY <1>1, <2>1, <2>2 DEF In
  <2>3. CASE j > m
    <3>1. j - m \in 1..n /\ u[j - m] = x
      BY <1>1, <2>1, <2>3
    <3> QED
      BY <3>1 DEF In
  <2> QED
    BY <1>1, <2>2, <2>3
<1>6. ASSUME NEW x, In(x, s)
      PROVE  In(x, z)
  <2>1. PICK j \in 1..m : s[j] = x
    BY <1>6 DEF In
  <2>2. j \in 1..(m + n) /\ z[j] = x
    BY <1>1, <2>1
  <2> QED
    BY <1>1, <2>2 DEF In
<1>7. ASSUME NEW x, In(x, u)
      PROVE  In(x, z)
  <2>1. PICK j \in 1..n : u[j] = x
    BY <1>7 DEF In
  <2>2. m + j \in 1..(m + n) /\ m + j > m /\ m + j - m = j
    BY <1>1
  <2>3. z[m + j] = x
    BY <1>1, <2>1, <2>2
  <2> QED
    BY <1>1, <2>2, <2>3 DEF In
<1> QED
  BY <1>1, <1>4, <1>5, <1>6, <1>7 DEF z

Pooled == {t \in Jobs : In(t, pool)}

JobsOf(r) == {t \in Jobs : t[1] = r}

\* A step of r takes the jobs in gone out of the pool and puts those in new in.
Exchanges(r, gone, new) ==
  /\ gone \subseteq JobsOf(r) /\ new \subseteq JobsOf(r)
  /\ Distinct(pool')
  /\ Pooled' = (Pooled \ gone) \union new

\* A step of r leaves the jobs of the other requests as they are.
LeavesOthersJobs(r) ==
  \A t \in Jobs : t[1] # r => (t \in Pooled' <=> t \in Pooled) /\ job'[t] = job[t]

LEMMA RemovedJob ==
  ASSUME TypeOK, Distinct(pool), NEW t \in Jobs, HoldsToken(t)
  PROVE  LET rest == RemoveAt(pool, Position(t)) IN
           /\ rest \in Seq(Jobs) /\ Distinct(rest)
           /\ \A u : In(u, rest) <=> In(u, pool) /\ u # t
<1>1. Position(t) \in 1..Len(pool) /\ pool[Position(t)] = t
  BY DEF HoldsToken, Position
<1> QED
  BY <1>1, RemovedFromSeq DEF TypeOK

LEMMA SwapExchanges ==
  ASSUME TypeOK, Distinct(pool), NEW r \in Requests, NEW t \in JobsOf(r), HoldsToken(t),
         NEW new \in Seq(JobsOf(r)), Distinct(new), \A u : In(u, new) => ~In(u, pool),
         SwapJobs(t, new)
  PROVE  Exchanges(r, {t}, {u \in JobsOf(r) : In(u, new)})
<1>1. t \in Jobs /\ new \in Seq(Jobs)
  <2>1. Len(new) \in Nat /\ new \in [1..Len(new) -> Jobs]
    BY DEF JobsOf
  <2> QED
    BY <2>1, SeqDef DEF JobsOf
<1> DEFINE rest == RemoveAt(pool, Position(t))
<1>2. rest \in Seq(Jobs) /\ Distinct(rest) /\ \A u : In(u, rest) <=> In(u, pool) /\ u # t
  BY <1>1, RemovedJob
<1>3. pool' = rest \o new
  BY DEF SwapJobs
<1> HIDE DEF rest
<1>4. Distinct(pool') /\ \A u : In(u, pool') <=> In(u, rest) \/ In(u, new)
  BY <1>1, <1>2, <1>3, JoinedSeqs
<1>5. \A u : In(u, new) => u \in JobsOf(r)
  BY DEF In
<1>6. Pooled' = {u \in Jobs : In(u, pool')}
  BY DEF Pooled, Jobs, In
<1>7. JobsOf(r) \subseteq Jobs
  BY DEF JobsOf
<1> QED
  BY <1>1, <1>2, <1>4, <1>5, <1>6, <1>7 DEF Exchanges, Pooled

LEMMA AppendExchanges ==
  ASSUME TypeOK, Distinct(pool), NEW r \in Requests, NEW t \in JobsOf(r), ~In(t, pool),
         pool' = Append(pool, t)
  PROVE  Exchanges(r, {}, {t})
<1> DEFINE one == <<t>>
           all == pool \o one
<1>1. t \in Jobs /\ pool \in Seq(Jobs)
  BY DEF TypeOK, JobsOf
<1>2. pool' = all
  BY <1>1
<1>3. one \in Seq(Jobs) /\ Distinct(one) /\ \A u : In(u, one) <=> u = t
  BY <1>1, SingletonSeq
<1> HIDE DEF one
<1>4. Distinct(all) /\ \A u : In(u, all) <=> In(u, pool) \/ In(u, one)
  BY <1>1, <1>3, JoinedSeqs
<1> HIDE DEF all
<1>5. Distinct(pool') /\ \A u : In(u, pool') <=> In(u, pool) \/ u = t
  BY <1>2, <1>3, <1>4 DEF Distinct, In
<1>6. Pooled' = {u \in Jobs : In(u, pool')}
  BY DEF Pooled, Jobs, In
<1> QED
  BY <1>1, <1>5, <1>6 DEF Exchanges, Pooled, JobsOf

LEMMA RemoveExchanges ==
  ASSUME TypeOK, Distinct(pool), NEW r \in Requests, NEW t \in JobsOf(r), HoldsToken(t),
         pool' = RemoveAt(pool, Position(t))
  PROVE  Exchanges(r, {t}, {})
<1>1. t \in Jobs
  BY DEF JobsOf
<1> DEFINE rest == RemoveAt(pool, Position(t))
<1>r. Distinct(rest) /\ \A u : In(u, rest) <=> In(u, pool) /\ u # t
  BY <1>1, RemovedJob
<1> HIDE DEF rest
<1>2. Distinct(pool') /\ \A u : In(u, pool') <=> In(u, pool) /\ u # t
  <2>1. pool' = rest
    BY DEF rest
  <2> QED
    BY <1>r, <2>1 DEF Distinct, In
<1>3. Pooled' = {u \in Jobs : In(u, pool')}
  BY DEF Pooled, Jobs, In
<1> QED
  BY <1>2, <1>3 DEF Exchanges, Pooled

\* The jobs that one status or ping submits are of different kinds.
LEMMA DiagnosticJobsDiffer ==
  ASSUME NEW r \in Requests
  PROVE  /\ PingJobs(r) \in Seq(JobsOf(r)) /\ Distinct(PingJobs(r))
         /\ StatusJobs(r) \in Seq(JobsOf(r)) /\ Distinct(StatusJobs(r))
<1> DEFINE S == JobsOf(r)
           Chain == IF config.chain THEN <<<<r, "chain">>>> ELSE <<>>
           Id    == IF config.web3 THEN <<<<r, "chainId">>>> ELSE <<>>
           Gas1  == IF config.chain THEN <<<<r, "gasChain">>>> ELSE <<>>
           Gas2  == IF GasReadable THEN <<<<r, "gas">>>> ELSE <<>>
<1>1. ASSUME NEW k \in Kinds, NEW s, s = <<<<r, k>>>> \/ s = <<>>
      PROVE  s \in Seq(S) /\ Distinct(s) /\ \A u : In(u, s) => u = <<r, k>>
  <2>1. CASE s = <<>>
    BY <2>1, EmptySeq DEF Distinct, In
  <2>2. CASE s = <<<<r, k>>>>
    <3>1. <<r, k>> \in S
      BY DEF JobsOf, Jobs
    <3> QED
      BY <2>2, <3>1, SingletonSeq
  <2> QED
    BY <1>1, <2>1, <2>2
<1>2. /\ Chain \in Seq(S) /\ Distinct(Chain) /\ \A u : In(u, Chain) => u = <<r, "chain">>
      /\ Id \in Seq(S) /\ Distinct(Id) /\ \A u : In(u, Id) => u = <<r, "chainId">>
      /\ Gas1 \in Seq(S) /\ Distinct(Gas1) /\ \A u : In(u, Gas1) => u = <<r, "gasChain">>
      /\ Gas2 \in Seq(S) /\ Distinct(Gas2) /\ \A u : In(u, Gas2) => u = <<r, "gas">>
  <2>1. "chain" \in Kinds /\ "chainId" \in Kinds /\ "gasChain" \in Kinds /\ "gas" \in Kinds
    BY DEF Kinds
  <2> QED
    BY <2>1, <1>1
<1>3. PingJobs(r) = Chain \o Id /\ StatusJobs(r) = (Chain \o Id \o Gas1) \o Gas2
  BY DEF PingJobs, StatusJobs
<1> HIDE DEF S, Chain, Id, Gas1, Gas2
<1> DEFINE Two   == Chain \o Id
           Three == Two \o Gas1
<1>4. /\ Two \in Seq(S) /\ Distinct(Two)
      /\ \A u : In(u, Two) => u \in {<<r, "chain">>, <<r, "chainId">>}
  BY <1>2, JoinedSeqs
<1>n. PingJobs(r) = Two /\ StatusJobs(r) = Three \o Gas2
  BY <1>3
<1> HIDE DEF Two
<1>5. /\ Three \in Seq(S) /\ Distinct(Three)
      /\ \A u : In(u, Three) =>
           u \in {<<r, "chain">>, <<r, "chainId">>, <<r, "gasChain">>}
  <2>1. \A u : ~(In(u, Two) /\ In(u, Gas1))
    BY <1>2, <1>4
  <2> QED
    BY <2>1, <1>2, <1>4, JoinedSeqs
<1> HIDE DEF Three
<1>6. Three \o Gas2 \in Seq(S) /\ Distinct(Three \o Gas2)
  <2>1. \A u : ~(In(u, Three) /\ In(u, Gas2))
    BY <1>2, <1>5
  <2> QED
    BY <2>1, <1>2, <1>5, JoinedSeqs
<1> QED
  BY <1>n, <1>4, <1>6 DEF S

-----------------------------------------------------------------------------
(* The pool and the coroutines.                                            *)

\* The jobs of r in the pool are those it awaits, and it awaits one of them.
PoolFits(r) ==
  /\ \A k \in Kinds : <<r, k>> \in Pooled => k \in Awaited(pc[r])
  /\ pc[r] \in {"auth", "gas", "exchange"} => <<r, pc[r]>> \in Pooled
  /\ Gathering(r) => \E k \in DiagnosticKinds : <<r, k>> \in Pooled

PoolInv == Distinct(pool) /\ \A r \in Requests : PoolFits(r)

LEMMA PoolOfStep ==
  ASSUME TypeOK, PoolInv, NEW r \in Requests, NEW label, pc' = [pc EXCEPT ![r] = label],
         NEW gone, NEW new, Exchanges(r, gone, new), PoolFits(r)'
  PROVE  PoolInv'
<1>1. ASSUME NEW q \in Requests, q # r
      PROVE  PoolFits(q)'
  <2>1. pc'[q] = pc[q]
    BY <1>1 DEF TypeOK
  <2>2. \A k : <<q, k>> \in Pooled' <=> <<q, k>> \in Pooled
    BY <1>1 DEF Exchanges, JobsOf
  <2>3. PoolFits(q)
    BY DEF PoolInv
  <2> QED
    BY <2>1, <2>2, <2>3 DEF PoolFits, Gathering
<1> QED
  BY <1>1 DEF PoolInv, Exchanges

\* A coroutine that has one job in the pool exchanges it for others.
LEMMA PoolOfSwap ==
  ASSUME TypeOK, PoolInv, NEW r \in Requests, NEW label, Goto(r, label),
         pc[r] \in {"auth", "gas", "exchange"}, HoldsToken(<<r, pc[r]>>),
         NEW new \in Seq(JobsOf(r)), Distinct(new), SwapJobs(<<r, pc[r]>>, new),
         \A u : In(u, new) => u[2] # pc[r] /\ u[2] \in Awaited(label),
         label \in {"auth", "gas", "exchange"} => In(<<r, label>>, new),
         label \in {"ping", "augment"} => \E k \in DiagnosticKinds : In(<<r, k>>, new)
  PROVE  PoolInv' /\ LeavesOthersJobs(r)
<1> DEFINE t == <<r, pc[r]>>
<1>1. t \in JobsOf(r)
  BY DEF JobsOf, Jobs, Kinds
<1>2. Distinct(pool) /\ \A k \in Kinds : <<r, k>> \in Pooled => k = pc[r]
  BY DEF PoolInv, PoolFits, Awaited
<1>3. \A u : In(u, new) => u \in JobsOf(r) /\ u = <<r, u[2]>> /\ u[2] \in Kinds
  BY DEF In, JobsOf, Jobs
<1>4. \A u : In(u, new) => ~In(u, pool)
  <2>1. SUFFICES ASSUME NEW u, In(u, new), In(u, pool)
                 PROVE  FALSE
    OBVIOUS
  <2>2. u \in Pooled
    BY <2>1, <1>3 DEF Pooled, JobsOf
  <2> QED
    BY <2>1, <2>2, <1>2, <1>3
<1>5. Exchanges(r, {t}, {u \in JobsOf(r) : In(u, new)})
  BY <1>1, <1>2, <1>4, SwapExchanges
<1>6. Pooled' = (Pooled \ {t}) \union {u \in JobsOf(r) : In(u, new)}
  BY <1>5 DEF Exchanges
<1>7. pc' = [pc EXCEPT ![r] = label] /\ pc'[r] = label
  BY DEF Goto, TypeOK
<1>8. PoolFits(r)'
  <2>1. ASSUME NEW k \in Kinds, <<r, k>> \in Pooled'
        PROVE  k \in Awaited(label)
    <3>1. In(<<r, k>>, new)
      BY <2>1, <1>2, <1>6
    <3>2. <<r, k>>[2] = k
      OBVIOUS
    <3> QED
      BY <3>1, <3>2
  <2>2. \A u : In(u, new) => u \in Pooled'
    BY <1>3, <1>6
  <2> QED
    BY <2>1, <2>2, <1>7 DEF PoolFits, Gathering, Awaited
<1>9. LeavesOthersJobs(r)
  <2> SUFFICES ASSUME NEW u \in Jobs, u[1] # r
               PROVE  (u \in Pooled' <=> u \in Pooled) /\ job'[u] = job[u]
    BY DEF LeavesOthersJobs
  <2>1. u # t /\ u \notin JobsOf(r) /\ ~In(u, new)
    BY <1>3 DEF JobsOf
  <2> QED
    BY <2>1, <1>6 DEF SwapJobs, In
<1> QED
  BY <1>5, <1>7, <1>8, <1>9, PoolOfStep

\* The job awaited last when the checks are passed is that of the label.
LEMMA LastCheckIsAwaited ==
  ASSUME NEW r \in Requests, PassedChecks(r)
  PROVE  pc[r] \in {"auth", "gas"} /\ LastCheck(r) = <<r, pc[r]>> /\ HoldsToken(LastCheck(r))
BY LastCheckHoldsToken DEF PassedChecks, Authenticated, GasRead, LastCheck

LEMMA PoolLoopStep ==
  ASSUME TypeOK, PoolInv, NEW r \in Requests, LoopStep(r)
  PROVE  PoolInv' /\ LeavesOthersJobs(r)
<1>e. <<>> \in Seq(JobsOf(r)) /\ Distinct(<<>>) /\ \A u : ~In(u, <<>>)
  BY EmptySeq DEF Distinct, In
<1>j. ASSUME NEW k \in Kinds
      PROVE  /\ <<<<r, k>>>> \in Seq(JobsOf(r)) /\ Distinct(<<<<r, k>>>>)
             /\ \A u : In(u, <<<<r, k>>>>) <=> u = <<r, k>>
  <2>1. <<r, k>> \in JobsOf(r)
    BY DEF JobsOf, Jobs
  <2> QED
    BY <2>1, SingletonSeq
<1>k. "auth" \in Kinds /\ "gas" \in Kinds /\ "exchange" \in Kinds
  BY DEF Kinds
<1>a. ASSUME NEW label \in {"done", "lock"}, Goto(r, label),
             pc[r] \in {"auth", "gas", "exchange"}, HoldsToken(<<r, pc[r]>>),
             SwapJobs(<<r, pc[r]>>, <<>>)
      PROVE  PoolInv' /\ LeavesOthersJobs(r)
  BY <1>a, <1>e, PoolOfSwap
<1>b. ASSUME NEW label \in {"gas", "exchange"}, Goto(r, label), label # pc[r],
             pc[r] \in {"auth", "gas", "exchange"}, HoldsToken(<<r, pc[r]>>),
             SwapJobs(<<r, pc[r]>>, <<<<r, label>>>>)
      PROVE  PoolInv' /\ LeavesOthersJobs(r)
  <2> DEFINE new == <<<<r, label>>>>
  <2>1. new \in Seq(JobsOf(r)) /\ Distinct(new) /\ \A u : In(u, new) <=> u = <<r, label>>
    BY <1>j, <1>k
  <2>2. SwapJobs(<<r, pc[r]>>, new)
    BY <1>b
  <2> HIDE DEF new
  <2>3. \A u : In(u, new) => u[2] # pc[r] /\ u[2] \in Awaited(label)
    BY <1>b, <2>1 DEF Awaited
  <2> QED
    BY <1>b, <2>1, <2>2, <2>3, PoolOfSwap
<1>c. ASSUME NEW label \in {"ping", "augment"}, Goto(r, label),
             pc[r] \in {"auth", "exchange"}, HoldsToken(<<r, pc[r]>>),
             NEW new, new = PingJobs(r) \/ new = StatusJobs(r), new # <<>>,
             SwapJobs(<<r, pc[r]>>, new)
      PROVE  PoolInv' /\ LeavesOthersJobs(r)
  <2>1. new \in Seq(JobsOf(r)) /\ Distinct(new)
    BY <1>c, DiagnosticJobsDiffer
  <2>2. \A u : In(u, new) => u[1] = r /\ u[2] \in DiagnosticKinds /\ u = <<r, u[2]>>
    <3>1. \A u : In(u, new) => u[1] = r /\ u[2] \in DiagnosticKinds
      BY <1>c, DiagnosticJobs DEF In
    <3>2. \A u : In(u, new) => u \in JobsOf(r)
      BY <2>1 DEF In
    <3> QED
      BY <3>1, <3>2 DEF JobsOf, Jobs
  <2>3. In(new[1], new)
    <3>1. Len(new) \in Nat \ {0}
      BY <1>c, <2>1
    <3> QED
      BY <3>1 DEF In
  <2>4. \E k \in DiagnosticKinds : In(<<r, k>>, new)
    BY <2>2, <2>3
  <2>5. \A u : In(u, new) => u[2] # pc[r] /\ u[2] \in Awaited(label)
    BY <1>c, <2>2 DEF DiagnosticKinds, Awaited
  <2> QED
    BY <1>c, <2>1, <2>4, <2>5, PoolOfSwap
<1>1. CASE Deny(r)
  BY <1>1, <1>a DEF Deny, Reply, Authenticated
<1>2. CASE StartGasCheck(r)
  BY <1>2, <1>b DEF StartGasCheck, Authenticated
<1>3. CASE FailGasCheck(r)
  BY <1>3, <1>a DEF FailGasCheck, ReplyRaised, Reply, GasRead
<1>4. CASE MissingMethod(r)
  BY <1>4, <1>a, LastCheckIsAwaited DEF MissingMethod, Reply
<1>5. CASE AcquireLock(r)
  BY <1>5, <1>b, LastCheckIsAwaited DEF AcquireLock, EnterExchange
<1>6. CASE QueueForLock(r)
  BY <1>6, <1>a, LastCheckIsAwaited DEF QueueForLock
<1>7. CASE WakeUp(r)
  <2> DEFINE t == <<r, "exchange">>
  <2>1. t \in JobsOf(r) /\ "exchange" \in Kinds
    BY DEF JobsOf, Jobs, Kinds
  <2>2. pc' = [pc EXCEPT ![r] = "exchange"] /\ pc'[r] = "exchange" /\ pool' = Append(pool, t)
    BY <1>7 DEF WakeUp, Goto, TypeOK
  <2>3. \A k \in Kinds : <<r, k>> \notin Pooled
    BY <1>7 DEF WakeUp, PoolInv, PoolFits, Awaited
  <2>4. ~In(t, pool)
    BY <2>1, <2>3 DEF Pooled, JobsOf
  <2>5. Exchanges(r, {}, {t})
    BY <2>1, <2>2, <2>4, AppendExchanges DEF PoolInv
  <2>6. \A u : u \in Pooled' <=> u \in Pooled \/ u = t
    BY <2>5 DEF Exchanges
  <2>7. PoolFits(r)'
    BY <2>2, <2>3, <2>6 DEF PoolFits, Gathering, Awaited
  <2>8. LeavesOthersJobs(r)
    <3>1. job' = [job EXCEPT ![t] = "pending"]
      BY <1>7 DEF WakeUp
    <3>2. \A u \in Jobs : u[1] # r => u # t
      OBVIOUS
    <3> QED
      BY <3>1, <3>2, <2>6 DEF LeavesOthersJobs, TypeOK
  <2> QED
    BY <2>2, <2>5, <2>7, <2>8, PoolOfStep
<1>8. CASE RaiseExchangeError(r)
  BY <1>8, <1>a DEF RaiseExchangeError, LeaveLock, ReplyRaised, Reply, Returned
<1>9. CASE AnswerCall(r)
  BY <1>9, <1>a DEF AnswerCall, AnswerResult, LeaveLock, Reply, Returned
<1>10. CASE Augment(r)
  BY <1>10, <1>c DEF Augment, LeaveLock, Returned
<1>11. CASE StartPing(r)
  <2>1. CASE PingJobs(r) = <<>>
    BY <1>11, <2>1, <1>a DEF StartPing, Authenticated, Reply
  <2>2. CASE PingJobs(r) # <<>>
    BY <1>11, <2>2, <1>c DEF StartPing, Authenticated
  <2> QED
    BY <2>1, <2>2
<1> QED
  BY <1>1, <1>2, <1>3, <1>4, <1>5, <1>6, <1>7, <1>8, <1>9, <1>10, <1>11 DEF LoopStep

LEMMA PoolReadStep ==
  ASSUME TypeOK, PoolInv, NEW r \in Requests, NEW k \in DiagnosticKinds, ReadStep(r, k)
  PROVE  PoolInv' /\ LeavesOthersJobs(r)
<1> DEFINE t == <<r, k>>
<1>1. t \in JobsOf(r) /\ DiagnosticKinds \subseteq Kinds
  BY DEF JobsOf, Jobs, Kinds, DiagnosticKinds
<1>2. HoldsToken(t) /\ pool' = RemoveAt(pool, Position(t))
  BY DEF ReadStep, AwaitMoreReads, AnswerPing, AnswerStatus, FailGather, DropOrphan, ReadBack
<1>3. Exchanges(r, {t}, {})
  BY <1>1, <1>2, RemoveExchanges DEF PoolInv
<1>4. \A u : u \in Pooled' <=> u \in Pooled /\ u # t
  BY <1>3 DEF Exchanges
<1>5. PoolFits(r)
  BY DEF PoolInv
<1>6. ASSUME AwaitMoreReads(r, k)
      PROVE  PoolInv'
  <2>1. PICK j \in DiagnosticKinds \ {k} : Submitted(<<r, j>>)
    BY <1>6 DEF AwaitMoreReads, LastRead
  <2>2. <<r, j>> \in Pooled /\ <<r, j>> # t
    BY <2>1, <1>1 DEF Submitted, Pooled, In, Jobs
  <2>3. <<r, j>> \in Pooled'
    BY <2>2, <1>4
  <2>4. pc' = pc /\ pc[r] \in {"ping", "augment"}
    BY <1>6 DEF AwaitMoreReads, Gathering
  <2>5. PoolFits(r)'
    BY <2>1, <2>3, <2>4, <1>4, <1>5 DEF PoolFits, Gathering
  <2>6. pc' = [pc EXCEPT ![r] = pc[r]]
    BY <2>4 DEF TypeOK
  <2> QED
    BY <2>5, <2>6, <1>3, PoolOfStep
<1>7. ASSUME ~AwaitMoreReads(r, k)
      PROVE  PoolInv'
  <2>1. /\ pc[r] \in {"ping", "augment", "done"}
        /\ pc' = [pc EXCEPT ![r] = "done"]
    BY <1>7 DEF ReadStep, AnswerPing, AnswerStatus, AnswerResult, FailGather, DropOrphan,
         ReplyRaised, Reply, Goto, Gathering, TypeOK
  <2>2. pc'[r] = "done"
    BY <2>1 DEF TypeOK
  <2>3. PoolFits(r)'
    BY <2>1, <2>2, <1>4, <1>5 DEF PoolFits, Gathering, Awaited
  <2> QED
    BY <2>1, <2>3, <1>3, PoolOfStep
<1>8. LeavesOthersJobs(r)
  BY <1>4 DEF LeavesOthersJobs, ReadStep, AwaitMoreReads, AnswerPing, AnswerStatus, FailGather,
     DropOrphan, ReadBack, TypeOK, Jobs
<1> QED
  BY <1>6, <1>7, <1>8

LEMMA PoolInit == Init => PoolInv
BY DEF Init, PoolInv, PoolFits, Distinct, Pooled, In, Gathering

LEMMA PoolNext ==
  TypeOK /\ PoolInv /\ [Next]_vars => PoolInv'
<1> SUFFICES ASSUME TypeOK, PoolInv, [Next]_vars
             PROVE  PoolInv'
  OBVIOUS
<1>1. ASSUME NEW r \in Requests, Arrive(r)
      PROVE  PoolInv'
  <2> DEFINE t == <<r, "auth">>
  <2>1. t \in JobsOf(r) /\ "auth" \in Kinds
    BY DEF JobsOf, Jobs, Kinds
  <2>2. pc' = [pc EXCEPT ![r] = "auth"] /\ pc'[r] = "auth" /\ pool' = Append(pool, t)
    BY <1>1 DEF Arrive, Goto, TypeOK
  <2>3. \A k \in Kinds : <<r, k>> \notin Pooled
    BY <1>1 DEF Arrive, PoolInv, PoolFits, Awaited
  <2>4. ~In(t, pool)
    BY <2>1, <2>3 DEF Pooled, JobsOf
  <2>5. Exchanges(r, {}, {t})
    BY <2>1, <2>2, <2>4, AppendExchanges DEF PoolInv
  <2>6. \A u : u \in Pooled' <=> u \in Pooled \/ u = t
    BY <2>5 DEF Exchanges
  <2>7. PoolFits(r)'
    BY <2>2, <2>3, <2>6 DEF PoolFits, Gathering, Awaited
  <2> QED
    BY <2>2, <2>5, <2>7, PoolOfStep
<1>2. ASSUME NEW r \in Requests, ReadGas(r) \/ ExchangeStep(r)
      PROVE  pool' = pool /\ pc' = pc
  BY <1>2 DEF ReadGas, ExchangeStep, BeginExchange, Broadcast, DrawAgain, RefuseBroadcast, EndExchange
<1>3. CASE pool' = pool /\ pc' = pc
  BY <1>3 DEF PoolInv, PoolFits, Distinct, Pooled, In, Gathering
<1>4. CASE Fund \/ UNCHANGED vars
  BY <1>3, <1>4 DEF Fund, vars
<1> QED
  BY <1>1, <1>2, <1>3, <1>4, PoolLoopStep, PoolReadStep, NextCases DEF StepOf

-----------------------------------------------------------------------------
(* The lock and the coroutines.                                            *)

\* A lock that is held has its holder, and who is in the queue waits there.
OwnerInv == locked => \E r \in Requests : pc[r] = "exchange"
WaitersInv ==
  Distinct(waiters) /\ \A i \in 1..Len(waiters) : pc[waiters[i]] = "lock"

\* A step of r leaves the lock as it is, and r inside it, or is one of those
\* that take it or free it.
LEMMA LockFrame ==
  ASSUME TypeOK, NEW r \in Requests, StepOf(r)
  PROVE  \/ AcquireLock(r) \/ WakeUp(r)
         \/ locked' = FALSE
         \/ locked' = locked /\ (pc[r] = "exchange" => pc'[r] = "exchange")
<1>1. CASE LoopStep(r)
  BY <1>1, LastCheckIsAwaited DEF LoopStep, Deny, StartGasCheck, FailGasCheck, MissingMethod,
       QueueForLock, RaiseExchangeError, AnswerCall, Augment, StartPing, LeaveLock,
       Authenticated, GasRead
<1>2. CASE Arrive(r) \/ ReadGas(r) \/ ExchangeStep(r)
  BY <1>2 DEF Arrive, ReadGas, ExchangeStep, BeginExchange, Broadcast, DrawAgain, RefuseBroadcast, EndExchange
<1>3. ASSUME NEW k \in DiagnosticKinds, ReadStep(r, k)
      PROVE  locked' = locked /\ (pc[r] = "exchange" => pc'[r] = "exchange")
  BY <1>3 DEF ReadStep, AwaitMoreReads, AnswerPing, AnswerStatus, FailGather, DropOrphan,
       ReadBack, Gathering
<1> QED
  BY <1>1, <1>2, <1>3 DEF StepOf

LEMMA OwnerNext ==
  TypeOK /\ OwnerInv /\ [Next]_vars => OwnerInv'
<1> SUFFICES ASSUME TypeOK, OwnerInv, [Next]_vars, locked'
             PROVE  \E q \in Requests : pc'[q] = "exchange"
  BY DEF OwnerInv
<1>1. ASSUME NEW r \in Requests, StepOf(r)
      PROVE  \E q \in Requests : pc'[q] = "exchange"
  <2>1. CASE AcquireLock(r) \/ WakeUp(r)
    BY <2>1 DEF AcquireLock, EnterExchange, WakeUp, Goto, TypeOK
  <2>2. CASE locked' = locked /\ (pc[r] = "exchange" => pc'[r] = "exchange")
    <3>1. PICK q \in Requests : pc[q] = "exchange"
      BY <2>2 DEF OwnerInv
    <3> QED
      BY <1>1, <2>2, <3>1, OthersStay
  <2> QED
    BY <1>1, <2>1, <2>2, LockFrame
<1>2. CASE Fund \/ UNCHANGED vars
  BY <1>2 DEF Fund, vars, OwnerInv
<1> QED
  BY <1>1, <1>2, NextCases

\* Only WakeUp takes a request away from the lock.
LEMMA StaysAtLock ==
  ASSUME TypeOK, NEW r \in Requests, StepOf(r), pc[r] = "lock", ~WakeUp(r)
  PROVE  pc' = pc
<1>1. ~LoopStep(r) /\ ~Arrive(r)
  BY LastCheckIsAwaited DEF LoopStep, Deny, StartGasCheck, FailGasCheck, MissingMethod,
       AcquireLock, EnterExchange, QueueForLock, RaiseExchangeError, AnswerCall, Augment,
       StartPing, Authenticated, GasRead, Returned, Arrive
<1>2. CASE ReadGas(r) \/ ExchangeStep(r)
  BY <1>2 DEF ReadGas, ExchangeStep, BeginExchange, Broadcast, DrawAgain, RefuseBroadcast, EndExchange
<1>3. ASSUME NEW k \in DiagnosticKinds, ReadStep(r, k)
      PROVE  pc' = pc
  BY <1>3 DEF ReadStep, AwaitMoreReads, AnswerPing, AnswerStatus, FailGather, DropOrphan, Gathering
<1> QED
  BY <1>1, <1>2, <1>3 DEF StepOf

LEMMA WaitersNext ==
  TypeOK /\ WaitersInv /\ [Next]_vars => WaitersInv'
<1> SUFFICES ASSUME TypeOK, WaitersInv, [Next]_vars
             PROVE  WaitersInv'
  OBVIOUS
<1>t. waiters \in Seq(Requests) /\ Len(waiters) \in Nat /\ \A i \in 1..Len(waiters) : waiters[i] \in Requests
  BY DEF TypeOK
<1>1. ASSUME NEW r \in Requests, StepOf(r), ~QueueForLock(r), ~WakeUp(r)
      PROVE  WaitersInv'
  <2>1. waiters' = waiters
    BY <1>1, QueueFrame
  <2>2. \A q \in Requests : pc[q] = "lock" => pc'[q] = "lock"
    BY <1>1, OthersStay, StaysAtLock
  <2> QED
    BY <1>t, <2>1, <2>2 DEF WaitersInv, Distinct
<1>2. ASSUME NEW r \in Requests, StepOf(r), QueueForLock(r)
      PROVE  WaitersInv'
  <2>1. pc[r] # "lock" /\ pc'[r] = "lock" /\ waiters' = Append(waiters, r)
    BY <1>2, LastCheckIsAwaited DEF QueueForLock, Goto, TypeOK
  <2>2. /\ Len(waiters') = Len(waiters) + 1 /\ waiters'[Len(waiters) + 1] = r
        /\ \A i \in 1..Len(waiters) : waiters'[i] = waiters[i]
    BY <1>t, <2>1
  <2>3. \A i \in 1..Len(waiters) : waiters[i] # r /\ pc'[waiters[i]] = "lock"
    BY <1>t, <1>2, <2>1, OthersStay DEF WaitersInv
  <2>4. \A i \in 1..Len(waiters') : i \in 1..Len(waiters) \/ i = Len(waiters) + 1
    BY <1>t, <2>2
  <2>5. ASSUME NEW i \in 1..Len(waiters'), NEW j \in 1..Len(waiters'), waiters'[i] = waiters'[j]
        PROVE  i = j
    BY <2>2, <2>3, <2>4, <2>5 DEF WaitersInv, Distinct
  <2>6. \A i \in 1..Len(waiters') : pc'[waiters'[i]] = "lock"
    BY <2>1, <2>2, <2>3, <2>4
  <2> QED
    BY <2>5, <2>6 DEF WaitersInv, Distinct
<1>3. ASSUME NEW r \in Requests, StepOf(r), WakeUp(r)
      PROVE  WaitersInv'
  <2>1. waiters # <<>> /\ waiters' = Tail(waiters) /\ waiters[1] = r
    BY <1>3, <1>t DEF WakeUp
  <2>2. /\ Len(waiters) \in Nat \ {0} /\ Len(waiters') = Len(waiters) - 1
        /\ \A i \in 1..Len(waiters') : waiters'[i] = waiters[i + 1]
    BY <1>t, <2>1
  <2>3. \A i \in 1..Len(waiters') : i + 1 \in 1..Len(waiters) /\ i + 1 # 1
    BY <2>2
  <2>4. \A i \in 1..Len(waiters') : waiters[i + 1] # r
    <3>1. 1 \in 1..Len(waiters)
      BY <2>2
    <3> QED
      BY <2>1, <2>3, <3>1 DEF WaitersInv, Distinct
  <2>w. \A q \in Requests \ {r} : pc'[q] = pc[q]
    BY <1>3, OthersStay
  <2>5. ASSUME NEW i \in 1..Len(waiters')
        PROVE  pc'[waiters'[i]] = "lock"
    <3> DEFINE q == waiters[i + 1]
    <3>1. q \in Requests \ {r} /\ pc[q] = "lock"
      BY <1>t, <2>3, <2>4 DEF WaitersInv
    <3> QED
      BY <2>2, <2>w, <3>1
  <2>6. ASSUME NEW i \in 1..Len(waiters'), NEW j \in 1..Len(waiters'), waiters'[i] = waiters'[j]
        PROVE  i = j
    <3>1. i + 1 = j + 1
      BY <2>2, <2>3, <2>6 DEF WaitersInv, Distinct
    <3> QED
      BY <3>1
  <2> QED
    BY <2>5, <2>6 DEF WaitersInv, Distinct
<1>4. CASE Fund \/ UNCHANGED vars
  BY <1>4 DEF Fund, vars, WaitersInv, Distinct
<1> QED
  BY <1>1, <1>2, <1>3, <1>4, NextCases

-----------------------------------------------------------------------------
(* Waiting.                                                                *)

WaitInv == TypeOK /\ JobInv /\ QueueInv /\ PoolInv /\ OwnerInv /\ WaitersInv

LEMMA WaitInvariant == Spec => []WaitInv
<1>1. Init => OwnerInv /\ WaitersInv
  BY DEF Init, OwnerInv, WaitersInv, Distinct
<1>2. WaitInv <=> TypeOK /\ JobInv /\ QueueInv /\ PoolInv /\ OwnerInv /\ WaitersInv
  BY DEF WaitInv
<1> QED
  BY <1>1, <1>2, ControlInvariant, QueueInit, QueueNext, PoolInit, PoolNext, OwnerNext,
     WaitersNext, PTL DEF Spec

LEMMA PooledIsSubmitted ==
  ASSUME NEW t \in Jobs
  PROVE  t \in Pooled <=> Submitted(t)
BY DEF Pooled, In, Submitted

\* Who is at the lock has a queue before it whose head is at the lock.
LEMMA LockHasHead ==
  ASSUME WaitInv, NEW r \in Requests, pc[r] = "lock"
  PROVE  waiters # <<>> /\ Head(waiters) \in Requests /\ pc[Head(waiters)] = "lock"
<1>1. waiters \in Seq(Requests) /\ \E i \in 1..Len(waiters) : waiters[i] = r
  BY DEF WaitInv, TypeOK, QueueInv
<1>2. waiters # <<>> /\ 1 \in 1..Len(waiters) /\ Head(waiters) = waiters[1]
  BY <1>1
<1> QED
  BY <1>1, <1>2 DEF WaitInv, WaitersInv

\* No failure of any step leaves a coroutine waiting for nothing: not for a job
\* that nobody has, and not for a lock that nobody will free.
THEOREM NobodyIsStranded == Spec => []NobodyStranded
<1>1. WaitInv => NobodyStranded
  <2> SUFFICES ASSUME WaitInv
               PROVE  NobodyStranded
    OBVIOUS
  <2>1. ASSUME NEW r \in Requests, pc[r] \in {"auth", "gas", "exchange"}
        PROVE  Submitted(<<r, pc[r]>>)
    <3>1. <<r, pc[r]>> \in Jobs
      BY <2>1 DEF Jobs, Kinds
    <3> QED
      BY <2>1, <3>1, PooledIsSubmitted DEF WaitInv, PoolInv, PoolFits
  <2>2. ASSUME NEW r \in Requests, Gathering(r)
        PROVE  \E k \in DiagnosticKinds : Submitted(<<r, k>>)
    <3>1. PICK k \in DiagnosticKinds : <<r, k>> \in Pooled
      BY <2>2 DEF WaitInv, PoolInv, PoolFits
    <3> QED
      BY <3>1, PooledIsSubmitted DEF Pooled
  <2> QED
    BY <2>1, <2>2, LockHasHead DEF NobodyStranded, WaitInv, OwnerInv
<1> QED
  BY <1>1, WaitInvariant, PTL

\* Nobody holds a thread, or a place before the threads, while it waits for the
\* lock: in the pool are only jobs that are awaited, or given up by gather.
THEOREM NobodyHoldsAndWaits == Spec => []NoHoldAndWait
<1>1. WaitInv => NoHoldAndWait
  <2> SUFFICES ASSUME WaitInv
               PROVE  NoHoldAndWait
    OBVIOUS
  <2>1. ASSUME NEW t \in Jobs, Submitted(t)
        PROVE  t[2] \in Awaited(pc[t[1]])
    <3>1. t[1] \in Requests /\ t[2] \in Kinds /\ t = <<t[1], t[2]>>
      BY DEF Jobs
    <3>2. <<t[1], t[2]>> \in Pooled
      BY <2>1, <3>1, PooledIsSubmitted
    <3> QED
      BY <3>1, <3>2 DEF WaitInv, PoolInv, PoolFits
  <2> QED
    BY <2>1 DEF NoHoldAndWait, WaitInv, PoolInv, Distinct
<1> QED
  BY <1>1, WaitInvariant, PTL

LEMMA PooledIsAwaited ==
  ASSUME WaitInv, NEW r \in Requests, NEW k \in Kinds, NEW i \in 1..Len(pool), pool[i] = <<r, k>>
  PROVE  k \in Awaited(pc[r])
<1>1. <<r, k>> \in Pooled
  BY DEF Pooled, In, Jobs
<1> QED
  BY <1>1 DEF WaitInv, PoolInv, PoolFits

\* A thread of the pool that is not the exchange's has something to do.
LEMMA ThreadAsideGoesOn ==
  ASSUME WaitInv, NEW r \in Requests, NEW k \in Kinds \ {"exchange"},
         NEW i \in 1..Len(pool), i <= Tokens, pool[i] = <<r, k>>
  PROVE  CanGoOnAside(r)
<1>1. HoldsToken(<<r, k>>)
  BY DEF HoldsToken
<1>2. k \in Awaited(pc[r])
  BY PooledIsAwaited
<1>3. CASE k \in DiagnosticKinds /\ (Gathering(r) \/ pc[r] = "done")
  BY <1>1, <1>3 DEF CanGoOnAside
<1>4. CASE k = pc[r] /\ k \in {"auth", "gas"}
  BY <1>1, <1>4 DEF CanGoOnAside, Authenticated, GasRead
<1> QED
  BY <1>2, <1>3, <1>4 DEF Awaited, Gathering

\* One hung exchange call takes one thread, never two, and stops no check and no
\* read while there is another thread.
THEOREM HungCallTakesOneThread == Spec => []HungCallStopsNobody
<1>1. ASSUME WaitInv, LockInv, Tokens > 1, NEW t \in Jobs, Submitted(t), t[2] # "exchange"
      PROVE  \E r \in Requests : CanGoOnAside(r)
  <2>1. /\ pool \in Seq(Jobs) /\ Len(pool) \in Nat /\ Tokens \in Nat
        /\ \A i \in 1..Len(pool) : pool[i] \in Jobs
    BY <1>1, TokensAssumption DEF WaitInv, TypeOK
  <2>2. PICK j \in 1..Len(pool) : pool[j] = t
    BY <1>1 DEF Submitted
  <2>3. PICK i \in 1..Len(pool) : i <= Tokens /\ pool[i][2] # "exchange"
    <3>1. CASE pool[1][2] # "exchange"
      BY <1>1, <2>1, <2>2, <3>1
    <3>2. CASE pool[1][2] = "exchange"
      <4>1. 1 \in 1..Len(pool) /\ 2 \in 1..Len(pool) /\ 2 <= Tokens
        BY <1>1, <2>1, <2>2, <3>2
      <4>2. PICK r \in Requests, k \in Kinds : pool[1] = <<r, k>>
        BY <2>1, <4>1 DEF Jobs
      <4>3. PICK q \in Requests, l \in Kinds : pool[2] = <<q, l>>
        BY <2>1, <4>1 DEF Jobs
      <4>4. ASSUME l = "exchange"
            PROVE  FALSE
        <5>1. k = "exchange"
          BY <3>2, <4>2
        <5>2. "exchange" \in Awaited(pc[r]) /\ "exchange" \in Awaited(pc[q])
          BY <1>1, <4>1, <4>2, <4>3, <4>4, <5>1, PooledIsAwaited
        <5>3. pc[r] = "exchange" /\ pc[q] = "exchange"
          BY <5>2 DEF Awaited, DiagnosticKinds
        <5>4. r = q
          BY <1>1, <5>3 DEF LockInv
        <5> QED
          BY <1>1, <4>1, <4>2, <4>3, <4>4, <5>1, <5>4 DEF WaitInv, PoolInv, Distinct
      <4> QED
        BY <4>1, <4>3, <4>4
    <3> QED
      BY <3>1, <3>2
  <2>4. PICK r \in Requests, k \in Kinds : pool[i] = <<r, k>>
    BY <2>1 DEF Jobs
  <2>5. k # "exchange"
    BY <2>3, <2>4
  <2> QED
    BY <1>1, <2>3, <2>4, <2>5, ThreadAsideGoesOn
<1>2. WaitInv /\ LockInv => HungCallStopsNobody
  BY <1>1 DEF HungCallStopsNobody
<1> QED
  BY <1>2, WaitInvariant, ControlInvariant, PTL

\* The states that an exchange job has; "zero" is for gas reads only.
ExchangeStates == {"none", "pending", "begun", "sent", "ok", "err"}

LEMMA ExchangeStatesNext ==
  ASSUME TypeOK, [Next]_vars, \A r \in Requests : ExchangeJob(r) \in ExchangeStates
  PROVE  \A r \in Requests : ExchangeJob(r)' \in ExchangeStates
<1>1. ASSUME NEW r \in Requests, StepOf(r), NEW label, NEW state, Moves(r, label, state),
             state = ExchangeJob(r) \/ state \in {"pending", "begun", "sent", "ok", "err"}
      PROVE  \A q \in Requests : ExchangeJob(q)' \in ExchangeStates
  BY <1>1 DEF Moves, ExchangeStates
<1>2. ASSUME NEW r \in Requests, StepOf(r)
      PROVE  \A q \in Requests : ExchangeJob(q)' \in ExchangeStates
  BY <1>1, <1>2, ArriveMoves, LoopStepMoves, ReadGasMoves, ExchangeStepMoves, ReadStepMoves
     DEF StepOf
<1>3. CASE Fund \/ UNCHANGED vars
  BY <1>3 DEF Fund, vars, ExchangeJob
<1> QED
  BY <1>2, <1>3, NextCases

\* Lock and pool together never deadlock, however few threads there are: while
\* a request is unanswered or a job is in the pool, somebody can go on.
THEOREM SomebodyCanGoOn ==
  Spec => []((\E r \in Requests : pc[r] \notin {"new", "done"}) \/ pool # <<>>
               => \E r \in Requests : CanGoOn(r))
<1> DEFINE StatesInv == \A r \in Requests : ExchangeJob(r) \in ExchangeStates
           Busy == (\E r \in Requests : pc[r] \notin {"new", "done"}) \/ pool # <<>>
<1>1. ASSUME WaitInv, StatesInv, pool # <<>>
      PROVE  \E r \in Requests : CanGoOn(r)
  <2>1. pool \in Seq(Jobs) /\ Len(pool) \in Nat \ {0} /\ pool[1] \in Jobs
    BY <1>1 DEF WaitInv, TypeOK
  <2>2. PICK r \in Requests, k \in Kinds : pool[1] = <<r, k>>
    BY <2>1 DEF Jobs
  <2>3. 1 \in 1..Len(pool) /\ 1 <= Tokens /\ HoldsToken(<<r, k>>)
    BY <2>1, <2>2, TokensAssumption DEF HoldsToken
  <2>4. k \in Awaited(pc[r])
    BY <1>1, <2>2, <2>3, PooledIsAwaited
  <2>5. ExchangeJob(r) \in ExchangeStates /\ (pc[r] = "exchange" => ExchangeJob(r) # "none")
    BY <1>1 DEF WaitInv, JobInv, JobFitsLabel
  <2>6. CASE k # "exchange"
    BY <1>1, <2>2, <2>3, <2>6, ThreadAsideGoesOn DEF CanGoOn
  <2>7. CASE k = "exchange"
    <3>1. pc[r] = "exchange"
      BY <2>4, <2>7 DEF Awaited, DiagnosticKinds
    <3> QED
      BY <2>3, <2>5, <2>7, <3>1 DEF CanGoOn, Returned, ExchangeStates, ExchangeJob, InExchange
  <2> QED
    BY <2>6, <2>7
<1>2. ASSUME WaitInv, pool = <<>>, NEW r \in Requests, pc[r] \notin {"new", "done"}
      PROVE  \E q \in Requests : CanGoOn(q)
  <2>1. \A q \in Requests : pc[q] \in {"new", "done", "lock"}
    <3>1. Pooled = {}
      BY <1>2 DEF Pooled, In
    <3> QED
      BY <1>2, <3>1 DEF WaitInv, PoolInv, PoolFits, Gathering, TypeOK, Labels
  <2>2. pc[r] = "lock" /\ ~locked
    BY <1>2, <2>1 DEF WaitInv, OwnerInv
  <2> QED
    BY <1>2, <2>2, LockHasHead DEF CanGoOn
<1>3. Init => StatesInv
  BY DEF Init, ExchangeJob, ExchangeStates, Jobs, Kinds
<1>4. TypeOK /\ StatesInv /\ [Next]_vars => StatesInv'
  BY ExchangeStatesNext
<1>5. WaitInv => TypeOK
  BY DEF WaitInv
<1>6. WaitInv /\ StatesInv => (Busy => \E r \in Requests : CanGoOn(r))
  BY <1>1, <1>2
<1> HIDE DEF StatesInv, Busy
<1>7. Spec => [](Busy => \E r \in Requests : CanGoOn(r))
  BY <1>3, <1>4, <1>5, <1>6, WaitInvariant, PTL DEF Spec
<1> QED
  BY <1>7 DEF Busy

-----------------------------------------------------------------------------
(* Progress: what is left of the requests only shrinks.                    *)

LEMMA JobLeftBounds ==
  ASSUME TypeOK, TypeOK', NEW t \in Jobs
  PROVE  JobLeft(t) \in 0..4 /\ JobLeft(t)' \in 0..4
<1>1. job[t] \in JobStates /\ job'[t] \in JobStates
  BY DEF TypeOK
<1>2. \A state \in JobStates : StepsToOutcome[state] \in 0..3
  BY DEF StepsToOutcome, JobStates
<1> QED
  BY <1>1, <1>2 DEF JobLeft

\* Only a broadcast takes one of the transactions that a call may still make.
LEMMA TransactionsLeft ==
  ASSUME TypeOK, NEW r \in Requests, StepOf(r)
  PROVE  /\ ~Broadcast(r) => txsLeft' = txsLeft
         /\ \A q \in Requests \ {r} : txsLeft'[q] = txsLeft[q]
<1>1. CASE Arrive(r) \/ ReadGas(r)
  BY <1>1 DEF Arrive, ReadGas, chainVars
<1>2. CASE LoopStep(r)
  BY <1>2 DEF LoopStep, Deny, StartGasCheck, FailGasCheck, MissingMethod, AcquireLock,
     EnterExchange, QueueForLock, WakeUp, RaiseExchangeError, AnswerCall, Augment, StartPing,
     LeaveLock, chainVars
<1>3. CASE ExchangeStep(r)
  BY <1>3 DEF ExchangeStep, BeginExchange, Broadcast, DrawAgain, RefuseBroadcast, EndExchange, TypeOK
<1>4. ASSUME NEW k \in DiagnosticKinds, ReadStep(r, k)
      PROVE  txsLeft' = txsLeft
  BY <1>4 DEF ReadStep, AwaitMoreReads, AnswerPing, AnswerStatus, FailGather, DropOrphan,
     ReadBack, chainVars
<1> QED
  BY <1>1, <1>2, <1>3, <1>4 DEF StepOf

LEMMA LeftIsLabelAndJobs ==
  ASSUME TypeOK, TypeOK', NEW r \in Requests
  PROVE  /\ LabelsAhead[pc[r]] \in 0..6 /\ LabelsAhead[pc'[r]] \in 0..6
         /\ JobsLeft(r) \in 0..24 /\ JobsLeft(r)' \in 0..24
         /\ txsLeft[r] \in 0..MaxTransactions /\ txsLeft'[r] \in 0..MaxTransactions
         /\ Left(r) = 25 * LabelsAhead[pc[r]] + JobsLeft(r) + 2 * txsLeft[r]
         /\ Left(r)' = 25 * LabelsAhead[pc'[r]] + JobsLeft(r)' + 2 * txsLeft'[r]
<1>1. \A k \in Kinds : <<r, k>> \in Jobs
  BY DEF Jobs
<1>2. /\ JobLeft(<<r, "auth">>) \in 0..4 /\ JobLeft(<<r, "gas">>) \in 0..4
      /\ JobLeft(<<r, "exchange">>) \in 0..4 /\ JobLeft(<<r, "chain">>) \in 0..4
      /\ JobLeft(<<r, "chainId">>) \in 0..4 /\ JobLeft(<<r, "gasChain">>) \in 0..4
  BY <1>1, JobLeftBounds DEF Kinds
<1>3. /\ JobLeft(<<r, "auth">>)' \in 0..4 /\ JobLeft(<<r, "gas">>)' \in 0..4
      /\ JobLeft(<<r, "exchange">>)' \in 0..4 /\ JobLeft(<<r, "chain">>)' \in 0..4
      /\ JobLeft(<<r, "chainId">>)' \in 0..4 /\ JobLeft(<<r, "gasChain">>)' \in 0..4
  BY <1>1, JobLeftBounds DEF Kinds
<1>4. LabelsAhead[pc[r]] \in 0..6 /\ LabelsAhead[pc'[r]] \in 0..6
  <2>1. pc[r] \in Labels /\ pc'[r] \in Labels
    BY DEF TypeOK
  <2> QED
    BY <2>1 DEF Labels, LabelsAhead
<1>s. ASSUME NEW a \in 0..4, NEW b \in 0..4, NEW c \in 0..4,
             NEW d \in 0..4, NEW e \in 0..4, NEW f \in 0..4
      PROVE  a + b + c + d + e + f \in 0..24
  OBVIOUS
<1>5. JobsLeft(r) \in 0..24
  BY <1>2, <1>s DEF JobsLeft
<1>6. JobsLeft(r)' \in 0..24
  BY <1>3, <1>s DEF JobsLeft
<1> QED
  BY <1>4, <1>5, <1>6 DEF Left, TypeOK

\* The labels are left in one direction only.
LEMMA LabelOutweighsJobs ==
  ASSUME TypeOK, TypeOK', NEW r \in Requests,
         LabelsAhead[pc'[r]] < LabelsAhead[pc[r]], txsLeft' = txsLeft
  PROVE  Left(r)' < Left(r)
<1> DEFINE new == LabelsAhead[pc'[r]]
           old == LabelsAhead[pc[r]]
           txs == txsLeft[r]
<1>1. new \in 0..6 /\ old \in 0..6 /\ new < old /\ txs \in Nat
  BY LeftIsLabelAndJobs
<1>2. Left(r) = 25 * old + JobsLeft(r) + 2 * txs /\ Left(r)' = 25 * new + JobsLeft(r)' + 2 * txs
  BY LeftIsLabelAndJobs
<1>3. JobsLeft(r) \in 0..24 /\ JobsLeft(r)' \in 0..24
  BY LeftIsLabelAndJobs
<1> HIDE DEF new, old, txs
<1> QED
  BY <1>1, <1>2, <1>3

LEMMA JobCounts ==
  ASSUME TypeOK, TypeOK', NEW r \in Requests, pc'[r] = pc[r], txsLeft' = txsLeft, NEW k \in Kinds,
         JobLeft(<<r, k>>)' < JobLeft(<<r, k>>),
         \A j \in Kinds \ {k} : JobLeft(<<r, j>>)' = JobLeft(<<r, j>>)
  PROVE  Left(r)' < Left(r)
<1>1. \A j \in Kinds : <<r, j>> \in Jobs
  BY DEF Jobs
<1>2. \A j \in Kinds : JobLeft(<<r, j>>) \in 0..4 /\ JobLeft(<<r, j>>)' \in 0..4
  BY <1>1, JobLeftBounds
<1>3. JobsLeft(r)' < JobsLeft(r)
  <2>1. k \in {"auth", "gas", "exchange", "chain", "chainId", "gasChain"}
    BY DEF Kinds
  <2>2. /\ JobLeft(<<r, "auth">>) \in 0..4 /\ JobLeft(<<r, "gas">>) \in 0..4
        /\ JobLeft(<<r, "exchange">>) \in 0..4 /\ JobLeft(<<r, "chain">>) \in 0..4
        /\ JobLeft(<<r, "chainId">>) \in 0..4 /\ JobLeft(<<r, "gasChain">>) \in 0..4
    BY <1>2 DEF Kinds
  <2>3. JobLeft(<<r, k>>)' \in 0..4
    BY <1>2
  <2>4. CASE k = "auth"
    BY <2>2, <2>3, <2>4 DEF JobsLeft, Kinds
  <2>5. CASE k = "gas"
    BY <2>2, <2>3, <2>5 DEF JobsLeft, Kinds
  <2>6. CASE k = "exchange"
    BY <2>2, <2>3, <2>6 DEF JobsLeft, Kinds
  <2>7. CASE k = "chain"
    BY <2>2, <2>3, <2>7 DEF JobsLeft, Kinds
  <2>8. CASE k = "chainId"
    BY <2>2, <2>3, <2>8 DEF JobsLeft, Kinds
  <2>9. CASE k = "gasChain"
    BY <2>2, <2>3, <2>9 DEF JobsLeft, Kinds
  <2> QED
    BY <2>1, <2>4, <2>5, <2>6, <2>7, <2>8, <2>9
<1> QED
  BY <1>3, LeftIsLabelAndJobs

LEMMA SubmittedLater ==
  ASSUME NEW t \in Jobs
  PROVE  Submitted(t)' <=> t \in Pooled'
BY DEF Submitted, Pooled, In

LEMMA JobLeftKept ==
  ASSUME NEW t \in Jobs, t \in Pooled' <=> t \in Pooled, job'[t] = job[t]
  PROVE  JobLeft(t)' = JobLeft(t)
BY PooledIsSubmitted, SubmittedLater DEF JobLeft

LEMMA OthersKeepWhatIsLeft ==
  ASSUME NEW r \in Requests, LeavesOthersJobs(r), NEW q \in Requests \ {r},
         pc'[q] = pc[q], txsLeft'[q] = txsLeft[q]
  PROVE  Left(q)' = Left(q)
<1>1. \A k \in Kinds : JobLeft(<<q, k>>)' = JobLeft(<<q, k>>)
  <2> SUFFICES ASSUME NEW k \in Kinds
               PROVE  JobLeft(<<q, k>>)' = JobLeft(<<q, k>>)
    OBVIOUS
  <2> DEFINE t == <<q, k>>
  <2>1. t \in Jobs /\ t[1] # r
    BY DEF Jobs
  <2> QED
    BY <2>1, JobLeftKept DEF LeavesOthersJobs
<1> QED
  BY <1>1 DEF Left, JobsLeft, Kinds

\* Every step of the event loop for r moves it to a later label.
LEMMA LoopStepGetsOn ==
  ASSUME TypeOK, TypeOK', NEW r \in Requests, LoopStep(r) \/ Arrive(r)
  PROVE  Left(r)' < Left(r)
<1> DEFINE Moved(from, to) == pc[r] = from /\ pc'[r] = to
<1>1. \/ \E from \in Labels \ {"done"} : Moved(from, "done")
      \/ Moved("new", "auth") \/ Moved("auth", "gas") \/ Moved("lock", "exchange")
      \/ Moved("auth", "lock") \/ Moved("gas", "lock") \/ Moved("auth", "exchange")
      \/ Moved("gas", "exchange") \/ Moved("exchange", "augment") \/ Moved("auth", "ping")
  <2>1. \A label : Goto(r, label) => pc'[r] = label
    BY DEF Goto, TypeOK
  <2>2. CASE Arrive(r)
    BY <2>1, <2>2 DEF Arrive
  <2>3. CASE Deny(r) \/ FailGasCheck(r) \/ RaiseExchangeError(r) \/ AnswerCall(r)
    BY <2>1, <2>3 DEF Deny, FailGasCheck, RaiseExchangeError, AnswerCall, AnswerResult, ReplyRaised, Reply,
       Authenticated, GasRead, Returned, Labels
  <2>4. CASE MissingMethod(r) \/ AcquireLock(r) \/ QueueForLock(r)
    <3>1. pc[r] \in {"auth", "gas"}
      BY <2>4, LastCheckIsAwaited DEF MissingMethod, AcquireLock, EnterExchange, QueueForLock
    <3> QED
      BY <2>1, <2>4, <3>1 DEF MissingMethod, AcquireLock, EnterExchange, QueueForLock, Reply, Labels
  <2>5. CASE StartGasCheck(r) \/ WakeUp(r) \/ Augment(r)
    BY <2>1, <2>5 DEF StartGasCheck, WakeUp, Augment, Authenticated, Returned
  <2>6. CASE StartPing(r)
    BY <2>1, <2>6 DEF StartPing, Reply, Authenticated, Labels
  <2> QED
    BY <2>2, <2>3, <2>4, <2>5, <2>6 DEF LoopStep
<1>2. LabelsAhead[pc'[r]] < LabelsAhead[pc[r]]
  <2>1. \A from \in Labels \ {"done"} : LabelsAhead["done"] < LabelsAhead[from]
    BY DEF Labels, LabelsAhead
  <2> QED
    BY <1>1, <2>1 DEF LabelsAhead
<1>3. txsLeft' = txsLeft
  <2>1. StepOf(r)
    BY DEF StepOf
  <2>2. pc' # pc
    BY <1>1 DEF Labels
  <2>3. ~Broadcast(r)
    BY <2>2 DEF Broadcast
  <2> QED
    BY <2>1, <2>3, TransactionsLeft
<1> QED
  BY <1>2, <1>3, LabelOutweighsJobs

\* A broadcast makes one step more of its job and one transaction less.
LEMMA BroadcastGetsOn ==
  ASSUME WaitInv, TypeOK', NEW r \in Requests, Broadcast(r), Submitted(<<r, "exchange">>)
  PROVE  Left(r)' < Left(r) /\ LeavesOthersJobs(r)
<1> DEFINE t == <<r, "exchange">>
<1>1. t \in Jobs /\ \A u \in Jobs : job'[u] = IF u = t THEN "sent" ELSE job[u]
  BY DEF Broadcast, TypeOK, WaitInv, Jobs, Kinds
<1>2. pool' = pool /\ pc' = pc
  BY DEF Broadcast
<1>3. \A u \in Jobs : u \in Pooled' <=> u \in Pooled
  BY <1>2 DEF Pooled, In
<1>4. JobLeft(t) = 3 /\ JobLeft(t)' = 4
  <2>1. Submitted(t)' /\ job[t] = "begun" /\ job'[t] = "sent"
    BY <1>1, <1>2 DEF Broadcast, Submitted
  <2> QED
    BY <2>1 DEF JobLeft, StepsToOutcome
<1>5. \A u \in Jobs \ {t} : JobLeft(u)' = JobLeft(u)
  BY <1>1, <1>3, JobLeftKept
<1>6. \A k \in Kinds \ {"exchange"} : <<r, k>> \in Jobs \ {t}
  BY DEF Jobs
<1>7. \A k \in Kinds \ {"exchange"} : JobLeft(<<r, k>>)' = JobLeft(<<r, k>>)
  BY <1>5, <1>6
<1>8. \A k \in Kinds \ {"exchange"} : JobLeft(<<r, k>>) \in 0..4
  BY <1>6, JobLeftBounds DEF WaitInv
<1>s. ASSUME NEW a \in 0..4, NEW b \in 0..4, NEW d \in 0..4, NEW e \in 0..4, NEW f \in 0..4
      PROVE  a + b + 4 + d + e + f = (a + b + 3 + d + e + f) + 1
  OBVIOUS
<1>9. JobsLeft(r)' = JobsLeft(r) + 1
  BY <1>4, <1>7, <1>8, <1>s DEF JobsLeft, Kinds
<1>10. txsLeft'[r] = txsLeft[r] - 1
  BY DEF Broadcast, WaitInv, TypeOK
<1>11. Left(r)' < Left(r)
  <2> DEFINE ahead == LabelsAhead[pc[r]]
             txs   == txsLeft[r]
             jobs  == JobsLeft(r)
  <2>1. ahead \in Nat /\ txs \in Nat /\ jobs \in Nat
    BY LeftIsLabelAndJobs DEF WaitInv
  <2>2. Left(r) = 25 * ahead + jobs + 2 * txs /\ Left(r)' = 25 * ahead + (jobs + 1) + 2 * (txs - 1)
    BY <1>2, <1>9, <1>10, LeftIsLabelAndJobs DEF WaitInv
  <2> HIDE DEF ahead, txs, jobs
  <2> QED
    BY <2>1, <2>2
<1>12. LeavesOthersJobs(r)
  BY <1>1, <1>3 DEF LeavesOthersJobs
<1> QED
  BY <1>11, <1>12

\* A step of r's threads takes one of its submitted jobs further.
LEMMA ThreadStepGetsOn ==
  ASSUME WaitInv, TypeOK', NEW r \in Requests, ReadGas(r) \/ ExchangeStep(r)
  PROVE  Left(r)' < Left(r) /\ LeavesOthersJobs(r) /\ pc' = pc
<1>1. pool' = pool /\ pc' = pc
  BY DEF ReadGas, ExchangeStep, BeginExchange, Broadcast, DrawAgain, RefuseBroadcast, EndExchange
<1>2. \A t \in Jobs : t \in Pooled' <=> t \in Pooled
  BY <1>1 DEF Pooled, In
<1>3. ASSUME NEW k \in Kinds, Submitted(<<r, k>>), NEW state \in JobStates,
             job' = [job EXCEPT ![<<r, k>>] = state], txsLeft' = txsLeft,
             StepsToOutcome[state] < StepsToOutcome[job[<<r, k>>]]
      PROVE  Left(r)' < Left(r) /\ LeavesOthersJobs(r) /\ pc' = pc
  <2> DEFINE t == <<r, k>>
  <2>1. t \in Jobs /\ \A u \in Jobs : job'[u] = IF u = t THEN state ELSE job[u]
    BY <1>3 DEF TypeOK, WaitInv, Jobs
  <2>2. Submitted(t)'
    BY <1>1, <1>3 DEF Submitted
  <2>3. StepsToOutcome[state] \in 0..3 /\ StepsToOutcome[job[t]] \in 0..3
    <3>1. \A any \in JobStates : StepsToOutcome[any] \in 0..3
      BY DEF StepsToOutcome, JobStates
    <3>2. job[t] \in JobStates
      BY <2>1 DEF TypeOK, WaitInv
    <3> QED
      BY <3>1, <3>2
  <2>4. JobLeft(t)' < JobLeft(t)
    <3> DEFINE new == StepsToOutcome[state]
               old == StepsToOutcome[job[t]]
    <3>1. JobLeft(t)' = 1 + new /\ JobLeft(t) = 1 + old
      BY <1>3, <2>1, <2>2 DEF JobLeft
    <3>2. new \in 0..3 /\ old \in 0..3 /\ new < old
      BY <1>3, <2>3
    <3> HIDE DEF new, old
    <3> QED
      BY <3>1, <3>2
  <2>5. \A u \in Jobs \ {t} : JobLeft(u)' = JobLeft(u)
    BY <1>2, <2>1, JobLeftKept
  <2>6. \A j \in Kinds \ {k} : <<r, j>> \in Jobs \ {t}
    BY DEF Jobs
  <2>7. Left(r)' < Left(r)
    BY <1>1, <1>3, <2>4, <2>5, <2>6, JobCounts DEF WaitInv
  <2>8. LeavesOthersJobs(r)
    BY <1>2, <2>1 DEF LeavesOthersJobs
  <2> QED
    BY <1>1, <2>7, <2>8
<1>4. CASE ReadGas(r)
  <2>1. PICK value \in {"zero", "ok", "err"} : job' = [job EXCEPT ![<<r, "gas">>] = value]
    BY <1>4 DEF ReadGas
  <2>2. Submitted(<<r, "gas">>) /\ job[<<r, "gas">>] = "pending"
    BY <1>4 DEF ReadGas, HoldsToken, Submitted
  <2>3. StepsToOutcome[value] < StepsToOutcome["pending"]
    BY DEF StepsToOutcome
  <2>4. "gas" \in Kinds /\ value \in JobStates
    BY DEF Kinds, JobStates
  <2>5. txsLeft' = txsLeft
    BY <1>4 DEF ReadGas, chainVars
  <2> QED
    BY <1>3, <2>1, <2>2, <2>3, <2>4, <2>5
<1>5. CASE ExchangeStep(r)
  <2> DEFINE t == <<r, "exchange">>
  <2>1. Submitted(t)
    <3>1. CASE HoldsToken(t)
      BY <3>1 DEF HoldsToken, Submitted
    <3>2. CASE ExchangeJob(r) \in {"begun", "sent"}
      <4>1. pc[r] = "exchange"
        BY <3>2 DEF WaitInv, JobInv, JobFitsLabel, TypeOK, Labels
      <4> QED
        BY <4>1, PooledIsSubmitted DEF WaitInv, PoolInv, PoolFits, Pooled
    <3> QED
      BY <1>5, <3>1, <3>2 DEF ExchangeStep, BeginExchange, Broadcast, DrawAgain, RefuseBroadcast,
         EndExchange, ExchangeJob
  <2>2. CASE Broadcast(r)
    BY <1>1, <2>1, <2>2, BroadcastGetsOn
  <2>3. CASE ~Broadcast(r)
    <3>1. PICK state \in {"begun", "ok", "err"} :
            /\ job' = [job EXCEPT ![t] = state]
            /\ \/ job[t] = "pending" /\ state = "begun"
               \/ job[t] = "begun" /\ state # "begun"
               \/ job[t] = "sent"
      BY <1>5, <2>3 DEF ExchangeStep, BeginExchange, DrawAgain, RefuseBroadcast, EndExchange
    <3>2. StepsToOutcome[state] < StepsToOutcome[job[t]]
      BY <3>1 DEF StepsToOutcome
    <3>3. txsLeft' = txsLeft
      BY <1>5, <2>3, TransactionsLeft DEF StepOf, WaitInv
    <3> QED
      BY <1>3, <2>1, <3>1, <3>2, <3>3 DEF Kinds, JobStates
  <2> QED
    BY <2>2, <2>3
<1> QED
  BY <1>4, <1>5

\* A read that comes back answers its request or leaves one job less.
LEMMA ReadStepGetsOn ==
  ASSUME WaitInv, TypeOK', NEW r \in Requests, NEW k \in DiagnosticKinds, ReadStep(r, k)
  PROVE  Left(r)' < Left(r)
<1> DEFINE t == <<r, k>>
<1>1. t \in Jobs /\ t \in JobsOf(r) /\ k \in Kinds
  BY DEF Jobs, JobsOf, Kinds, DiagnosticKinds
<1>2. /\ HoldsToken(t) /\ pool' = RemoveAt(pool, Position(t))
      /\ \A u \in Jobs \ {t} : job'[u] = job[u]
  BY DEF ReadStep, AwaitMoreReads, AnswerPing, AnswerStatus, FailGather, DropOrphan, ReadBack,
     WaitInv, TypeOK
<1>3. Pooled' = (Pooled \ {t}) \union {}
  BY <1>1, <1>2, RemoveExchanges DEF Exchanges, WaitInv, PoolInv
<1>x. txsLeft' = txsLeft
  BY DEF ReadStep, AwaitMoreReads, AnswerPing, AnswerStatus, FailGather, DropOrphan, ReadBack,
     chainVars
<1>4. CASE Gathering(r) /\ pc'[r] = "done"
  <2>1. pc[r] \in {"ping", "augment"} /\ pc'[r] = "done"
    BY <1>4 DEF Gathering
  <2>2. LabelsAhead[pc'[r]] < LabelsAhead[pc[r]]
    BY <2>1 DEF LabelsAhead
  <2> QED
    BY <2>2, <1>x, LabelOutweighsJobs DEF WaitInv
<1>5. CASE pc' = pc
  <2>1. JobLeft(t)' < JobLeft(t)
    <3>1. ~Submitted(t)' /\ Submitted(t)
      BY <1>1, <1>2, <1>3, SubmittedLater DEF HoldsToken, Submitted
    <3>2. JobLeft(t) \in 0..4 /\ StepsToOutcome[job[t]] \in 0..3
      <4>1. \A any \in JobStates : StepsToOutcome[any] \in 0..3
        BY DEF StepsToOutcome, JobStates
      <4> QED
        BY <1>1, <4>1, JobLeftBounds DEF WaitInv, TypeOK
    <3> QED
      BY <3>1, <3>2 DEF JobLeft
  <2>2. \A u \in Jobs \ {t} : JobLeft(u)' = JobLeft(u)
    BY <1>2, <1>3, JobLeftKept
  <2>3. \A j \in Kinds \ {k} : <<r, j>> \in Jobs \ {t}
    BY DEF Jobs
  <2> QED
    BY <1>1, <1>5, <1>x, <2>1, <2>2, <2>3, JobCounts DEF WaitInv
<1>6. \/ pc' = pc
      \/ Gathering(r) /\ pc'[r] = "done"
  BY DEF ReadStep, AwaitMoreReads, AnswerPing, AnswerStatus, AnswerResult, FailGather, DropOrphan,
     ReplyRaised, Reply, Goto, Gathering, WaitInv, TypeOK
<1> QED
  BY <1>4, <1>5, <1>6

LEMMA StepGetsOn ==
  ASSUME WaitInv, TypeOK', NEW r \in Requests, StepOf(r)
  PROVE  Left(r)' < Left(r) /\ LeavesOthersJobs(r)
<1>1. CASE LoopStep(r)
  BY <1>1, LoopStepGetsOn, PoolLoopStep DEF WaitInv
<1>2. CASE Arrive(r)
  <2> DEFINE t == <<r, "auth">>
  <2>1. t \in JobsOf(r) /\ "auth" \in Kinds
    BY DEF JobsOf, Jobs, Kinds
  <2>2. pc[r] = "new" /\ pool' = Append(pool, t) /\ job' = [job EXCEPT ![t] = "pending"]
    BY <1>2 DEF Arrive
  <2>3. ~In(t, pool)
    <3>1. t \notin Pooled
      BY <2>1, <2>2 DEF WaitInv, PoolInv, PoolFits, Awaited
    <3> QED
      BY <2>1, <3>1 DEF Pooled, JobsOf
  <2>4. Pooled' = (Pooled \ {}) \union {t}
    BY <2>1, <2>2, <2>3, AppendExchanges DEF Exchanges, WaitInv, PoolInv
  <2>5. LeavesOthersJobs(r)
    BY <2>2, <2>4 DEF LeavesOthersJobs, WaitInv, TypeOK
  <2> QED
    BY <1>2, <2>5, LoopStepGetsOn DEF WaitInv
<1>3. CASE ReadGas(r) \/ ExchangeStep(r)
  BY <1>3, ThreadStepGetsOn
<1>4. ASSUME NEW k \in DiagnosticKinds, ReadStep(r, k)
      PROVE  Left(r)' < Left(r) /\ LeavesOthersJobs(r)
  BY <1>4, ReadStepGetsOn, PoolReadStep DEF WaitInv
<1> QED
  BY <1>1, <1>2, <1>3, <1>4 DEF StepOf

\* No step is a step back: whatever fails and however the requests interleave,
\* each step of the bridge takes something off what is left of one request, and
\* adds nothing to what is left of the others.  No fairness is assumed.
THEOREM EveryStepCounts == Spec => EveryStepGetsOn
<1> DEFINE Counts ==
             \/ \E r \in Requests : /\ Left(r)' < Left(r)
                                    /\ \A q \in Requests \ {r} : Left(q)' = Left(q)
             \/ gas' = gas + 1 /\ \A r \in Requests : Left(r)' = Left(r)
<1>1. ASSUME WaitInv, TypeOK', [Next]_vars
      PROVE  [Counts]_vars
  <2>1. ASSUME NEW r \in Requests, StepOf(r)
        PROVE  Counts
    <3>1. Left(r)' < Left(r) /\ LeavesOthersJobs(r)
      BY <1>1, <2>1, StepGetsOn
    <3>2. \A q \in Requests \ {r} : pc'[q] = pc[q]
      BY <1>1, <2>1, OthersStay DEF WaitInv
    <3>3. \A q \in Requests \ {r} : txsLeft'[q] = txsLeft[q]
      BY <1>1, <2>1, TransactionsLeft DEF WaitInv
    <3>4. \A q \in Requests \ {r} : Left(q)' = Left(q)
      BY <3>1, <3>2, <3>3, OthersKeepWhatIsLeft
    <3> QED
      BY <3>1, <3>4
  <2>2. CASE Fund
    <3>1. gas' = gas + 1 /\ pc' = pc /\ job' = job /\ pool' = pool /\ txsLeft' = txsLeft
      BY <2>2 DEF Fund
    <3>2. \A r \in Requests : Left(r)' = Left(r)
      BY <3>1 DEF Left, JobsLeft, JobLeft, Submitted
    <3> QED
      BY <3>1, <3>2
  <2> QED
    BY <1>1, <2>1, <2>2, NextCases
<1>2. WaitInv => TypeOK
  BY DEF WaitInv
<1> QED
  BY <1>1, <1>2, WaitInvariant, PTL DEF Spec, EveryStepGetsOn

\* What is left of a request is bounded, and nothing but the transactions that it
\* did not make exactly when it is answered and its jobs have left the pool; so a
\* request takes at most 174 steps and two for each transaction that it may make,
\* whatever happens to it and to the others.
THEOREM WorkIsBounded ==
  Spec => [](\A r \in Requests :
               /\ Left(r) \in 0..(174 + 2 * MaxTransactions)
               /\ Left(r) = 2 * txsLeft[r]
                    <=> pc[r] = "done" /\ \A k \in Kinds : ~Submitted(<<r, k>>))
<1> DEFINE Bounded ==
             \A r \in Requests :
               /\ Left(r) \in 0..(174 + 2 * MaxTransactions)
               /\ Left(r) = 2 * txsLeft[r]
                    <=> pc[r] = "done" /\ \A k \in Kinds : ~Submitted(<<r, k>>)
<1>1. ASSUME TypeOK
      PROVE  Bounded
  <2> SUFFICES ASSUME NEW r \in Requests
               PROVE  /\ Left(r) \in 0..(174 + 2 * MaxTransactions)
                      /\ Left(r) = 2 * txsLeft[r]
                           <=> pc[r] = "done" /\ \A k \in Kinds : ~Submitted(<<r, k>>)
    OBVIOUS
  <2> DEFINE ahead == LabelsAhead[pc[r]]
             jobs  == JobsLeft(r)
             txs   == txsLeft[r]
  <2>1. ahead \in 0..6 /\ (ahead = 0 <=> pc[r] = "done")
    <3>1. pc[r] \in Labels
      BY <1>1 DEF TypeOK
    <3> QED
      BY <3>1 DEF Labels, LabelsAhead
  <2>2. \A k \in Kinds : /\ JobLeft(<<r, k>>) \in 0..4
                         /\ JobLeft(<<r, k>>) = 0 <=> ~Submitted(<<r, k>>)
    <3> SUFFICES ASSUME NEW k \in Kinds
                 PROVE  /\ JobLeft(<<r, k>>) \in 0..4
                        /\ JobLeft(<<r, k>>) = 0 <=> ~Submitted(<<r, k>>)
      OBVIOUS
    <3>1. job[<<r, k>>] \in JobStates
      BY <1>1 DEF TypeOK, Jobs
    <3>2. StepsToOutcome[job[<<r, k>>]] \in 0..3
      BY <3>1 DEF StepsToOutcome, JobStates
    <3> QED
      BY <3>2 DEF JobLeft
  <2>s. ASSUME NEW a \in 0..4, NEW b \in 0..4, NEW c \in 0..4,
               NEW d \in 0..4, NEW e \in 0..4, NEW f \in 0..4
        PROVE  /\ a + b + c + d + e + f \in 0..24
               /\ a + b + c + d + e + f = 0
                    <=> a = 0 /\ b = 0 /\ c = 0 /\ d = 0 /\ e = 0 /\ f = 0
    OBVIOUS
  <2>3. jobs \in 0..24 /\ (jobs = 0 <=> \A k \in Kinds : ~Submitted(<<r, k>>))
    <3>1. /\ JobLeft(<<r, "auth">>) \in 0..4 /\ JobLeft(<<r, "gas">>) \in 0..4
          /\ JobLeft(<<r, "exchange">>) \in 0..4 /\ JobLeft(<<r, "chain">>) \in 0..4
          /\ JobLeft(<<r, "chainId">>) \in 0..4 /\ JobLeft(<<r, "gasChain">>) \in 0..4
      BY <2>2 DEF Kinds
    <3>2. /\ jobs \in 0..24
          /\ jobs = 0 <=> /\ JobLeft(<<r, "auth">>) = 0 /\ JobLeft(<<r, "gas">>) = 0
                          /\ JobLeft(<<r, "exchange">>) = 0 /\ JobLeft(<<r, "chain">>) = 0
                          /\ JobLeft(<<r, "chainId">>) = 0 /\ JobLeft(<<r, "gasChain">>) = 0
      BY <3>1, <2>s DEF JobsLeft
    <3> QED
      BY <2>2, <3>2 DEF Kinds
  <2>4. Left(r) = 25 * ahead + jobs + 2 * txs
    BY DEF Left
  <2>5. txs \in 0..MaxTransactions /\ MaxTransactions \in Nat
    BY <1>1, MaxTransactionsAssumption DEF TypeOK
  <2> HIDE DEF ahead, jobs, txs
  <2>6. Left(r) \in 0..(174 + 2 * MaxTransactions)
    BY <2>1, <2>3, <2>4, <2>5
  <2>7. Left(r) = 2 * txs <=> ahead = 0 /\ jobs = 0
    BY <2>1, <2>3, <2>4, <2>5
  <2> QED
    BY <2>1, <2>3, <2>6, <2>7 DEF txs
<1> HIDE DEF Bounded
<1>2. Spec => []Bounded
  BY <1>1, TypeCorrect, PTL
<1> QED
  BY <1>2 DEF Bounded
=============================================================================
