----------------------------- MODULE StartupProofs -----------------------------
(***************************************************************************)
(* Theorems about Startup, for any environment, any set of valid keys and  *)
(* any number of callers; and about the settings it loads, for             *)
(* environments of any texts: what blanks do to them, and what becomes of  *)
(* a bind address.                                                         *)
(***************************************************************************)
EXTENDS Startup, SequenceTheorems, WellFoundedInduction, TLAPS

-----------------------------------------------------------------------------
(* Types.                                                                  *)

LEMMA TypeInit == Init => StartupTypeOK
<1> SUFFICES ASSUME Init
             PROVE  StartupTypeOK
  OBVIOUS
<1>1. phase \in Phases /\ reads \subseteq {"start", "chain", "gas"}
  BY DEF Init, Phases
<1>2. \A v \in {markets, locked, exchange.web3, exchange.chain} : v \in BOOLEAN
  BY DEF Init, NoExchange
<1>3. waiting \in 0..MaxWaiters /\ lockLoop \in {"none", "boot", "serving"}
  BY MaxWaitersAssumption DEF Init
<1> QED
  BY <1>1, <1>2, <1>3 DEF StartupTypeOK

LEMMA TypeNext == StartupTypeOK /\ [Next]_vars => StartupTypeOK'
<1> SUFFICES ASSUME StartupTypeOK, [Next]_vars
             PROVE  StartupTypeOK'
  OBVIOUS
<1> USE DEF StartupTypeOK, Goto, Fail, setupVars, lockVars, vars, Next, BootStep, CallStep, ReadsStep,
      LoadSettings, ValidatePrivateKey, CreateExchange, LogHotWalletBalance, HotWalletRead, HotWalletLogged,
      WarnIfZeroGasBalance, BeginPreload, EndPreload, Serve, Acquire, Wait, Release, WakeUp
<1>1. phase' \in Phases
  BY DEF Phases, BootPhases, AfterWarning
<1>2. reads' \subseteq {"start", "chain", "gas"}
  BY DEF HotWalletReads
<1>3. waiting' \in 0..MaxWaiters
  BY MaxWaitersAssumption
<1>4. lockLoop' \in {"none", "boot", "serving"}
  BY DEF Loop
<1>5. markets' \in BOOLEAN /\ locked' \in BOOLEAN
  BY Zenon
<1>6. exchange'.web3 \in BOOLEAN /\ exchange'.chain \in BOOLEAN
  <2>1. CASE CreateExchange
    BY <2>1 DEF CreatedExchange
  <2>2. CASE UNCHANGED exchange
    BY <2>2, Zenon
  <2> QED
    BY <2>1, <2>2
<1> QED
  <2> HIDE DEF Next, BootStep, CallStep, ReadsStep, LoadSettings, ValidatePrivateKey, CreateExchange,
        LogHotWalletBalance, HotWalletRead, HotWalletLogged, WarnIfZeroGasBalance, BeginPreload, EndPreload,
        Serve, Acquire, Wait, Release, WakeUp
  <2> QED
    BY <1>1, <1>2, <1>3, <1>4, <1>5, <1>6

\* Every variable of the startup keeps its type.
THEOREM StartupTypeCorrect == Spec => []StartupTypeOK
BY TypeInit, TypeNext, PTL DEF Spec

-----------------------------------------------------------------------------
(* The lock.                                                               *)

\* Before serving nobody waits for the lock, so it is attached to no loop, and
\* only the preload holds it.
LockInv ==
  /\ phase # "serving" => lockLoop = "none" /\ waiting = 0
  /\ phase \notin {"loading", "serving"} => ~locked
  /\ lockLoop \in {"none", "serving"}
  /\ failed # "lock"

LEMMA LockNext == LockInv /\ [Next]_vars => LockInv'
<1> SUFFICES ASSUME LockInv, [Next]_vars
             PROVE  LockInv'
  OBVIOUS
<1> USE DEF LockInv, Goto, Fail, setupVars, lockVars
<1>1. CASE LoadSettings
  BY <1>1 DEF LoadSettings
<1>2. CASE ValidatePrivateKey
  BY <1>2 DEF ValidatePrivateKey
<1>3. CASE CreateExchange
  BY <1>3 DEF CreateExchange
<1>4. CASE ReadsStep
  BY <1>4 DEF ReadsStep, LogHotWalletBalance, HotWalletRead, HotWalletLogged
<1>5. CASE WarnIfZeroGasBalance
  BY <1>5 DEF WarnIfZeroGasBalance, AfterWarning
<1>6. CASE BeginPreload \/ EndPreload
  BY <1>6 DEF BeginPreload, EndPreload
<1>7. CASE Serve
  BY <1>7 DEF Serve
<1>8. CASE Wait
  BY <1>8 DEF Wait, Loop, BootPhases
<1>9. CASE Acquire \/ Release \/ WakeUp
  BY <1>9 DEF Acquire, Release, WakeUp
<1>10. CASE UNCHANGED vars
  BY <1>10 DEF vars
<1> QED
  BY <1>1, <1>2, <1>3, <1>4, <1>5, <1>6, <1>7, <1>8, <1>9, <1>10 DEF Next, BootStep, CallStep

\* The lock made during boot is free when serving begins and is attached to
\* the serving loop only, for any number of callers that wait.
THEOREM LockSurvivesBoot == Spec => []LockOutlivesBoot
<1>1. Init => LockInv
  BY DEF Init, LockInv
<1>2. LockInv => LockOutlivesBoot
  BY DEF LockInv, LockOutlivesBoot
<1> QED
  BY <1>1, <1>2, LockNext, PTL DEF Spec

-----------------------------------------------------------------------------
(* What a server that serves has behind it.                                *)

\* What each phase may rely on.
Validated == phase \notin {"load", "validate", "exited"} => KeyPasses
Constructed ==
  phase \notin {"load", "validate", "construct", "exited"} =>
    \E web3, chain \in BOOLEAN : exchange = CreatedExchange(web3, chain)
NoReadLeft ==
  phase \in {"gasWarning", "preload", "loading", "app", "serving"} => reads = {}
Preloaded == phase \in {"app", "serving"} => (config.preload => markets)
BootInv == Validated /\ Constructed /\ NoReadLeft /\ Preloaded

LEMMA BootNext == BootInv /\ [Next]_vars => BootInv'
<1> SUFFICES ASSUME BootInv, [Next]_vars
             PROVE  BootInv'
  OBVIOUS
<1> USE DEF BootInv, Validated, Constructed, NoReadLeft, Preloaded, Goto, Fail, setupVars, lockVars
<1>1. CASE LoadSettings
  BY <1>1 DEF LoadSettings
<1>2. CASE ValidatePrivateKey
  BY <1>2 DEF ValidatePrivateKey, KeyPasses
<1>3. CASE CreateExchange
  BY <1>3 DEF CreateExchange, KeyPasses, CreatedExchange, IsReadOnlyMode
<1>4. CASE ReadsStep
  BY <1>4 DEF ReadsStep, LogHotWalletBalance, HotWalletRead, HotWalletLogged, KeyPasses, CreatedExchange,
    IsReadOnlyMode
<1>5. CASE WarnIfZeroGasBalance
  BY <1>5 DEF WarnIfZeroGasBalance, AfterWarning, KeyPasses, CreatedExchange, IsReadOnlyMode
<1>6. CASE BeginPreload \/ EndPreload
  BY <1>6 DEF BeginPreload, EndPreload, KeyPasses, CreatedExchange, IsReadOnlyMode
<1>7. CASE Serve
  BY <1>7 DEF Serve, KeyPasses, CreatedExchange, IsReadOnlyMode
<1>8. CASE CallStep
  BY <1>8 DEF CallStep, Acquire, Wait, Release, WakeUp, KeyPasses, CreatedExchange, IsReadOnlyMode
<1>9. CASE UNCHANGED vars
  BY <1>9 DEF vars, KeyPasses, CreatedExchange, IsReadOnlyMode
<1> QED
  BY <1>1, <1>2, <1>3, <1>4, <1>5, <1>6, <1>7, <1>8, <1>9 DEF Next, BootStep

LEMMA SignerOfKey ==
  ASSUME NEW web3, NEW chain, exchange = CreatedExchange(web3, chain)
  PROVE  SigningWalletAddress =
           IF config.privateKey = <<>> THEN <<>> ELSE <<"signer", config.privateKey>>
<1>1. exchange.parameters = ToExchangeParameters(config)
  BY DEF CreatedExchange
<1> DEFINE given == [privateKey   |-> config.privateKey,
                     chainId      |-> config.chainId,
                     vaultAddress |-> config.vaultAddress]
<1>2. exchange.parameters = [key \in {k \in DOMAIN given : given[k] # <<>>} |-> given[key]]
  BY <1>1 DEF ToExchangeParameters
<1>3. "privateKey" \in DOMAIN given /\ given["privateKey"] = config.privateKey
  OBVIOUS
<1> HIDE DEF given
<1>4. ("privateKey" \in DOMAIN exchange.parameters) <=> config.privateKey # <<>>
  BY <1>2, <1>3
<1>5. config.privateKey # <<>> => exchange.parameters["privateKey"] = config.privateKey
  BY <1>2, <1>3
<1> QED
  BY <1>4, <1>5 DEF SigningWalletAddress

\* The server serves only with a valid key, after its reads and its preload,
\* and reports the account that its exchange object uses.
THEOREM ServesWhenReady == Spec => []ReadyToServe
<1>1. Init => BootInv
  BY DEF Init, BootInv, Validated, Constructed, NoReadLeft, Preloaded
<1>2. BootInv => ReadyToServe
  <2> SUFFICES ASSUME BootInv, phase = "serving"
               PROVE  ReadyToServe
    BY DEF ReadyToServe
  <2>1. PICK web3, chain \in BOOLEAN : exchange = CreatedExchange(web3, chain)
    BY DEF BootInv, Constructed
  <2>2. exchange.watches = IF IsReadOnlyMode THEN config.walletAddress ELSE <<>>
    BY <2>1 DEF CreatedExchange
  <2>3. WalletAddress = IF IsReadOnlyMode THEN exchange.watches ELSE <<"signer", config.privateKey>>
    BY <2>1, <2>2, SignerOfKey DEF WalletAddress, IsReadOnlyMode
  <2> QED
    BY <2>2, <2>3 DEF BootInv, Validated, NoReadLeft, Preloaded, ReadyToServe
<1> QED
  BY <1>1, <1>2, BootNext, PTL DEF Spec

-----------------------------------------------------------------------------
(* The first and the last of some positions.                               *)

LEMMA HasMin ==
  ASSUME NEW S \in SUBSET Nat, S # {}
  PROVE  Min(S) \in S /\ \A i \in S : Min(S) <= i
<1> DEFINE R == OpToRel(<, Nat)
<1>1. PICK x \in S : \A i \in S : ~(<<i, x>> \in R)
  <2>1. IsWellFoundedOn(R, Nat)
    BY NatLessThanWellFounded
  <2> HIDE DEF R
  <2> QED
    BY <2>1, WFMin
<1>2. \A i \in S : ~(i < x)
  BY <1>1 DEF OpToRel
<1>3. \A i \in S : x <= i
  BY <1>2
<1> QED
  BY <1>3 DEF Min

LEMMA HasMax ==
  ASSUME NEW n \in Nat, NEW S \in SUBSET (1..n), S # {}
  PROVE  Max(S) \in S /\ \A i \in S : i <= Max(S)
<1> DEFINE T == {n - i : i \in S}
<1>1. \A i \in S : n - i \in T /\ i \in 1..n
  OBVIOUS
<1>2. T \in SUBSET Nat /\ T # {}
  <2>1. T \subseteq Nat
    BY <1>1
  <2>2. PICK i \in S : TRUE
    OBVIOUS
  <2> QED
    BY <1>1, <2>1, <2>2
<1>3. PICK x \in S : Min(T) = n - x
  <2>1. Min(T) \in T
    <3> HIDE DEF T
    <3> QED
      BY <1>2, HasMin
  <2> QED
    BY <2>1
<1>4. \A i \in S : Min(T) <= n - i
  <2> HIDE DEF T
  <2> QED
    BY <1>1, <1>2, HasMin
<1>5. \A i \in S : x >= i
  <2> HIDE DEF T
  <2> QED
    BY <1>1, <1>3, <1>4
<1>6. \E y \in S : \A i \in S : y >= i
  BY <1>5
<1>7. Max(S) \in S /\ \A i \in S : Max(S) >= i
  BY <1>6 DEF Max
<1> QED
  BY <1>1, <1>7

-----------------------------------------------------------------------------
(* str.strip()                                                             *)

LEMMA StripBlank ==
  ASSUME NEW text, Solid(text) = {}
  PROVE  Strip(text) = <<>>
BY DEF Strip

\* Strip keeps the positions from the first that is not blank to the last.
LEMMA StripSolid ==
  ASSUME NEW text \in Seq(Tokens), Solid(text) # {}
  PROVE  \E a, b \in 1..Len(text) :
           /\ a = Min(Solid(text)) /\ a <= b
           /\ text[a] # Space /\ text[b] # Space
           /\ \A i \in 1..Len(text) : i < a \/ i > b => text[i] = Space
           /\ Strip(text) = SubSeq(text, a, b)
           /\ Strip(text) \in Seq(Tokens)
           /\ Len(Strip(text)) = b - a + 1
           /\ \A i \in 1..(b - a + 1) : Strip(text)[i] = text[a + i - 1]
<1> DEFINE S == Solid(text)
           a == Min(S)
           b == Max(S)
<1>1. Len(text) \in Nat /\ S = {i \in 1..Len(text) : text[i] # Space}
  BY LenProperties DEF Solid
<1>2. S \in SUBSET Nat /\ S \in SUBSET (1..Len(text)) /\ S # {}
  BY <1>1
<1>3. a \in S /\ b \in S /\ \A i \in S : a <= i /\ i <= b
  <2> HIDE DEF S
  <2> QED
    BY <1>1, <1>2, HasMin, HasMax
<1>4. Strip(text) = SubSeq(text, a, b)
  BY DEF Strip
<1> HIDE DEF S, a, b
<1>5. a \in 1..Len(text) /\ b \in 1..Len(text) /\ a <= b /\ text[a] # Space /\ text[b] # Space
  BY <1>1, <1>3
<1>6. \A i \in 1..Len(text) : i < a \/ i > b => text[i] = Space
  BY <1>1, <1>3, <1>5
<1>7. \A i \in a..b : text[i] \in Tokens
  BY <1>5, ElementOfSeq
<1>8. /\ SubSeq(text, a, b) \in Seq(Tokens)
      /\ Len(SubSeq(text, a, b)) = b - a + 1
      /\ \A i \in 1..(b - a + 1) : SubSeq(text, a, b)[i] = text[a + i - 1]
  BY <1>1, <1>5, <1>7, SubSeqProperties
<1> QED
  BY <1>4, <1>5, <1>6, <1>8 DEF a, S

\* A text without blanks at its ends stays as it is.
LEMMA StripNothing ==
  ASSUME NEW text \in Seq(Tokens), text # <<>>, text[1] # Space, text[Len(text)] # Space
  PROVE  Strip(text) = text
<1>1. Len(text) \in Nat \ {0} /\ 1 \in Solid(text) /\ Len(text) \in Solid(text)
  BY EmptySeq, LenProperties DEF Solid
<1>2. PICK a, b \in 1..Len(text) :
        /\ \A i \in 1..Len(text) : i < a \/ i > b => text[i] = Space
        /\ Strip(text) \in Seq(Tokens)
        /\ Len(Strip(text)) = b - a + 1
        /\ \A i \in 1..(b - a + 1) : Strip(text)[i] = text[a + i - 1]
  BY <1>1, StripSolid
<1>3. a = 1 /\ b = Len(text)
  BY <1>1, <1>2
<1> QED
  BY <1>1, <1>2, <1>3, SeqEqual

\* int() takes a text with one numeral in it and otherwise blanks.
LEMMA NumeralAt ==
  ASSUME NEW text \in Seq(Tokens), NEW k \in 1..Len(text), text[k] \in DOMAIN IntOf,
         \A j \in 1..Len(text) : j # k => text[j] = Space
  PROVE  Numeral(text) /\ Strip(text)[1] = text[k]
<1>1. text[k] # Space /\ k \in Solid(text) /\ Len(text) \in Nat
  BY TokensAssumption, LenProperties DEF Solid
<1>2. PICK a, b \in 1..Len(text) :
        /\ text[a] # Space /\ text[b] # Space
        /\ Len(Strip(text)) = b - a + 1
        /\ \A i \in 1..(b - a + 1) : Strip(text)[i] = text[a + i - 1]
  BY <1>1, StripSolid
<1>3. a = k /\ b = k
  BY <1>2
<1> QED
  BY <1>2, <1>3 DEF Numeral

LEMMA NumeralOnly ==
  ASSUME NEW text \in Seq(Tokens), Numeral(text)
  PROVE  \E k \in 1..Len(text) :
           /\ text[k] \in DOMAIN IntOf /\ Strip(text)[1] = text[k]
           /\ \A j \in 1..Len(text) : j # k => text[j] = Space
<1>1. Len(text) \in Nat
  OBVIOUS
<1>2. Solid(text) # {}
  BY StripBlank DEF Numeral
<1>3. PICK a, b \in 1..Len(text) :
        /\ \A i \in 1..Len(text) : i < a \/ i > b => text[i] = Space
        /\ Strip(text) \in Seq(Tokens)
        /\ Len(Strip(text)) = b - a + 1
        /\ \A i \in 1..(b - a + 1) : Strip(text)[i] = text[a + i - 1]
  BY <1>2, StripSolid
<1>4. b = a
  <2>1. Len(Strip(text)) = 1
    BY DEF Numeral
  <2>2. \A n : n = 1 /\ n = b - a + 1 => b = a
    BY <1>1
  <2> QED
    BY <1>3, <2>1, <2>2
<1> QED
  BY <1>1, <1>3, <1>4 DEF Numeral

-----------------------------------------------------------------------------
(* str.rsplit(":", 1)                                                      *)

LEMMA LastColon ==
  ASSUME NEW text \in Seq(Tokens), Colons(text) # {}
  PROVE  /\ Max(Colons(text)) \in 1..Len(text) /\ text[Max(Colons(text))] = ":"
         /\ \A j \in 1..Len(text) : j > Max(Colons(text)) => text[j] # ":"
<1>1. Len(text) \in Nat /\ Colons(text) = {i \in 1..Len(text) : text[i] = ":"}
  BY LenProperties DEF Colons
<1>2. Max(Colons(text)) \in Colons(text) /\ \A i \in Colons(text) : i <= Max(Colons(text))
  <2>1. Colons(text) \in SUBSET (1..Len(text))
    BY <1>1
  <2> QED
    BY <1>1, <2>1, HasMax
<1>3. Max(Colons(text)) \in 1..Len(text) /\ text[Max(Colons(text))] = ":"
  BY <1>1, <1>2
<1>4. ASSUME NEW j \in 1..Len(text), j > Max(Colons(text))
      PROVE  text[j] # ":"
  <2>1. ~(j <= Max(Colons(text)))
    BY <1>3, <1>4
  <2> QED
    BY <1>1, <1>2, <2>1
<1> QED
  BY <1>3, <1>4

LEMMA LastColonIs ==
  ASSUME NEW text \in Seq(Tokens), NEW i \in 1..Len(text), text[i] = ":",
         \A j \in 1..Len(text) : j > i => text[j] # ":"
  PROVE  Colons(text) # {} /\ Max(Colons(text)) = i
<1>1. i \in Colons(text)
  BY LenProperties DEF Colons
<1> QED
  BY <1>1, LastColon

\* What stands before and after the last colon.
LEMMA Parts ==
  ASSUME NEW text \in Seq(Tokens), NEW i \in 1..Len(text), i = Max(Colons(text))
  PROVE  /\ HostText(text) = SubSeq(text, 1, i - 1)
         /\ HostText(text) \in Seq(Tokens) /\ Len(HostText(text)) = i - 1
         /\ \A j \in 1..(i - 1) : HostText(text)[j] = text[j]
         /\ PortText(text) \in Seq(Tokens) /\ Len(PortText(text)) = Len(text) - i
         /\ \A j \in 1..(Len(text) - i) : PortText(text)[j] = text[i + j]
<1>1. Len(text) \in Nat /\ \A j \in 1..Len(text) : text[j] \in Tokens
  BY ElementOfSeq
<1>2. /\ SubSeq(text, 1, i - 1) \in Seq(Tokens)
      /\ Len(SubSeq(text, 1, i - 1)) = IF 1 <= i - 1 THEN i - 1 - 1 + 1 ELSE 0
      /\ \A j \in 1..(i - 1 - 1 + 1) : SubSeq(text, 1, i - 1)[j] = text[1 + j - 1]
  <2>1. 1 \in Int /\ i - 1 \in Int /\ \A j \in 1..(i - 1) : text[j] \in Tokens
    BY <1>1
  <2> QED
    BY <2>1, SubSeqProperties
<1>3. /\ SubSeq(text, i + 1, Len(text)) \in Seq(Tokens)
      /\ Len(SubSeq(text, i + 1, Len(text))) =
           IF i + 1 <= Len(text) THEN Len(text) - (i + 1) + 1 ELSE 0
      /\ \A j \in 1..(Len(text) - (i + 1) + 1) :
           SubSeq(text, i + 1, Len(text))[j] = text[i + 1 + j - 1]
  <2>1. i + 1 \in Int /\ Len(text) \in Int /\ \A j \in (i + 1)..Len(text) : text[j] \in Tokens
    BY <1>1
  <2> QED
    BY <2>1, SubSeqProperties
<1> QED
  BY <1>1, <1>2, <1>3 DEF HostText, PortText

\* In a text the last colon is at i, not in front, and one numeral at k.
SplitAt(text, i, k) ==
  /\ text[i] = ":" /\ 1 < i /\ i < k
  /\ text[k] \in DOMAIN IntOf /\ IntOf[text[k]] \in 1..MAX_SERVER_PORT
  /\ \A j \in (i + 1)..Len(text) : j # k => text[j] = Space

LEMMA SplitIsBindable ==
  ASSUME NEW text \in Seq(Tokens), NEW i \in 1..Len(text), NEW k \in 1..Len(text),
         SplitAt(text, i, k)
  PROVE  Max(Colons(text)) = i /\ Bindable(text) /\ PortOf(text) = IntOf[text[k]]
<1>1. text[k] # ":" /\ Space # ":"
  <2>1. text[k] # ":"
    BY TokensAssumption DEF SplitAt
  <2>2. Space # ":"
    BY Zenon DEF Space
  <2> QED
    BY <2>1, <2>2
<1>2. Colons(text) # {} /\ Max(Colons(text)) = i
  <2>1. \A j \in 1..Len(text) : j > i => text[j] # ":"
    BY <1>1 DEF SplitAt
  <2> QED
    BY <2>1, LastColonIs DEF SplitAt
<1>3. HostText(text) # <<>>
  BY <1>2, Parts, EmptySeq DEF SplitAt
<1>4. /\ PortText(text) \in Seq(Tokens) /\ k - i \in 1..Len(PortText(text))
      /\ PortText(text)[k - i] = text[k]
      /\ \A j \in 1..Len(PortText(text)) : j # k - i => PortText(text)[j] = Space
  <2>1. /\ PortText(text) \in Seq(Tokens) /\ Len(PortText(text)) = Len(text) - i
        /\ \A j \in 1..(Len(text) - i) : PortText(text)[j] = text[i + j]
    BY <1>2, Parts
  <2>2. Len(text) \in Nat /\ i < k
    BY DEF SplitAt
  <2>3. k - i \in 1..(Len(text) - i) /\ i + (k - i) = k
    BY <2>2
  <2>4. ASSUME NEW j \in 1..(Len(text) - i), j # k - i
        PROVE  PortText(text)[j] = Space
    <3>1. i + j \in (i + 1)..Len(text) /\ i + j # k
      BY <2>2, <2>4
    <3> QED
      BY <2>1, <3>1 DEF SplitAt
  <2> QED
    BY <2>1, <2>3, <2>4
<1>5. Numeral(PortText(text)) /\ Strip(PortText(text))[1] = text[k]
  BY <1>4, NumeralAt DEF SplitAt
<1>6. PortOf(text) = IntOf[text[k]]
  BY <1>5 DEF PortOf
<1> QED
  BY <1>2, <1>3, <1>5, <1>6 DEF Bindable, SplitAt

LEMMA BindableSplits ==
  ASSUME NEW text \in Seq(Tokens), Bindable(text)
  PROVE  \E i, k \in 1..Len(text) : SplitAt(text, i, k)
<1> DEFINE i == Max(Colons(text))
<1>1. i \in 1..Len(text) /\ text[i] = ":"
  BY LastColon DEF Bindable
<1>2. 1 < i
  <2>1. HostText(text) \in Seq(Tokens) /\ Len(HostText(text)) = i - 1
    BY <1>1, Parts
  <2>2. Len(HostText(text)) # 0
    BY <2>1, EmptySeq DEF Bindable
  <2> QED
    BY <1>1, <2>1, <2>2
<1>3. PICK n \in 1..Len(PortText(text)) :
        /\ PortText(text)[n] \in DOMAIN IntOf /\ Strip(PortText(text))[1] = PortText(text)[n]
        /\ \A j \in 1..Len(PortText(text)) : j # n => PortText(text)[j] = Space
  BY <1>1, Parts, NumeralOnly DEF Bindable
<1>4. /\ Len(PortText(text)) = Len(text) - i
      /\ \A j \in 1..(Len(text) - i) : PortText(text)[j] = text[i + j]
  BY <1>1, Parts
<1> HIDE DEF i
<1>5. i + n \in 1..Len(text) /\ text[i + n] = PortText(text)[n] /\ i < i + n
  BY <1>1, <1>3, <1>4
<1>6. \A j \in (i + 1)..Len(text) : j # i + n => text[j] = Space
  <2> TAKE j \in (i + 1)..Len(text)
  <2>1. j - i \in 1..(Len(text) - i) /\ text[j] = PortText(text)[j - i]
    BY <1>1, <1>4, LenProperties
  <2> QED
    BY <1>1, <1>3, <1>4, <2>1
<1>7. IntOf[text[i + n]] \in 1..MAX_SERVER_PORT
  BY <1>3, <1>5 DEF Bindable, PortOf
<1> QED
  BY <1>1, <1>2, <1>3, <1>5, <1>6, <1>7 DEF SplitAt

-----------------------------------------------------------------------------
(* A bind address, as it is given and as it is read.                       *)

\* A well-formed address is accepted, its port is the numeral's, and its host
\* is what stands before the last colon.
LEMMA WellFormedIsRead ==
  ASSUME NEW text \in Seq(Tokens), NEW i \in 1..Len(text), NEW k \in 1..Len(text),
         WellFormedAddress(text, i, k)
  PROVE  /\ Bindable(Strip(text))
         /\ PortOf(Strip(text)) = IntOf[text[k]]
         /\ HostText(Strip(text)) = SubSeq(text, Min(Solid(text)), i - 1)
<1>1. text[k] # Space /\ text[i] # Space
  <2>1. text[k] # Space
    BY TokensAssumption DEF WellFormedAddress
  <2>2. ":" # Space
    BY Zenon DEF Space
  <2> QED
    BY <2>1, <2>2 DEF WellFormedAddress
<1>2. i \in Solid(text)
  BY <1>1, LenProperties DEF Solid
<1>3. PICK a, b \in 1..Len(text) :
        /\ a = Min(Solid(text)) /\ a <= b
        /\ \A j \in 1..Len(text) : j < a \/ j > b => text[j] = Space
        /\ Strip(text) = SubSeq(text, a, b)
        /\ Strip(text) \in Seq(Tokens)
        /\ Len(Strip(text)) = b - a + 1
        /\ \A j \in 1..(b - a + 1) : Strip(text)[j] = text[a + j - 1]
  BY <1>2, StripSolid
<1>4. PICK h \in 1..(i - 1) : text[h] # Space
  BY DEF WellFormedAddress
<1>5. i < k /\ a <= h /\ h < i /\ k <= b
  <2>1. i < k /\ h < i /\ h \in 1..Len(text)
    BY <1>4 DEF WellFormedAddress
  <2>2. ~(h < a) /\ ~(k > b)
    BY <1>1, <1>3, <1>4, <2>1
  <2> QED
    BY <2>1, <2>2
<1> DEFINE p == i - a + 1
           q == k - a + 1
<1>6. /\ p \in 1..(b - a + 1) /\ q \in 1..(b - a + 1) /\ 1 < p /\ p < q
      /\ a + p - 1 = i /\ a + q - 1 = k
  BY <1>5
<1>7. Strip(text)[p] = text[i] /\ Strip(text)[q] = text[k]
  BY <1>3, <1>6
<1> HIDE DEF p, q
<1>8. ASSUME NEW j \in (p + 1)..(b - a + 1), j # q
      PROVE  Strip(text)[j] = Space
  <2>1. a + j - 1 \in (i + 1)..Len(text) /\ a + j - 1 # k /\ j \in 1..(b - a + 1)
    BY <1>5, <1>6, <1>8
  <2>2. text[a + j - 1] = Space
    BY <2>1 DEF WellFormedAddress
  <2> QED
    BY <1>3, <2>1, <2>2
<1>9. SplitAt(Strip(text), p, q)
  BY <1>3, <1>6, <1>7, <1>8 DEF SplitAt, WellFormedAddress
<1>10. /\ Max(Colons(Strip(text))) = p /\ Bindable(Strip(text))
       /\ PortOf(Strip(text)) = IntOf[text[k]]
  <2>1. p \in 1..Len(Strip(text)) /\ q \in 1..Len(Strip(text))
    BY <1>3, <1>6
  <2> QED
    BY <1>3, <1>7, <1>9, <2>1, SplitIsBindable
<1>11. HostText(Strip(text)) = SubSeq(text, a, i - 1)
  <2>1. /\ HostText(Strip(text)) \in Seq(Tokens) /\ Len(HostText(Strip(text))) = p - 1
        /\ \A j \in 1..(p - 1) : HostText(Strip(text))[j] = Strip(text)[j]
    <3>1. p \in 1..Len(Strip(text)) /\ p = Max(Colons(Strip(text)))
      BY <1>3, <1>6, <1>10
    <3> QED
      BY <1>3, <3>1, Parts
  <2>2. /\ SubSeq(text, a, i - 1) \in Seq(Tokens)
        /\ Len(SubSeq(text, a, i - 1)) = p - 1
        /\ \A j \in 1..(p - 1) : SubSeq(text, a, i - 1)[j] = text[a + j - 1]
    <3>1. \A j \in a..(i - 1) : text[j] \in Tokens
      BY <1>5, ElementOfSeq
    <3>2. /\ SubSeq(text, a, i - 1) \in Seq(Tokens)
          /\ Len(SubSeq(text, a, i - 1)) = IF a <= i - 1 THEN i - 1 - a + 1 ELSE 0
          /\ \A j \in 1..(i - 1 - a + 1) : SubSeq(text, a, i - 1)[j] = text[a + j - 1]
      BY <1>5, <3>1, SubSeqProperties
    <3>3. i - 1 - a + 1 = p - 1 /\ a <= i - 1
      BY <1>5, <1>6
    <3> QED
      BY <3>2, <3>3
  <2>3. \A j \in 1..(p - 1) : HostText(Strip(text))[j] = SubSeq(text, a, i - 1)[j]
    <3> TAKE j \in 1..(p - 1)
    <3>1. j \in 1..(b - a + 1)
      BY <1>6
    <3>2. Strip(text)[j] = text[a + j - 1]
      BY <1>3, <3>1
    <3> QED
      BY <2>1, <2>2, <3>2
  <2> QED
    BY <2>1, <2>2, <2>3, SeqEqual
<1> QED
  BY <1>3, <1>10, <1>11

\* What is accepted, short of the default, is well-formed.
LEMMA AcceptedIsWellFormed ==
  ASSUME NEW text \in Seq(Tokens), Bindable(Strip(text))
  PROVE  \E i, k \in 1..Len(text) : WellFormedAddress(text, i, k)
<1>1. Solid(text) # {}
  <2>1. Strip(text) # <<>>
    <3>1. Colons(<<>>) = {}
      BY DEF Colons
    <3> QED
      BY <3>1 DEF Bindable
  <2> QED
    BY <2>1, StripBlank
<1>2. PICK a, b \in 1..Len(text) :
        /\ a <= b /\ text[a] # Space
        /\ \A j \in 1..Len(text) : j < a \/ j > b => text[j] = Space
        /\ Strip(text) \in Seq(Tokens)
        /\ Len(Strip(text)) = b - a + 1
        /\ \A j \in 1..(b - a + 1) : Strip(text)[j] = text[a + j - 1]
  BY <1>1, StripSolid
<1>3. PICK p, q \in 1..(b - a + 1) : SplitAt(Strip(text), p, q)
  BY <1>2, BindableSplits
<1> DEFINE i == a + p - 1
           k == a + q - 1
<1>4. /\ i \in 1..Len(text) /\ k \in 1..Len(text) /\ a < i /\ i < k /\ k <= b
      /\ Strip(text)[p] = text[i] /\ Strip(text)[q] = text[k]
  BY <1>2, <1>3 DEF SplitAt
<1>5. ASSUME NEW j \in ((i + 1)..Len(text)) \ {k}
      PROVE  text[j] = Space
  <2>1. CASE j > b
    BY <1>2, <1>4, <2>1
  <2>2. CASE j <= b
    <3>1. /\ j - a + 1 \in (p + 1)..(b - a + 1) /\ j - a + 1 # q
          /\ a + (j - a + 1) - 1 = j /\ j - a + 1 \in 1..(b - a + 1)
      BY <1>4, <2>2
    <3>2. Strip(text)[j - a + 1] = Space
      BY <1>2, <1>3, <3>1 DEF SplitAt
    <3> QED
      BY <1>2, <3>1, <3>2
  <2> QED
    BY <1>4, <2>1, <2>2
<1> HIDE DEF i, k
<1>6. WellFormedAddress(text, i, k)
  <2>1. a \in 1..(i - 1)
    BY <1>4
  <2> QED
    BY <1>2, <1>3, <1>4, <1>5, <2>1 DEF SplitAt, WellFormedAddress
<1> QED
  BY <1>4, <1>6

-----------------------------------------------------------------------------
(* The normalised address.                                                 *)

LEMMA DecimalOfPort ==
  ASSUME NEW d \in Decimals
  PROVE  Decimal(IntOf[d]) = d
<1>1. \E c \in Decimals : IntOf[c] = IntOf[d]
  OBVIOUS
<1>2. Decimal(IntOf[d]) \in Decimals /\ IntOf[Decimal(IntOf[d])] = IntOf[d]
  BY <1>1, Zenon DEF Decimal
<1> QED
  BY <1>2, TokensAssumption

LEMMA NormalForm ==
  ASSUME NEW host \in Seq(Tokens), host # <<>>, host[1] # Space,
         NEW d \in Decimals, IntOf[d] \in 1..MAX_SERVER_PORT,
         NEW address, address = host \o <<":", d>>
  PROVE  /\ Bindable(address) /\ NormalizeAddress(address) = address
         /\ HostText(address) = host /\ PortOf(address) = IntOf[d]
<1>1. d \in Tokens /\ ":" \in Tokens /\ d \in DOMAIN IntOf /\ d # Space /\ Len(host) \in Nat \ {0}
  BY TokensAssumption, EmptySeq
<1> DEFINE n == Len(host)
           tail == <<":", d>>
<1>2. tail \in Seq(Tokens) /\ Len(tail) = 2 /\ tail[1] = ":" /\ tail[2] = d
  BY <1>1
<1>3. /\ address \in Seq(Tokens) /\ Len(address) = n + 2
      /\ \A j \in 1..n : address[j] = host[j]
      /\ address[n + 1] = ":" /\ address[n + 2] = d
  <2> HIDE DEF tail
  <2>1. /\ address \in Seq(Tokens) /\ Len(address) = Len(host) + Len(tail)
        /\ \A j \in 1..(Len(host) + Len(tail)) :
             address[j] = IF j <= Len(host) THEN host[j] ELSE tail[j - Len(host)]
    BY <1>2, ConcatProperties DEF tail
  <2> QED
    BY <1>1, <1>2, <2>1
<1> HIDE DEF tail
<1>4. n + 1 \in 1..Len(address) /\ n + 2 \in 1..Len(address)
  BY <1>1, <1>3
<1>5. SplitAt(address, n + 1, n + 2)
  BY <1>1, <1>3, <1>4 DEF SplitAt
<1>6. Max(Colons(address)) = n + 1 /\ Bindable(address) /\ PortOf(address) = IntOf[d]
  BY <1>3, <1>4, <1>5, SplitIsBindable
<1>7. HostText(address) = host
  <2>1. /\ HostText(address) \in Seq(Tokens) /\ Len(HostText(address)) = n
        /\ \A j \in 1..n : HostText(address)[j] = address[j]
    <3> DEFINE m == n + 1
    <3>1. m \in 1..Len(address) /\ m = Max(Colons(address)) /\ m - 1 = n
      BY <1>1, <1>4, <1>6
    <3> HIDE DEF m
    <3>2. /\ HostText(address) \in Seq(Tokens) /\ Len(HostText(address)) = m - 1
          /\ \A j \in 1..(m - 1) : HostText(address)[j] = address[j]
      BY <1>3, <3>1, Parts
    <3> QED
      BY <3>1, <3>2
  <2>2. \A j \in 1..n : HostText(address)[j] = host[j]
    BY <1>3, <2>1
  <2> QED
    BY <2>1, <2>2, SeqEqual
<1>8. Strip(address) = address
  <2>1. address[1] = host[1] /\ address[Len(address)] = d
    BY <1>1, <1>3
  <2>2. address # <<>>
    BY <1>1, <1>3, EmptySeq
  <2> QED
    BY <1>1, <1>3, <2>1, <2>2, StripNothing
<1>9. address \notin {Unset, <<>>}
  <2>1. Len(Unset) = 1
    BY DEF Unset
  <2> QED
    BY <1>1, <1>3, <2>1, EmptySeq
<1>10. NormalizeAddress(address) = address
  BY <1>6, <1>7, <1>8, <1>9, DecimalOfPort DEF NormalizeAddress
<1> QED
  BY <1>6, <1>7, <1>10

LEMMA Normalised ==
  ASSUME NEW given \in Seq(Tokens), AddressAccepted(given),
         NEW address, address = NormalizeAddress(given)
  PROVE  /\ Bindable(address) /\ NormalizeAddress(address) = address
         /\ \/ given \in {Unset, <<>>}
            \/ /\ Bindable(Strip(given))
               /\ HostText(address) = HostText(Strip(given))
               /\ PortOf(address) = PortOf(Strip(given))
<1>1. CASE given \in {Unset, <<>>}
  <2>1. DefaultPort \in Decimals /\ IntOf[DefaultPort] = 8000 /\ DefaultHost \in Tokens
    BY TokensAssumption
  <2>2. IntOf[DefaultPort] \in 1..MAX_SERVER_PORT
    BY <2>1 DEF MAX_SERVER_PORT
  <2> DEFINE host == <<DefaultHost>>
  <2>3. /\ host \in Seq(Tokens) /\ host # <<>> /\ host[1] # Space
        /\ address = host \o <<":", DefaultPort>>
    <3>1. DefaultHost # Space
      BY Zenon DEF DefaultHost, Space
    <3>2. address = <<DefaultHost, ":", DefaultPort>>
      BY <1>1 DEF NormalizeAddress, DefaultAddress
    <3> QED
      BY <2>1, <3>1, <3>2
  <2> HIDE DEF host
  <2>4. Bindable(address) /\ NormalizeAddress(address) = address
    <3>1. PICK d \in Decimals : d = DefaultPort
      BY <2>1
    <3>2. IntOf[d] \in 1..MAX_SERVER_PORT /\ address = host \o <<":", d>>
      BY <2>2, <2>3, <3>1
    <3> QED
      BY <2>3, <3>2, NormalForm
  <2> QED
    BY <1>1, <2>4
<1>2. CASE given \notin {Unset, <<>>}
  <2> DEFINE text == Strip(given)
  <2>1. Bindable(text) /\ Colons(text) # {}
    BY <1>2 DEF AddressAccepted, Bindable
  <2>2. PICK i0, k0 \in 1..Len(given) : WellFormedAddress(given, i0, k0)
    BY <2>1, AcceptedIsWellFormed
  <2>3. Solid(given) # {}
    <3>1. PICK h \in 1..(i0 - 1) : given[h] # Space
      BY <2>2 DEF WellFormedAddress
    <3>2. h \in 1..Len(given)
      BY <3>1, LenProperties
    <3> QED
      BY <3>1, <3>2, LenProperties DEF Solid
  <2>4. /\ text \in Seq(Tokens) /\ text[1] # Space
    <3>1. PICK a, b \in 1..Len(given) :
            /\ a <= b /\ given[a] # Space /\ Strip(given) \in Seq(Tokens)
            /\ \A j \in 1..(b - a + 1) : Strip(given)[j] = given[a + j - 1]
      BY <2>3, StripSolid
    <3>2. 1 \in 1..(b - a + 1) /\ a + 1 - 1 = a
      BY <3>1
    <3> QED
      BY <3>1, <3>2
  <2> HIDE DEF text
  <2>5. PICK i, k \in 1..Len(text) : SplitAt(text, i, k)
    BY <2>1, <2>4, BindableSplits
  <2>6. Max(Colons(text)) = i /\ PortOf(text) = IntOf[text[k]] /\ text[k] \in DOMAIN IntOf
    BY <2>4, <2>5, SplitIsBindable DEF SplitAt
  <2>7. /\ HostText(text) \in Seq(Tokens) /\ HostText(text) # <<>>
        /\ HostText(text)[1] # Space
    <3>1. 1 \in 1..(i - 1)
      BY <2>5 DEF SplitAt
    <3> QED
      BY <2>1, <2>4, <2>6, <3>1, Parts DEF Bindable
  <2>8. PICK d \in Decimals : IntOf[d] = PortOf(text)
    BY <2>6, TokensAssumption
  <2>9. address = HostText(text) \o <<":", d>>
    BY <1>2, <2>8, DecimalOfPort DEF NormalizeAddress, text
  <2>10. IntOf[d] \in 1..MAX_SERVER_PORT
    BY <2>1, <2>8 DEF Bindable
  <2>11. /\ Bindable(address) /\ NormalizeAddress(address) = address
         /\ HostText(address) = HostText(text) /\ PortOf(address) = IntOf[d]
    BY <2>7, <2>9, <2>10, NormalForm
  <2> QED
    BY <2>1, <2>8, <2>11 DEF text
<1> QED
  BY <1>1, <1>2

-----------------------------------------------------------------------------
(* What the startup knows of its settings.                                 *)

\* Past loading, the settings are those of an environment that loads.
LoadedInv ==
  /\ env \in Envs
  /\ phase \notin {"load", "exited"} => Loads(env) /\ config = LoadConfigFromEnv(env)
  /\ failed = "settings" => ~Loads(env)

LEMMA LoadedInit == Init => LoadedInv
BY DEF Init, LoadedInv

LEMMA LoadedNext == LoadedInv /\ [Next]_vars => LoadedInv'
<1> SUFFICES ASSUME LoadedInv, [Next]_vars
             PROVE  LoadedInv'
  OBVIOUS
<1>1. CASE LoadSettings
  BY <1>1 DEF LoadSettings, LoadedInv, Goto, Fail
<1>2. CASE UNCHANGED <<env, config>> /\ phase # "load" /\ (failed' # "settings" \/ UNCHANGED failed)
           /\ phase' # "load" /\ (phase = "exited" => phase' = "exited")
  BY <1>2 DEF LoadedInv
<1>3. CASE ValidatePrivateKey \/ CreateExchange
  BY <1>3, <1>2 DEF ValidatePrivateKey, CreateExchange, Goto, Fail, setupVars
<1>4. CASE ReadsStep
  BY <1>4, <1>2 DEF ReadsStep, LogHotWalletBalance, HotWalletRead, HotWalletLogged, Goto, Fail, setupVars
<1>5. CASE WarnIfZeroGasBalance
  BY <1>5, <1>2 DEF WarnIfZeroGasBalance, AfterWarning, Goto, Fail, setupVars
<1>6. CASE BeginPreload \/ EndPreload \/ Serve
  BY <1>6, <1>2 DEF BeginPreload, EndPreload, Serve, Goto, Fail, setupVars
<1>7. CASE CallStep
  BY <1>7, <1>2 DEF CallStep, Acquire, Wait, Release, WakeUp, setupVars
<1>8. CASE UNCHANGED vars
  BY <1>8 DEF vars, LoadedInv
<1> QED
  BY <1>1, <1>3, <1>4, <1>5, <1>6, <1>7, <1>8 DEF Next, BootStep

LEMMA LoadedCorrect == Spec => []LoadedInv
BY LoadedInit, LoadedNext, PTL DEF Spec

-----------------------------------------------------------------------------
(* Blank variables.                                                        *)

LEMMA BlankIsUnset ==
  ASSUME NEW text, Solid(text) = {}
  PROVE  OptionalEnv(text) = OptionalEnv(Unset)
BY StripBlank DEF OptionalEnv

\* An optional variable that holds nothing but blanks does to the settings
\* what its absence does, whichever of the six it is.
THEOREM BlanksHaveNoEffect == Spec => []BlankMeansUnset
<1>1. LoadedInv => BlankMeansUnset
  <2> SUFFICES ASSUME LoadedInv, phase \notin {"load", "exited"},
                      NEW v \in OptionalVariables, Solid(env[v]) = {}
               PROVE  config = LoadConfigFromEnv([env EXCEPT ![v] = Unset])
    BY DEF BlankMeansUnset
  <2> DEFINE unset == [env EXCEPT ![v] = Unset]
  <2>1. env \in [Variables -> Seq(Tokens)] /\ config = LoadConfigFromEnv(env)
    BY EnvsAssumption DEF LoadedInv
  <2>2. \A w \in Variables : unset[w] = IF w = v THEN Unset ELSE env[w]
    BY <2>1
  <2>3. v \notin {"address", "logLevel", "preload"}
    BY DEF OptionalVariables
  <2>4. unset.address = env.address /\ unset.logLevel = env.logLevel /\ unset.preload = env.preload
    BY <2>2, <2>3 DEF Variables
  <2> HIDE DEF unset
  <2>5. \A w \in OptionalVariables : OptionalEnv(unset[w]) = OptionalEnv(env[w])
    BY <2>2, BlankIsUnset DEF OptionalVariables, Variables
  <2>6. /\ OptionalEnv(unset.authToken) = OptionalEnv(env.authToken)
        /\ OptionalEnv(unset.legacyToken) = OptionalEnv(env.legacyToken)
        /\ OptionalEnv(unset.privateKey) = OptionalEnv(env.privateKey)
        /\ OptionalEnv(unset.walletAddress) = OptionalEnv(env.walletAddress)
        /\ OptionalEnv(unset.vaultAddress) = OptionalEnv(env.vaultAddress)
        /\ OptionalEnv(unset.chainId) = OptionalEnv(env.chainId)
    BY <2>5 DEF OptionalVariables
  <2>7. LoadConfigFromEnv(unset) = LoadConfigFromEnv(env)
    BY <2>4, <2>6, Zenon DEF LoadConfigFromEnv
  <2> QED
    BY <2>1, <2>7 DEF unset
<1> QED
  BY <1>1, LoadedCorrect, PTL

-----------------------------------------------------------------------------
(* Bind addresses.                                                         *)

\* Boot goes on exactly with the well-formed addresses; the host and the port
\* that uvicorn is given are those of the variable, and the address that is
\* kept would be kept again, for texts of any length.
THEOREM AddressesRoundTrip == Spec => []AddressRoundTrip
<1>1. LoadedInv => AddressRoundTrip
  <2> SUFFICES ASSUME LoadedInv
               PROVE  AddressRoundTrip
    OBVIOUS
  <2> DEFINE given == env.address
  <2>1. env \in [Variables -> Seq(Tokens)] /\ given \in Seq(Tokens)
    BY EnvsAssumption DEF LoadedInv, Variables
  <2>2. DOMAIN given = 1..Len(given)
    BY <2>1, LenProperties
  <2>3. ASSUME phase \notin {"load", "exited"}
        PROVE  /\ Bindable(config.address)
               /\ NormalizeAddress(config.address) = config.address
               /\ given \in {Unset, <<>>} \/ \E i, k \in DOMAIN given :
                    /\ WellFormedAddress(given, i, k)
                    /\ PortOf(config.address) = IntOf[given[k]]
                    /\ HostText(config.address) = SubSeq(given, Min(Solid(given)), i - 1)
    <3>1. AddressAccepted(given) /\ config.address = NormalizeAddress(given)
      BY <2>3 DEF LoadedInv, Loads, LoadConfigFromEnv
    <3>2. /\ Bindable(config.address) /\ NormalizeAddress(config.address) = config.address
          /\ \/ given \in {Unset, <<>>}
             \/ /\ Bindable(Strip(given))
                /\ HostText(config.address) = HostText(Strip(given))
                /\ PortOf(config.address) = PortOf(Strip(given))
      BY <2>1, <3>1, Normalised
    <3> QED
      BY <2>1, <2>2, <3>2, AcceptedIsWellFormed, WellFormedIsRead
  <2>4. ASSUME failed = "settings", Loads([env EXCEPT !.address = Unset])
        PROVE  given \notin {Unset, <<>>} /\ ~\E i, k \in DOMAIN given : WellFormedAddress(given, i, k)
    <3> DEFINE other == [env EXCEPT !.address = Unset]
    <3>1. /\ other.chainId = env.chainId /\ other.buffer = env.buffer /\ other.preload = env.preload
      BY <2>1 DEF Variables
    <3> HIDE DEF other
    <3>2. Loads(other) /\ ~Loads(env)
      BY <2>4 DEF LoadedInv, other
    <3>3. ~AddressAccepted(given)
      BY <3>1, <3>2, Zenon DEF Loads
    <3>4. given \notin {Unset, <<>>} /\ ~Bindable(Strip(given))
      BY <3>3 DEF AddressAccepted
    <3> QED
      BY <2>1, <2>2, <3>4, WellFormedIsRead
  <2> QED
    BY <2>3, <2>4, Zenon DEF AddressRoundTrip
<1> QED
  BY <1>1, LoadedCorrect, PTL
=============================================================================
