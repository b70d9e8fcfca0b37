-------------------------- MODULE SerializationProofs --------------------------
(***************************************************************************)
(* Theorems about Serialization, for any objects however nested, shared or *)
(* referring back, and any keys.                                           *)
(***************************************************************************)
EXTENDS Serialization, SequenceTheorems, WellFoundedInduction, TLAPS

-----------------------------------------------------------------------------
(* The first and the last of some positions.                               *)

LEMMA HasMin ==
  ASSUME NEW S \in SUBSET Nat, S # {}
  PROVE  Min(S) \in S /\ \A i \in S : Min(S) <= i
<1> DEFINE R == OpToRel(<, Nat)
<1>1. PICK x \in S : \A i \in S : ~(<<i, x>> \in R)
  <2>1. IsWellFoundedOn(R, Nat)
    BY NatLessThanWellFounded
  <2> HIDE DEF R
  <2> QED
    BY <2>1, WFMin
<1>2. \A i \in S : ~(i < x)
  BY <1>1 DEF OpToRel
<1>3. \A i \in S : x <= i
  BY <1>2
<1> QED
  BY <1>3 DEF Min

LEMMA HasMax ==
  ASSUME NEW n \in Nat, NEW S \in SUBSET (1..n), S # {}
  PROVE  Max(S) \in S /\ \A i \in S : i <= Max(S)
<1> DEFINE T == {n - i : i \in S}
<1>1. \A i \in S : n - i \in T /\ i \in 1..n
  OBVIOUS
<1>2. T \in SUBSET Nat /\ T # {}
  <2>1. T \subseteq Nat
    BY <1>1
  <2>2. PICK i \in S : TRUE
    OBVIOUS
  <2> QED
    BY <1>1, <2>1, <2>2
<1>3. PICK x \in S : Min(T) = n - x
  <2>1. Min(T) \in T
    <3> HIDE DEF T
    <3> QED
      BY <1>2, HasMin
  <2> QED
    BY <2>1
<1>4. \A i \in S : Min(T) <= n - i
  <2> HIDE DEF T
  <2> QED
    BY <1>1, <1>2, HasMin
<1>5. \A i \in S : x >= i
  <2> HIDE DEF T
  <2> QED
    BY <1>1, <1>3, <1>4
<1>6. \E y \in S : \A i \in S : y >= i
  BY <1>5
<1>7. Max(S) \in S /\ \A i \in S : Max(S) >= i
  BY <1>6 DEF Max
<1> QED
  BY <1>1, <1>7

-----------------------------------------------------------------------------
(* Branches.                                                               *)

LEMMA GraphTypes ==
  ASSUME graph \in Graphs, NEW v \in Objects
  PROVE  /\ graph[v] \in ObjectType
         /\ graph[v].items \in Seq(Objects) /\ graph[v].keys \in Seq(Keys)
         /\ Len(graph[v].items) \in Nat
         /\ DOMAIN graph[v].items = 1..Len(graph[v].items)
         /\ DOMAIN graph[v].keys = 1..Len(graph[v].keys)
         /\ "nonfinite" \in graph[v].is => "json" \in graph[v].is
         /\ IF "sequence" \in graph[v].is
              THEN graph[v].is \intersect ContainerKinds = {"sequence"}
              ELSE Len(graph[v].keys) = Len(graph[v].items)
<1>1. graph[v] \in ObjectType
  BY GraphsAssumption
<1>2. graph[v].items \in Seq(Objects) /\ graph[v].keys \in Seq(Keys)
  BY <1>1 DEF ObjectType
<1> QED
  BY <1>1, <1>2, GraphsAssumption, LenProperties

LEMMA ChecksAre ==
  /\ DOMAIN Checks = 1..10
  /\ {Checks[i] : i \in 1..5} = TextKinds
  /\ {Checks[i] : i \in 6..10} = ContainerKinds
  /\ Checks[1] = "json" /\ Checks[6] = "dataclass"
  /\ \A i, j \in 1..10 : Checks[i] = Checks[j] => i = j
<1>1. DOMAIN Checks = 1..10
  BY DEF Checks
<1>2. /\ Checks[1] = "json" /\ Checks[2] = "type" /\ Checks[3] = "decimal"
      /\ Checks[4] = "date" /\ Checks[5] = "bytes" /\ Checks[6] = "dataclass"
      /\ Checks[7] = "model_dump" /\ Checks[8] = "dict" /\ Checks[9] = "sequence"
      /\ Checks[10] = "__dict__"
  BY DEF Checks
<1>3. 1..5 = {1, 2, 3, 4, 5} /\ 6..10 = {6, 7, 8, 9, 10}
      /\ 1..10 = {1, 2, 3, 4, 5, 6, 7, 8, 9, 10}
  OBVIOUS
<1> QED
  BY <1>1, <1>2, <1>3 DEF TextKinds, ContainerKinds

\* The branch is that of the first check passed.
LEMMA BranchIsFirst ==
  ASSUME NEW v
  PROVE  \/ /\ Branch(v) = "other"
            /\ \A i \in 1..10 : Checks[i] \notin graph[v].is
         \/ \E i \in 1..10 :
              /\ Branch(v) = Checks[i] /\ Checks[i] \in graph[v].is
              /\ \A j \in 1..10 : Checks[j] \in graph[v].is => i <= j
<1> DEFINE passed == {i \in DOMAIN Checks : Checks[i] \in graph[v].is}
<1>1. passed \subseteq 1..10 /\ \A i \in 1..10 : i \in passed <=> Checks[i] \in graph[v].is
  BY ChecksAre
<1>2. Branch(v) = IF passed = {} THEN "other" ELSE Checks[Min(passed)]
  BY Zenon DEF Branch
<1> HIDE DEF passed
<1>3. CASE passed = {}
  BY <1>1, <1>2, <1>3
<1>4. CASE passed # {}
  <2>1. passed \in SUBSET Nat
    BY <1>1
  <2>2. PICK i \in passed : i = Min(passed) /\ \A j \in passed : i <= j
    BY <1>4, <2>1, HasMin
  <2>3. i \in 1..10 /\ Branch(v) = Checks[i] /\ Checks[i] \in graph[v].is
    BY <1>1, <1>2, <1>4, <2>2
  <2> QED
    BY <1>1, <2>2, <2>3
<1> QED
  BY <1>3, <1>4

LEMMA LeafBranches == DOMAIN Conversion \union {"json"} = TextKinds \union {"other"}
BY DEF Conversion, TextKinds

\* An object with a text is one that is not unfolded; a dataclass comes before
\* all other containers.
LEMMA BranchKinds ==
  ASSUME NEW v
  PROVE  /\ Unfolds(v) <=> ~HasText(v)
         /\ HasText(v) => Branch(v) \in DOMAIN Conversion \union {"json"}
         /\ ~HasText(v) =>
              /\ Branch(v) \in ContainerKinds /\ Branch(v) \in graph[v].is
              /\ Branch(v) = "dataclass" <=> "dataclass" \in graph[v].is
              /\ "type" \notin graph[v].is
<1>1. "other" \notin ContainerKinds /\ TextKinds \intersect ContainerKinds = {}
  BY DEF ContainerKinds, TextKinds
<1>2. "type" \in TextKinds /\ "dataclass" \in ContainerKinds
  BY DEF ContainerKinds, TextKinds
<1>3. CASE Branch(v) = "other" /\ \A i \in 1..10 : Checks[i] \notin graph[v].is
  <2>1. graph[v].is \intersect ContainerKinds = {}
    BY <1>3, ChecksAre
  <2> QED
    BY <1>3, <2>1, LeafBranches DEF HasText, Unfolds
<1>4. ASSUME NEW i \in 1..10,
             Branch(v) = Checks[i], Checks[i] \in graph[v].is,
             \A j \in 1..10 : Checks[j] \in graph[v].is => i <= j
      PROVE  /\ Unfolds(v) <=> ~HasText(v)
             /\ HasText(v) => Branch(v) \in DOMAIN Conversion \union {"json"}
             /\ ~HasText(v) =>
                  /\ Branch(v) \in ContainerKinds /\ Branch(v) \in graph[v].is
                  /\ Branch(v) = "dataclass" <=> "dataclass" \in graph[v].is
                  /\ "type" \notin graph[v].is
  <2>1. CASE i \in 1..5
    <3>1. Branch(v) \in TextKinds
      BY <1>4, <2>1, ChecksAre
    <3> QED
      BY <1>4, <3>1, LeafBranches DEF HasText, Unfolds
  <2>2. CASE i \in 6..10
    <3>1. Branch(v) \in ContainerKinds
      BY <1>4, <2>2, ChecksAre
    <3>2. graph[v].is \intersect TextKinds = {}
      BY <1>4, <2>2, ChecksAre
    <3>3. Branch(v) = "dataclass" <=> "dataclass" \in graph[v].is
      BY <1>4, <2>2, ChecksAre
    <3>4. ~HasText(v)
      BY <1>4, <3>1, <3>2 DEF HasText
    <3> QED
      BY <1>1, <1>2, <1>4, <3>1, <3>2, <3>3, <3>4, LeafBranches DEF Unfolds
  <2> QED
    BY <2>1, <2>2
<1> QED
  BY <1>3, <1>4, BranchIsFirst

\* What serialize_for_json cannot unfold, among what it unfolds.
LEMMA FrozenCannotUnfold ==
  ASSUME NEW v, ~HasText(v)
  PROVE  CannotUnfold(v) <=> Frozen(v)
<1>1. /\ Branch(v) = "dataclass" <=> "dataclass" \in graph[v].is
      /\ "type" \notin graph[v].is
  BY BranchKinds
<1> QED
  BY <1>1 DEF CannotUnfold, Frozen

-----------------------------------------------------------------------------
(* What is made of one object.                                             *)

LEMMA TextForm ==
  ASSUME NEW v, HasText(v)
  PROVE  /\ SerializeForJson(v).text = graph[v].text
         /\ "json" \in SerializeForJson(v).is
         /\ SerializeForJson(v).entries = <<>>
         /\ SerializeForJson(v).is \in {graph[v].is, {"json"}}
         /\ "json" \in graph[v].is => SerializeForJson(v).is = graph[v].is
<1>1. Branch(v) \in DOMAIN Conversion \union {"json"}
  BY BranchKinds
<1>2. CASE Branch(v) = "json"
  <2>1. "json" \in graph[v].is
    BY <1>2, BranchIsFirst
  <2>2. SerializeForJson(v) =
          [is |-> graph[v].is, by |-> "none", text |-> graph[v].text, entries |-> <<>>]
    BY <1>2, LeafBranches DEF SerializeForJson, Conversion
  <2> QED
    BY <2>1, <2>2
<1>3. CASE Branch(v) # "json"
  <2>1. Branch(v) \in DOMAIN Conversion
    BY <1>1, <1>3
  <2>2. Branch(v) # "sequence"
    BY <2>1 DEF Conversion
  <2>3. SerializeForJson(v) =
          [is |-> {"json"}, by |-> Conversion[Branch(v)], text |-> graph[v].text, entries |-> <<>>]
    BY <1>3, <2>1, <2>2, Zenon DEF SerializeForJson
  <2>4. "json" \notin graph[v].is
    BY <1>3, ChecksAre, BranchIsFirst
  <2> QED
    BY <2>3, <2>4
<1> QED
  BY <1>2, <1>3

\* One entry for every name of an item of v: the last of that name.
OneEach(v, entries) ==
  LET n == Len(graph[v].items)
  IN /\ DOMAIN entries = {Name(v, i) : i \in 1..n}
     /\ \A name \in DOMAIN entries : \E i \in 1..n :
          /\ Name(v, i) = name /\ entries[name] = graph[v].items[i]
          /\ \A k \in 1..n : Name(v, k) = name => k <= i

LEMMA CollapsedIsLast ==
  ASSUME graph \in Graphs, NEW v \in Objects, "sequence" \notin graph[v].is,
         NEW entries, entries = Collapsed(graph[v].keys, graph[v].items)
  PROVE  /\ OneEach(v, entries)
         /\ \A name \in DOMAIN entries : name[1] = "str"
<1> DEFINE n == Len(graph[v].items)
           keys == graph[v].keys
           At(name) == {i \in DOMAIN keys : StrKey(keys[i]) = name}
<1>1. n \in Nat /\ DOMAIN keys = 1..n
  BY GraphTypes
<1>2. \A i \in 1..n : StrKey(keys[i]) = Name(v, i)
  BY DEF StrKey, Name
<1>3. entries = [name \in {StrKey(keys[i]) : i \in DOMAIN keys} |-> graph[v].items[Max(At(name))]]
  BY Zenon DEF Collapsed
<1>4. DOMAIN entries = {Name(v, i) : i \in 1..n}
  BY <1>1, <1>2, <1>3
<1>5. ASSUME NEW name \in DOMAIN entries
      PROVE  /\ name[1] = "str"
             /\ \E i \in 1..n :
                  /\ Name(v, i) = name /\ entries[name] = graph[v].items[i]
                  /\ \A k \in 1..n : Name(v, k) = name => k <= i
  <2>1. entries[name] = graph[v].items[Max(At(name))]
    BY <1>3, <1>5
  <2>2. \A i \in 1..n : i \in At(name) <=> Name(v, i) = name
    BY <1>1, <1>2
  <2>3. At(name) \in SUBSET (1..n)
    BY <1>1
  <2>4. PICK i \in 1..n : Name(v, i) = name
    BY <1>4, <1>5
  <2>5. name[1] = "str"
    BY <2>4 DEF Name
  <2> HIDE DEF At
  <2>6. At(name) # {}
    BY <2>2, <2>4
  <2>7. PICK m \in At(name) : m = Max(At(name)) /\ \A k \in At(name) : k <= m
    BY <1>1, <2>3, <2>6, HasMax
  <2>8. m \in 1..n /\ Name(v, m) = name
    BY <2>2, <2>3
  <2> QED
    BY <2>1, <2>2, <2>5, <2>7, <2>8
<1> QED
  BY <1>4, <1>5 DEF OneEach

\* A container has one entry for every name, the last; lists name their
\* items by position.
LEMMA ContainerForm ==
  ASSUME graph \in Graphs, NEW v \in Objects, ~HasText(v),
         NEW j, j = SerializeForJson(v)
  PROVE  IsJson(j) /\ "nonfinite" \notin j.is /\ OneEach(v, j.entries)
<1>1. Branch(v) \notin DOMAIN Conversion \union {"json"} /\ Branch(v) \in graph[v].is
      /\ Branch(v) \in ContainerKinds
  BY BranchKinds DEF Unfolds
<1>2. Len(graph[v].items) \in Nat /\ DOMAIN graph[v].items = 1..Len(graph[v].items)
  BY GraphTypes
<1>3. CASE "sequence" \in graph[v].is
  <2>1. Branch(v) = "sequence"
    BY <1>1, <1>3, GraphTypes
  <2>2. j = [is |-> {"sequence"}, by |-> "none", text |-> "none", entries |-> graph[v].items]
    BY <1>1, <2>1, Zenon DEF SerializeForJson
  <2>3. j.is = {"sequence"} /\ j.entries = graph[v].items
    BY <2>2
  <2>4. \A i : Name(v, i) = i
    BY <1>3 DEF Name
  <2>5. IsJson(j)
    BY <2>3 DEF IsJson
  <2> QED
    BY <1>2, <2>3, <2>4, <2>5 DEF OneEach
<1>4. CASE "sequence" \notin graph[v].is
  <2> PICK entries : entries = Collapsed(graph[v].keys, graph[v].items)
    OBVIOUS
  <2>1. Branch(v) # "sequence"
    BY <1>1, <1>4
  <2>2. j = [is |-> {"dict"}, by |-> "none", text |-> "none", entries |-> entries]
    BY <1>1, <2>1, Zenon DEF SerializeForJson
  <2>3. j.is = {"dict"} /\ j.entries = entries
    BY <2>2
  <2>4. OneEach(v, entries) /\ \A name \in DOMAIN entries : name[1] = "str"
    BY <1>4, CollapsedIsLast
  <2>5. IsJson(j)
    BY <2>3, <2>4 DEF IsJson
  <2> QED
    BY <2>3, <2>4, <2>5
<1> QED
  BY <1>3, <1>4

-----------------------------------------------------------------------------
(* Reachable objects.                                                      *)

\* Reachable is closed ...
LEMMA ReachableClosed ==
  ASSUME NEW edges \in [Objects -> SUBSET Objects], NEW v \in Objects
  PROVE  /\ Reachable(edges, v) \subseteq Objects /\ v \in Reachable(edges, v)
         /\ \A u \in Reachable(edges, v) : edges[u] \subseteq Reachable(edges, v)
BY DEF Reachable

\* ... and within every set that is.
LEMMA ReachableWithin ==
  ASSUME NEW edges, NEW C \in SUBSET Objects, NEW v \in C,
         \A u \in C : edges[u] \subseteq C
  PROVE  Reachable(edges, v) \subseteq C
BY DEF Reachable

LEMMA InsideType ==
  ASSUME graph \in Graphs
  PROVE  /\ Inside \in [Objects -> SUBSET Objects]
         /\ \A v \in Objects : Inside[v] = IF HasText(v) THEN {} ELSE Items[v]
<1>1. \A v \in Objects : Items[v] \in SUBSET Objects
  <2> SUFFICES ASSUME NEW v \in Objects
               PROVE  {graph[v].items[i] : i \in DOMAIN graph[v].items} \subseteq Objects
    BY DEF Items
  <2>1. \A i \in DOMAIN graph[v].items : graph[v].items[i] \in Objects
    BY GraphTypes, ElementOfSeq
  <2> QED
    BY <2>1
<1> QED
  BY <1>1 DEF Inside

\* An object's entries are the items that are kept.
LEMMA EntriesAreKept ==
  ASSUME graph \in Graphs
  PROVE  Entries = Kept
<1> SUFFICES ASSUME NEW v \in Objects
             PROVE  Entries[v] = Kept[v]
  BY Zenon DEF Entries, Kept
<1> PICK entries : entries = SerializeForJson(v).entries
  OBVIOUS
<1> PICK n \in Nat : n = Len(graph[v].items)
  BY GraphTypes
<1> DEFINE last == {i \in 1..n : \A k \in (i + 1)..n : Name(v, k) # Name(v, i)}
<1>1. Entries[v] = {entries[key] : key \in DOMAIN entries}
  BY DEF Entries
<1>2. CASE HasText(v)
  <2>1. entries = <<>> /\ Kept[v] = {}
    BY <1>2, TextForm DEF Kept
  <2> QED
    BY <1>1, <2>1
<1>3. CASE ~HasText(v)
  <2>1. OneEach(v, entries)
    BY <1>3, ContainerForm
  <2>2. Kept[v] = {graph[v].items[i] : i \in last}
    BY <1>3 DEF Kept
  <2>3. ASSUME NEW name \in DOMAIN entries
        PROVE  entries[name] \in Kept[v]
    <3>1. PICK i \in 1..n :
            /\ Name(v, i) = name /\ entries[name] = graph[v].items[i]
            /\ \A k \in 1..n : Name(v, k) = name => k <= i
      BY <2>1 DEF OneEach
    <3>2. i \in last
      BY <3>1
    <3> QED
      BY <2>2, <3>1, <3>2
  <2>4. ASSUME NEW i \in last
        PROVE  graph[v].items[i] \in Entries[v]
    <3>1. Name(v, i) \in DOMAIN entries
      BY <2>1 DEF OneEach
    <3>2. PICK m \in 1..n :
            /\ Name(v, m) = Name(v, i) /\ entries[Name(v, i)] = graph[v].items[m]
            /\ \A k \in 1..n : Name(v, k) = Name(v, i) => k <= m
      BY <2>1, <3>1 DEF OneEach
    <3>3. m = i
      BY <3>2
    <3> QED
      BY <1>1, <3>1, <3>2, <3>3
  <2> HIDE DEF last
  <2> QED
    BY <1>1, <2>2, <2>3, <2>4
<1> QED
  BY <1>2, <1>3

LEMMA KeptIsInside ==
  ASSUME graph \in Graphs, NEW v \in Objects
  PROVE  Kept[v] \subseteq Inside[v]
<1>1. CASE HasText(v)
  BY <1>1 DEF Kept
<1>2. CASE ~HasText(v)
  BY <1>2, GraphTypes DEF Kept, Inside, Items
<1> QED
  BY <1>1, <1>2

\* What is made of one object is JSON and can be encoded, unless the object is
\* a float that is not finite.
LEMMA NonfiniteForm ==
  ASSUME graph \in Graphs, NEW v \in Objects
  PROVE  /\ "nonfinite" \in SerializeForJson(v).is <=> "nonfinite" \in graph[v].is
         /\ "nonfinite" \notin SerializeForJson(v).is => IsJson(SerializeForJson(v))
<1> PICK j : j = SerializeForJson(v)
  OBVIOUS
<1>1. CASE HasText(v)
  <2>1. /\ "json" \in j.is /\ j.is \in {graph[v].is, {"json"}}
        /\ "json" \in graph[v].is => j.is = graph[v].is
    BY <1>1, TextForm
  <2> QED
    BY <2>1, GraphTypes DEF IsJson
<1>2. CASE ~HasText(v)
  <2>1. IsJson(j) /\ "nonfinite" \notin j.is
    BY <1>2, ContainerForm
  <2>2. "json" \notin graph[v].is
    BY <1>2 DEF HasText, TextKinds
  <2> QED
    BY <2>1, <2>2, GraphTypes
<1> QED
  BY <1>1, <1>2

-----------------------------------------------------------------------------
(* The recursion.                                                          *)

\* The calls under way lead from Root into one another.
CallsInv ==
  /\ calls \in Seq(Objects)
  /\ calls # <<>> => calls[1] = Root
  /\ \A i \in 1..Len(calls) : calls[i] \in Reachable(Inside, Root)
  /\ \A i \in 1..(Len(calls) - 1) : calls[i + 1] \in Inside[calls[i]]

\* What is converted is so with all that is inside it, and no way inside it
\* is without end.
ConvertedInv ==
  /\ converted \subseteq Objects
  /\ \A v \in converted : Inside[v] \subseteq converted /\ (HasText(v) \/ ~Frozen(v))
  /\ ~Cyclic(converted)

\* What follows from how the recursion ended.
OutcomeInv ==
  /\ calls = <<>> /\ ~failed => Root \in converted \/ (route = "get" /\ raised)
  /\ failed => Hindered
  /\ answer # "none" => calls = <<>>
  /\ answer = "ok" => ~raised /\ ~failed /\ Renders
  /\ answer = "error" => route = "call" /\ raised /\ ~failed /\ Renders
  /\ answer \notin {"none", "ok"} => raised \/ failed \/ ~Renders
  /\ route = "call" /\ answer # "none" =>
       (answer = "http500" <=> IF failed THEN raised ELSE ~Renders)

RecursionInv == graph \in Graphs /\ CallsInv /\ ConvertedInv /\ OutcomeInv

LEMMA GraphStays ==
  ASSUME graph' = graph
  PROVE  /\ Inside' = Inside /\ Reachable(Inside, Root)' = Reachable(Inside, Root)
         /\ \A v : HasText(v)' <=> HasText(v)
         /\ \A v : Frozen(v)' <=> Frozen(v)
         /\ Renders' <=> Renders
<1>1. \A v : HasText(v)' <=> HasText(v)
  BY DEF HasText
<1>2. Items' = Items
  BY DEF Items
<1>3. Inside' = Inside
  BY <1>1, <1>2 DEF Inside
<1>4. Reachable(Inside, Root)' = Reachable(Inside, Root)
  BY <1>3 DEF Reachable
<1>5. \A v : Reachable(Items, v)' = Reachable(Items, v)
  BY <1>2 DEF Reachable
<1>6. \A v : Frozen(v)' <=> Frozen(v)
  BY <1>5 DEF Frozen, Holds
<1>7. \A v : SerializeForJson(v)' = SerializeForJson(v)
  <2>1. \A v : Branch(v)' = Branch(v)
    BY DEF Branch
  <2>2. \A keys, items : Collapsed(keys, items)' = Collapsed(keys, items)
    BY DEF Collapsed
  <2> QED
    BY <2>1, <2>2 DEF SerializeForJson
<1>8. Entries' = Entries
  BY <1>7 DEF Entries
<1>9. Renders' <=> Renders
  BY <1>7, <1>8 DEF Renders, Reachable
<1> QED
  BY <1>1, <1>3, <1>4, <1>6, <1>9

LEMMA RootReachable ==
  ASSUME graph \in Graphs
  PROVE  /\ Root \in Objects /\ Root \in Reachable(Inside, Root)
         /\ Reachable(Inside, Root) \subseteq Objects
         /\ \A u \in Reachable(Inside, Root) : Inside[u] \subseteq Reachable(Inside, Root)
BY GraphsAssumption, InsideType, ReachableClosed

LEMMA RecursionInit == Init => RecursionInv
<1> SUFFICES ASSUME Init
             PROVE  RecursionInv
  OBVIOUS
<1>1. graph \in Graphs /\ failed = FALSE /\ answer = "none" /\ converted = {}
  BY DEF Init
<1>2. CallsInv
  <2>1. CASE calls = <<>>
    BY <2>1 DEF CallsInv
  <2>2. CASE calls = <<Root>>
    <3>1. Len(calls) = 1 /\ calls[1] = Root /\ calls \in Seq(Objects)
      BY <1>1, <2>2, RootReachable
    <3> QED
      BY <1>1, <3>1, RootReachable DEF CallsInv
  <2> QED
    BY <2>1, <2>2 DEF Init
<1>3. ConvertedInv
  BY <1>1 DEF ConvertedInv, Cyclic
<1>4. OutcomeInv
  <2>1. (route = "get" /\ raised) \/ calls # <<>>
    <3>1. <<Root>> # <<>>
      BY RootReachable
    <3> QED
      BY <3>1 DEF Init
  <2> QED
    BY <1>1, <2>1 DEF OutcomeInv
<1> QED
  BY <1>1, <1>2, <1>3, <1>4 DEF RecursionInv

LEMMA LastCall ==
  ASSUME RecursionInv, calls # <<>>
  PROVE  /\ Len(calls) \in Nat \ {0} /\ Last(calls) = calls[Len(calls)]
         /\ Last(calls) \in Objects /\ Last(calls) \in Reachable(Inside, Root)
BY EmptySeq, LenProperties, ElementOfSeq DEF RecursionInv, CallsInv, Last

\* The innermost call goes on with an item, or has nothing left to unfold.
LEMMA LastCallIsSound ==
  ASSUME RecursionInv, calls # <<>>, ~MustRaise
  PROVE  /\ HasText(Last(calls)) \/ ~Frozen(Last(calls))
         /\ Unfolds(Last(calls)) <=> ~HasText(Last(calls))
BY BranchKinds, FrozenCannotUnfold DEF MustRaise

LEMMA CallKeeps == RecursionInv /\ Call => RecursionInv'
<1> SUFFICES ASSUME RecursionInv, Call
             PROVE  RecursionInv'
  OBVIOUS
<1>1. /\ calls # <<>> /\ Unfolds(Last(calls)) /\ ~MustRaise
      /\ UNCHANGED <<route, raised, graph, converted, failed, answer>>
  BY DEF Call
<1>2. PICK i \in DOMAIN graph[Last(calls)].items :
        calls' = Append(calls, graph[Last(calls)].items[i])
  BY DEF Call
<1> DEFINE n == Len(calls)
<1>3. n \in Nat \ {0} /\ Last(calls) = calls[n] /\ calls[n] \in Objects
      /\ calls[n] \in Reachable(Inside, Root)
  BY <1>1, LastCall
<1> PICK w : w = graph[Last(calls)].items[i]
  OBVIOUS
<1>4. w \in Inside[calls[n]]
  BY <1>1, <1>3, LastCallIsSound DEF Inside, Items
<1>5. w \in Reachable(Inside, Root) /\ w \in Objects
  BY <1>3, <1>4, RootReachable DEF RecursionInv
<1>6. /\ calls' \in Seq(Objects) /\ Len(calls') = n + 1 /\ calls'[n + 1] = w
      /\ \A k \in 1..n : calls'[k] = calls[k]
  <2>1. calls \in Seq(Objects) /\ calls' = Append(calls, w)
    BY <1>2 DEF RecursionInv, CallsInv
  <2> QED
    BY <1>3, <1>5, <2>1, AppendProperties
<1>7. calls' # <<>>
  BY <1>3, <1>6, EmptySeq
<1>8. CallsInv'
  <2>1. calls'[1] = Root
    BY <1>1, <1>3, <1>6 DEF RecursionInv, CallsInv
  <2>2. \A k \in 1..(n + 1) : calls'[k] \in Reachable(Inside, Root)
    BY <1>3, <1>5, <1>6 DEF RecursionInv, CallsInv
  <2>3. \A k \in 1..n : calls'[k + 1] \in Inside[calls'[k]]
    BY <1>3, <1>4, <1>6 DEF RecursionInv, CallsInv
  <2> QED
    BY <1>1, <1>3, <1>6, <2>1, <2>2, <2>3, GraphStays DEF CallsInv
<1>9. ConvertedInv'
  BY <1>1, GraphStays DEF RecursionInv, ConvertedInv, Cyclic
<1>10. OutcomeInv'
  BY <1>1, <1>7, GraphStays DEF RecursionInv, OutcomeInv, Hindered, Cyclic
<1> QED
  BY <1>1, <1>8, <1>9, <1>10 DEF RecursionInv

\* Nothing gets a way without end by an object whose items are converted.
LEMMA StillEnds ==
  ASSUME graph \in Graphs, ConvertedInv, NEW v \in Objects, Inside[v] \subseteq converted
  PROVE  ~Cyclic(converted \union {v})
<1> SUFFICES ASSUME NEW C \in SUBSET (converted \union {v}), C # {}
             PROVE  \E u \in C : Inside[u] \intersect C = {}
  BY DEF Cyclic
<1>1. ASSUME NEW D \in SUBSET converted, D # {}
      PROVE  \E u \in D : Inside[u] \intersect D = {}
  BY <1>1 DEF ConvertedInv, Cyclic
<1>2. CASE v \in converted
  BY <1>1, <1>2
<1>3. CASE v \notin converted /\ C \intersect converted = {}
  <2>1. C = {v}
    BY <1>3
  <2> QED
    BY <1>3, <2>1
<1>4. CASE v \notin converted /\ C \intersect converted # {}
  <2>1. PICK u \in C \intersect converted : Inside[u] \intersect (C \intersect converted) = {}
    BY <1>1, <1>4
  <2>2. Inside[u] \subseteq converted
    BY <2>1 DEF ConvertedInv
  <2> QED
    BY <2>1, <2>2
<1> QED
  BY <1>2, <1>3, <1>4

LEMMA WithoutLast ==
  ASSUME NEW S, NEW s \in Seq(S), s # <<>>,
         NEW t, t = SubSeq(s, 1, Len(s) - 1)
  PROVE  /\ t \in Seq(S) /\ Len(t) = Len(s) - 1
         /\ \A k \in 1..(Len(s) - 1) : t[k] = s[k]
<1>1. Len(s) \in Nat \ {0} /\ Len(s) - 1 \in Int
  BY EmptySeq, LenProperties
<1> PICK m \in Int : m = Len(s) - 1
  BY <1>1
<1>2. \A k \in 1..m : s[k] \in S
  BY <1>1, ElementOfSeq
<1>3. /\ SubSeq(s, 1, m) \in Seq(S)
      /\ Len(SubSeq(s, 1, m)) = IF 1 <= m THEN m - 1 + 1 ELSE 0
      /\ \A k \in 1..(m - 1 + 1) : SubSeq(s, 1, m)[k] = s[1 + k - 1]
  BY <1>2, SubSeqProperties
<1>4. t = SubSeq(s, 1, m)
  OBVIOUS
<1>5. Len(t) = m
  BY <1>1, <1>3, <1>4
<1>6. \A k \in 1..m : t[k] = s[k]
  <2> TAKE k \in 1..m
  <2>1. k \in 1..(m - 1 + 1) /\ 1 + k - 1 = k
    OBVIOUS
  <2> QED
    BY <1>3, <1>4, <2>1
<1> QED
  BY <1>3, <1>4, <1>5, <1>6

LEMMA ReturnKeeps == RecursionInv /\ Return => RecursionInv'
<1> SUFFICES ASSUME RecursionInv, Return
             PROVE  RecursionInv'
  OBVIOUS
<1> DEFINE n == Len(calls)
           v == Last(calls)
<1>1. /\ calls # <<>> /\ ~MustRaise /\ (Unfolds(v) => Items[v] \subseteq converted)
      /\ converted' = converted \union {v} /\ calls' = SubSeq(calls, 1, n - 1)
      /\ UNCHANGED <<route, raised, graph, failed, answer>>
  BY DEF Return, Front
<1>2. n \in Nat \ {0} /\ v = calls[n] /\ v \in Objects /\ calls \in Seq(Objects)
  BY <1>1, LastCall DEF RecursionInv, CallsInv
<1>3. Inside[v] \subseteq converted /\ (HasText(v) \/ ~Frozen(v))
  BY <1>1, <1>2, LastCallIsSound, InsideType DEF RecursionInv
<1> HIDE DEF v
<1>4. /\ calls' \in Seq(Objects) /\ Len(calls') = n - 1
      /\ \A k \in 1..(n - 1) : calls'[k] = calls[k]
  <2>1. calls' = SubSeq(calls, 1, Len(calls) - 1)
    BY <1>1
  <2>2. calls \in Seq(Objects) /\ calls # <<>>
    BY <1>1, <1>2
  <2> QED
    BY <2>1, <2>2, WithoutLast, Zenon
<1>5. CallsInv'
  <2>1. calls' # <<>> => calls'[1] = Root
    BY <1>1, <1>2, <1>4, EmptySeq DEF RecursionInv, CallsInv
  <2>2. \A k \in 1..(n - 1) : calls'[k] \in Reachable(Inside, Root)
    BY <1>2, <1>4 DEF RecursionInv, CallsInv
  <2>3. \A k \in 1..(n - 2) : calls'[k + 1] \in Inside[calls'[k]]
    BY <1>2, <1>4 DEF RecursionInv, CallsInv
  <2> QED
    BY <1>1, <1>2, <1>4, <2>1, <2>2, <2>3, GraphStays DEF CallsInv
<1>6. ConvertedInv'
  <2>1. ~Cyclic(converted')
    BY <1>1, <1>2, <1>3, StillEnds DEF RecursionInv
  <2>2. converted' \subseteq Objects
    BY <1>1, <1>2 DEF RecursionInv, ConvertedInv
  <2>3. \A u \in converted' : Inside[u] \subseteq converted' /\ (HasText(u) \/ ~Frozen(u))
    BY <1>1, <1>3 DEF RecursionInv, ConvertedInv
  <2>4. Cyclic(converted)' <=> Cyclic(converted')
    BY <1>1, GraphStays DEF Cyclic
  <2> QED
    BY <1>1, <2>1, <2>2, <2>3, <2>4, GraphStays DEF ConvertedInv
<1>7. OutcomeInv'
  <2>1. calls' = <<>> => Root \in converted'
    <3>1. calls' = <<>> => n = 1
      BY <1>2, <1>4, EmptySeq
    <3> QED
      BY <1>1, <1>2, <3>1 DEF RecursionInv, CallsInv
  <2>2. Hindered' <=> Hindered
    BY <1>1, GraphStays DEF Hindered, Cyclic
  <2> QED
    BY <1>1, <2>1, <2>2 DEF RecursionInv, OutcomeInv
<1> QED
  BY <1>1, <1>5, <1>6, <1>7 DEF RecursionInv

\* A call that comes back to itself closes a way without end.
LEMMA RecurringIsCyclic ==
  ASSUME RecursionInv, calls # <<>>, Recurs
  PROVE  Cyclic(Reachable(Inside, Root))
<1>1. Len(calls) \in Nat \ {0}
  BY LastCall
<1>2. PICK i \in 1..(Len(calls) - 1) : calls[i] = calls[Len(calls)]
  BY DEF Recurs, Last
<1> DEFINE C == {calls[k] : k \in i..(Len(calls) - 1)}
<1>3. C \subseteq Reachable(Inside, Root) /\ calls[i] \in C
  BY <1>1, <1>2 DEF RecursionInv, CallsInv
<1>4. ASSUME NEW v \in C
      PROVE  Inside[v] \intersect C # {}
  <2>1. PICK k \in i..(Len(calls) - 1) : v = calls[k]
    OBVIOUS
  <2>2. calls[k + 1] \in Inside[v]
    BY <1>1, <1>2, <2>1 DEF RecursionInv, CallsInv
  <2>3. calls[k + 1] \in C
    <3>1. CASE k = Len(calls) - 1
      BY <1>1, <1>2, <1>3, <3>1
    <3>2. CASE k # Len(calls) - 1
      <4>1. k + 1 \in i..(Len(calls) - 1)
        BY <1>1, <1>2, <3>2
      <4> QED
        BY <4>1
    <3> QED
      BY <3>1, <3>2
  <2> QED
    BY <2>2, <2>3
<1> HIDE DEF C
<1> QED
  BY <1>3, <1>4 DEF Cyclic

LEMMA RaiseKeeps == RecursionInv /\ Raise => RecursionInv'
<1> SUFFICES ASSUME RecursionInv, Raise
             PROVE  RecursionInv'
  OBVIOUS
<1>1. /\ calls # <<>> /\ MustRaise /\ failed' = TRUE /\ calls' = <<>>
      /\ UNCHANGED <<route, raised, graph, converted, answer>>
  BY DEF Raise
<1>2. Last(calls) \in Reachable(Inside, Root)
  BY <1>1, LastCall
<1>3. ~HasText(Last(calls)) /\ (Frozen(Last(calls)) \/ Recurs)
  BY <1>1, BranchKinds, FrozenCannotUnfold DEF MustRaise
<1>4. Hindered
  BY <1>1, <1>2, <1>3, RecurringIsCyclic DEF Hindered
<1>5. Hindered' <=> Hindered
  BY <1>1, GraphStays DEF Hindered, Cyclic
<1>6. CallsInv'
  BY <1>1 DEF CallsInv
<1>7. ConvertedInv'
  BY <1>1, GraphStays DEF RecursionInv, ConvertedInv, Cyclic
<1>8. OutcomeInv'
  BY <1>1, <1>4, <1>5 DEF RecursionInv, OutcomeInv
<1> QED
  BY <1>1, <1>6, <1>7, <1>8 DEF RecursionInv

LEMMA AnswerKeeps ==
  ASSUME RecursionInv,
         \/ AnswerResult \/ AnswerError \/ AnswerConversionError \/ AnswerInternalError
         \/ UNCHANGED vars
  PROVE  RecursionInv'
<1>1. UNCHANGED <<route, raised, graph, calls, converted, failed>>
  BY DEF AnswerResult, AnswerError, AnswerConversionError, AnswerInternalError, Answer, vars
<1>2. Hindered' <=> Hindered
  BY <1>1, GraphStays DEF Hindered, Cyclic
<1>3. CallsInv'
  BY <1>1, GraphStays DEF RecursionInv, CallsInv
<1>4. ConvertedInv'
  BY <1>1, GraphStays DEF RecursionInv, ConvertedInv, Cyclic
<1>5. OutcomeInv'
  <2>1. Renders' <=> Renders
    BY <1>1, GraphStays
  <2>2. CASE UNCHANGED answer
    BY <1>1, <1>2, <2>1, <2>2 DEF RecursionInv, OutcomeInv
  <2>3. CASE AnswerResult
    BY <1>1, <1>2, <2>1, <2>3 DEF RecursionInv, OutcomeInv, AnswerResult, Answer, Ready
  <2>4. CASE AnswerError
    BY <1>1, <1>2, <2>1, <2>4 DEF RecursionInv, OutcomeInv, AnswerError, Answer, Ready
  <2>5. CASE AnswerConversionError
    BY <1>1, <1>2, <2>1, <2>5 DEF RecursionInv, OutcomeInv, AnswerConversionError, Answer, Ready
  <2>6. CASE AnswerInternalError
    BY <1>1, <1>2, <2>1, <2>6 DEF RecursionInv, OutcomeInv, AnswerInternalError, HandlerRaises,
      Answer, Ready
  <2> QED
    BY <2>2, <2>3, <2>4, <2>5, <2>6 DEF vars
<1> QED
  BY <1>1, <1>3, <1>4, <1>5 DEF RecursionInv

LEMMA RecursionCorrect == Spec => []RecursionInv
<1>1. RecursionInv /\ [Next]_vars => RecursionInv'
  BY CallKeeps, ReturnKeeps, RaiseKeeps, AnswerKeeps DEF Next
<1> QED
  BY <1>1, RecursionInit, PTL DEF Spec

\* What Root leads to is converted once the answer has it.
LEMMA BodyIsConverted ==
  ASSUME RecursionInv, answer \in {"ok", "error"}
  PROVE  Root \in converted /\ Reachable(Inside, Root) \subseteq converted
<1>1. Root \in converted
  BY DEF RecursionInv, OutcomeInv
<1> QED
  BY <1>1, ReachableWithin DEF RecursionInv, ConvertedInv

-----------------------------------------------------------------------------
(* The answers.                                                            *)

LEMMA EntriesReachInside ==
  ASSUME graph \in Graphs
  PROVE  Reachable(Entries, Root) \subseteq Reachable(Inside, Root)
BY RootReachable, EntriesAreKept, KeptIsInside, ReachableWithin

\* Rendering raises on just the floats that are left in the conversion.
LEMMA RendersTheFinite ==
  ASSUME graph \in Graphs
  PROVE  Renders <=> ~HasNonfinite
<1>1. Reachable(Entries, Root) = Reachable(Kept, Root)
  BY EntriesAreKept
<1>2. \A v \in Reachable(Entries, Root) :
        "nonfinite" \in SerializeForJson(v).is <=> "nonfinite" \in graph[v].is
  BY EntriesReachInside, RootReachable, NonfiniteForm
<1> QED
  BY <1>1, <1>2 DEF Renders, HasNonfinite

\* No Python object gets into an answer, no object that was not converted and
\* no number that JSON lacks, whatever a method returns.
THEOREM AnswersAreJson == Spec => []AnswerIsJson
<1>1. RecursionInv => AnswerIsJson
  <2> SUFFICES ASSUME RecursionInv, answer \in {"ok", "error"}, NEW v \in Reachable(Entries, Root)
               PROVE  v \in converted /\ IsJson(SerializeForJson(v))
    BY DEF AnswerIsJson, HasBody
  <2>1. graph \in Graphs
    BY DEF RecursionInv
  <2>2. v \in converted /\ v \in Objects
    BY <2>1, EntriesReachInside, RootReachable, BodyIsConverted
  <2>3. Renders
    BY DEF RecursionInv, OutcomeInv
  <2>4. "nonfinite" \notin SerializeForJson(v).is
    BY <2>3 DEF Renders
  <2> QED
    BY <2>1, <2>2, <2>4, NonfiniteForm
<1> QED
  BY <1>1, RecursionCorrect, PTL

\* Every text arrives at its path, except below an entry that a later one of
\* the same name replaces, for objects of any depth.
THEOREM TextsArrive == Spec => []EveryTextArrives
<1>1. RecursionInv => EveryTextArrives
  <2> SUFFICES ASSUME RecursionInv, NEW v \in Reachable(Inside, Root)
               PROVE  LET j == SerializeForJson(v)
                          n == Len(graph[v].items)
                      IN IF HasText(v) THEN j.text = graph[v].text
                         ELSE /\ DOMAIN j.entries = {Name(v, i) : i \in 1..n}
                              /\ \A i \in 1..n :
                                   (\A k \in (i + 1)..n : Name(v, k) # Name(v, i)) =>
                                     j.entries[Name(v, i)] = graph[v].items[i]
    BY Zenon DEF EveryTextArrives
  <2> PICK j : j = SerializeForJson(v)
    OBVIOUS
  <2> PICK n : n = Len(graph[v].items)
    OBVIOUS
  <2>1. graph \in Graphs /\ v \in Objects
    BY RootReachable DEF RecursionInv
  <2>2. CASE HasText(v)
    BY <2>2, TextForm
  <2>3. CASE ~HasText(v)
    <3>1. OneEach(v, j.entries)
      BY <2>1, <2>3, ContainerForm
    <3>2. n \in Nat
      BY <2>1, GraphTypes
    <3>3. DOMAIN j.entries = {Name(v, i) : i \in 1..n}
      BY <3>1 DEF OneEach
    <3>4. ASSUME NEW i \in 1..n, \A k \in (i + 1)..n : Name(v, k) # Name(v, i)
          PROVE  j.entries[Name(v, i)] = graph[v].items[i]
      <4>1. PICK m \in 1..n :
              /\ Name(v, m) = Name(v, i) /\ j.entries[Name(v, i)] = graph[v].items[m]
              /\ \A k \in 1..n : Name(v, k) = Name(v, i) => k <= m
        BY <3>1, <3>3 DEF OneEach
      <4>2. m = i
        BY <3>2, <3>4, <4>1
      <4> QED
        BY <4>1, <4>2
    <3> QED
      BY <2>3, <3>3, <3>4
  <2> QED
    BY <2>2, <2>3
<1> QED
  BY <1>1, RecursionCorrect, PTL

\* A result is answered as such unless it has no conversion, or a conversion
\* with a number that JSON lacks; and the envelope of /call is lost just then,
\* or with an exception whose arguments have none.
THEOREM FitResultsAreAnswered == Spec => []OkUnlessUnfit
<1>1. RecursionInv => OkUnlessUnfit
  <2> SUFFICES ASSUME RecursionInv, answer # "none"
               PROVE  /\ answer = "ok" <=> ~raised /\ ~Hindered /\ ~HasNonfinite
                      /\ route = "call" =>
                           (answer = "http500" <=> IF Hindered THEN raised ELSE HasNonfinite)
    BY DEF OkUnlessUnfit
  <2>1. Renders <=> ~HasNonfinite
    BY RendersTheFinite DEF RecursionInv
  <2>2. ~(route = "get" /\ raised) => (failed <=> Hindered)
    <3>1. failed => Hindered
      BY DEF RecursionInv, OutcomeInv
    <3>2. ASSUME ~failed, ~(route = "get" /\ raised)
          PROVE  ~Hindered
      <4>1. Root \in converted
        BY <3>2 DEF RecursionInv, OutcomeInv
      <4>2. Reachable(Inside, Root) \subseteq converted
        BY <4>1, ReachableWithin DEF RecursionInv, ConvertedInv
      <4> QED
        BY <4>2 DEF RecursionInv, ConvertedInv, Hindered, Cyclic
    <3> QED
      BY <3>1, <3>2
  <2>3. answer = "ok" <=> ~raised /\ ~failed /\ Renders
    BY DEF RecursionInv, OutcomeInv
  <2>4. route = "call" => (answer = "http500" <=> IF failed THEN raised ELSE ~Renders)
    BY DEF RecursionInv, OutcomeInv
  <2>5. route = "call" => ~(route = "get" /\ raised)
    OBVIOUS
  <2> QED
    BY <2>1, <2>2, <2>3, <2>4, <2>5
<1> QED
  BY <1>1, RecursionCorrect, PTL
=============================================================================
