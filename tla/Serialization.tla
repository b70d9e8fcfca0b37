----------------------------- MODULE Serialization -----------------------------
(***************************************************************************)
(* From Python objects to JSON values: serialization.py, and the three     *)
(* routes that answer with what it makes of a result or an exception.      *)
(*                                                                         *)
(* An object is known by the checks of serialize_for_json that it passes,  *)
(* often several: HexBytes is bytes and has a __dict__, a dataclass's      *)
(* class is a type and is_dataclass.  Besides those it has a text, and     *)
(* items under keys; a key is its type and its str().  "uncopyable" marks  *)
(* what deepcopy raises on, "nonfinite" the floats NaN, inf and -inf,      *)
(* which pass the first check and have no JSON.  Items are objects again,  *)
(* which may be shared and refer back.  The recursion is a stack of calls; *)
(* what a call returns is one level of a JSON value, whose entries are     *)
(* known by the objects that they were made from.  The response is         *)
(* rendered from that value when the handler has returned.                 *)
(***************************************************************************)
EXTENDS Integers, SequencesExt

CONSTANTS
  Objects,   \* the objects that a result or an exception consists of
  Root,      \* the result, or what the exception has as arguments
  Texts,     \* the texts of objects and the str() of keys
  Graphs     \* what an exchange method or a diagnostic may return or raise

\* "json" is None, bool, int, float and str.
TextKinds == {"json", "type", "decimal", "date", "bytes"}
ContainerKinds == {"dataclass", "model_dump", "dict", "sequence", "__dict__"}
Marks == {"uncopyable", "nonfinite"}

Keys == {"str", "other"} \X Texts
ObjectType ==
  [is    : SUBSET (TextKinds \union ContainerKinds \union Marks),
   text  : Texts,
   keys  : Seq(Keys),
   items : Seq(Objects)]

\* The items of lists, tuples and sets have no keys, all others have; what is
\* not finite is a float.
ASSUME GraphsAssumption ==
  /\ Root \in Objects
  /\ Graphs \subseteq [Objects -> ObjectType]
  /\ \A g \in Graphs, v \in Objects :
       /\ "nonfinite" \in g[v].is => "json" \in g[v].is
       /\ IF "sequence" \in g[v].is
            THEN g[v].is \intersect ContainerKinds = {"sequence"}
            ELSE Len(g[v].keys) = Len(g[v].items)

VARIABLES
  route,     \* "call", or "get" for /ping and /describe
  raised,    \* Root is what an exception has as arguments, not a result
  graph,     \* graph[v]: what the object v is
  calls,     \* the calls of serialize_for_json under way, innermost last
  converted, \* the objects for which a call has returned
  failed,    \* a call has raised
  answer     \* the kind of answer, or "none"

vars == <<route, raised, graph, calls, converted, failed, answer>>

\* Mutant: classes are recognised after dataclasses and models.
Checks_LateType ==
  <<"json", "decimal", "date", "bytes", "dataclass", "model_dump", "type",
    "dict", "sequence", "__dict__">>

\* Mutant: attributes are looked for before bytes.
Checks_EarlyAttributes ==
  <<"json", "type", "decimal", "date", "__dict__", "bytes", "dataclass",
    "model_dump", "dict", "sequence">>

\* The checks in their order.
Checks ==
  <<"json", "type", "decimal", "date", "bytes", "dataclass", "model_dump",
    "dict", "sequence", "__dict__">>

\* The branch taken for an object.
Branch(v) ==
  LET passed == {i \in DOMAIN Checks : Checks[i] \in graph[v].is}
  IN IF passed = {} THEN "other" ELSE Checks[Min(passed)]

\* str() and the like
Conversion ==
  [type |-> "__name__", decimal |-> "str", date |-> "isoformat",
   bytes |-> "hex", other |-> "str"]

\* Mutant: keys keep their types.
StrKey_Raw(key) == key

StrKey(key) == <<"str", key[2]>>

\* Of entries whose keys have the same str() the last is left.
Collapsed(keys, items) ==
  [name \in {StrKey(keys[i]) : i \in DOMAIN keys} |->
     items[Max({i \in DOMAIN keys : StrKey(keys[i]) = name})]]

\* What is returned for v.
SerializeForJson(v) ==
  LET branch == Branch(v)
  IN CASE branch = "json" ->
            [is |-> graph[v].is, by |-> "none", text |-> graph[v].text, entries |-> <<>>]
       [] branch \in DOMAIN Conversion ->
            [is |-> {"json"}, by |-> Conversion[branch], text |-> graph[v].text, entries |-> <<>>]
       [] branch = "sequence" ->
            [is |-> {"sequence"}, by |-> "none", text |-> "none", entries |-> graph[v].items]
       [] OTHER ->
            [is |-> {"dict"}, by |-> "none", text |-> "none",
             entries |-> Collapsed(graph[v].keys, graph[v].items)]

-----------------------------------------------------------------------------
Unfolds(v) == Branch(v) \notin DOMAIN Conversion \union {"json"}

Items == [v \in Objects |-> {graph[v].items[i] : i \in DOMAIN graph[v].items}]

\* The objects that the edges lead to from v.
Reachable(edges, v) ==
  LET closed == {C \in SUBSET Objects : v \in C /\ (\A u \in C : edges[u] \subseteq C)}
  IN {w \in Objects : \A C \in closed : w \in C}

Holds(v, mark) == \E w \in Reachable(Items, v) : mark \in graph[w].is

\* asdict copies all that it finds; asdict and model_dump cannot be called on
\* a class.
CannotUnfold(v) ==
  /\ Branch(v) \in {"dataclass", "model_dump"}
  /\ \/ "type" \in graph[v].is
     \/ Branch(v) = "dataclass" /\ Holds(v, "uncopyable")

\* The same object again, inside itself: the recursion has no end.
Recurs == \E i \in 1..(Len(calls) - 1) : calls[i] = Last(calls)

\* serialize_for_json raises, RecursionError if there is no end.
MustRaise == Unfolds(Last(calls)) /\ (CannotUnfold(Last(calls)) \/ Recurs)

Init ==
  /\ route \in {"call", "get"} /\ raised \in BOOLEAN /\ graph \in Graphs
  /\ calls = IF route = "get" /\ raised THEN <<>> ELSE <<Root>>
  /\ converted = {} /\ failed = FALSE
  /\ answer = "none"

\* Items are converted one after the other; a second conversion of the same
\* object goes like the first.
Call ==
  /\ calls # <<>> /\ Unfolds(Last(calls)) /\ ~MustRaise
  /\ LET items == graph[Last(calls)].items
     IN \E i \in DOMAIN items :
          /\ items[i] \notin converted /\ \A j \in 1..(i - 1) : items[j] \in converted
          /\ calls' = Append(calls, items[i])
  /\ UNCHANGED <<route, raised, graph, converted, failed, answer>>

Return ==
  /\ calls # <<>> /\ ~MustRaise
  /\ Unfolds(Last(calls)) => Items[Last(calls)] \subseteq converted
  /\ converted' = converted \union {Last(calls)}
  /\ calls' = Front(calls)
  /\ UNCHANGED <<route, raised, graph, failed, answer>>

Raise ==
  /\ calls # <<>> /\ MustRaise
  /\ failed' = TRUE /\ calls' = <<>>
  /\ UNCHANGED <<route, raised, graph, converted, answer>>

\* The objects whose conversions are in the conversion of v.
Entries ==
  [v \in Objects |->
     LET entries == SerializeForJson(v).entries
     IN {entries[key] : key \in DOMAIN entries}]

\* The response's class encodes with allow_nan=False: it raises on a float that
\* is not finite, anywhere in the body.
Renders ==
  \A v \in Reachable(Entries, Root) : "nonfinite" \notin SerializeForJson(v).is

Ready == answer = "none" /\ calls = <<>>

Answer(kind) ==
  answer' = kind /\ UNCHANGED <<route, raised, graph, calls, converted, failed>>

\* The result is put into the answer.
AnswerResult == Ready /\ ~raised /\ ~failed /\ Renders /\ Answer("ok")

\* serialize_exception, of the method's exception with its arguments ...
AnswerError ==
  Ready /\ route = "call" /\ raised /\ ~failed /\ Renders /\ Answer("error")

\* ... or of the one that the conversion of the result raised, whose argument
\* is a text.
AnswerConversionError ==
  Ready /\ route = "call" /\ ~raised /\ failed /\ Answer("conversionError")

\* /ping and /describe catch nothing, and /call nothing inside its handler ...
HandlerRaises == IF route = "call" THEN raised /\ failed ELSE raised \/ failed

\* ... and none of them what rendering raises, after they have returned.
AnswerInternalError ==
  Ready /\ (HandlerRaises \/ (~failed /\ ~Renders)) /\ Answer("http500")

Next ==
  \/ Call \/ Return \/ Raise
  \/ AnswerResult \/ AnswerError \/ AnswerConversionError \/ AnswerInternalError

Spec == Init /\ [][Next]_vars

-----------------------------------------------------------------------------
\* The answer has the converted object in it.
HasBody == answer \in {"ok", "error"}

\* Nothing but JSON on one level: a text or a finite number, a list, an object
\* with textual keys.
IsJson(j) ==
  \/ "json" \in j.is /\ "nonfinite" \notin j.is
  \/ j.is = {"sequence"}
  \/ j.is = {"dict"} /\ \A key \in DOMAIN j.entries : key[1] = "str"

\* Whatever classes, models and mappings an exchange method returns, nested and
\* shared as they are, no Python object leaks into an answer, none that was not
\* converted and no number that JSON lacks (serialization.py:14-35,
\* ping.py:30-31).
AnswerIsJson ==
  HasBody => \A v \in Reachable(Entries, Root) :
               v \in converted /\ IsJson(SerializeForJson(v))

\* An object that has a text is known by it, whatever it has besides.
HasText(v) ==
  \/ graph[v].is \intersect TextKinds # {}
  \/ graph[v].is \intersect ContainerKinds = {}

Inside == [v \in Objects |-> IF HasText(v) THEN {} ELSE Items[v]]

\* The name of the item i of v in JSON.
Name(v, i) == IF "sequence" \in graph[v].is THEN i ELSE <<"str", graph[v].keys[i][2]>>

\* Every text of a result or of an exception's arguments is in the answer, at
\* the path it had: a hash that also has attributes is not answered as an
\* empty object, and an entry is lost only to a later one whose key has the
\* same str() (serialization.py:23-34).
EveryTextArrives ==
  HasBody => \A v \in Reachable(Inside, Root) :
    LET j == SerializeForJson(v)
        n == Len(graph[v].items)
    IN IF HasText(v) THEN j.text = graph[v].text
       ELSE /\ DOMAIN j.entries = {Name(v, i) : i \in 1..n}
            /\ \A i \in 1..n :
                 (\A k \in (i + 1)..n : Name(v, k) # Name(v, i)) =>
                   j.entries[Name(v, i)] = graph[v].items[i]

Frozen(v) == "dataclass" \in graph[v].is /\ "type" \notin graph[v].is /\ Holds(v, "uncopyable")

Cyclic(S) == \E C \in SUBSET S : C # {} /\ \A v \in C : Inside[v] \intersect C # {}

\* What has no conversion: a dataclass that holds something deepcopy raises on,
\* and what contains itself.
Hindered ==
  \/ \E v \in Reachable(Inside, Root) : ~HasText(v) /\ Frozen(v)
  \/ Cyclic(Reachable(Inside, Root))

\* Inside, less the items that a later one of the same name replaces.
Kept ==
  [v \in Objects |->
     IF HasText(v) THEN {}
     ELSE LET n == Len(graph[v].items)
          IN {graph[v].items[i] :
                i \in {k \in 1..n : \A l \in (k + 1)..n : Name(v, l) # Name(v, k)}}]

\* What has a conversion without JSON for it.
HasNonfinite == \E v \in Reachable(Kept, Root) : "nonfinite" \in graph[v].is

\* A result that the method returned is answered as such unless one of the two
\* is the case; nothing else stops it, in particular not the exception classes
\* that describe() holds.  /call then reports an error that serialises, except
\* when the body that it has put together cannot be rendered or the exception's
\* own arguments cannot be converted: those leave its envelope for a bare
\* HTTP 500, also after the method has run (serialization.py:14-47,
\* call.py:46-74).
OkUnlessUnfit ==
  answer # "none" =>
    /\ answer = "ok" <=> ~raised /\ ~Hindered /\ ~HasNonfinite
    /\ route = "call" =>
         (answer = "http500" <=> IF Hindered THEN raised ELSE HasNonfinite)
=============================================================================
