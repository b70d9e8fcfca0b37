---------------------------- MODULE MCSerialization ----------------------------
(* Small object graphs for Serialization. *)
EXTENDS Serialization

Five == 1..5
AllTexts == {"text", "other", "1", "a", ""}

Leaf(is) == [is |-> is, text |-> "text", keys |-> <<>>, items |-> <<>>]
Number == Leaf({"json"})
Class == Leaf({"type", "__dict__"})
Hash == [Leaf({"bytes", "__dict__"}) EXCEPT !.text = "other"]
Leaves ==
  {Leaf(is) : is \in {
     {"json"},                          \* a number, a text
     {"json", "nonfinite"},             \* NaN
     {"json", "__dict__"},              \* an Enum of texts
     {"type", "__dict__"},              \* a class, as describe() has
     {"type", "dataclass", "__dict__"}, \* a dataclass's class
     {"type", "model_dump", "__dict__"},
     {"decimal"},
     {"date", "__dict__"},              \* a pandas Timestamp
     {"bytes", "__dict__"},             \* HexBytes
     {"__dict__"},                      \* an exception, its message not an attribute
     {"uncopyable"},                    \* a lock
     {}}}                               \* an object with slots

Containers ==
  {{"dict"}, {"__dict__"}, {"dataclass", "__dict__"}, {"model_dump", "__dict__"}}
KeyPairs == {<<<<"other", "1">>, <<"str", "1">>>>, <<<<"str", "1">>, <<"str", "a">>>>}

\* Containers of the first item, or of both.
Over(first, second) ==
  {[is |-> {"sequence"}, text |-> "", keys |-> <<>>, items |-> <<first, second>>]}
    \union
  {[is |-> is, text |-> "", keys |-> SubSeq(keys, 1, n), items |-> SubSeq(<<first, second>>, 1, n)] :
     is \in Containers, keys \in KeyPairs, n \in 1..2}

Single == {<<leaf, Number, Number, Number, Number>> : leaf \in Leaves}
Nested ==
  {<<outer, inner, Hash, leaf, other>> :
     outer \in Over(2, 3), inner \in Over(4, 5), leaf \in Leaves, other \in {Number, Class}}
\* An item that is shared, and objects that contain themselves.
Tangled ==
  {<<outer, inner, Hash, Number, Number>> :
     outer \in Over(2, 3), inner \in UNION {Over(v, 3) : v \in 1..3}}
AllGraphs == Single \union Nested \union Tangled
=============================================================================
