----------------------------- MODULE Conversions -----------------------------
(***************************************************************************)
(* The program's conversions on every small input: the patterns of         *)
(* LogFormatter grow character by character, lists of its items item by    *)
(* item, the values and documents of LexicalCast element by element.       *)
(***************************************************************************)
EXTENDS LogFormatter, LexicalCast

CONSTANTS
  Char,        \* characters of patterns
  Piece,       \* items of patterns
  Word,        \* strings in values
  Types,       \* container types of values
  Key,         \* keys of maps
  Member,      \* nodes that members of a document may be
  MaxPattern,  \* bound: characters of a pattern
  MaxPieces,   \* bound: items of a pattern
  MaxElements  \* bound: elements of a value, members of a document

ASSUME ConversionsAssumption ==
  /\ Digits \subseteq Word /\ BadKey \subseteq Key
  /\ MaxPattern \in Nat /\ MaxPieces \in Nat /\ MaxElements \in Nat

VARIABLE input   \* a pattern, a list of items, a typed value or a document

Empty(T) == CASE T.c = "vector" -> <<>>
              [] T.c = "set" -> {}
              [] T.c = "map" -> [k \in {} |-> NullNode]

Init ==
  \/ input = [kind |-> "pattern", p |-> <<>>]
  \/ input = [kind |-> "items", is |-> <<>>]
  \/ input = [kind |-> "document", root |-> MapNode(<<>>)]
  \/ \E T \in Types : input = [kind |-> "value", T |-> T, v |-> Empty(T)]

Is(kind) == input.kind = kind

GrowPattern ==
  /\ Is("pattern") /\ Len(input.p) < MaxPattern
  /\ \E ch \in Char : input' = [input EXCEPT !.p = Append(@, ch)]

GrowItems ==
  /\ Is("items") /\ Len(input.is) < MaxPieces
  /\ \E piece \in Piece : input' = [input EXCEPT !.is = Append(@, piece)]

GrowDocument ==
  /\ Is("document") /\ Len(input.root.pairs) < MaxElements
  /\ \E k \in Key, m \in Member : input' = [input EXCEPT !.root.pairs = Append(@, <<k, m>>)]

Scalars == {ScalarText(w) : w \in Word}
ElementsOf(T) ==
  CASE T.c = "int" -> {ScalarText(d) : d \in Digits}
    [] T.c = "string" -> Scalars
    [] T.c = "vector" -> {<<>>} \cup {<<w>> : w \in Scalars} \cup (Scalars \X Scalars)
    [] T.c = "set" -> SUBSET Scalars
    [] T.c = "map" -> UNION {[ks -> Scalars] : ks \in SUBSET (Key \ BadKey)}

Size(T, v) == IF T.c = "set" THEN Cardinality(v) ELSE Cardinality(DOMAIN v)

GrowValue ==
  /\ Is("value") /\ Size(input.T, input.v) < MaxElements
  /\ \E e \in ElementsOf(input.T.of), n \in Key :
       input' = [input EXCEPT !.v =
         CASE input.T.c = "vector" -> Append(@, e)
           [] input.T.c = "set" -> @ \cup {e}
           [] input.T.c = "map" -> (n :> e) @@ @]

Next == GrowPattern \/ GrowItems \/ GrowDocument \/ GrowValue
Spec == Init /\ [][Next]_input

-----------------------------------------------------------------------------
(* Properties                                                              *)


(* README.md:62-72, the codes: a pattern written piece by piece is parsed  *)
(* into these pieces, without an error, and puts them out in this order.   *)
(* log.cpp:341-346, 391-393: one without braces is refused exactly when    *)
(* some '%' is not followed by one letter that is a code, which            *)
(* Logger::setFormatter() relies on.  "%%" is left out of both: on it      *)
(* README.md:73 and the code differ.                                       *)
PatternsParse ==
  /\ Is("items") /\ Canonical(input.is) =>
       LET p == WrittenAll(input.is) IN
         /\ ~IsError(p) /\ Items(p) = input.is
         /\ Format(p) = FlattenSeq([i \in DOMAIN input.is |->
              LET a == input.is[i] IN
                IF a.type = 0 THEN a.str ELSE <<FormatItems[a.str[1]]>>])
  /\ Is("pattern") =>
       LET p == input.p
           letters(i) == {j \in (i + 1)..Len(p) : \A k \in (i + 1)..j : p[k] \in Letter}
           good(i) == letters(i) = {i + 1} /\ p[i + 1] \in DOMAIN FormatItems
       IN "{" \notin ToSet(p) /\ (\A i \in 2..Len(p) : <<p[i - 1], p[i]>> # <<"%", "%">>)
          => (IsError(p) <=> \E i \in DOMAIN p : p[i] = "%" /\ ~good(i))

(* config.h:63-309: what toString() writes, fromString() reads back as the *)
(* same value, but for empty strings in a container, which come back as    *)
(* "~".                                                                    *)
Strings(T, v) ==
  LET inner == CASE T.c = "vector" -> ToSet(v)
                 [] T.c = "set" -> v
                 [] T.c = "map" -> {v[k] : k \in DOMAIN v}
  IN CASE T.of.c \in {"int", "string"} -> inner
       [] T.of.c = "vector" -> UNION {ToSet(e) : e \in inner}
       [] T.of.c = "set" -> UNION inner
       [] T.of.c = "map" -> UNION {{e[k] : k \in DOMAIN e} : e \in inner}
RoundTrips ==
  Is("value") =>
    LET back == FromStr(input.T, ToStr(input.T, input.v)) IN
      back.ok /\ (back.val = input.v <=> ScalarText("") \notin Strings(input.T, input.v))

(* config.h:237-290 with config.cpp:53-60: a member that is a map loads    *)
(* into a map of int exactly when every value is one, none of them is left *)
(* out, and of two equal keys the first counts.                            *)
MapsLoadWhole ==
  Is("document") =>
    LET r == FromStr(Container("map", IntType), MemberText(input.root))
        pairs == input.root.pairs
        good(i) == pairs[i][2].kind = "scalar" /\ pairs[i][2].s \in Digits
    IN /\ r.ok <=> \A i \in DOMAIN pairs : good(i)
       /\ r.ok => \A i \in DOMAIN pairs :
            (\A j \in 1..(i - 1) : pairs[j][1] # pairs[i][1])
              => pairs[i][1] \in DOMAIN r.val /\ r.val[pairs[i][1]].s = pairs[i][2].s

(* config.cpp:20-63: every member of a document whose name, and those      *)
(* above it, have no bad character is set once, its own text first and     *)
(* then its members', in the order of the document.                        *)
RECURSIVE NodeAt(_, _)
NodeAt(node, path) ==   \* the keys down to, and the node at, a path of indices
  IF path = <<>> THEN [keys |-> <<>>, node |-> node]
  ELSE LET pair == Pairs(node)[Head(path)]
           below == NodeAt(pair[2], Tail(path))
       IN [keys |-> <<pair[1]>> \o below.keys, node |-> below.node]
PathsOf(root) ==
  LET one == {<<i>> : i \in DOMAIN root.pairs}
      two == {<<i, j>> : i \in DOMAIN root.pairs, j \in 1..MaxElements}
  IN {q \in one \cup two :
        /\ Len(q) = 2 => q[2] \in DOMAIN Pairs(root.pairs[q[1]][2])
        /\ ToSet(NodeAt(root, q).keys) \cap BadKey = {}}
Before(q, r) ==
  \/ q[1] < r[1]
  \/ q[1] = r[1] /\ Len(r) = 2 /\ (Len(q) = 1 \/ q[2] < r[2])
MembersListed ==
  Is("document") =>
    LET paths == PathsOf(input.root)
        list == LoadFromYaml(input.root)
        at(q) == NodeAt(input.root, q)
    IN /\ Len(list) = Cardinality(paths)
       /\ \A q \in paths :
            list[1 + Cardinality({r \in paths : Before(r, q)})] =
              [key |-> at(q).keys, text |-> MemberText(at(q).node)]
=============================================================================
