----------------------------- MODULE LexicalCast -----------------------------
(***************************************************************************)
(* The conversions of config.h between values and YAML text, and the       *)
(* flattening of a document in config.cpp.                                 *)
(*                                                                         *)
(* yaml-cpp is external: a text is either the word of a scalar or the      *)
(* emitted form of a sequence or map node, and loading that gives the node *)
(* back.  The types are int, string and containers of one of the types; a  *)
(* list is converted like a vector, the unordered containers like the      *)
(* ordered ones.                                                           *)
(***************************************************************************)
EXTENDS Naturals, SequencesExt

CONSTANTS
  Digits,     \* strings that boost::lexical_cast<int> accepts
  BadKey      \* keys with a character that names may not have

NullNode == [kind |-> "null"]
ScalarNode(s) == [kind |-> "scalar", s |-> s]
SeqNode(items) == [kind |-> "seq", items |-> items]
MapNode(pairs) == [kind |-> "map", pairs |-> pairs]
ScalarText(s) == [kind |-> "text", s |-> s]

(* YAML::Load() and operator<<: nothing and "~" are the null node.         *)
YamlLoad(text) ==
  IF text.kind # "text" THEN text
  ELSE IF text.s \in {"", "~"} THEN NullNode ELSE ScalarNode(text.s)
Emit(node) ==
  CASE node.kind = "null" -> ScalarText("~")
    [] node.kind = "scalar" -> ScalarText(node.s)
    [] node.kind \in {"seq", "map"} -> node

(* Mutant of Elements: the loop ends one short.                            *)
ElementsButLast(node) ==
  IF node.kind = "seq" THEN SubSeq(node.items, 1, Len(node.items) - 1) ELSE <<>>

(* What a container conversion loops over: nothing, for a scalar.          *)
Elements(node) == IF node.kind = "seq" THEN node.items ELSE <<>>
Pairs(node) == IF node.kind = "map" THEN node.pairs ELSE <<>>

-----------------------------------------------------------------------------
IntType == [c |-> "int"]
StringType == [c |-> "string"]
Container(c, T) == [c |-> c, of |-> T]
Converted(v) == [ok |-> TRUE, val |-> v]
Failed == [ok |-> FALSE]      \* an exception leaves the conversion

(* Mutant of MapOf: a later pair with the same key replaces the first.     *)
MapOfLast(ks, vs) ==
  [k \in ToSet(ks) |-> vs[Max({i \in DOMAIN ks : ks[i] = k})]]

(* map::insert() keeps the pair that is there.                             *)
MapOf(ks, vs) ==
  [k \in ToSet(ks) |-> vs[Min({i \in DOMAIN ks : ks[i] = k})]]

(* LexicalCast<std::string, T>: an element that does not convert ends the  *)
(* whole conversion; a sequence has no keys to read for a map.  A map's    *)
(* text given to a vector or set is not considered.                        *)
RECURSIVE FromStr(_, _)
FromStr(T, text) ==
  IF T = StringType THEN Converted(text)
  ELSE IF T = IntType
  THEN IF text.kind = "text" /\ text.s \in Digits THEN Converted(text) ELSE Failed
  ELSE LET node == YamlLoad(text)
           es == IF T.c = "map" THEN [i \in DOMAIN Pairs(node) |-> Pairs(node)[i][2]]
                 ELSE Elements(node)
           rs == [i \in DOMAIN es |-> FromStr(T.of, Emit(es[i]))]
           vs == [i \in DOMAIN es |-> rs[i].val]
       IN IF \/ \E i \in DOMAIN rs : ~rs[i].ok
             \/ T.c = "map" /\ Elements(node) # <<>>
          THEN Failed
          ELSE Converted(
            CASE T.c = "vector" -> vs
              [] T.c = "set" -> ToSet(vs)
              [] T.c = "map" -> MapOf([i \in DOMAIN es |-> Pairs(node)[i][1]], vs))

(* LexicalCast<T, std::string>: the elements are converted to text, loaded *)
(* as nodes and put together; a container without elements stays null.     *)
IsEmpty(T, v) == IF T.c = "set" THEN v = {} ELSE DOMAIN v = {}
RECURSIVE ToStr(_, _)
ToStr(T, v) ==
  IF T \in {IntType, StringType} THEN v
  ELSE LET node(e) == YamlLoad(ToStr(T.of, e))
           keys == SetToSeq(DOMAIN v)
           es == IF T.c = "set" THEN SetToSeq(v) ELSE v
       IN IF IsEmpty(T, v) THEN Emit(NullNode)
          ELSE IF T.c = "map"
          THEN MapNode([i \in DOMAIN keys |-> <<keys[i], node(v[keys[i]])>>])
          ELSE SeqNode([i \in DOMAIN es |-> node(es[i])])

-----------------------------------------------------------------------------
(* Mutant of ListAllMember: a node is listed behind its members.           *)
RECURSIVE ListAllMemberLate(_, _)
ListAllMemberLate(prefix, node) ==
  IF ToSet(prefix) \cap BadKey # {} THEN <<>>
  ELSE FlattenSeq([i \in DOMAIN Pairs(node) |->
         ListAllMemberLate(Append(prefix, Pairs(node)[i][1]), Pairs(node)[i][2])])
       \o <<<<prefix, node>>>>

(* ListAllMember(): the node itself, unless its name has a bad character,  *)
(* and then its members, each with everything below it.                    *)
RECURSIVE ListAllMember(_, _)
ListAllMember(prefix, node) ==
  IF ToSet(prefix) \cap BadKey # {} THEN <<>>
  ELSE <<<<prefix, node>>>> \o
       FlattenSeq([i \in DOMAIN Pairs(node) |->
                    ListAllMember(Append(prefix, Pairs(node)[i][1]), Pairs(node)[i][2])])

(* LoadFromYaml(): the text each named member is set from.                 *)
MemberText(node) == IF node.kind = "scalar" THEN ScalarText(node.s) ELSE Emit(node)
LoadFromYaml(root) ==
  LET named == SelectSeq(ListAllMember(<<>>, root), LAMBDA e : e[1] # <<>>)
  IN [i \in DOMAIN named |-> [key |-> named[i][1], text |-> MemberText(named[i][2])]]
=============================================================================
