---------------------------- MODULE MCConversions ----------------------------
(* Small inputs for Conversions.                                           *)
EXTENDS Conversions

Chars == {"%", "{", "}", "m", "q", " "}
Pieces == {Text(<<" ">>), Text(<<"m", "}">>), Text(<<"{", " ">>), Item(<<"m">>, <<>>),
           Item(<<"d">>, <<>>), Item(<<"d">>, <<"%", " ">>), Item(<<"N">>, <<"{">>)}

SmallTypes == {Container("vector", StringType), Container("set", IntType),
               Container("map", StringType),
               Container("vector", Container("set", StringType)),
               Container("map", Container("vector", StringType)),
               Container("set", Container("map", StringType))}

Leaf == {ScalarNode("1"), ScalarNode("2"), ScalarNode("x"), NullNode, SeqNode(<<ScalarNode("1")>>)}
Nodes == Leaf \cup {MapNode(ps) : ps \in {<<>>} \cup
  {<<<<k, m>>>> : k \in Key, m \in Leaf} \cup
  {<<<<k, ScalarNode("1")>>, <<l, NullNode>>>> : k \in Key, l \in Key}}

=============================================================================
