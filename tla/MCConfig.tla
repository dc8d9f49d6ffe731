------------------------------- MODULE MCConfig -------------------------------
(* Instances of Config for TLC.                                            *)
EXTENDS Config, TLC

CONSTANTS n1, n2, bad, a, b

Entry(n, w) == [n |-> n, w |-> w]
Documents == {<<Entry(n1, b), Entry(n2, a)>>,
              <<Entry(bad, b), Entry(n1, BadVal), Entry(n1, a)>>,
              <<Entry(n2, b)>>}

=============================================================================
