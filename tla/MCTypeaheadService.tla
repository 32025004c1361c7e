--------------------------- MODULE MCTypeaheadService ---------------------------
(* A query that is a prefix of another one, which the dataset does not     *)
(* have: searches for the longer one create its row and its trie node and  *)
(* take it past the shorter one in the list of <<"a">>.                    *)
EXTENDS TypeaheadService

a == <<"a">>
ab == <<"a", "b">>

MCQueries == {a, ab}
MCDataset == [q \in {a} |-> 1]
MCCountScore == [c \in 0..3 |-> c]

AskNothing == {}
AskPopularity == {"popularity"} \X {a, ab}
AskBoth == {<<"popularity", ab>>, <<"recency", a>>}
AskRecency == {<<"recency", a>>}

Symmetry == Permutations(Senders)
================================================================================
