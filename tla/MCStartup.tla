-------------------------------- MODULE MCStartup --------------------------------
(* Queries: one that is a prefix of others, two that branch below it and   *)
(* one in a subtree of its own, so that lists of two overflow at the root, *)
(* at <<"a">> and not elsewhere.  Datasets: three of the queries in every  *)
(* combination of counts, ties included, one query to come with a search;  *)
(* and a file that has a query twice.  A row cut within its query may read *)
(* as the query that is a prefix of it.                                    *)
EXTENDS Startup

a == <<"a">>
ab == <<"a", "b">>
ac == <<"a", "c">>
b == <<"b">>

MCQueries == {a, ab, ac, b}
Row(q, n) == [query |-> q, count |-> n]
MCDatasets ==
  {<<Row(ab, i), Row(ac, j), Row(b, k)>> : i, j, k \in 0..2}
    \cup {<<Row(a, 1), Row(ab, 2), Row(a, 2)>>}
MCDataset == {<<Row(ab, 1), Row(ac, 2), Row(b, 1)>>}
================================================================================
