---------------------------- MODULE MCSuggestionTrie ----------------------------
(* Queries for the runs of SuggestionTrie: one that is a prefix of others, *)
(* two that branch below it and one in a subtree of its own, so that lists *)
(* overflow at the root, at <<"a">> and not elsewhere.                     *)
EXTENDS SuggestionTrie

MCQueries == {<<"a">>, <<"a", "b">>, <<"a", "c">>, <<"b">>}
================================================================================
