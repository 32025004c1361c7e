------------------------------- MODULE MCSearchUI -------------------------------
(* Two texts, one a prefix of the other, whose lists differ in length and, *)
(* with the mode, in order; and one that nothing matches, whose list opens *)
(* with no item.                                                           *)
EXTENDS SearchUI

MCAnswer ==
  [mode \in BOOLEAN |->
     [text \in Texts |-> IF text = "b" THEN <<>>
                         ELSE IF text = "ab" THEN <<"ab">>
                         ELSE IF mode THEN <<"ab", "a">> ELSE <<"a", "ab">>]]
================================================================================
