--------------------------- MODULE MCReferences ---------------------------
(* Two spellings of one name, and a much longer name that begins with it. *)
EXTENDS References, TLC

CONSTANTS v1, v2, w1, w2

SpeltTwice == [plain |-> "k1", dotted |-> "k1", longer |-> "k2"]
FirstForty == [k1 |-> "q", k2 |-> "q"]
Spellings == DOMAIN SpeltTwice
Alike == {<<"plain", "plain">>, <<"dotted", "dotted">>, <<"longer", "longer">>,
          <<"plain", "dotted">>, <<"dotted", "plain">>}
Symmetry == Permutations({w1, w2}) \cup Permutations({v1, v2})
=============================================================================
