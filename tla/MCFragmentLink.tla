--------------------------- MODULE MCFragmentLink ---------------------------
(* Two instructions, one longer than the other, a third that inflates past  *)
(* the limit, and every stray of a sender that mislabels an index or the    *)
(* final bit under an id of its own.                                        *)
EXTENDS FragmentLink

CONSTANTS a, b, c

Lengths == a :> 3 @@ b :> 4 @@ c :> 2
InflatedLengths == a :> 4 @@ b :> 5 @@ c :> 6

ForeignFragments ==
  [id : {MaxId + 1}, fragment_num : 0 .. 3, final : BOOLEAN,
   contents : {<< << a, 1 >> >>, << << b, 2 >> >>}]
=============================================================================
