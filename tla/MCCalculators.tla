--------------------------- MODULE MCCalculators ---------------------------
(***************************************************************************)
(* Instances of Calculators for TLC: the ways an application uses them.    *)
(***************************************************************************)
EXTENDS Calculators, TLC

Through(kinds) == [direct |-> {}, asked |-> kinds]

\* A member asked itself and below a contribution; a base calculator; a
\* field-aware calculator; an ensemble whose members are not asked themselves.
UsesApart ==
  {[direct |-> {1}, asked |-> {"contribution"}],
   Through({"base"}), Through({"aware"}), Through({"ensemble"})}

\* A member with dispersion asked itself.
UsesDispersed == {[direct |-> {2}, asked |-> {}]}

\* No definition tells structures, or settings, from one another.
Alike == Permutations(Structures) \cup Permutations(Params)

\* Members and their ensemble, and a base calculator and the sum over it.
UsesMembers == {[direct |-> {1, 2}, asked |-> {"ensemble"}]}
UsesBase == {Through({"base", "aware"})}
=============================================================================
