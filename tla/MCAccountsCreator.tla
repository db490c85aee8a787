-------------------------- MODULE MCAccountsCreator --------------------------
(***************************************************************************)
(* Instances of AccountsCreator for TLC: one PESEL and the empty one, the  *)
(* two incomes next to the premium limit.                                  *)
(***************************************************************************)
EXTENDS AccountsCreator, TLC

MCIncomes == {PREMIUM_MIN_LIMIT - 1, PREMIUM_MIN_LIMIT}

\* Sound where no liveness property is checked: calls and keys are not told apart.
Symmetry == Permutations(Calls) \cup Permutations(Keys)
=============================================================================
