---------------------------- MODULE MCBankClient ----------------------------
(* Two users, one PESEL, the two incomes next to the premium limit.        *)
EXTENDS BankClient

MCIncomes == {PREMIUM_MIN_LIMIT - 1, PREMIUM_MIN_LIMIT}
=============================================================================
