------------------------------ MODULE BankTypes ------------------------------
(***************************************************************************)
(* The data of src/slice/bank.ice as the account factory and the servants  *)
(* use it.  A name is left out (nothing reads it), a balance and a key are *)
(* opaque values, and an income keeps only what decides the category.      *)
(***************************************************************************)
EXTENDS Integers

CONSTANTS
    Pesels,       \* the PESEL strings clients send
    EmptyPesel,   \* the empty string, which no Ice identity may have as its name
    Incomes,      \* declared incomes
    Keys,         \* results of the random draw of an account's key (1000 .. 2000)
    Balances,     \* results of the random draw of the initial balance
    None          \* Java's null

PREMIUM_MIN_LIMIT == 1000

isPremium(declaredIncome) == declaredIncome >= PREMIUM_MIN_LIMIT

\* Mutant of Category: the limit itself is not premium.
CategoryAboveLimit(declaredIncome) ==
    IF declaredIncome > PREMIUM_MIN_LIMIT THEN "premium" ELSE "standard"

Category(declaredIncome) == IF isPremium(declaredIncome) THEN "premium" ELSE "standard"

\* Ice::Identity as createAccount builds it: the name is the PESEL.
Identities == [name : Pesels, category : {"premium", "standard"}]

AccountServants == [class : {"Account", "PremiumAccount"}, key : Keys, balance : Balances]

CreatedAccounts == [account : Identities, key : Keys, isPremium : BOOLEAN]

\* What a null CreatedAccount is on the wire: null proxy, empty key, false.
NullMarshalValue == [account |-> None, key |-> "", isPremium |-> FALSE]

\* Mutant of Marshal: null is not replaced.
MarshalAsIs(createdAccount) == createdAccount

Marshal(createdAccount) == IF createdAccount = None THEN NullMarshalValue ELSE createdAccount

CreateRequests == [op : {"createAccount"}, PESEL : Pesels, income : Incomes]
LookupRequests == [op : {"getAccount"}, PESEL : Pesels]
AccountRequests == [op : {"getAccountStatus", "isPremium"}, account : Identities]
Requests == CreateRequests \cup LookupRequests \cup AccountRequests

Results == CreatedAccounts \cup {NullMarshalValue}
             \cup [balance : Balances] \cup [premium : BOOLEAN]

\* A reply the server sends, or ConnectionLostException raised at the client.
Exceptions == {"UnknownLocalException", "ObjectNotExistException", "ConnectionLostException"}
Replies == [status : {"ok"}, value : Results] \cup [status : Exceptions, value : {None}]

Ok(value) == [status |-> "ok", value |-> value]
Raised(exception) == [status |-> exception, value |-> None]

\* The identity createAccount registers the new servant under, and the servant.
IdentityOf(r) == [name |-> r.PESEL, category |-> Category(r.income)]
ClassOf(r) == IF isPremium(r.income) THEN "PremiumAccount" ELSE "Account"

\* What an operation of an account answers (Account.java, PremiumAccount.java).
AccountResult(op, servant) ==
    IF op = "isPremium" THEN [premium |-> servant.class = "PremiumAccount"]
                        ELSE [balance |-> servant.balance]

(***************************************************************************)
(* null is none of the values it stands in for.                            *)
(***************************************************************************)
ASSUME NoneAssumption ==
    /\ None \notin Identities
    /\ None \notin AccountServants
    /\ None \notin CreatedAccounts
    /\ None \notin Requests
    /\ None \notin Replies

ASSUME DataAssumption == EmptyPesel \in Pesels /\ Incomes \subseteq Int
=============================================================================
