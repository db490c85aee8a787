----------------------------- MODULE MCInvocation -----------------------------
(***************************************************************************)
(* Instances of Invocation for TLC: one call of createAccount, which is    *)
(* not idempotent, and one of getAccountStatus, which is.                  *)
(***************************************************************************)
EXTENDS Invocation
=============================================================================
