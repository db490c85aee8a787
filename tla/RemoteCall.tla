------------------------------ MODULE RemoteCall ------------------------------
(***************************************************************************)
(* What the client run time of Ice promises about a remote call: the       *)
(* comment in Proxy.cpp (_handleException) names it "at-most-once".  A     *)
(* call that is not idempotent is executed at most once, and never after   *)
(* its caller has the answer; an answer means that it was executed; a      *)
(* caller that got an exception knows nothing, except what the exception   *)
(* says: after a failed connection establishment the call was not          *)
(* executed.  An idempotent call may run again, even late.                 *)
(***************************************************************************)
EXTENDS Naturals

CONSTANTS Invocations, Idempotent

VARIABLES
    status,  \* status[i]: "idle", "pending", "answered", "failed" or "unsent"
    runs     \* runs[i]: how often the server has executed i

Init ==
    /\ status = [i \in Invocations |-> "idle"]
    /\ runs   = [i \in Invocations |-> 0]

Invoke(i) ==
    /\ status[i] = "idle" /\ status'[i] = "pending"
    /\ runs'[i] = runs[i]

\* The operation runs in the server, perhaps after its caller has given up.
Execute(i) ==
    /\ status[i] # "idle"
    /\ i \in Idempotent \/ (runs[i] = 0 /\ status[i] \in {"pending", "failed"})
    /\ runs'[i] = runs[i] + 1
    /\ status'[i] = status[i]

Answer(i) ==
    /\ status[i] = "pending" /\ status'[i] = "answered"
    /\ runs[i] > 0
    /\ runs'[i] = runs[i]

\* The caller gets an exception that leaves open what happened.
Fail(i) ==
    /\ status[i] = "pending" /\ status'[i] = "failed"
    /\ runs'[i] = runs[i]

\* The caller is told that no connection could be established.
FailUnsent(i) ==
    /\ status[i] = "pending" /\ status'[i] = "unsent"
    /\ i \in Idempotent \/ runs[i] = 0
    /\ runs'[i] = runs[i]

Unchanged(i) == status'[i] = status[i] /\ runs'[i] = runs[i]

\* Several calls may move at once: a lost connection ends all that were on it.
Next ==
    /\ status' \in [Invocations -> {"idle", "pending", "answered", "failed", "unsent"}]
    /\ runs' \in [Invocations -> Nat]
    /\ \A i \in Invocations :
          Invoke(i) \/ Execute(i) \/ Answer(i) \/ Fail(i) \/ FailUnsent(i) \/ Unchanged(i)

vars == <<status, runs>>

Spec == Init /\ [][Next]_vars
=============================================================================
