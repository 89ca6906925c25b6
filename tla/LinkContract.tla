---------------------------- MODULE LinkContract -----------------------------
(***************************************************************************)
(* What the compositor may rely on from one link (conn.rs, Link), without  *)
(* the queues, tasks and messages that implement it: a link comes up or    *)
(* fails; suspend() is called at most once; its answer is true only if the *)
(* host answered during the call, and the host answers only a call.        *)
(***************************************************************************)
VARIABLES
  status,                \* "connecting", "up", "suspending", "resolved", "over"
  answered,              \* the host has acknowledged the suspend
  outcome                \* what suspend() returned: "none", "acked", "unacked"

contractVars == <<status, answered, outcome>>

ContractInit ==
  /\ status = "connecting"
  /\ answered = FALSE
  /\ outcome = "none"

ComesUp ==
  /\ status = "connecting"
  /\ status' = "up"
  /\ UNCHANGED <<answered, outcome>>

FailsToConnect ==
  /\ status = "connecting"
  /\ status' = "over"
  /\ UNCHANGED <<answered, outcome>>

CallsSuspend ==
  /\ status = "up"
  /\ status' = "suspending"
  /\ UNCHANGED <<answered, outcome>>

\* also after suspend() gave up, and after the link was dropped
Answers ==
  /\ status \in {"suspending", "resolved", "over"}
  /\ ~answered
  /\ answered' = TRUE
  /\ UNCHANGED <<status, outcome>>

ResolvesTrue ==
  /\ status = "suspending"
  /\ answered
  /\ outcome' = "acked"
  /\ status' = "resolved"
  /\ UNCHANGED answered

ResolvesFalse ==
  /\ status = "suspending"
  /\ outcome' = "unacked"
  /\ status' = "resolved"
  /\ UNCHANGED answered

IsDropped ==
  /\ status \in {"up", "resolved"}
  /\ status' = "over"
  /\ UNCHANGED <<answered, outcome>>

ContractNext ==
  \/ ComesUp \/ FailsToConnect \/ CallsSuspend \/ Answers
  \/ ResolvesTrue \/ ResolvesFalse \/ IsDropped

ContractSpec == ContractInit /\ [][ContractNext]_contractVars
=============================================================================
