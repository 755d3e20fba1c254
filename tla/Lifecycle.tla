----------------------------- MODULE Lifecycle -----------------------------
(***************************************************************************)
(* What the state machine of domain/states promises of every session: it   *)
(* starts in CREATED and only ever moves along the transition graph, so    *)
(* that PASS and ABSTAIN are final.  A call of the service may make two    *)
(* moves before anyone looks.  TransactionSlice implements this            *)
(* specification.                                                          *)
(***************************************************************************)
EXTENDS LifecycleGraph

CONSTANT Sessions

VARIABLE state   \* state[s]: the lifecycle state; "ABSENT" before creation

TypeOK == state \in [Sessions -> LifecycleStates \cup {"ABSENT"}]

Init == state = [s \in Sessions |-> "ABSENT"]

\* A new session is stored once its order exists, that is in EXECUTING.
Create(s) ==
  /\ state[s] = "ABSENT"
  /\ CanTransition("CREATED", "EXECUTING")
  /\ state' = [state EXCEPT ![s] = "EXECUTING"]

Move(s) ==
  \E to \in LifecycleStates :
    /\ \/ CanTransition(state[s], to)
       \/ \E via \in LifecycleStates :
            CanTransition(state[s], via) /\ CanTransition(via, to)
    /\ state' = [state EXCEPT ![s] = to]

Next == \E s \in Sessions : Create(s) \/ Move(s)

Spec == Init /\ [][Next]_state

(***************************************************************************)
(* "PASS: ... terminal for this transaction execution cycle", "ABSTAIN:    *)
(* terminal safety state": no session ever leaves them.                    *)
(***************************************************************************)
TerminalIsFinal ==
  [][\A s \in Sessions : state[s] \in Terminal => state'[s] = state[s]]_state
=============================================================================
