-------------------------- MODULE MCOperationalMode --------------------------
(* Instances of OperationalMode for TLC. *)
EXTENDS OperationalMode, TLC

\* An amount above the threshold of the policies below.
MCTotal == [t \in Txs |-> 3]

Configured(mode, auto, onDrift, onUnknown, threshold) ==
  [mode |-> mode, auto |-> auto, onDrift |-> onDrift, onUnknown |-> onUnknown,
   threshold |-> threshold]

\* The default policy, and a strict and a lax one under human review.
MCDefault == Configured("GUARDED", TRUE, TRUE, TRUE, NoThreshold)
MCPolicies == {MCDefault, Configured("HUMAN_REVIEW", FALSE, TRUE, TRUE, 2),
               Configured("HUMAN_REVIEW", FALSE, FALSE, FALSE, NoThreshold)}
=============================================================================
