---------------------------- MODULE Checkpoints -----------------------------
(***************************************************************************)
(* The checkpoint timeline (domain/checkpoint/): the stages of the trace   *)
(* as eight checkpoints chained by fingerprints, with the last one that    *)
(* can be trusted and the first that cannot.                               *)
(***************************************************************************)
EXTENDS Trace

CheckpointStatus(status) ==
  CASE status = "CONFIRMED_VALID"     -> "VALID"
    [] status = "DIVERGENCE_DETECTED" -> "INVALID"
    [] status = "UNKNOWN"             -> "UNKNOWN"
    [] status = "UNREACHED"           -> "NOT_REACHED"

BindingDecision(v) ==
  IF ~v.outcome THEN "NOT_EVALUATED" ELSE IF v.codes = {} THEN "VALID" ELSE "INVALID"

(***************************************************************************)
(* What compute_checkpoint_fingerprint hashes of checkpoint i, besides the *)
(* fingerprint of the one before; the times are left out.  All the missing *)
(* evidence goes into each unknown checkpoint.                             *)
(***************************************************************************)
Content(v, trace, i) ==
  [stage    |-> StageName[i],
   status   |-> CheckpointStatus(trace.steps[i].status),
   findings |-> trace.steps[i].findings,
   missing  |-> IF trace.steps[i].status = "UNKNOWN" THEN trace.missing ELSE {},
   decision |-> IF v.status = "NONE" THEN "UNKNOWN" ELSE v.status,
   binding  |-> BindingDecision(v),
   ks       |-> v.ks]

(***************************************************************************)
(* A fingerprint covers the content of its checkpoint and the fingerprint  *)
(* before it.  With a hash that has no collisions two fingerprints are     *)
(* equal exactly if the contents up to their checkpoints are, so the chain *)
(* is the sequence of the contents.                                        *)
(***************************************************************************)
Chain(v, trace) == [i \in Stages |-> Content(v, trace, i)]

\* Mutant: a stage nothing is known of does not stop the search.
LastValidPastUnknown(trace) ==
  LET first == trace.first
      trusted == {i \in StagesWith(trace.steps, "CONFIRMED_VALID") : first = 0 \/ i < first}
  IN  IF trusted = {} THEN 0 ELSE Max(trusted)

(***************************************************************************)
(* last_valid_checkpoint: the last VALID one before the first that is      *)
(* INVALID and before the first that is UNKNOWN; 0 when there is none.     *)
(***************************************************************************)
LastValid(trace) ==
  LET barrier == StagesWith(trace.steps, "UNKNOWN")
                   \cup StagesWith(trace.steps, "DIVERGENCE_DETECTED")
      trusted == {i \in StagesWith(trace.steps, "CONFIRMED_VALID") : \A b \in barrier : i < b}
  IN  IF trusted = {} THEN 0 ELSE Max(trusted)

Timeline(v, trace) ==
  [status       |-> [i \in Stages |-> CheckpointStatus(trace.steps[i].status)],
   chain        |-> Chain(v, trace),
   lastValid    |-> LastValid(trace),
   firstInvalid |-> trace.first]
=============================================================================
