-------------------------------- MODULE Sla ---------------------------------
(***************************************************************************)
(* The SLA report (domain/sla/engine.py): six durations and three ratios   *)
(* computed from a view, its trace and its timeline.  A view has, besides  *)
(* what the trace needs, the times createdAt and completedAt (NoTime when  *)
(* the transaction has no response) and the events as pairs of a kind and  *)
(* a time; policy gives the thresholds, the ratios in eighths.             *)
(***************************************************************************)
EXTENDS Checkpoints

NotApplicable == [status |-> "NOT_APPLICABLE", value |-> 0, compliant |-> "yes"]
Unmeasured    == [status |-> "UNKNOWN", value |-> 0, compliant |-> "unknown"]
Anomaly       == [status |-> "INVALID", value |-> 0, compliant |-> "no"]

Measured(value, complies) ==
  [status |-> "MEASURABLE", value |-> value, compliant |-> IF complies THEN "yes" ELSE "no"]

\* The time from start to end, neither of which need be known.
Duration(start, end, limit) ==
  IF start = NoTime \/ end = NoTime THEN Unmeasured
  ELSE IF end < start THEN Anomaly
  ELSE Measured(end - start, end - start <= limit)

Ratio(eighths, floor) == Measured(eighths, eighths >= floor)

\* When the first event of one of these kinds happened.
TimeOf(v, kinds) ==
  LET times == {e[2] : e \in {x \in v.events : x[1] \in kinds}}
  IN  IF times = {} THEN NoTime ELSE Min(times)

FirstEvent(v) == LET times == {e[2] : e \in v.events} IN IF times = {} THEN NoTime ELSE Min(times)

\* The first of two times that is known.
Either(a, b) == IF a = NoTime THEN b ELSE a

EvaluatedAt(v) == IF v.status = "NONE" THEN NoTime ELSE v.evaluatedAt

\* The divergence, or else the verdict, is what was detected.
Detection(v, trace) ==
  IF trace.first # 0 THEN DetectedAt(trace.steps, v.ref) ELSE EvaluatedAt(v)

-----------------------------------------------------------------------------
(***************************************************************************)
(* The durations.                                                          *)
(***************************************************************************)

\* From the stage that diverged, or the creation; one that has a time has
\* the same time for its detection.
TimeToDetect(v, trace, policy) ==
  LET trigger == Either(IF trace.first = 0 THEN NoTime ELSE trace.steps[trace.first].at,
                        Either(v.createdAt, FirstEvent(v)))
  IN  IF v.status = "PASS" /\ trace.first = 0
        THEN NotApplicable
        ELSE Duration(trigger, Detection(v, trace), policy.detect)

TimeToProve(v, trace, policy) ==
  LET proved == Either(TimeOf(v, {"mrdp", "proof"}), Either(v.completedAt, EvaluatedAt(v)))
  IN  IF v.status = "PASS" THEN NotApplicable
      ELSE Duration(Detection(v, trace), proved, policy.prove)

TimeToIntervene(v, trace, policy) ==
  IF ~v.record \/ v.recordTo = "RUNNING" THEN NotApplicable
  ELSE Duration(Detection(v, trace), v.recordAt, policy.intervene)

TimeToRevalidate(v, policy) ==
  IF ~v.record \/ v.recordTo # "REQUIRES_REVALIDATION" THEN NotApplicable
  ELSE Duration(v.recordAt, TimeOf(v, {"revalidation", "recovery"}), policy.revalidate)

TimeToFinalDecision(v, policy) ==
  LET start == Either(v.createdAt, IF v.intent THEN v.issuedAt ELSE FirstEvent(v))
  IN  Duration(start, Either(v.completedAt, EvaluatedAt(v)), policy.final)

\* From the verdict, or from a stage nothing is known of, until a resolution
\* event, or until now.
UnknownExposure(v, trace, policy) ==
  LET stages == StagesWith(trace.steps, "UNKNOWN")
      start == IF v.status = "UNKNOWN" THEN EvaluatedAt(v) ELSE trace.steps[Min(stages)].at
  IN  IF v.status # "UNKNOWN" /\ stages = {} THEN NotApplicable
      ELSE Duration(start, Either(TimeOf(v, {"resolution"}), v.ref), policy.unknown)

-----------------------------------------------------------------------------
(***************************************************************************)
(* The ratios and the report.                                              *)
(***************************************************************************)

Reached(timeline) == {i \in Stages : timeline.status[i] # "NOT_REACHED"}
Verified(timeline) == {i \in Stages : timeline.status[i] = "VALID"}

CheckpointCoverage(timeline, policy) == Ratio(Cardinality(Reached(timeline)), policy.coverage)
CheckpointValidRatio(timeline, policy) == Ratio(Cardinality(Verified(timeline)), policy.valid)

TraceCompleteness(trace, policy) ==
  Ratio(Cardinality(Stages \ StagesWith(trace.steps, "UNREACHED")), policy.completeness)

OverallCompliance(metrics) ==
  LET among(value) == \E m \in DOMAIN metrics : metrics[m].compliant = value
  IN  IF among("no") THEN "no" ELSE IF among("unknown") THEN "unknown" ELSE "yes"

ComputeReport(v, trace, timeline, policy) ==
  LET metrics == [detect |-> TimeToDetect(v, trace, policy),
                  prove |-> TimeToProve(v, trace, policy),
                  intervene |-> TimeToIntervene(v, trace, policy),
                  revalidate |-> TimeToRevalidate(v, policy),
                  final |-> TimeToFinalDecision(v, policy),
                  unknown |-> UnknownExposure(v, trace, policy),
                  coverage |-> CheckpointCoverage(timeline, policy),
                  valid |-> CheckpointValidRatio(timeline, policy),
                  completeness |-> TraceCompleteness(trace, policy)]
  IN  [metrics |-> metrics, overall |-> OverallCompliance(metrics)]
=============================================================================
