----------------------------- MODULE Capability -----------------------------
(***************************************************************************)
(* Merchant capabilities (domain/capability/, services/capability/): the   *)
(* graph built from what a merchant declares and from its policy, the      *)
(* snapshot kept of it, and the evaluation of an operation against either. *)
(*                                                                         *)
(* A graph keeps a constraint twice: as a node, with its parameters, which *)
(* goes into a snapshot, and in the dictionary the evaluation reads.  A    *)
(* policy makes at most one constraint of a type, so the type is its name; *)
(* its parameters are fields of the policy, which stands for them.         *)
(*                                                                         *)
(* A policy has a ceiling `max` in `currency`, a largest `discount`, a     *)
(* window of delivery days, and substitutes of some articles.  An          *)
(* operation is known by its normalised name.  Policy and evidence nodes   *)
(* are left out: no status depends on them.                                *)
(***************************************************************************)
EXTENDS Integers, TLAPS

Unstated == -1
NoSku == "none"

\* Operations by capability.
Enabled ==
  [CATALOG           |-> {"SEARCH_CATALOG", "VIEW_ITEM"},
   INVENTORY         |-> {"CHECK_INVENTORY", "RESERVE_INVENTORY"},
   PRICING           |-> {"QUOTE_PRICE", "APPLY_DISCOUNT"},
   SHIPPING          |-> {"STANDARD_SHIPPING", "EXPRESS_SHIPPING"},
   TAX               |-> {"CALCULATE_TAX"},
   ALTERNATIVE_OFFER |-> {"SUBSTITUTE_SKU"},
   REFUND            |-> {"PROCESS_REFUND"},
   FULFILLMENT       |-> {"FULFILL_ORDER"}]

CommerceCapabilities == DOMAIN Enabled

Operations == UNION {Enabled[c] : c \in CommerceCapabilities}

\* What an operation is asked for with.
Contexts ==
  [merchant : STRING, amount : Nat \cup {Unstated}, currency : STRING,
   discount : Nat \cup {Unstated}, days : Nat \cup {Unstated}, age : Nat \cup {Unstated},
   primary : STRING, sku : STRING]

RefundWindow == 14

-----------------------------------------------------------------------------
(***************************************************************************)
(* The graph.                                                              *)
(***************************************************************************)

ConstraintsOf(policy) ==
  {"MAX_AMOUNT", "MAX_DISCOUNT_BPS", "DELIVERY_DAYS_WINDOW", "MAX_WINDOW_DAYS"}
    \cup (IF DOMAIN policy.substitutes = {} THEN {} ELSE {"ALLOWED_SKUS"})

\* The CONSTRAINED_BY edges of the capabilities that have any.
Constrained ==
  {<<"PRICING", "MAX_AMOUNT">>, <<"CATALOG", "MAX_AMOUNT">>,
   <<"PRICING", "MAX_DISCOUNT_BPS">>, <<"SHIPPING", "DELIVERY_DAYS_WINDOW">>,
   <<"REFUND", "MAX_WINDOW_DAYS">>, <<"ALTERNATIVE_OFFER", "ALLOWED_SKUS">>}

(***************************************************************************)
(* from_declaration_and_policy.  `declared` says of each capability in the *)
(* declaration whether it is available.                                    *)
(***************************************************************************)
FromDeclarationAndPolicy(merchant, declared, policy) ==
  [merchant    |-> merchant,
   available   |-> declared,
   requires    |-> {e \in Operations \X DOMAIN declared : e[1] \in Enabled[e[2]]},
   constrained |-> {e \in Constrained :
                      e[1] \in DOMAIN declared /\ e[2] \in ConstraintsOf(policy)},
   nodes       |-> [k \in ConstraintsOf(policy) |-> policy],
   constraints |-> [k \in ConstraintsOf(policy) |-> policy]]

\* add_constraint replaces what the dictionary holds, and no node.
AddConstraint(graph, k, policy) ==
  [graph EXCEPT !.constraints =
     [c \in DOMAIN graph.constraints \cup {k} |->
        IF c = k THEN policy ELSE graph.constraints[c]]]

\* export_snapshot: nodes and edges.
ExportSnapshot(graph) ==
  [merchant |-> graph.merchant, available |-> graph.available, requires |-> graph.requires,
   constrained |-> graph.constrained, nodes |-> graph.nodes]

\* from_snapshot: the dictionary is made of the nodes.
FromSnapshot(snapshot) ==
  [merchant |-> snapshot.merchant, available |-> snapshot.available,
   requires |-> snapshot.requires, constrained |-> snapshot.constrained,
   nodes |-> snapshot.nodes, constraints |-> snapshot.nodes]

-----------------------------------------------------------------------------
(***************************************************************************)
(* The evaluation.                                                         *)
(***************************************************************************)

CapabilitiesFor(graph, operation) ==
  {c \in DOMAIN graph.available : <<operation, c>> \in graph.requires}

ConstraintsFor(graph, operation) ==
  {k \in DOMAIN graph.nodes \cap DOMAIN graph.constraints :
     \E c \in CapabilitiesFor(graph, operation) : <<c, k>> \in graph.constrained}

Substitutes(policy, sku) ==
  IF sku \in DOMAIN policy.substitutes THEN policy.substitutes[sku] ELSE {}

(***************************************************************************)
(* _evaluate_constraint.  What the context does not state is not checked.  *)
(***************************************************************************)
Satisfied(k, policy, context) ==
  CASE k = "MAX_AMOUNT" ->
         context.amount # Unstated =>
           (context.currency = policy.currency /\ context.amount <= policy.max)
    [] k = "MAX_DISCOUNT_BPS" ->
         context.discount # Unstated => context.discount <= policy.discount
    [] k = "DELIVERY_DAYS_WINDOW" ->
         context.days # Unstated =>
           (policy.minDays <= context.days /\ context.days <= policy.maxDays)
    [] k = "MAX_WINDOW_DAYS" ->
         context.age # Unstated => context.age <= RefundWindow
    [] k = "ALLOWED_SKUS" ->
         (context.primary # NoSku /\ context.sku # NoSku) =>
           context.sku \in {context.primary} \cup Substitutes(policy, context.primary)

Violated(graph, operation, context) ==
  {k \in ConstraintsFor(graph, operation) : ~ Satisfied(k, graph.constraints[k], context)}

Answer(status, violations) == [status |-> status, violations |-> violations]

(***************************************************************************)
(* CapabilityEvaluator.evaluate.  A context of another merchant raises.    *)
(***************************************************************************)
EvaluateOperation(graph, operation, context) ==
  LET enabling == CapabilitiesFor(graph, operation)
      violations == Violated(graph, operation, context)
  IN  IF context.merchant # graph.merchant THEN Answer("RAISED", {})
      ELSE IF enabling = {} THEN Answer("UNSUPPORTED", {})
      ELSE IF ~ graph.available[CHOOSE c \in enabling : TRUE] THEN Answer("UNAVAILABLE", {})
      ELSE IF violations # {} THEN Answer("CONSTRAINED", violations)
      ELSE Answer("SUPPORTED", {})

\* generate_replanning_advice: what to do about each violation.
Advice(answer) ==
  IF answer.status # "CONSTRAINED" THEN {}
  ELSE {CASE k = "MAX_AMOUNT"       -> "REDUCE_ORDER_TOTAL"
          [] k = "MAX_DISCOUNT_BPS" -> "REDUCE_REQUESTED_DISCOUNT"
          [] k = "ALLOWED_SKUS"     -> "USE_AUTHORIZED_SUBSTITUTE"
          [] OTHER                  -> "ADJUST_PROPOSAL" : k \in answer.violations}

-----------------------------------------------------------------------------
(***************************************************************************)
(* The reference: what a policy and a declaration mean, without a graph.   *)
(***************************************************************************)

\* An available capability is declared for the operation.
Offered(declared, operation) ==
  \E c \in DOMAIN declared : operation \in Enabled[c] /\ declared[c]

(***************************************************************************)
(* What the policy asks of an operation.  The ceiling on amounts is asked  *)
(* of the operations on catalogue and prices only: an order above it may   *)
(* be shipped, taxed and fulfilled.                                        *)
(***************************************************************************)
WithinPolicy(policy, operation, context) ==
  /\ operation \in Enabled.CATALOG \cup Enabled.PRICING => Satisfied("MAX_AMOUNT", policy, context)
  /\ operation \in Enabled.PRICING => Satisfied("MAX_DISCOUNT_BPS", policy, context)
  /\ operation \in Enabled.SHIPPING => Satisfied("DELIVERY_DAYS_WINDOW", policy, context)
  /\ operation \in Enabled.REFUND => Satisfied("MAX_WINDOW_DAYS", policy, context)
  /\ (operation \in Enabled.ALTERNATIVE_OFFER /\ DOMAIN policy.substitutes # {}) =>
       Satisfied("ALLOWED_SKUS", policy, context)

-----------------------------------------------------------------------------
(***************************************************************************)
(* What the graph answers, for every merchant, declaration, policy and     *)
(* context.                                                                *)
(***************************************************************************)

\* An operation is enabled by one capability at most.
LEMMA OneOwner ==
  ASSUME NEW c \in CommerceCapabilities, NEW d \in CommerceCapabilities, NEW operation,
         operation \in Enabled[c], operation \in Enabled[d]
  PROVE  c = d
  BY DEF CommerceCapabilities, Enabled

\* Through the graph an operation leads to the declared capabilities that
\* enable it.
LEMMA GraphCapabilities ==
  ASSUME NEW declared, DOMAIN declared \subseteq CommerceCapabilities,
         NEW merchant, NEW policy, NEW operation
  PROVE  CapabilitiesFor(FromDeclarationAndPolicy(merchant, declared, policy), operation)
           = {c \in DOMAIN declared : operation \in Enabled[c]}
  <1> DEFINE graph == FromDeclarationAndPolicy(merchant, declared, policy)
  <1>1. graph.available = declared
    BY DEF FromDeclarationAndPolicy
  <1>2. graph.requires = {e \in Operations \X DOMAIN declared : e[1] \in Enabled[e[2]]}
    BY DEF FromDeclarationAndPolicy
  <1>3. ASSUME NEW c \in DOMAIN declared
        PROVE  <<operation, c>> \in graph.requires <=> operation \in Enabled[c]
    <2>1. operation \in Enabled[c] => operation \in Operations
      BY DEF Operations
    <2> HIDE DEF graph
    <2> QED
      BY <1>2, <2>1
  <1> HIDE DEF graph
  <1> QED
    BY <1>1, <1>3 DEF CapabilitiesFor, graph

\* The constraints the graph finds for an operation a declared capability
\* enables.
LEMMA GraphConstraints ==
  ASSUME NEW declared, DOMAIN declared \subseteq CommerceCapabilities,
         NEW merchant, NEW policy, NEW operation,
         NEW c \in DOMAIN declared, operation \in Enabled[c], NEW k
  PROVE  k \in ConstraintsFor(FromDeclarationAndPolicy(merchant, declared, policy), operation)
           <=> (k \in ConstraintsOf(policy) /\ <<c, k>> \in Constrained)
  <1> DEFINE graph == FromDeclarationAndPolicy(merchant, declared, policy)
  <1>1. CapabilitiesFor(graph, operation) = {c}
    BY GraphCapabilities, OneOwner
  <1>2. DOMAIN graph.nodes = ConstraintsOf(policy) /\ DOMAIN graph.constraints = ConstraintsOf(policy)
    BY DEF FromDeclarationAndPolicy
  <1>3. graph.constrained = {e \in Constrained :
                               e[1] \in DOMAIN declared /\ e[2] \in ConstraintsOf(policy)}
    BY DEF FromDeclarationAndPolicy
  <1> HIDE DEF graph
  <1>4. <<c, k>> \in graph.constrained
          <=> (<<c, k>> \in Constrained /\ k \in ConstraintsOf(policy))
    BY <1>3
  <1> QED
    BY <1>1, <1>2, <1>4 DEF ConstraintsFor, graph

\* The constraints bound to a capability, as the policy states them.
LEMMA ConstraintsMeanPolicy ==
  ASSUME NEW policy, NEW context, NEW operation,
         NEW c \in CommerceCapabilities, operation \in Enabled[c]
  PROVE  WithinPolicy(policy, operation, context)
           <=> \A k \in ConstraintsOf(policy) :
                 <<c, k>> \in Constrained => Satisfied(k, policy, context)
  <1>1. /\ operation \in Enabled.CATALOG <=> c = "CATALOG"
        /\ operation \in Enabled.PRICING <=> c = "PRICING"
        /\ operation \in Enabled.SHIPPING <=> c = "SHIPPING"
        /\ operation \in Enabled.REFUND <=> c = "REFUND"
        /\ operation \in Enabled.ALTERNATIVE_OFFER <=> c = "ALTERNATIVE_OFFER"
    BY DEF CommerceCapabilities, Enabled
  <1>2. \A k : <<c, k>> \in Constrained <=>
                 \/ c = "PRICING" /\ k = "MAX_AMOUNT"
                 \/ c = "CATALOG" /\ k = "MAX_AMOUNT"
                 \/ c = "PRICING" /\ k = "MAX_DISCOUNT_BPS"
                 \/ c = "SHIPPING" /\ k = "DELIVERY_DAYS_WINDOW"
                 \/ c = "REFUND" /\ k = "MAX_WINDOW_DAYS"
                 \/ c = "ALTERNATIVE_OFFER" /\ k = "ALLOWED_SKUS"
    BY DEF Constrained
  <1>3. /\ {"MAX_AMOUNT", "MAX_DISCOUNT_BPS", "DELIVERY_DAYS_WINDOW", "MAX_WINDOW_DAYS"}
             \subseteq ConstraintsOf(policy)
        /\ "ALLOWED_SKUS" \in ConstraintsOf(policy) <=> DOMAIN policy.substitutes # {}
    BY DEF ConstraintsOf
  <1> QED
    BY <1>1, <1>2, <1>3 DEF WithinPolicy

\* The graph evaluation says SUPPORTED exactly when an available capability
\* is declared for the operation and the policy allows what the context
\* states: walking the graph loses no constraint and adds none
\* (evaluator.py:36, graph.py:304).
THEOREM SupportedMeansWithinPolicy ==
  ASSUME NEW S \in SUBSET CommerceCapabilities, NEW declared \in [S -> BOOLEAN],
         NEW merchant, NEW policy, NEW operation, NEW context, context.merchant = merchant
  PROVE  EvaluateOperation(FromDeclarationAndPolicy(merchant, declared, policy),
                           operation, context).status = "SUPPORTED"
           <=> Offered(declared, operation) /\ WithinPolicy(policy, operation, context)
  <1> DEFINE graph == FromDeclarationAndPolicy(merchant, declared, policy)
             enabling == {c \in DOMAIN declared : operation \in Enabled[c]}
             answer == EvaluateOperation(graph, operation, context)
  <1>1. graph.merchant = merchant /\ graph.available = declared
    BY DEF FromDeclarationAndPolicy
  <1>2. CapabilitiesFor(graph, operation) = enabling
    BY GraphCapabilities
  <1>3. CASE enabling = {}
    <2>1. answer.status = "UNSUPPORTED"
      <3> HIDE DEF graph
      <3> QED
        BY <1>1, <1>2, <1>3 DEF EvaluateOperation, Answer
    <2>2. ~ Offered(declared, operation)
      BY <1>3 DEF Offered
    <2> QED
      BY <2>1, <2>2
  <1>4. CASE enabling # {}
    <2>1. PICK c \in DOMAIN declared : operation \in Enabled[c]
      BY <1>4
    <2>2. enabling = {c}
      BY <2>1, OneOwner
    <2>3. Offered(declared, operation) <=> declared[c]
      BY <2>1, <2>2 DEF Offered
    <2>4. ConstraintsFor(graph, operation)
            = {k \in ConstraintsOf(policy) : <<c, k>> \in Constrained}
      <3>1. \A k : k \in ConstraintsFor(graph, operation)
                     <=> (k \in ConstraintsOf(policy) /\ <<c, k>> \in Constrained)
        BY <2>1, GraphConstraints
      <3> HIDE DEF graph
      <3> QED
        BY <3>1
    <2>5. \A k \in ConstraintsOf(policy) : graph.constraints[k] = policy
      BY DEF FromDeclarationAndPolicy
    <2> HIDE DEF graph
    <2>6. Violated(graph, operation, context) = {} <=> WithinPolicy(policy, operation, context)
      BY <2>1, <2>4, <2>5, ConstraintsMeanPolicy DEF Violated
    <2>7. (CHOOSE d \in CapabilitiesFor(graph, operation) : TRUE) = c
      BY <1>2, <2>2
    <2>8. answer = IF ~ declared[c] THEN Answer("UNAVAILABLE", {})
                   ELSE IF Violated(graph, operation, context) # {}
                        THEN Answer("CONSTRAINED", Violated(graph, operation, context))
                   ELSE Answer("SUPPORTED", {})
      BY <1>1, <1>2, <1>4, <2>7 DEF EvaluateOperation
    <2>9. answer.status = "SUPPORTED"
            <=> declared[c] /\ Violated(graph, operation, context) = {}
      BY <2>8 DEF Answer
    <2> QED
      BY <2>3, <2>6, <2>9 DEF graph
  <1> QED
    BY <1>3, <1>4

\* A graph restored from the snapshot of a built graph answers every
\* operation as the live one (evaluate_operation with historical_snapshot,
\* services/capability/service.py:82).  A constraint added to the live graph
\* afterwards is in no node, so the equality is of graphs as they are built.
THEOREM SnapshotAnswersAlike ==
  ASSUME NEW declared, NEW merchant, NEW policy, NEW operation, NEW context
  PROVE  LET graph == FromDeclarationAndPolicy(merchant, declared, policy)
         IN  EvaluateOperation(FromSnapshot(ExportSnapshot(graph)), operation, context)
               = EvaluateOperation(graph, operation, context)
  <1>1. FromSnapshot(ExportSnapshot(FromDeclarationAndPolicy(merchant, declared, policy)))
          = FromDeclarationAndPolicy(merchant, declared, policy)
    BY DEF FromSnapshot, ExportSnapshot, FromDeclarationAndPolicy
  <1> QED
    BY <1>1
=============================================================================
