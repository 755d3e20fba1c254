---------------------------- MODULE MCNegotiation ----------------------------
(* Instances of Negotiation for TLC: a merchant that sells mice. *)
EXTENDS Negotiation, TLC

\* A mouse or a grey one, and a mouse with a book.
MCIntents ==
  {[items |-> <<[sku |-> "mouse", quantity |-> 1]>>, subs |-> {"grey"}, max |-> 30,
    partial |-> FALSE],
   [items |-> <<[sku |-> "mouse", quantity |-> 1], [sku |-> "book", quantity |-> 1]>>,
    subs |-> {}, max |-> 60, partial |-> FALSE]}

MCFirstPrice == [sku \in Skus |-> 40]
MCFirstStock == [sku \in Skus |-> 1]

MCIds == ({"ext", "elsewhere"} \cup Txs) \X Nat \X Nat
MCBodies == [total : Int, verdict : {"NONE", "PASS", "DRIFT", "UNKNOWN"}]

-----------------------------------------------------------------------------
(***************************************************************************)
(* The capability graph of the merchant on a small policy: what it answers *)
(* is what policy and declaration mean, and a constraint that is replaced  *)
(* in the live graph (add_constraint) is not the one its snapshot keeps.   *)
(***************************************************************************)
Graph == INSTANCE Capability

MCPolicy == [currency |-> "INR", max |-> 2, discount |-> 1, minDays |-> 1, maxDays |-> 2,
             substitutes |-> [sku \in {"mouse"} |-> {"grey"}]]
MCTighter == [MCPolicy EXCEPT !.max = 1]
MCDeclared == {[c \in S |-> c # off] :
                 S \in {{}, {"CATALOG", "PRICING"}, {"SHIPPING", "REFUND", "ALTERNATIVE_OFFER"}},
                 off \in {"none", "PRICING", "REFUND"}}
MCContexts ==
  [merchant : {"m"}, amount : {-1, 2, 3}, currency : {"INR", "USD"}, discount : {-1, 2},
   days : {-1, 0, 2, 3}, age : {-1, 14, 15}, primary : {"none", "mouse"},
   sku : {"none", "mouse", "grey", "book"}]
MCAnswer(declared, policy, operation, context) ==
  Graph!EvaluateOperation(Graph!FromDeclarationAndPolicy("m", declared, policy),
                          operation, context)

ASSUME MCContextsTyped == MCContexts \subseteq Graph!Contexts

ASSUME MCAnswersPolicy ==
  \A declared \in MCDeclared, operation \in Graph!Operations, context \in MCContexts :
    LET answer == MCAnswer(declared, MCPolicy, operation, context)
    IN  /\ answer.status = "SUPPORTED"
             <=> (Graph!Offered(declared, operation)
                  /\ Graph!WithinPolicy(MCPolicy, operation, context))
        /\ answer.status = "CONSTRAINED" <=> Graph!Advice(answer) # {}

ASSUME MCSnapshotFallsBehind ==
  LET live == Graph!FromDeclarationAndPolicy("m", [c \in {"PRICING"} |-> TRUE], MCPolicy)
      tighter == Graph!AddConstraint(live, "MAX_AMOUNT", MCTighter)
      restored == Graph!FromSnapshot(Graph!ExportSnapshot(tighter))
      context == CHOOSE c \in MCContexts : c.amount = 2 /\ c.currency = "INR" /\ c.discount = -1
  IN  /\ Graph!EvaluateOperation(tighter, "QUOTE_PRICE", context).status = "CONSTRAINED"
      /\ Graph!EvaluateOperation(restored, "QUOTE_PRICE", context).status = "SUPPORTED"
=============================================================================
