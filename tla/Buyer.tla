-------------------------------- MODULE Buyer --------------------------------
(***************************************************************************)
(* The buyer agent (services/buyer/agent_service.py): it projects an       *)
(* intent into a proposal and judges what the merchant answers.            *)
(*                                                                         *)
(* An intent orders items, allows substitutes and sets a ceiling.  All     *)
(* offers are in the currency of the intents; an intent sets no delivery   *)
(* limit.                                                                  *)
(***************************************************************************)
EXTENDS Integers, Sequences, Functions

Ordered(intent) == {intent.items[i].sku : i \in DOMAIN intent.items}

\* The quantity of the items at these places of the list.
QuantityAt(intent, places) ==
  SumFunctionOnSet([i \in DOMAIN intent.items |-> intent.items[i].quantity], places)

TotalQuantity(intent) == QuantityAt(intent, DOMAIN intent.items)

(***************************************************************************)
(* propose: whatever happened so far, the first item in the quantity of    *)
(* all items.                                                              *)
(***************************************************************************)
Propose(intent) ==
  [sku |-> Head(intent.items).sku, quantity |-> TotalQuantity(intent),
   max |-> intent.max]

\* evaluate_merchant_response.
EvaluateResponse(intent, response) ==
  IF ~ response.bound THEN "ABSTAIN"
  ELSE IF \/ response.expired
          \/ ~ response.ok
          \/ response.total > intent.max
          \/ response.sku \notin Ordered(intent) \cup intent.subs
         THEN "REPLAN" ELSE "PROPOSE"

\* replan: an acceptable offer is asked for again, too.
Replan(intent, response) ==
  IF EvaluateResponse(intent, response) = "ABSTAIN" THEN "ABSTAIN" ELSE "REPLAN"
=============================================================================
