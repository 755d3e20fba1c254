------------------------------- MODULE Catalog -------------------------------
(***************************************************************************)
(* The merchant's reference catalogue (services/merchant/                  *)
(* catalog_service.py): what is sold, at which price, and how much of it   *)
(* there is.  An offer reads the stock and leaves it alone.                *)
(*                                                                         *)
(* No caller asks for a discount or a delivery deadline, and shipping is   *)
(* the standard option, within the policy's window: they are left out.     *)
(***************************************************************************)
EXTENDS Integers, Sequences

CONSTANTS
  Skus,
  Prices,         \* base prices the merchant may set
  MaxStock,       \* bound: the largest stock
  Shipping,       \* the cost of standard shipping
  MaxOrderValue,  \* the policy's ceiling on a subtotal
  FirstPrice,     \* the seeded catalogue
  FirstStock

ASSUME CatalogAssumption ==
  /\ Prices \subseteq Nat /\ {MaxStock, Shipping, MaxOrderValue} \subseteq Nat
  /\ FirstPrice \in [Skus -> Prices] /\ FirstStock \in [Skus -> 0 .. MaxStock]

VARIABLES
  price,    \* base_price of each item of _catalog
  active,   \* the items that are active
  stock     \* _inventory: quantity_available

catalogVars == <<price, active, stock>>

NoTotal == -1

Response(ok, expired, sku, quantity, total) ==
  [ok |-> ok, bound |-> TRUE, expired |-> expired, sku |-> sku,
   quantity |-> quantity, total |-> total]

Rejection(sku, quantity) == Response(FALSE, FALSE, sku, quantity, NoTotal)

\* Shipping is taxed with the goods, at 18 %, rounded down.
TotalOf(subtotal) ==
  LET base == subtotal + Shipping
  IN  base + (base * 18) \div 100

(***************************************************************************)
(* process_buyer_request for one item.  A refusal may list substitutes; no *)
(* caller looks at them.                                                   *)
(***************************************************************************)
ProcessBuyerRequest(sku, quantity) ==
  LET subtotal == price[sku] * quantity
  IN  IF sku \in active /\ stock[sku] >= quantity /\ subtotal <= MaxOrderValue
        THEN Response(TRUE, FALSE, sku, quantity, TotalOf(subtotal))
        ELSE Rejection(sku, quantity)

CatalogInit ==
  /\ price = FirstPrice
  /\ active = Skus
  /\ stock = FirstStock

\* add_item with another price, or with the item withdrawn.
AddItem(sku) ==
  /\ \/ /\ \E p \in Prices \ {price[sku]} : price' = [price EXCEPT ![sku] = p]
        /\ active' = active \cup {sku}
     \/ sku \in active /\ active' = active \ {sku} /\ UNCHANGED price
  /\ UNCHANGED stock

\* set_inventory_status.
SetInventoryStatus(sku) ==
  /\ \E n \in 0 .. MaxStock : n # stock[sku] /\ stock' = [stock EXCEPT ![sku] = n]
  /\ UNCHANGED <<price, active>>

CatalogTypeOK ==
  /\ price \in [Skus -> Prices]
  /\ active \subseteq Skus
  /\ stock \in [Skus -> 0 .. MaxStock]
=============================================================================
