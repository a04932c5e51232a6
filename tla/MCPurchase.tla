----------------------------- MODULE MCPurchase -----------------------------
(***************************************************************************)
(* Small instances of what turns a bag into a sale: the bag, the zone it goes *)
(* to, the checkout with its payment page, and the saga that sells the stock. *)
(* Each is the others' environment, reduced to what it can do, so they share *)
(* no variable: a behaviour moves the one named at the start, a run explores *)
(* each of Parts in full, and a property speaks of one.                     *)
(***************************************************************************)
EXTENDS MCFulfillment, Storefront, BagScreen, ZoneChoice, TLC

CONSTANTS Parts, shirt, cap, tee, hat

VARIABLE moves

\* A cart of two lines, one of two of a kind, and an empty one.
MCCarts == {shirt :> 1 @@ cap :> 1, shirt :> 2 @@ cap :> 0, shirt :> 0 @@ cap :> 0}
\* Bags of two lines, of one of two of a kind, and the empty one.
MCBags == {tee :> 1 @@ hat :> 1, tee :> 2 @@ hat :> 0, tee :> 0 @@ hat :> 0}

\* One of the first variant beyond what the order takes.
MCSpareUnit == [v \in Variants |-> IF v = v1 THEN 2 ELSE 1]

MCOpeningShop == [price |-> [x \in Wares |-> 1], stock |-> [x \in Wares |-> 2], gone |-> {}]

\* A city of the tables, one that they do not know, and no city.
MCLocalities == {[province |-> "metro manila", city |-> "makati"],
                 [province |-> "cebu", city |-> "mandaue"], [province |-> "laguna", city |-> ""]}
\* A city of no table whose province the search left out, and one of Cebu whose
\* name holds "car", the Cordilleras' abbreviation.
MCMoreLocalities == {[province |-> "", city |-> "mandaue"], [province |-> "cebu", city |-> "carcar"]}
MCOpeningZones ==
  [z \in Zones |-> [active |-> z # "NCR", fee |-> IF z = "Luzon" THEN 1 ELSE 2]]

PurchaseInit ==
  /\ moves \in Parts /\ ShopInit /\ SagaInit /\ BagInit /\ ZoneInit
  /\ moves # "checkout" => provider = "paymongo"
  /\ moves # "bag" => bag = NoLines

PurchaseNext ==
  \/ moves = "checkout" /\ ShopNext /\ UNCHANGED <<moves, sagaVars, bagVars, zoneVars>>
  \/ moves = "saga" /\ SagaNext /\ UNCHANGED <<moves, shopVars, bagVars, zoneVars>>
  \/ moves = "bag" /\ BagNext /\ UNCHANGED <<moves, shopVars, sagaVars, zoneVars>>
  \/ moves = "zone" /\ ZoneNext /\ UNCHANGED <<moves, shopVars, sagaVars, bagVars>>

purchaseVars == <<moves, shopVars, sagaVars, bagVars, zoneVars>>
PurchaseSpec == PurchaseInit /\ [][PurchaseNext]_purchaseVars

\* Requests, confirmations and workers have the same names here: one permutation
\* for all.
Symmetry == Permutations(Requests)

\* Every variable keeps its type, and orders go with payments.
PurchaseTypeOK == SagaTypeOK /\ ShopTypeOK /\ BagTypeOK /\ ZoneTypeOK
=============================================================================
