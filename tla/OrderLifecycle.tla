--------------------------- MODULE OrderLifecycle ---------------------------
(***************************************************************************)
(* An order from its number to its delivery: the yearly number sequence,    *)
(* the guarded state machine (apps/orders/models.py), the merchant's actions *)
(* on the console (apps/orders/admin.py), the courier's booking and webhook  *)
(* (apps/shipping), each a chain of transactions that another worker, a      *)
(* second delivery of the same report or a crash can cut.                    *)
(*                                                                         *)
(* What a transition does to the stock is in Fulfillment; here payment,      *)
(* cancellation and refund are the transition alone.                         *)
(***************************************************************************)
EXTENDS Integers, FiniteSets

CONSTANTS
  Orders,      \* checkouts, each of which may become an order
  Staff,       \* requests of merchant staff
  Hooks,       \* deliveries of the courier's webhook being handled
  Reports,     \* bound: the values of COURIER_STATUS_MAP the courier sends
  Entries,     \* bound: the statuses staff choose in the shipment's form
  MaxNumber,   \* MAX_ORDER_SEQUENCE
  MaxCrashes,  \* bound: requests that die
  NoOrder      \* the order of an idle request

ASSUME LifecycleAssumption ==
  /\ Reports \subseteq {"booked", "in_transit", "out_for_delivery", "delivered", "failed"}
  /\ Entries \subseteq {"pending", "booked", "in_transit", "out_for_delivery", "delivered", "failed"}
  /\ NoOrder \notin Orders /\ MaxNumber \in Nat /\ MaxCrashes \in Nat

VARIABLES
  last,        \* OrderNumberSequence.last_value of this year
  minted,      \* minted[o]: the number an open checkout transaction took, or 0
  orderNo,     \* orderNo[o]: Order.order_no, or 0
  status,      \* status[o]: Order.status ("none" before the row exists)
  shipment,    \* shipment[o]: Shipment.status ("none" before the row exists)
  waybill,     \* waybill[o]: the shipment has a waybill number
  bookings,    \* bookings[o]: waybills the courier issued for o
  staff,       \* staff[w]: what a staff request is doing
  hook,        \* hook[h]: what a webhook delivery is doing
  answered,    \* answered[o]: a delivered report of a shipped order got its 200
  crashes

numbers == <<last, minted, orderNo>>
parcels == <<shipment, waybill, bookings>>
lifecycleVars == <<numbers, status, parcels, staff, hook, answered, crashes>>

Allowed ==
  [s \in {"none", "pending", "paid", "packed", "shipped", "delivered", "cancelled", "refunded"} |->
     CASE s = "pending" -> {"paid", "cancelled"}
       [] s = "paid" -> {"packed", "refunded"}
       [] s = "packed" -> {"shipped", "refunded"}
       [] s = "shipped" -> {"delivered", "refunded"}
       [] s = "delivered" -> {"refunded"}
       [] OTHER -> {}]
OrderStatus == DOMAIN Allowed
ShipmentStatus ==
  {"none", "pending", "booked", "in_transit", "out_for_delivery", "delivered", "failed"}

Idle == [at |-> "idle", order |-> NoOrder, seen |-> "none", ship |-> "none"]
Request == [at : {"idle", "selected", "packed", "loaded", "booked", "shipped", "form", "report", "saved"},
            order : Orders \cup {NoOrder}, seen : OrderStatus, ship : ShipmentStatus]
NoHook == [at |-> "idle", order |-> NoOrder, seen |-> "none", ship |-> "none", report |-> "none"]
Delivery == [at : {"idle", "read", "saved"}, order : Orders \cup {NoOrder}, seen : OrderStatus,
             ship : ShipmentStatus, report : Reports \cup {"none"}]

LifecycleTypeOK ==
  /\ last \in 0..MaxNumber
  /\ minted \in [Orders -> 0..MaxNumber]
  /\ orderNo \in [Orders -> 0..MaxNumber]
  /\ status \in [Orders -> OrderStatus]
  /\ shipment \in [Orders -> ShipmentStatus]
  /\ waybill \in [Orders -> BOOLEAN]
  /\ bookings \in [Orders -> Nat]
  /\ staff \in [Staff -> Request]
  /\ hook \in [Hooks -> Delivery]
  /\ answered \in [Orders -> BOOLEAN]
  /\ crashes \in 0..MaxCrashes

LifecycleInit ==
  /\ last = 0
  /\ minted = [o \in Orders |-> 0]
  /\ orderNo = [o \in Orders |-> 0]
  /\ status = [o \in Orders |-> "none"]
  /\ shipment = [o \in Orders |-> "none"]
  /\ waybill = [o \in Orders |-> FALSE]
  /\ bookings = [o \in Orders |-> 0]
  /\ staff = [w \in Staff |-> Idle]
  /\ hook = [h \in Hooks |-> NoHook]
  /\ answered = [o \in Orders |-> FALSE]
  /\ crashes = 0

-----------------------------------------------------------------------------
(* next_order_no inside _build_order's transaction *)

\* Mutant of SequenceFree: the row is read without its lock.
SequenceUnlocked == TRUE
\* The year's row is locked from the number to the end of the checkout.
SequenceFree == \A o \in Orders : minted[o] = 0

\* Mutant of NumbersLeft: one number too many.
NumbersLeftOffByOne == last <= MaxNumber
NumbersLeft == last < MaxNumber

MintNumber(o) ==
  /\ status[o] = "none" /\ minted[o] = 0
  /\ SequenceFree
  /\ NumbersLeft
  /\ minted' = [minted EXCEPT ![o] = last + 1]
  /\ UNCHANGED <<last, orderNo, status, parcels, staff, hook, answered, crashes>>

CreateOrder(o) ==
  /\ minted[o] # 0
  /\ last' = minted[o]
  /\ orderNo' = [orderNo EXCEPT ![o] = minted[o]]
  /\ minted' = [minted EXCEPT ![o] = 0]
  /\ status' = [status EXCEPT ![o] = "pending"]
  /\ UNCHANGED <<parcels, staff, hook, answered, crashes>>

\* A deadlock, a bad line or a crash: the number is rolled back with the rest.
RollBackOrder(o) ==
  /\ minted[o] # 0
  /\ minted' = [minted EXCEPT ![o] = 0]
  /\ UNCHANGED <<last, orderNo, status, parcels, staff, hook, answered, crashes>>

-----------------------------------------------------------------------------
(* transition_to and save *)

\* Mutant of MayBecome: validated against the instance in memory.
MayBecomeStale(o, seen, target) == target \in Allowed[seen]
\* transition_to validates the row it has just locked, not the instance it is
\* called on.
MayBecome(o, seen, target) == target \in Allowed[status[o]]

\* The payment webhook's transition.
Pay(o) ==
  /\ MayBecome(o, status[o], "paid")
  /\ status' = [status EXCEPT ![o] = "paid"]
  /\ UNCHANGED <<numbers, parcels, staff, hook, answered, crashes>>

\* A console action or form loads its orders.
Select(w, o) ==
  /\ staff[w].at = "idle" /\ status[o] # "none"
  /\ staff' = [staff EXCEPT ![w] = [Idle EXCEPT !.at = "selected", !.order = o, !.seen = status[o]]]
  /\ UNCHANGED <<numbers, status, parcels, hook, answered, crashes>>

Transition(w, target, step) ==
  LET o == staff[w].order
  IN /\ staff[w].at = "selected"
     /\ MayBecome(o, staff[w].seen, target)
     /\ status' = [status EXCEPT ![o] = target]
     /\ staff' = [staff EXCEPT ![w] = IF step = "idle" THEN Idle ELSE [staff[w] EXCEPT !.at = step]]
     /\ UNCHANGED <<numbers, parcels, hook, answered, crashes>>

MarkAsCancelled(w) == Transition(w, "cancelled", "idle")
MarkAsRefunded(w) == Transition(w, "refunded", "idle")

\* Mutant of MaySave: the stored status is not read again.
MaySaveStale(w) == TRUE
\* Order.save compares with the row it has locked.
MaySave(w) == staff[w].seen = status[staff[w].order]

\* The console's change form has no field to change, and still saves them all.
SaveOrder(w) ==
  /\ staff[w].at = "selected" /\ MaySave(w)
  /\ status' = [status EXCEPT ![staff[w].order] = staff[w].seen]
  /\ staff' = [staff EXCEPT ![w] = Idle]
  /\ UNCHANGED <<numbers, parcels, hook, answered, crashes>>

\* IllegalTransition, shown to the user; or the page is left.
Refused(w) ==
  /\ staff[w].at \in {"selected", "form"}
  /\ staff' = [staff EXCEPT ![w] = Idle]
  /\ UNCHANGED <<numbers, status, parcels, hook, answered, crashes>>

-----------------------------------------------------------------------------
(* mark_as_packed and mark_as_shipped: the transition, and then the parcel *)

MarkAsPacked(w) == Transition(w, "packed", "packed")

\* get_or_create
GetOrCreateShipment(w) ==
  LET o == staff[w].order
      row == IF shipment[o] = "none" THEN "pending" ELSE shipment[o]
  IN /\ staff[w].at = "packed"
     /\ shipment' = [shipment EXCEPT ![o] = row]
     /\ staff' = [staff EXCEPT ![w] = [Idle EXCEPT !.at = "loaded", !.order = o, !.ship = row]]
     /\ UNCHANGED <<numbers, status, waybill, bookings, hook, answered, crashes>>

\* book_shipment asks the courier once; without an answer, or with a shipment
\* that is not pending, the parcel is left to a manual waybill.
BookShipment(w) ==
  LET o == staff[w].order
  IN /\ staff[w].at = "loaded"
     /\ \/ /\ staff[w].ship = "pending"
           /\ bookings' = [bookings EXCEPT ![o] = @ + 1]
           /\ \/ staff' = [staff EXCEPT ![w] = [Idle EXCEPT !.at = "booked", !.order = o]]
              \/ staff' = [staff EXCEPT ![w] = Idle]
        \/ staff' = [staff EXCEPT ![w] = Idle] /\ UNCHANGED bookings
     /\ UNCHANGED <<numbers, status, shipment, waybill, hook, answered, crashes>>

SaveBooking(w) ==
  LET o == staff[w].order
  IN /\ staff[w].at = "booked"
     /\ shipment' = [shipment EXCEPT ![o] = "booked"]
     /\ waybill' = [waybill EXCEPT ![o] = TRUE]
     /\ staff' = [staff EXCEPT ![w] = Idle]
     /\ UNCHANGED <<numbers, status, bookings, hook, answered, crashes>>

MarkAsShipped(w) == Transition(w, "shipped", "shipped")

\* Whatever the courier has reported by now is overwritten.
MarkInTransit(w) ==
  LET o == staff[w].order
  IN /\ staff[w].at = "shipped"
     /\ shipment' = [shipment EXCEPT ![o] = IF @ = "none" THEN @ ELSE "in_transit"]
     /\ staff' = [staff EXCEPT ![w] = Idle]
     /\ UNCHANGED <<numbers, status, waybill, bookings, hook, answered, crashes>>

\* The shipment's form: status and waybill become what staff have left in it.
OpenForm(w, o) ==
  /\ staff[w].at = "idle" /\ shipment[o] # "none"
  /\ staff' = [staff EXCEPT ![w] = [Idle EXCEPT !.at = "form", !.order = o]]
  /\ UNCHANGED <<numbers, status, parcels, hook, answered, crashes>>
SubmitForm(w) ==
  LET o == staff[w].order
  IN /\ staff[w].at = "form"
     /\ \E s \in Entries : shipment' = [shipment EXCEPT ![o] = s]
     /\ \E filled \in BOOLEAN : waybill' = [waybill EXCEPT ![o] = filled]
     /\ staff' = [staff EXCEPT ![w] = Idle]
     /\ UNCHANGED <<numbers, status, bookings, hook, answered, crashes>>

-----------------------------------------------------------------------------
(* courier_webhook: reports come late, twice and in any order *)

ReadReport(h, o, report) ==
  /\ hook[h].at = "idle" /\ waybill[o]
  /\ hook' = [hook EXCEPT ![h] = [at |-> "read", order |-> o, seen |-> status[o],
                                  ship |-> shipment[o], report |-> report]]
  /\ UNCHANGED <<numbers, status, parcels, staff, answered, crashes>>

SaveReport(h) ==
  LET o == hook[h].order
  IN /\ hook[h].at = "read"
     /\ shipment' = [shipment EXCEPT ![o] = IF hook[h].ship # hook[h].report THEN hook[h].report ELSE @]
     /\ hook' = [hook EXCEPT ![h].at = "saved"]
     /\ UNCHANGED <<numbers, status, waybill, bookings, staff, answered, crashes>>

\* Mutant of AdvancesOrder: only a report that changed the shipment does.
AdvancesOrderOnChange(d) ==
  d.report = "delivered" /\ d.seen # "delivered" /\ d.ship # d.report
AdvancesOrder(d) == d.report = "delivered" /\ d.seen # "delivered"

\* The order follows a delivered parcel; a transition that is not legal any more
\* is logged, and the courier is answered 200 all the same.
AnswerReport(h) ==
  LET d == hook[h]
  IN /\ d.at = "saved"
     /\ status' = [status EXCEPT ![d.order] =
          IF AdvancesOrder(d) /\ MayBecome(d.order, d.seen, "delivered") THEN "delivered" ELSE @]
     /\ answered' = [answered EXCEPT ![d.order] =
          @ \/ (d.report = "delivered" /\ d.seen \in {"shipped", "delivered"})]
     /\ hook' = [hook EXCEPT ![h] = NoHook]
     /\ UNCHANGED <<numbers, parcels, staff, crashes>>

Crash ==
  /\ crashes < MaxCrashes /\ crashes' = crashes + 1
  /\ \/ \E w \in Staff : staff[w] # Idle /\ staff' = [staff EXCEPT ![w] = Idle] /\ UNCHANGED hook
     \/ \E h \in Hooks : hook[h] # NoHook /\ hook' = [hook EXCEPT ![h] = NoHook] /\ UNCHANGED staff
  /\ UNCHANGED <<numbers, status, parcels, answered>>

-----------------------------------------------------------------------------
Console(w) ==
  \/ \E o \in Orders : Select(w, o) \/ OpenForm(w, o)
  \/ MarkAsCancelled(w) \/ MarkAsRefunded(w) \/ SaveOrder(w) \/ Refused(w)
  \/ MarkAsPacked(w) \/ GetOrCreateShipment(w) \/ BookShipment(w) \/ SaveBooking(w)
  \/ MarkAsShipped(w) \/ MarkInTransit(w) \/ SubmitForm(w)

LifecycleNext ==
  \/ \E o \in Orders : MintNumber(o) \/ CreateOrder(o) \/ RollBackOrder(o) \/ Pay(o)
  \/ \E w \in Staff : Console(w)
  \/ \E h \in Hooks, o \in Orders, report \in Reports : ReadReport(h, o, report)
  \/ \E h \in Hooks : SaveReport(h) \/ AnswerReport(h)
  \/ Crash

LifecycleSpec == LifecycleInit /\ [][LifecycleNext]_lifecycleVars

-----------------------------------------------------------------------------
(* Properties *)

\* No order number is given twice and none is burnt: whatever checkouts overlap,
\* fail or die, the numbers of the orders are the first ones of the year.
NumbersAreDense ==
  /\ {orderNo[o] : o \in Orders} \ {0} = 1..last
  /\ Cardinality({o \in Orders : orderNo[o] # 0}) = last

\* An order only ever follows an edge of ALLOWED_TRANSITIONS, although instances
\* loaded before another worker's transition are saved and transitioned after it
\* (Hard Invariant 5).
OnlyLegalEdges ==
  [][\A o \in Orders : status[o] \notin {"none", status'[o]} =>
       status'[o] \in Allowed[status[o]]]_lifecycleVars

\* The courier is asked for one parcel per order, however many staff pack it at
\* once and whatever the courier has already reported.
BookedOnce == \A o \in Orders : bookings[o] <= 1

\* The webhook answers 200 to a delivered report of a shipped order only when the
\* order is delivered (or refunded since): the courier will not report it again,
\* and a first delivery of the report that died half way does not hide it.
AnsweredDeliveryCounts ==
  \A o \in Orders : answered[o] => status[o] \in {"delivered", "refunded"}
=============================================================================
