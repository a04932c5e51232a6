------------------------- MODULE OrderLifecycleProofs -------------------------
(***************************************************************************)
(* Order numbers, the status graph, the courier's parcel and its webhook,    *)
(* for any number of orders, staff requests, webhook deliveries and crashes. *)
(***************************************************************************)
EXTENDS OrderLifecycle, FiniteSetTheorems, TLAPS

\* A request or a delivery that is under way works on an order.
Working ==
  /\ \A w \in Staff : staff[w].at # "idle" => staff[w].order \in Orders
  /\ \A h \in Hooks : hook[h].at # "idle" => hook[h].order \in Orders

\* The statuses and what the graph allows from each, in the form proofs cite
LEMMA StatusNames ==
  /\ OrderStatus = {"none", "pending", "paid", "packed", "shipped", "delivered", "cancelled",
                    "refunded"}
  /\ \A s \in OrderStatus :
       /\ Allowed[s] \subseteq OrderStatus \ {"none", "pending"}
       /\ s \in {"none", "cancelled", "refunded"} => Allowed[s] = {}
       /\ s = "paid" => Allowed[s] = {"packed", "refunded"}
       /\ s = "packed" => Allowed[s] = {"shipped", "refunded"}
       /\ s = "shipped" => Allowed[s] = {"delivered", "refunded"}
       /\ s = "delivered" => Allowed[s] = {"refunded"}
       /\ s = "pending" => Allowed[s] = {"paid", "cancelled"}
BY DEF OrderStatus, Allowed

\* An idle request and an idle delivery are of their types.
LEMMA IdleTypes == Idle \in Request /\ NoHook \in Delivery
BY StatusNames DEF Idle, NoHook, Request, Delivery, ShipmentStatus

\* The records a request is given when it loads an order or its shipment.
LEMMA Loaded ==
  ASSUME NEW o, NEW s, NEW row
  PROVE  /\ [Idle EXCEPT !.at = "selected", !.order = o, !.seen = s]
              \in [at : {"selected"}, order : {o}, seen : {s}, ship : {"none"}]
         /\ [Idle EXCEPT !.at = "loaded", !.order = o, !.ship = row]
              \in [at : {"loaded"}, order : {o}, seen : {"none"}, ship : {row}]
         /\ [Idle EXCEPT !.at = "form", !.order = o]
              \in [at : {"form"}, order : {o}, seen : {"none"}, ship : {"none"}]
         /\ [Idle EXCEPT !.at = "booked", !.order = o]
              \in [at : {"booked"}, order : {o}, seen : {"none"}, ship : {"none"}]
BY DEF Idle

\* The types hold initially.
LEMMA TypesAtStart == LifecycleInit => LifecycleTypeOK /\ Working
BY LifecycleAssumption, StatusNames, IdleTypes
   DEF LifecycleInit, LifecycleTypeOK, Working, Idle, NoHook, ShipmentStatus

\* A console transition, whatever its target, keeps the types: the status it
\* writes is one of the graph's.
LEMMA TransitionTypes ==
  ASSUME LifecycleTypeOK, Working, NEW w \in Staff, NEW target \in OrderStatus,
         NEW step \in {"idle", "packed", "shipped"}, Transition(w, target, step)
  PROVE  LifecycleTypeOK' /\ Working'
<1> USE DEF LifecycleTypeOK, Working
<1>1. staff' = [staff EXCEPT ![w] = IF step = "idle" THEN Idle ELSE [staff[w] EXCEPT !.at = step]]
  BY DEF Transition
<1>2. staff[w] \in Request /\ staff[w].order \in Orders
  BY DEF Transition
<1>3. [staff[w] EXCEPT !.at = step] \in Request
  BY <1>2 DEF Request
<1>4. staff' \in [Staff -> Request]
  BY <1>1, <1>3, IdleTypes
<1>5. \A v \in Staff : staff'[v].at # "idle" => staff'[v].order \in Orders
  BY <1>1, <1>2 DEF Idle, Request
<1>6. status' \in [Orders -> OrderStatus]
  BY DEF Transition
<1>7. UNCHANGED <<last, minted, orderNo, shipment, waybill, bookings, hook, answered, crashes>>
  BY DEF Transition, numbers, parcels
<1>8. QED
  BY <1>4, <1>5, <1>6, <1>7

\* A staff member's step keeps the types.
LEMMA ConsoleTypes ==
  ASSUME LifecycleTypeOK, Working, NEW w \in Staff, Console(w)
  PROVE  LifecycleTypeOK' /\ Working'
<1> USE DEF LifecycleTypeOK, Working, numbers, parcels
<1>1. ASSUME NEW o \in Orders, Select(w, o) PROVE LifecycleTypeOK' /\ Working'
  <2>1. PICK r \in [at : {"selected"}, order : {o}, seen : {status[o]}, ship : {"none"}] :
          staff' = [staff EXCEPT ![w] = r]
    BY <1>1, Loaded DEF Select
  <2>2. r \in Request /\ r.order \in Orders
    BY <2>1, StatusNames DEF Request, ShipmentStatus
  <2>3. staff' \in [Staff -> Request]
        /\ \A v \in Staff : staff'[v].at # "idle" => staff'[v].order \in Orders
    BY <2>1, <2>2
  <2>4. QED
    BY <1>1, <2>3 DEF Select
<1>2. ASSUME NEW o \in Orders, OpenForm(w, o) PROVE LifecycleTypeOK' /\ Working'
  <2>1. PICK r \in [at : {"form"}, order : {o}, seen : {"none"}, ship : {"none"}] :
          staff' = [staff EXCEPT ![w] = r]
    BY <1>2, Loaded DEF OpenForm
  <2>2. r \in Request /\ r.order \in Orders
    BY <2>1, StatusNames DEF Request, ShipmentStatus
  <2>3. staff' \in [Staff -> Request]
        /\ \A v \in Staff : staff'[v].at # "idle" => staff'[v].order \in Orders
    BY <2>1, <2>2
  <2>4. QED
    BY <1>2, <2>3 DEF OpenForm
<1>3. CASE MarkAsCancelled(w)
  BY <1>3, StatusNames, TransitionTypes DEF MarkAsCancelled
<1>4. CASE MarkAsRefunded(w)
  BY <1>4, StatusNames, TransitionTypes DEF MarkAsRefunded
<1>5. CASE MarkAsPacked(w)
  BY <1>5, StatusNames, TransitionTypes DEF MarkAsPacked
<1>6. CASE MarkAsShipped(w)
  BY <1>6, StatusNames, TransitionTypes DEF MarkAsShipped
<1>7. CASE SaveOrder(w)
  BY <1>7, IdleTypes DEF SaveOrder, Idle, Request
<1>8. CASE Refused(w)
  BY <1>8, IdleTypes DEF Refused, Idle
<1>9. CASE GetOrCreateShipment(w)
  <2> DEFINE o == staff[w].order
             row == IF shipment[o] = "none" THEN "pending" ELSE shipment[o]
  <2>1. o \in Orders
    BY <1>9 DEF GetOrCreateShipment
  <2>2. row \in ShipmentStatus
    BY <2>1 DEF ShipmentStatus
  <2>3. shipment' = [shipment EXCEPT ![o] = row]
    BY <1>9 DEF GetOrCreateShipment
  <2>4. PICK r \in [at : {"loaded"}, order : {o}, seen : {"none"}, ship : {row}] :
          staff' = [staff EXCEPT ![w] = r]
    BY <1>9, Loaded DEF GetOrCreateShipment
  <2> HIDE DEF o, row
  <2>5. shipment' \in [Orders -> ShipmentStatus]
    BY <2>1, <2>2, <2>3
  <2>6. r \in Request /\ r.order \in Orders
    BY <2>1, <2>2, StatusNames DEF Request
  <2>7. staff' \in [Staff -> Request]
        /\ \A v \in Staff : staff'[v].at # "idle" => staff'[v].order \in Orders
    BY <2>4, <2>6
  <2>8. UNCHANGED <<last, minted, orderNo, status, waybill, bookings, hook, answered, crashes>>
    BY <1>9 DEF GetOrCreateShipment
  <2>9. QED
    BY <2>5, <2>7, <2>8
<1>10. CASE BookShipment(w)
  <2>1. staff[w].order \in Orders
    BY <1>10 DEF BookShipment
  <2>2. staff' = [staff EXCEPT ![w] = Idle]
        \/ \E r \in [at : {"booked"}, order : {staff[w].order}, seen : {"none"}, ship : {"none"}] :
             staff' = [staff EXCEPT ![w] = r]
    BY <1>10, Loaded DEF BookShipment
  <2>3. staff' \in [Staff -> Request]
    BY <2>1, <2>2, IdleTypes, StatusNames DEF Request, ShipmentStatus
  <2>4. \A v \in Staff : staff'[v].at # "idle" => staff'[v].order \in Orders
    BY <2>1, <2>2 DEF Idle
  <2>5. bookings' \in [Orders -> Nat]
    BY <1>10, <2>1 DEF BookShipment
  <2>6. QED
    BY <1>10, <2>3, <2>4, <2>5 DEF BookShipment
<1>11. CASE SaveBooking(w)
  BY <1>11, IdleTypes DEF SaveBooking, Idle, ShipmentStatus
<1>12. CASE MarkInTransit(w)
  BY <1>12, IdleTypes DEF MarkInTransit, Idle, ShipmentStatus
<1>13. CASE SubmitForm(w)
  BY <1>13, IdleTypes, LifecycleAssumption DEF SubmitForm, Idle, Request, ShipmentStatus
<1>14. QED
  BY <1>1, <1>2, <1>3, <1>4, <1>5, <1>6, <1>7, <1>8, <1>9, <1>10, <1>11, <1>12, <1>13 DEF Console

\* A step of any worker keeps the types, and works on an order.
LEMMA TypesInductive ==
  ASSUME LifecycleTypeOK, Working, [LifecycleNext]_lifecycleVars
  PROVE  LifecycleTypeOK' /\ Working'
<1> USE DEF LifecycleTypeOK, Working, numbers, parcels
<1>1. ASSUME NEW o \in Orders, MintNumber(o) PROVE LifecycleTypeOK' /\ Working'
  BY <1>1, LifecycleAssumption DEF MintNumber, NumbersLeft
<1>2. ASSUME NEW o \in Orders, CreateOrder(o) PROVE LifecycleTypeOK' /\ Working'
  BY <1>2, LifecycleAssumption, StatusNames DEF CreateOrder
<1>3. ASSUME NEW o \in Orders, RollBackOrder(o) PROVE LifecycleTypeOK' /\ Working'
  BY <1>3, LifecycleAssumption DEF RollBackOrder
<1>4. ASSUME NEW o \in Orders, Pay(o) PROVE LifecycleTypeOK' /\ Working'
  BY <1>4, StatusNames DEF Pay
<1>5. ASSUME NEW w \in Staff, Console(w) PROVE LifecycleTypeOK' /\ Working'
  BY <1>5, ConsoleTypes
<1>6. ASSUME NEW h \in Hooks, NEW o \in Orders, NEW report \in Reports, ReadReport(h, o, report)
      PROVE  LifecycleTypeOK' /\ Working'
  BY <1>6 DEF ReadReport, Delivery
<1>7. ASSUME NEW h \in Hooks, SaveReport(h) PROVE LifecycleTypeOK' /\ Working'
  <2>1. hook' = [hook EXCEPT ![h].at = "saved"] /\ hook[h].order \in Orders
    BY <1>7 DEF SaveReport
  <2>2. shipment' \in [Orders -> ShipmentStatus]
    BY <1>7, LifecycleAssumption DEF SaveReport, Delivery, ShipmentStatus
  <2>3. QED
    BY <1>7, <2>1, <2>2 DEF SaveReport, Delivery
<1>8. ASSUME NEW h \in Hooks, AnswerReport(h) PROVE LifecycleTypeOK' /\ Working'
  <2>1. hook' = [hook EXCEPT ![h] = NoHook]
    BY <1>8 DEF AnswerReport
  <2>2. status' \in [Orders -> OrderStatus] /\ answered' \in [Orders -> BOOLEAN]
    BY <1>8, StatusNames DEF AnswerReport
  <2>3. QED
    BY <1>8, <2>1, <2>2, IdleTypes DEF AnswerReport, NoHook
<1>9. CASE Crash
  <2>1. staff' \in [Staff -> Request] /\ hook' \in [Hooks -> Delivery] /\ Working'
    BY <1>9, IdleTypes DEF Crash, Idle, NoHook
  <2>2. crashes' \in 0..MaxCrashes
    BY <1>9, LifecycleAssumption DEF Crash
  <2>3. QED
    BY <1>9, <2>1, <2>2 DEF Crash
<1>10. CASE UNCHANGED lifecycleVars
  BY <1>10 DEF lifecycleVars
<1>11. QED
  BY <1>1, <1>2, <1>3, <1>4, <1>5, <1>6, <1>7, <1>8, <1>9, <1>10 DEF LifecycleNext

\* Every variable keeps its type: no number is past the last of the year, and no
\* status or shipment status is outside its table.
THEOREM LifecycleTypeCorrect == LifecycleSpec => []LifecycleTypeOK
<1>1. LifecycleInit => LifecycleTypeOK /\ Working
  BY TypesAtStart
<1>2. LifecycleTypeOK /\ Working /\ [LifecycleNext]_lifecycleVars => (LifecycleTypeOK /\ Working)'
  BY TypesInductive
<1>3. QED
  BY <1>1, <1>2, PTL DEF LifecycleSpec

-----------------------------------------------------------------------------
(* The status graph *)

\* Whoever moves, an order's status stays, follows an edge of the graph, or
\* begins at "pending" with the checkout that holds a number; and an order keeps
\* its number and gets one only then.
StatusMoves ==
  \A o \in Orders :
    \/ /\ status'[o] = status[o] \/ status'[o] \in Allowed[status[o]]
       /\ orderNo'[o] = orderNo[o]
    \/ /\ minted[o] # 0 /\ status'[o] = "pending"
       /\ last' = minted[o]

\* A console transition moves a status along the graph or not at all.
LEMMA TransitionMoves ==
  ASSUME LifecycleTypeOK, NEW w \in Staff, NEW target, NEW step, Transition(w, target, step)
  PROVE  StatusMoves
BY DEF Transition, MayBecome, StatusMoves, LifecycleTypeOK, numbers

\* So does every step.
LEMMA StepMoves ==
  ASSUME LifecycleTypeOK, [LifecycleNext]_lifecycleVars
  PROVE  StatusMoves
<1> USE DEF LifecycleTypeOK, StatusMoves, numbers
<1>1. ASSUME NEW o \in Orders, MintNumber(o) PROVE StatusMoves
  BY <1>1 DEF MintNumber
<1>2. ASSUME NEW o \in Orders, CreateOrder(o) PROVE StatusMoves
  BY <1>2 DEF CreateOrder
<1>3. ASSUME NEW o \in Orders, RollBackOrder(o) PROVE StatusMoves
  BY <1>3 DEF RollBackOrder
<1>4. ASSUME NEW o \in Orders, Pay(o) PROVE StatusMoves
  BY <1>4 DEF Pay, MayBecome
<1>5. ASSUME NEW w \in Staff, Console(w) PROVE StatusMoves
  <2>1. CASE MarkAsCancelled(w) \/ MarkAsRefunded(w) \/ MarkAsPacked(w) \/ MarkAsShipped(w)
    BY <2>1, TransitionMoves
       DEF MarkAsCancelled, MarkAsRefunded, MarkAsPacked, MarkAsShipped
  <2>2. CASE SaveOrder(w)
    BY <2>2 DEF SaveOrder, MaySave
  <2>3. CASE UNCHANGED <<numbers, status>>
    BY <2>3
  <2>4. QED
    BY <1>5, <2>1, <2>2, <2>3 DEF Console, Select, OpenForm, Refused, GetOrCreateShipment,
       BookShipment, SaveBooking, MarkInTransit, SubmitForm
<1>6. ASSUME NEW h \in Hooks, AnswerReport(h) PROVE StatusMoves
  BY <1>6 DEF AnswerReport, MayBecome
<1>7. CASE UNCHANGED <<numbers, status>>
  BY <1>7
<1>8. QED
  BY <1>1, <1>2, <1>3, <1>4, <1>5, <1>6, <1>7
     DEF LifecycleNext, ReadReport, SaveReport, Crash, lifecycleVars

-----------------------------------------------------------------------------
(* The number sequence *)

\* A number is open in at most one checkout, is the one after the last that was
\* given, and belongs to no order yet.
OneNumberOpen ==
  \A o \in Orders :
    /\ minted[o] # 0 => minted[o] = last + 1 /\ status[o] = "none"
    /\ status[o] = "none" => orderNo[o] = 0
    /\ \A p \in Orders : minted[o] # 0 /\ minted[p] # 0 => o = p

Numbered == {o \in Orders : orderNo[o] # 0}

NumbersInv == OneNumberOpen /\ NumbersAreDense /\ IsFiniteSet(Numbered)

\* A number is given out to one order at a time.
LEMMA OpenNumberInductive ==
  ASSUME LifecycleTypeOK, OneNumberOpen, [LifecycleNext]_lifecycleVars
  PROVE  OneNumberOpen'
<1> USE DEF LifecycleTypeOK, OneNumberOpen, numbers
<1>1. ASSUME NEW o \in Orders, MintNumber(o) PROVE OneNumberOpen'
  BY <1>1 DEF MintNumber, SequenceFree
<1>2. ASSUME NEW o \in Orders, CreateOrder(o) PROVE OneNumberOpen'
  <2>1. \A p \in Orders : p # o => minted[p] = 0
    BY <1>2 DEF CreateOrder
  <2>2. QED
    BY <1>2, <2>1 DEF CreateOrder
<1>3. ASSUME NEW o \in Orders, RollBackOrder(o) PROVE OneNumberOpen'
  BY <1>3 DEF RollBackOrder
<1>4. CASE UNCHANGED numbers
  <2>1. \A o \in Orders : minted[o] # 0 => status'[o] = "none"
    BY <1>4, StepMoves, StatusNames DEF StatusMoves
  <2>2. QED
    BY <1>4, <2>1, StepMoves, StatusNames DEF StatusMoves
<1>5. QED
  BY <1>1, <1>2, <1>3, <1>4
     DEF LifecycleNext, Pay, Console, Select, OpenForm, MarkAsCancelled, MarkAsRefunded,
         MarkAsPacked, MarkAsShipped, Transition, SaveOrder, Refused, GetOrCreateShipment,
         BookShipment, SaveBooking, MarkInTransit, SubmitForm, ReadReport, SaveReport,
         AnswerReport, Crash, lifecycleVars

\* The number a checkout brings is the next one, whether it comes first or last.
LEMMA DenseInductive ==
  ASSUME LifecycleTypeOK, NumbersInv, [LifecycleNext]_lifecycleVars
  PROVE  NumbersAreDense' /\ IsFiniteSet(Numbered)'
<1> USE DEF NumbersInv
<1>1. ASSUME NEW o \in Orders, CreateOrder(o) PROVE NumbersAreDense' /\ IsFiniteSet(Numbered)'
  <2>1. /\ minted[o] = last + 1 /\ orderNo[o] = 0 /\ last \in Nat
        /\ last' = last + 1 /\ orderNo' = [orderNo EXCEPT ![o] = last + 1]
    <3>1. minted[o] = last + 1 /\ status[o] = "none" /\ orderNo[o] = 0
      BY <1>1 DEF CreateOrder, OneNumberOpen
    <3>2. last \in Nat
      BY LifecycleAssumption DEF LifecycleTypeOK
    <3>3. QED
      BY <1>1, <3>1, <3>2 DEF CreateOrder
  <2>2. Numbered' = Numbered \cup {o} /\ o \notin Numbered
    BY <2>1 DEF Numbered, LifecycleTypeOK
  <2>3. IsFiniteSet(Numbered)' /\ Cardinality(Numbered)' = Cardinality(Numbered) + 1
    BY <2>2, FS_AddElement
  <2>4. Cardinality(Numbered) = last
    BY DEF NumbersAreDense, Numbered
  <2>5. {orderNo[q] : q \in Orders} \ {0} = 1..last
    BY DEF NumbersAreDense
  <2>6. {orderNo'[q] : q \in Orders} \ {0} = ({orderNo[q] : q \in Orders} \ {0}) \cup {last + 1}
    BY <2>1 DEF LifecycleTypeOK
  <2>7. {orderNo'[q] : q \in Orders} \ {0} = 1..last'
    BY <2>1, <2>5, <2>6
  <2>8. Cardinality({q \in Orders : orderNo'[q] # 0}) = last'
    BY <2>1, <2>3, <2>4 DEF Numbered
  <2>9. QED
    BY <2>3, <2>7, <2>8 DEF NumbersAreDense
<1>2. CASE UNCHANGED <<last, orderNo>>
  BY <1>2 DEF NumbersAreDense, Numbered
<1>3. QED
  BY <1>1, <1>2
     DEF LifecycleNext, MintNumber, RollBackOrder, Pay, Console, Select, OpenForm,
         MarkAsCancelled, MarkAsRefunded, MarkAsPacked, MarkAsShipped, Transition, SaveOrder,
         Refused, GetOrCreateShipment, BookShipment, SaveBooking, MarkInTransit, SubmitForm,
         ReadReport, SaveReport, AnswerReport, Crash, lifecycleVars, numbers

\* No number is taken initially.
LEMMA NumbersAtStart == LifecycleInit => NumbersInv
<1> SUFFICES ASSUME LifecycleInit PROVE NumbersInv
  OBVIOUS
<1> USE DEF LifecycleInit
<1>1. Numbered = {}
  BY DEF Numbered
<1>2. IsFiniteSet(Numbered) /\ Cardinality({o \in Orders : orderNo[o] # 0}) = last
  BY <1>1, FS_EmptySet DEF Numbered
<1>3. {orderNo[o] : o \in Orders} \ {0} = 1..last
  OBVIOUS
<1>4. QED
  BY <1>2, <1>3 DEF NumbersInv, OneNumberOpen, NumbersAreDense

\* The sequence is dense for any number of checkouts that overlap, roll back and
\* die: the orders' numbers are 1..last, and as many orders have one.
THEOREM NumbersStayDense == LifecycleSpec => []NumbersAreDense
<1>1. LifecycleInit => LifecycleTypeOK /\ Working /\ NumbersInv
  BY TypesAtStart, NumbersAtStart
<1>2. LifecycleTypeOK /\ Working /\ NumbersInv /\ [LifecycleNext]_lifecycleVars
        => (LifecycleTypeOK /\ Working /\ NumbersInv)'
  BY TypesInductive, OpenNumberInductive, DenseInductive DEF NumbersInv
<1>3. NumbersInv => NumbersAreDense
  BY DEF NumbersInv
<1>4. QED
  BY <1>1, <1>2, <1>3, PTL DEF LifecycleSpec

\* No order leaves the status graph, whatever instances loaded earlier are saved
\* and transitioned: the step that is not an edge is a checkout's, whose order
\* has no status yet.
THEOREM EdgesAreLegal == LifecycleSpec => OnlyLegalEdges
<1>1. LifecycleInit => LifecycleTypeOK /\ Working /\ OneNumberOpen
  BY TypesAtStart, NumbersAtStart DEF NumbersInv
<1>2. LifecycleTypeOK /\ Working /\ OneNumberOpen /\ [LifecycleNext]_lifecycleVars
        => (LifecycleTypeOK /\ Working /\ OneNumberOpen)'
  BY TypesInductive, OpenNumberInductive
<1>3. LifecycleTypeOK /\ OneNumberOpen /\ [LifecycleNext]_lifecycleVars
        => \A o \in Orders : status[o] \notin {"none", status'[o]} => status'[o] \in Allowed[status[o]]
  BY StepMoves DEF StatusMoves, OneNumberOpen
<1>4. QED
  BY <1>1, <1>2, <1>3, PTL DEF LifecycleSpec, OnlyLegalEdges

-----------------------------------------------------------------------------
(* The parcel *)

\* A request that has packed an order and not yet asked the courier
Packing(w) == staff[w].at \in {"packed", "loaded"}
Early == {"none", "pending", "paid", "cancelled"}

\* Packing is a transition, so one request makes it, once; until it has asked,
\* nobody has.
ParcelInv ==
  /\ \A o \in Orders : status[o] \in Early => bookings[o] = 0
  /\ \A w \in Staff : Packing(w) =>
       status[staff[w].order] \notin Early /\ bookings[staff[w].order] = 0
  /\ \A w, v \in Staff :
       Packing(w) /\ Packing(v) /\ staff[w].order = staff[v].order => w = v
  /\ BookedOnce

\* No step leads from a late status back to an early one.
LEMMA LateStaysLate ==
  ASSUME LifecycleTypeOK, OneNumberOpen, [LifecycleNext]_lifecycleVars, NEW o \in Orders
  PROVE  status'[o] \in Early => status[o] \in Early
BY StepMoves, StatusNames DEF StatusMoves, OneNumberOpen, Early, LifecycleTypeOK

\* No step books a second parcel for an order.
LEMMA ParcelInductive ==
  ASSUME LifecycleTypeOK, Working, OneNumberOpen, ParcelInv, [LifecycleNext]_lifecycleVars
  PROVE  ParcelInv'
<1> USE DEF LifecycleTypeOK, ParcelInv, Packing, BookedOnce, parcels
<1>1. ASSUME NEW w \in Staff, MarkAsPacked(w) PROVE ParcelInv'
  <2> DEFINE o == staff[w].order
  <2>1. o \in Orders /\ status[o] = "paid" /\ status' = [status EXCEPT ![o] = "packed"]
    BY <1>1, StatusNames DEF MarkAsPacked, Transition, MayBecome, Working
  <2>2. bookings' = bookings /\ staff' = [staff EXCEPT ![w] = [staff[w] EXCEPT !.at = "packed"]]
    BY <1>1 DEF MarkAsPacked, Transition
  <2>3. staff'[w].at = "packed" /\ staff'[w].order = o
    BY <2>2 DEF Request
  <2>4. \A v \in Staff : v # w => staff'[v] = staff[v]
    BY <2>2
  <2>5. \A v \in Staff : Packing(v) => staff[v].order # o
    BY <2>1 DEF Early
  <2>6. \A q \in Orders : status'[q] \in Early => status[q] \in Early
    BY <2>1 DEF Early
  <2>7. \A v \in Staff : Packing(v)' => staff'[v].order \in Orders
    BY <2>1, <2>3, <2>4 DEF Working
  <2> HIDE DEF o
  <2>8. \A v \in Staff : Packing(v)' => status'[staff'[v].order] \notin Early
                                        /\ bookings'[staff'[v].order] = 0
    BY <2>1, <2>2, <2>3, <2>4, <2>6, <2>7 DEF Early
  <2>9. QED
    BY <2>2, <2>3, <2>4, <2>5, <2>6, <2>8
<1>2. ASSUME NEW w \in Staff, BookShipment(w) PROVE ParcelInv'
  <2> DEFINE o == staff[w].order
  <2>1. o \in Orders /\ Packing(w) /\ bookings[o] = 0 /\ status[o] \notin Early
    BY <1>2 DEF BookShipment, Working
  <2>2. status' = status /\ (bookings' = bookings \/ bookings' = [bookings EXCEPT ![o] = 1])
    BY <1>2, <2>1 DEF BookShipment
  <2>3. \A v \in Staff : Packing(v)' => v # w /\ staff'[v] = staff[v] /\ staff[v].order # o
    <3>1. \/ staff' = [staff EXCEPT ![w] = Idle]
          \/ \E r \in [at : {"booked"}, order : {o}, seen : {"none"}, ship : {"none"}] :
               staff' = [staff EXCEPT ![w] = r]
      BY <1>2, Loaded DEF BookShipment
    <3>2. QED
      BY <2>1, <3>1 DEF Idle
  <2>4. \A v \in Staff : Packing(v) => staff[v].order \in Orders
    BY DEF Working
  <2> HIDE DEF o
  <2>5. \A v \in Staff : Packing(v)' => status'[staff'[v].order] \notin Early
                                        /\ bookings'[staff'[v].order] = 0
    BY <2>1, <2>2, <2>3, <2>4
  <2>6. \A q \in Orders : /\ status'[q] \in Early => bookings'[q] = 0
                          /\ bookings'[q] <= 1
    BY <2>1, <2>2
  <2>7. QED
    BY <2>3, <2>5, <2>6
<1>3. ASSUME UNCHANGED bookings,
             \A v \in Staff : Packing(v)' => Packing(v) /\ staff'[v].order = staff[v].order
      PROVE  ParcelInv'
  <2>1. \A o \in Orders : status'[o] \in Early => status[o] \in Early
    BY LateStaysLate
  <2>2. \A v \in Staff : Packing(v) => staff[v].order \in Orders
    BY DEF Working
  <2>3. QED
    BY <1>3, <2>1, <2>2
<1>4. ASSUME NEW w \in Staff, Console(w) PROVE ParcelInv'
  <2>1. CASE MarkAsCancelled(w) \/ MarkAsRefunded(w) \/ MarkAsShipped(w)
    <3>1. \A v \in Staff : Packing(v)' => Packing(v) /\ staff'[v] = staff[v]
      BY <2>1 DEF MarkAsCancelled, MarkAsRefunded, MarkAsShipped, Transition, Idle, Request
    <3>2. QED
      BY <1>3, <2>1, <3>1 DEF MarkAsCancelled, MarkAsRefunded, MarkAsShipped, Transition
  <2>2. ASSUME NEW o \in Orders, Select(w, o) \/ OpenForm(w, o) PROVE ParcelInv'
    <3>1. \A v \in Staff : Packing(v)' => Packing(v) /\ staff'[v] = staff[v]
      <4>1. CASE Select(w, o)
        <5>1. PICK r \in [at : {"selected"}, order : {o}, seen : {status[o]}, ship : {"none"}] :
                staff' = [staff EXCEPT ![w] = r]
          BY <4>1, Loaded DEF Select
        <5>2. QED
          BY <5>1
      <4>2. CASE OpenForm(w, o)
        <5>1. PICK r \in [at : {"form"}, order : {o}, seen : {"none"}, ship : {"none"}] :
                staff' = [staff EXCEPT ![w] = r]
          BY <4>2, Loaded DEF OpenForm
        <5>2. QED
          BY <5>1
      <4>3. QED
        BY <2>2, <4>1, <4>2
    <3>2. QED
      BY <1>3, <2>2, <3>1 DEF Select, OpenForm
  <2>3. CASE SaveOrder(w) \/ Refused(w) \/ SaveBooking(w) \/ MarkInTransit(w) \/ SubmitForm(w)
    <3>1. \A v \in Staff : Packing(v)' => Packing(v) /\ staff'[v] = staff[v]
      BY <2>3 DEF SaveOrder, Refused, SaveBooking, MarkInTransit, SubmitForm, Idle
    <3>2. QED
      BY <1>3, <2>3, <3>1 DEF SaveOrder, Refused, SaveBooking, MarkInTransit, SubmitForm
  <2>4. CASE GetOrCreateShipment(w)
    <3>1. \A v \in Staff : Packing(v)' => Packing(v) /\ staff'[v].order = staff[v].order
      <4> DEFINE o == staff[w].order
                 row == IF shipment[o] = "none" THEN "pending" ELSE shipment[o]
      <4>1. PICK r \in [at : {"loaded"}, order : {o}, seen : {"none"}, ship : {row}] :
              staff' = [staff EXCEPT ![w] = r]
        BY <2>4, Loaded DEF GetOrCreateShipment
      <4>2. QED
        BY <2>4, <4>1 DEF GetOrCreateShipment
    <3>2. QED
      BY <1>3, <2>4, <3>1 DEF GetOrCreateShipment
  <2>5. QED
    BY <1>1, <1>2, <1>4, <2>1, <2>2, <2>3, <2>4 DEF Console
<1>5. CASE Crash
  <2>1. \A v \in Staff : Packing(v)' => Packing(v) /\ staff'[v] = staff[v]
    BY <1>5 DEF Crash, Idle
  <2>2. QED
    BY <1>3, <1>5, <2>1 DEF Crash
<1>6. CASE UNCHANGED <<bookings, staff>>
  BY <1>3, <1>6
<1>7. QED
  BY <1>4, <1>5, <1>6
     DEF LifecycleNext, MintNumber, CreateOrder, RollBackOrder, Pay, ReadReport, SaveReport,
         AnswerReport, lifecycleVars

\* The courier issues at most one parcel per order, for any number of staff that
\* pack it at once, die, or open its form.
THEOREM OneParcel == LifecycleSpec => []BookedOnce
<1>1. LifecycleInit => LifecycleTypeOK /\ Working /\ OneNumberOpen /\ ParcelInv
  BY TypesAtStart, NumbersAtStart
     DEF NumbersInv, ParcelInv, Packing, BookedOnce, LifecycleInit, Idle
<1>2. LifecycleTypeOK /\ Working /\ OneNumberOpen /\ ParcelInv /\ [LifecycleNext]_lifecycleVars
        => (LifecycleTypeOK /\ Working /\ OneNumberOpen /\ ParcelInv)'
  BY TypesInductive, OpenNumberInductive, ParcelInductive
<1>3. ParcelInv => BookedOnce
  BY DEF ParcelInv
<1>4. QED
  BY <1>1, <1>2, <1>3, PTL DEF LifecycleSpec

-----------------------------------------------------------------------------
(* The courier's reports *)

Delivered == {"delivered", "refunded"}

\* What a delivery of the webhook has read of the order is out of date only in
\* one direction, and an answered report is one the order has followed.
ReportInv ==
  /\ \A h \in Hooks : hook[h].at # "idle" =>
       /\ hook[h].seen = "shipped" => status[hook[h].order] \in Delivered \cup {"shipped"}
       /\ hook[h].seen = "delivered" => status[hook[h].order] \in Delivered
  /\ AnsweredDeliveryCounts

\* A delivery that was answered stays counted.
LEMMA ReportInductive ==
  ASSUME LifecycleTypeOK, Working, OneNumberOpen, ReportInv, [LifecycleNext]_lifecycleVars
  PROVE  ReportInv'
<1> USE DEF LifecycleTypeOK, ReportInv, Delivered, AnsweredDeliveryCounts
<1>1. \A o \in Orders :
        /\ status[o] = "shipped" => status'[o] \in Delivered \cup {"shipped"}
        /\ status[o] \in Delivered => status'[o] \in Delivered
  BY StepMoves, StatusNames DEF StatusMoves, OneNumberOpen
<1>2. ASSUME NEW h \in Hooks, NEW o \in Orders, NEW report \in Reports, ReadReport(h, o, report)
      PROVE  ReportInv'
  BY <1>2 DEF ReadReport, Working
<1>3. ASSUME NEW h \in Hooks, SaveReport(h) PROVE ReportInv'
  BY <1>3 DEF SaveReport, Working
<1>4. ASSUME NEW h \in Hooks, AnswerReport(h) PROVE ReportInv'
  <2> DEFINE o == hook[h].order
  <2>1. o \in Orders
    BY <1>4 DEF AnswerReport, Working
  <2>2. \A g \in Hooks : hook'[g].at # "idle" =>
          hook'[g] = hook[g] /\ hook[g].at # "idle" /\ hook[g].order \in Orders
    BY <1>4 DEF AnswerReport, NoHook, Working
  <2>3. ASSUME hook[h].report = "delivered", hook[h].seen \in {"shipped", "delivered"}
        PROVE  status'[o] \in Delivered
    <3>1. CASE hook[h].seen = "delivered"
      BY <1>1, <1>4, <2>1, <3>1 DEF AnswerReport
    <3>2. CASE hook[h].seen = "shipped"
      <4>1. AdvancesOrder(hook[h])
        BY <2>3, <3>2 DEF AdvancesOrder
      <4>2. status[o] = "shipped" => status'[o] = "delivered"
        BY <1>4, <2>1, <4>1, StatusNames DEF AnswerReport, MayBecome
      <4>3. QED
        BY <1>1, <1>4, <2>1, <3>2, <4>2 DEF AnswerReport
    <3>3. QED
      BY <2>3, <3>1, <3>2
  <2>4. \A q \in Orders : answered'[q] => status'[q] \in Delivered
    BY <1>1, <1>4, <2>1, <2>3 DEF AnswerReport
  <2>5. QED
    BY <1>1, <2>2, <2>4
<1>5. CASE Crash
  BY <1>1, <1>5 DEF Crash, NoHook, Working
<1>6. CASE UNCHANGED <<hook, answered>>
  BY <1>1, <1>6 DEF Working
<1>7. QED
  BY <1>2, <1>3, <1>4, <1>5, <1>6
     DEF LifecycleNext, MintNumber, CreateOrder, RollBackOrder, Pay, Console, Select, OpenForm,
         MarkAsCancelled, MarkAsRefunded, MarkAsPacked, MarkAsShipped, Transition, SaveOrder,
         Refused, GetOrCreateShipment, BookShipment, SaveBooking, MarkInTransit, SubmitForm,
         lifecycleVars

\* No delivered report of a shipped order is answered 200 and lost, however
\* deliveries of it overlap, repeat and die.
THEOREM NoDeliveryLost == LifecycleSpec => []AnsweredDeliveryCounts
<1>1. LifecycleInit => LifecycleTypeOK /\ Working /\ OneNumberOpen /\ ReportInv
  BY TypesAtStart, NumbersAtStart
     DEF NumbersInv, ReportInv, AnsweredDeliveryCounts, LifecycleInit, NoHook
<1>2. LifecycleTypeOK /\ Working /\ OneNumberOpen /\ ReportInv /\ [LifecycleNext]_lifecycleVars
        => (LifecycleTypeOK /\ Working /\ OneNumberOpen /\ ReportInv)'
  BY TypesInductive, OpenNumberInductive, ReportInductive
<1>3. ReportInv => AnsweredDeliveryCounts
  BY DEF ReportInv
<1>4. QED
  BY <1>1, <1>2, <1>3, PTL DEF LifecycleSpec
===============================================================================
