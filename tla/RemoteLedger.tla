---------------------------- MODULE RemoteLedger ----------------------------
(***************************************************************************)
(* The stock ledger as a service of its own (services/inventory) behind an  *)
(* unreliable network, and the client Django calls it with                  *)
(* (apps/inventory/providers/service.py over apps/core/http.py).            *)
(*                                                                         *)
(* Every request is one transaction of the service, its idempotency claim   *)
(* included: the claim is the INSERT of a primary key, so a duplicate waits *)
(* for the first and then replays its answer, and an error rolls the claim  *)
(* back with the rest.  A client that stops waiting does not know whether   *)
(* its copy was executed; a copy the service has not executed yet may still *)
(* arrive later, after everything the client did next.                      *)
(*                                                                         *)
(* The rows and counters are StockLedger's, and so are its properties.      *)
(***************************************************************************)
EXTENDS StockLedger

CONSTANTS
  Threads,     \* the threads of one Django process that call the ledger
  OrderOf,     \* OrderOf[c]: the order a checkout becomes
  Lines,       \* Lines[o]: the items of an order, which a refund returns
  Attempts,    \* bound: attempts of a write policy
  Threshold,   \* bound: failures that open the breaker
  MaxLate,     \* bound: abandoned copies still on their way
  MaxAsks,     \* bound: calls made with one request
  StaffReasons,\* bound: the reasons staff correct with
  NoCall       \* a thread that is not in a call

\* place_order mints a checkout id of its own for every order.
ASSUME RemoteAssumption ==
  /\ OrderOf \in [Checkouts -> Orders]
  /\ Lines \in [Orders -> Carts]
  /\ \A c, d \in Checkouts : OrderOf[c] = OrderOf[d] => c = d
  /\ Attempts \in Nat \ {0} /\ Threshold \in Nat \ {0}
  /\ MaxLate \in Nat /\ MaxAsks \in Nat

VARIABLES
  commitKey,   \* commitKey[c]: the order recorded under the key c:commit
  releaseKey,  \* releaseKey[c]: the key c:release is recorded
  adjustKeys,  \* the adjustment payloads recorded; the payload is the key
  call,        \* call[t]: what thread t is doing
  told,        \* told[r]: how the last call with request r ended
  asked,       \* asked[r]: calls made with request r
  late,        \* late[r]: copies of r nobody waits for any more
  breaker,     \* the process's breaker for inventory.write
  failures     \* its count of consecutive failures

serverKeys == <<commitKey, releaseKey, adjustKeys>>
server == <<vars, serverKeys>>
client == <<call, told, asked, late, breaker, failures>>
remoteVars == <<server, client>>

ReserveRequest(c, cart) == [op |-> "reserve", c |-> c, cart |-> cart]
CommitRequest(c) == [op |-> "commit", c |-> c, o |-> OrderOf[c]]
ReleaseRequest(c) == [op |-> "release", c |-> c]
ReturnRequest(o, v) ==
  [op |-> "adjust", v |-> v, delta |-> Lines[o][v], reason |-> "return", o |-> o]
StaffRequest(v, delta, reason) ==
  [op |-> "adjust", v |-> v, delta |-> delta, reason |-> reason, o |-> NoOrder]

\* A checkout's cart is its order's lines.
CartOf(c) == Lines[OrderOf[c]]
Reserves == {ReserveRequest(c, CartOf(c)) : c \in Checkouts}
Commits == {CommitRequest(c) : c \in Checkouts}
Releases == {ReleaseRequest(c) : c \in Checkouts}
Returns == {ReturnRequest(o, v) : o \in Orders, v \in Variants}
Corrections == {StaffRequest(v, d, r) : v \in Variants, d \in Deltas, r \in StaffReasons}
Requests == Reserves \cup Commits \cup Releases \cup Returns \cup Corrections

Waiting(req, left, phase) == [req |-> req, left |-> left, phase |-> phase]
Calls == [req : Requests, left : 1..Attempts, phase : {"ready", "ok", "no"}]

RemoteTypeOK ==
  /\ TypeOK
  /\ commitKey \in [Checkouts -> Orders \cup {NoOrder}]
  /\ releaseKey \in [Checkouts -> BOOLEAN]
  /\ adjustKeys \subseteq Returns \cup Corrections
  /\ call \in [Threads -> Calls \cup {NoCall}]
  /\ told \in [Requests -> {"never", "ok", "no", "error"}]
  /\ asked \in [Requests -> 0..MaxAsks]
  /\ late \in [Requests -> Nat]
  /\ breaker \in {"closed", "open", "cooled"}
  /\ failures \in 0..Threshold

RemoteInit ==
  /\ Init
  /\ commitKey = [c \in Checkouts |-> NoOrder]
  /\ releaseKey = [c \in Checkouts |-> FALSE]
  /\ adjustKeys = {}
  /\ call = [t \in Threads |-> NoCall]
  /\ told = [r \in Requests |-> "never"]
  /\ asked = [r \in Requests |-> 0]
  /\ late = [r \in Requests |-> 0]
  /\ breaker = "closed"
  /\ failures = 0

-----------------------------------------------------------------------------
(* The service: one transaction per request *)

\* Mutant of Claimed: adjustments claim no key.
ClaimedButAdjustments(req) ==
  CASE req.op = "reserve" -> claim[req.c] # NoCart
    [] req.op = "commit" -> commitKey[req.c] # NoOrder
    [] req.op = "release" -> releaseKey[req.c]
    [] req.op = "adjust" -> FALSE
\* claim: the key of the request is taken, and by the same body.
Claimed(req) ==
  CASE req.op = "reserve" -> claim[req.c] # NoCart
    [] req.op = "commit" -> commitKey[req.c] # NoOrder
    [] req.op = "release" -> releaseKey[req.c]
    [] req.op = "adjust" -> req \in adjustKeys
SameBody(req) ==
  CASE req.op = "reserve" -> claim[req.c] = req.cart
    [] req.op = "commit" -> commitKey[req.c] = req.o
    [] OTHER -> TRUE

\* The holds of these rows end together, if the counter covers them.
EndRows(rows, status) ==
  LET units(v) == UNION {RowUnits(c, v) : c \in {d \in Checkouts : <<d, v>> \in rows}}
  IN /\ \A v \in Variants : Cardinality(units(v)) <= reserved[v]
     /\ reserved' = [v \in Variants |-> reserved[v] - Cardinality(units(v))]
     /\ hold' = [c \in Checkouts |-> [v \in Variants |->
          IF <<c, v>> \in rows THEN EndedRow(hold[c][v], status, NoOrder) ELSE hold[c][v]]]
     /\ UNCHANGED <<onHand, overdue, keys, movements, calls>>

\* create_reservations
CanReserve(req) == \A v \in Variants : req.cart[v] <= Available(v)
CreateReservations(req) ==
  /\ CanReserve(req)
  /\ PlaceRows(req.c, req.cart)
  /\ claim' = [claim EXCEPT ![req.c] = req.cart]
  /\ UNCHANGED serverKeys

\* Mutant of CommitReservations: a hold past its TTL is left out.
CommitReservationsFresh(req) ==
  /\ SellRows(req.c, IF overdue[req.c] THEN {} ELSE ActiveLines(req.c), req.o)
  /\ commitKey' = [commitKey EXCEPT ![req.c] = req.o]
  /\ UNCHANGED <<releaseKey, adjustKeys>>
\* commit_reservations: a group with nothing active commits zero.
CommitReservations(req) ==
  /\ SellRows(req.c, ActiveLines(req.c), req.o)
  /\ commitKey' = [commitKey EXCEPT ![req.c] = req.o]
  /\ UNCHANGED <<releaseKey, adjustKeys>>

\* release_reservations: an unknown checkout releases zero.
ReleaseReservations(req) ==
  /\ EndRows({req.c} \X ActiveLines(req.c), "released")
  /\ releaseKey' = [releaseKey EXCEPT ![req.c] = TRUE]
  /\ UNCHANGED <<commitKey, adjustKeys>>

\* Mutant of Applied: the bound is forgotten.
AppliedUnbounded(req) == req.delta
\* adjust_stock: a return names an order, and is bounded by what it still has.
Applied(req) ==
  IF req.reason = "return" /\ req.o # NoOrder
  THEN IF req.delta < Outstanding(req.o, req.v) THEN req.delta ELSE Outstanding(req.o, req.v)
  ELSE req.delta
\* Mutant of CanAdjust: nothing is checked on a correction.
CanAdjustUnchecked(req) == req.delta # 0
CanAdjust(req) ==
  /\ req.delta # 0
  /\ req.reason # "sale"
  /\ req.reason \in {"restock", "return"} => req.delta > 0
  /\ onHand[req.v] + Applied(req) >= reserved[req.v]
  /\ req.o = NoOrder => onHand[req.v] + req.delta <= MaxOnHand
ServerAdjustsStock(req) ==
  /\ CanAdjust(req)
  /\ onHand' = [onHand EXCEPT ![req.v] = @ + Applied(req)]
  /\ IF req.o = NoOrder
     THEN adjusted' = [adjusted EXCEPT ![req.v] = @ + req.delta] /\ UNCHANGED returned
     ELSE returned' = [returned EXCEPT ![req.o][req.v] = @ + Applied(req)] /\ UNCHANGED adjusted
  /\ adjustKeys' = adjustKeys \cup {req}
  /\ UNCHANGED <<reserved, hold, overdue, keys, sold, calls, commitKey, releaseKey>>

\* expire_reservations: every overdue hold, in one transaction, with no key.
ExpireReservations ==
  /\ EndRows(SweepCandidates, "expired")
  /\ UNCHANGED serverKeys

Execute(req) ==
  CASE req.op = "reserve" -> CreateReservations(req)
    [] req.op = "commit" -> CommitReservations(req)
    [] req.op = "release" -> ReleaseReservations(req)
    [] req.op = "adjust" -> ServerAdjustsStock(req)
Refuses(req) ==
  \/ req.op = "reserve" /\ ~CanReserve(req)
  \/ req.op = "adjust" /\ ~CanAdjust(req)

\* Mutant of Refuse: the key is kept by a request that failed.
RefuseKeyKept(req) ==
  /\ Refuses(req)
  /\ claim' = IF req.op = "reserve" THEN [claim EXCEPT ![req.c] = req.cart] ELSE claim
  /\ UNCHANGED <<counters, hold, overdue, refund, movements, calls, serverKeys>>
\* 4xx: everything is rolled back, the key too.
Refuse(req) == Refuses(req) /\ UNCHANGED server

\* Execute, replay (422 for another body), or refuse.
Serve(req, answer) ==
  \/ /\ Claimed(req)
     /\ answer = IF SameBody(req) THEN "ok" ELSE "no"
     /\ UNCHANGED server
  \/ /\ ~Claimed(req)
     /\ answer = "ok"
     /\ Execute(req)
  \/ /\ ~Claimed(req)
     /\ answer = "no"
     /\ Refuse(req)

-----------------------------------------------------------------------------
(* The client: call() and the provider's methods *)

\* What each caller asks for.  place_order reserves a fresh id once; it releases
\* it when it could not learn the answer; an order that exists is committed, and
\* committed again until somebody is told it was; a refund releases the order's
\* checkouts and then returns its lines, each until it is told so; staff correct.
Unknown(req) == told[req] = "error"
Placed(c) == told[ReserveRequest(c, CartOf(c))] = "ok"
OrderReleased(o) == \A c \in {d \in Checkouts : OrderOf[d] = o /\ Placed(d)} :
                      told[ReleaseRequest(c)] = "ok"
Asks(req) ==
  \/ req \in Reserves /\ asked[req] = 0
  \/ req \in Commits /\ Placed(req.c) /\ told[req] # "ok"
  \/ /\ req \in Releases /\ told[req] # "ok"
     /\ \/ Unknown(ReserveRequest(req.c, CartOf(req.c))) /\ asked[req] = 0
        \/ Placed(req.c)
  \/ /\ req \in Returns /\ told[req] # "ok" /\ req.delta > 0
     /\ \E c \in Checkouts : OrderOf[c] = req.o /\ Placed(c)
     /\ OrderReleased(req.o)
  \/ req \in Corrections /\ req.delta # 0

\* One tight attempt inside a transaction, the full budget elsewhere.
Budget(req) == IF req \in Commits THEN {1, Attempts} ELSE {Attempts}

StartsCall(t, req) ==
  /\ call[t] = NoCall
  /\ \E left \in Budget(req) : call' = [call EXCEPT ![t] = Waiting(req, left, "ready")]
  /\ UNCHANGED <<server, told, late, breaker, failures>>

Begin(t, req) ==
  /\ Asks(req)
  /\ \A other \in Threads : call[other] # NoCall => call[other].req # req
  /\ asked[req] < MaxAsks
  /\ asked' = [asked EXCEPT ![req] = @ + 1]
  /\ StartsCall(t, req)

Ends(t, outcome) ==
  /\ call' = [call EXCEPT ![t] = NoCall]
  /\ told' = [told EXCEPT ![call[t].req] = outcome]

\* record_failure, which leaves a breaker alone that has been opened before, and
\* record_success, which closes it whenever the request went out.
CountFailure(from) ==
  /\ failures' = IF failures < Threshold THEN failures + 1 ELSE failures
  /\ breaker' = IF failures' = Threshold /\ from = "closed" THEN "open" ELSE from
CountSuccess == breaker' = "closed" /\ failures' = 0

\* BREAKER.check: open refuses; past its cooldown it forgets it was open, and
\* whoever comes next passes as well.
Admits == breaker # "open"

Ready(t) == call[t] # NoCall /\ call[t].phase = "ready"

Refused(t) ==
  /\ Ready(t) /\ ~Admits
  /\ Ends(t, "error")
  /\ UNCHANGED <<server, asked, late, breaker, failures>>

\* The request goes out and the service executes it.
Send(t) ==
  /\ Ready(t) /\ Admits
  /\ breaker' = "closed"
  /\ \E answer \in {"ok", "no"} :
       Serve(call[t].req, answer) /\ call' = [call EXCEPT ![t].phase = answer]
  /\ UNCHANGED <<told, asked, late, failures>>

\* 2xx and 4xx are answers: both close the breaker.
Receive(t) ==
  /\ call[t] # NoCall /\ call[t].phase \in {"ok", "no"}
  /\ Ends(t, call[t].phase)
  /\ CountSuccess
  /\ UNCHANGED <<server, asked, late>>

\* A failed attempt; then the next attempt, or the error of this last one, which
\* may come early: a 5xx that is not to be retried.  Unavailable and uncertain are
\* one outcome, as every method of the provider treats them alike.
Failed(t) ==
  /\ \/ /\ call[t].left > 1
        /\ call' = [call EXCEPT ![t] = Waiting(call[t].req, call[t].left - 1, "ready")]
        /\ UNCHANGED told
     \/ Ends(t, "error")
  /\ UNCHANGED <<server, asked>>

\* No connection, or a connection whose request the service has not read when
\* the client gives up: this copy is lost, or arrives later.
NotDelivered(t) ==
  /\ Ready(t) /\ Admits
  /\ CountFailure("closed")
  /\ Failed(t)
  /\ \/ UNCHANGED late
     \/ /\ SumFunction(late) < MaxLate
        /\ late' = [late EXCEPT ![call[t].req] = @ + 1]

\* The request was executed and its answer is lost: a read timeout or a 5xx, or
\* a connection that breaks, which call() takes for one that never was.
AnswerLost(t) ==
  /\ call[t] # NoCall /\ call[t].phase \in {"ok", "no"}
  /\ CountFailure(breaker)
  /\ Failed(t)
  /\ UNCHANGED late

\* A copy nobody waits for is executed, or never arrives.
HandleLate(req) ==
  /\ late[req] > 0
  /\ late' = [late EXCEPT ![req] = @ - 1]
  /\ \E answer \in {"ok", "no"} : Serve(req, answer)
  /\ UNCHANGED <<call, told, asked, breaker, failures>>

\* release_expired_reservations, every tick: the answer does not matter, and a
\* sweep that fails is left to the next tick.
SweepTick ==
  /\ Admits
  /\ ExpireReservations
  /\ CountSuccess \/ CountFailure("closed")
  /\ UNCHANGED <<call, told, asked, late>>
SweepLost ==
  /\ Admits
  /\ CountFailure("closed")
  /\ UNCHANGED <<server, call, told, asked, late>>

\* The monotonic clock passes the breaker's cooldown.
CoolDown ==
  /\ breaker = "open"
  /\ breaker' = "cooled"
  /\ UNCHANGED <<server, call, told, asked, late, failures>>

HoldExpires(c) == PassExpiry(c) /\ UNCHANGED <<serverKeys, client>>

-----------------------------------------------------------------------------
RemoteNext ==
  \/ \E t \in Threads, req \in Requests : Begin(t, req)
  \/ SweepTick \/ SweepLost
  \/ \E t \in Threads : Refused(t) \/ Send(t) \/ Receive(t) \/ NotDelivered(t) \/ AnswerLost(t)
  \/ \E req \in Requests : HandleLate(req)
  \/ CoolDown
  \/ \E c \in Checkouts : HoldExpires(c)

RemoteSpec == RemoteInit /\ [][RemoteNext]_remoteVars

\* The interval job keeps ticking and the network does not lose every sweep for
\* ever; the breaker's clock runs.
RemoteFairSpec ==
  /\ RemoteSpec
  /\ SF_remoteVars(SweepTick)
  /\ WF_remoteVars(CoolDown)

-----------------------------------------------------------------------------
(* Properties *)

\* Whatever is lost, late or sent twice, the service implements the pool of units
\* of StockLedger: no unit is sold twice, given back twice or lost.
RemoteImplementsPool == ImplementsUnitPool

\* A shopper whose checkout was told it has its stock does have it: the rows
\* exist with exactly the cart's units, although the answer may be the replay of
\* an attempt whose own answer was lost.
ToldHeldIsHeld ==
  \A c \in Checkouts : Placed(c) =>
    \A v \in Variants : hold[c][v].qty = CartOf(c)[v]

\* Once a commit was answered, nothing of its checkout is held or comes to be
\* held: no copy of the reserve still on its way, and no sweep, finds work there.
ConfirmedHoldIsSettled ==
  \A c \in Checkouts : told[CommitRequest(c)] = "ok" => ActiveLines(c) = {}

\* When every line of a refund was answered, the order keeps no unit and no more
\* came back than it bought, whatever commits, retries and late copies ran
\* before, between and after.
Refunded(o) == \A v \in Variants : Lines[o][v] > 0 => told[ReturnRequest(o, v)] = "ok"
RefundedOrderKeepsNothing ==
  \A o \in Orders : Refunded(o) => sold[o] = returned[o]

CorrectionsTo(v) == {r \in Corrections : r.v = v}

\* Corrections that were asked for by one call each are applied at most once,
\* however often that call is sent and whenever its copies arrive, and exactly
\* once where the call was told so.  What becomes of an equal correction asked
\* for by a second call is MCCorrections' question.
OneCallCorrectsOnce ==
  \A v \in Variants : (\A r \in CorrectionsTo(v) : asked[r] <= 1) =>
    \E applied \in SUBSET {r \in CorrectionsTo(v) : asked[r] = 1} :
      /\ {r \in CorrectionsTo(v) : told[r] = "ok"} \subseteq applied
      /\ adjusted[v] = SumFunction([r \in applied |-> r.delta])
=============================================================================
