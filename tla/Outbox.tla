-------------------------------- MODULE Outbox --------------------------------
(***************************************************************************)
(* The transactional outbox (apps/orders/outbox.py): any number of drainers *)
(* and the request that enqueued a message all try to deliver it.  A claim  *)
(* is one short transaction; delivery and the final mark come after it, each *)
(* on its own, and a process may die anywhere between them.  What a handler *)
(* does is Fulfillment's subject; here it returns, raises or kills its      *)
(* process.                                                                 *)
(***************************************************************************)
EXTENDS Integers, FiniteSets

CONSTANTS
  Messages,     \* primary keys of the rows
  Unhandled,    \* those whose topic no handler is registered for
  Drainers,     \* processes that run drain_outbox
  BatchSize,    \* drain_outbox's batch_size
  MaxAttempts,  \* MAX_ATTEMPTS
  MaxCrashes    \* bound: processes that die

ASSUME OutboxAssumption ==
  /\ Messages \subseteq Nat /\ IsFiniteSet(Messages)
  /\ Unhandled \subseteq Messages
  /\ BatchSize \in Nat \ {0} /\ MaxAttempts \in Nat \ {0} /\ MaxCrashes \in Nat

VARIABLES
  state,      \* state[m]: OutboxMessage.state, "none" before the row exists
  attempts,   \* attempts[m]: OutboxMessage.attempts (counted to MaxAttempts + 1)
  due,        \* due[m]: next_attempt_at has passed
  tries,      \* tries[m]: drainers' handler calls that began (counted likewise)
  handled,    \* handled[m]: a handler call has returned
  request,    \* request[m]: the on_commit attempt of the enqueuing request
  batch,      \* batch[d]: the claimed rows the drainer d has still to deliver
  loaded,     \* loaded[d][m]: attempts of m as d read them
  outcome,    \* outcome[d]: what the handler of d's first row did
  crashes     \* processes that died so far

outboxVars == <<state, attempts, due, tries, handled, request, batch, loaded, outcome, crashes>>
drainer == <<batch, loaded, outcome>>

Count(n) == IF n > MaxAttempts THEN n ELSE n + 1
First(d) == CHOOSE m \in batch[d] : \A n \in batch[d] : m <= n

OutboxTypeOK ==
  /\ state \in [Messages -> {"none", "pending", "sent", "dead"}]
  /\ attempts \in [Messages -> 0..MaxAttempts + 1]
  /\ due \in [Messages -> BOOLEAN]
  /\ tries \in [Messages -> 0..MaxAttempts + 1]
  /\ handled \in [Messages -> BOOLEAN]
  /\ request \in [Messages -> {"none", "trying", "retiring", "over"}]
  /\ batch \in [Drainers -> SUBSET Messages]
  /\ loaded \in [Drainers -> [Messages -> 0..MaxAttempts + 1]]
  /\ outcome \in [Drainers -> {"none", "calling", "returned", "raised"}]
  /\ crashes \in 0..MaxCrashes

OutboxInit ==
  /\ state = [m \in Messages |-> "none"]
  /\ attempts = [m \in Messages |-> 0]
  /\ due = [m \in Messages |-> FALSE]
  /\ tries = [m \in Messages |-> 0]
  /\ handled = [m \in Messages |-> FALSE]
  /\ request = [m \in Messages |-> "none"]
  /\ batch = [d \in Drainers |-> {}]
  /\ loaded = [d \in Drainers |-> [m \in Messages |-> 0]]
  /\ outcome = [d \in Drainers |-> "none"]
  /\ crashes = 0

-----------------------------------------------------------------------------
(* The request that decided it *)

\* enqueue, committed with the business fact; the row is due at once, and
\* on_commit starts a synchronous attempt.
Enqueue(m) ==
  /\ state[m] = "none"
  /\ state' = [state EXCEPT ![m] = "pending"]
  /\ due' = [due EXCEPT ![m] = TRUE]
  /\ request' = [request EXCEPT ![m] = "trying"]
  /\ UNCHANGED <<attempts, tries, handled, drainer, crashes>>

RequestDelivers(m) ==
  /\ request[m] = "trying"
  /\ request' = [request EXCEPT ![m] = "retiring"]
  /\ handled' = [handled EXCEPT ![m] = TRUE]
  /\ UNCHANGED <<state, attempts, due, tries, drainer, crashes>>

\* _retire marks the row whatever a drainer has made of it meanwhile.
RequestRetires(m) ==
  /\ request[m] = "retiring"
  /\ request' = [request EXCEPT ![m] = "over"]
  /\ state' = [state EXCEPT ![m] = "sent"]
  /\ UNCHANGED <<attempts, due, tries, handled, drainer, crashes>>

\* Mutant of RequestGivesUp: the row is retired although the handler raised.
RequestRetiresAnyway(m) ==
  /\ request[m] \in {"trying", "retiring"}
  /\ request' = [request EXCEPT ![m] = "over"]
  /\ state' = [state EXCEPT ![m] = "sent"]
  /\ UNCHANGED <<attempts, due, tries, handled, drainer, crashes>>

\* The handler raised, or the process died: the row stays PENDING and due.
RequestGivesUp(m) ==
  /\ request[m] \in {"trying", "retiring"}
  /\ request' = [request EXCEPT ![m] = "over"]
  /\ UNCHANGED <<state, attempts, due, tries, handled, drainer, crashes>>

-----------------------------------------------------------------------------
(* drain_outbox *)

Deliverable == {m \in Messages : state[m] = "pending" /\ due[m]}
\* The BatchSize oldest of them.
Oldest == {m \in Deliverable : Cardinality({n \in Deliverable : n < m}) < BatchSize}

\* SKIP LOCKED keeps two claims apart while both are open; a claim that has
\* committed leaves its rows PENDING and due.
Claim(d) ==
  /\ batch[d] = {} /\ Deliverable # {}
  /\ batch' = [batch EXCEPT ![d] = Oldest]
  /\ loaded' = [loaded EXCEPT ![d] = attempts]
  /\ attempts' = [m \in Messages |-> IF m \in Oldest THEN Count(attempts[m]) ELSE attempts[m]]
  /\ UNCHANGED <<state, due, tries, handled, request, outcome, crashes>>

Call(d) ==
  /\ batch[d] # {} /\ outcome[d] = "none"
  /\ First(d) \notin Unhandled
  /\ outcome' = [outcome EXCEPT ![d] = "calling"]
  /\ tries' = [tries EXCEPT ![First(d)] = Count(@)]
  /\ UNCHANGED <<state, attempts, due, handled, request, batch, loaded, crashes>>

HandlerReturns(d) ==
  /\ outcome[d] = "calling"
  /\ outcome' = [outcome EXCEPT ![d] = "returned"]
  /\ handled' = [handled EXCEPT ![First(d)] = TRUE]
  /\ UNCHANGED <<state, attempts, due, tries, request, batch, loaded, crashes>>

HandlerRaises(d) ==
  /\ outcome[d] = "calling"
  /\ outcome' = [outcome EXCEPT ![d] = "raised"]
  /\ UNCHANGED <<state, attempts, due, tries, handled, request, batch, loaded, crashes>>

Done(d) ==
  /\ batch' = [batch EXCEPT ![d] = @ \ {First(d)}]
  /\ outcome' = [outcome EXCEPT ![d] = "none"]
  /\ UNCHANGED <<attempts, tries, handled, request, loaded, crashes>>

\* The marks are blind: none of them looks at the row's state again.
MarkSent(d) ==
  /\ outcome[d] = "returned"
  /\ state' = [state EXCEPT ![First(d)] = "sent"]
  /\ UNCHANGED due
  /\ Done(d)

\* Mutant of MarkFailed: no end of tries.
MarkFailedForever(d) ==
  /\ outcome[d] = "raised"
  /\ due' = [due EXCEPT ![First(d)] = FALSE]
  /\ UNCHANGED state
  /\ Done(d)

MarkFailed(d) ==
  LET m == First(d)
  IN /\ outcome[d] = "raised"
     /\ \/ /\ loaded[d][m] + 1 >= MaxAttempts
           /\ state' = [state EXCEPT ![m] = "dead"]
           /\ UNCHANGED due
        \/ /\ loaded[d][m] + 1 < MaxAttempts
           /\ due' = [due EXCEPT ![m] = FALSE]
           /\ UNCHANGED state
     /\ Done(d)

NoHandler(d) ==
  /\ batch[d] # {} /\ outcome[d] = "none"
  /\ First(d) \in Unhandled
  /\ state' = [state EXCEPT ![First(d)] = "dead"]
  /\ UNCHANGED due
  /\ Done(d)

\* The backoff ends.
BecomesDue(m) ==
  /\ state[m] = "pending" /\ ~due[m]
  /\ due' = [due EXCEPT ![m] = TRUE]
  /\ UNCHANGED <<state, attempts, tries, handled, request, drainer, crashes>>

\* A drainer dies with its batch; nothing else is lost.
Crash(d) ==
  /\ batch[d] # {}
  /\ crashes < MaxCrashes
  /\ crashes' = crashes + 1
  /\ batch' = [batch EXCEPT ![d] = {}]
  /\ outcome' = [outcome EXCEPT ![d] = "none"]
  /\ UNCHANGED <<state, attempts, due, tries, handled, request, loaded>>

-----------------------------------------------------------------------------
Drain(d) ==
  \/ Claim(d) \/ Call(d) \/ HandlerReturns(d) \/ HandlerRaises(d)
  \/ MarkSent(d) \/ MarkFailed(d) \/ NoHandler(d)

OutboxNext ==
  \/ \E m \in Messages :
       \/ Enqueue(m) \/ BecomesDue(m)
       \/ RequestDelivers(m) \/ RequestRetires(m) \/ RequestGivesUp(m)
  \/ \E d \in Drainers : Drain(d) \/ Crash(d)

OutboxSpec == OutboxInit /\ [][OutboxNext]_outboxVars

\* The scheduler runs the drain job for ever, and time passes.
FairOutboxSpec ==
  /\ OutboxSpec
  /\ \A d \in Drainers : WF_outboxVars(Drain(d))
  /\ \A m \in Messages : WF_outboxVars(BecomesDue(m))

-----------------------------------------------------------------------------
(* Properties *)

\* A message nobody has carried out is never reported as delivered, whoever
\* claims it and whichever mark lands last.
SentWasHandled == \A m \in Messages : state[m] = "sent" => handled[m]

\* A message is given up only when its claims have reached MAX_ATTEMPTS, or
\* nobody can handle it.
DeadIsExhausted ==
  \A m \in Messages : state[m] = "dead" => attempts[m] >= MaxAttempts \/ m \in Unhandled

\* Every message is delivered or reaches a human: none is starved by older ones
\* that keep failing, or lost with a process that died.
EveryMessageSettles ==
  \A m \in Messages : state[m] = "pending" ~> state[m] \in {"sent", "dead"}

\* "otherwise a message that reliably kills its worker would be retried forever"
\* (outbox.py:87-89): counting the crash as a try is to end the retries.
NoTryAfterTheLast ==
  \A m \in Messages : tries[m] <= MaxAttempts
=============================================================================
