----------------------------- MODULE OutboxProofs -----------------------------
(***************************************************************************)
(* What an outbox row's mark means, for any number of messages, drainers,   *)
(* attempts and crashes, and any batch size.                                *)
(***************************************************************************)
EXTENDS Outbox, WellFoundedInduction, TLAPS

\* A drainer with a batch works on a row of it.
LEMMA FirstOfBatch ==
  ASSUME OutboxTypeOK, NEW d \in Drainers, batch[d] # {}
  PROVE  First(d) \in batch[d] /\ First(d) \in Messages
<1>1. batch[d] \subseteq Messages /\ batch[d] \subseteq Nat
  BY OutboxAssumption DEF OutboxTypeOK
<1>2. PICK m \in batch[d] : \A n \in batch[d] : <<n, m>> \notin OpToRel(<, Nat)
  BY <1>1, NatLessThanWellFounded, WFMin
<1>3. ASSUME NEW n \in batch[d] PROVE m <= n
  <2>1. n \in Nat /\ m \in Nat
    BY <1>1
  <2>2. n < m => <<n, m>> \in {pair \in Nat \X Nat : pair[1] < pair[2]}
    BY <2>1
  <2>3. ~(n < m)
    BY <1>2, <2>2 DEF OpToRel
  <2>4. QED
    BY <2>1, <2>3
<1>4. QED
  BY <1>1, <1>3 DEF First

\* Counting an attempt stays within the cap and never counts down.
LEMMA CountType ==
  ASSUME NEW n \in 0..MaxAttempts + 1
  PROVE  Count(n) \in 0..MaxAttempts + 1 /\ Count(n) >= n
BY OutboxAssumption DEF Count

\* Every variable keeps its type.
THEOREM OutboxTypeCorrect == OutboxSpec => []OutboxTypeOK
<1>1. OutboxInit => OutboxTypeOK
  BY OutboxAssumption DEF OutboxInit, OutboxTypeOK
<1>2. OutboxTypeOK /\ [OutboxNext]_outboxVars => OutboxTypeOK'
  <2> SUFFICES ASSUME OutboxTypeOK, [OutboxNext]_outboxVars PROVE OutboxTypeOK'
    OBVIOUS
  <2> USE DEF OutboxTypeOK, drainer
  <2>1. ASSUME NEW m \in Messages, Enqueue(m) PROVE OutboxTypeOK'
    BY <2>1 DEF Enqueue
  <2>2. ASSUME NEW m \in Messages, BecomesDue(m) PROVE OutboxTypeOK'
    BY <2>2 DEF BecomesDue
  <2>3. ASSUME NEW m \in Messages, RequestDelivers(m) PROVE OutboxTypeOK'
    BY <2>3 DEF RequestDelivers
  <2>4. ASSUME NEW m \in Messages, RequestRetires(m) PROVE OutboxTypeOK'
    BY <2>4 DEF RequestRetires
  <2>5. ASSUME NEW m \in Messages, RequestGivesUp(m) PROVE OutboxTypeOK'
    BY <2>5 DEF RequestGivesUp
  <2>6. ASSUME NEW d \in Drainers, Claim(d) PROVE OutboxTypeOK'
    <3>1. Oldest \in SUBSET Messages
      BY DEF Oldest, Deliverable
    <3>2. attempts' \in [Messages -> 0..MaxAttempts + 1]
      BY <2>6, CountType DEF Claim
    <3>3. QED
      BY <2>6, <3>1, <3>2 DEF Claim
  <2>7. ASSUME NEW d \in Drainers, Call(d) PROVE OutboxTypeOK'
    <3>1. First(d) \in Messages
      BY <2>7, FirstOfBatch DEF Call
    <3>2. tries' \in [Messages -> 0..MaxAttempts + 1]
      BY <2>7, <3>1, CountType DEF Call
    <3>3. QED
      BY <2>7, <3>2 DEF Call
  <2>8. ASSUME NEW d \in Drainers, HandlerReturns(d) PROVE OutboxTypeOK'
    BY <2>8 DEF HandlerReturns
  <2>9. ASSUME NEW d \in Drainers, HandlerRaises(d) PROVE OutboxTypeOK'
    BY <2>9 DEF HandlerRaises
  <2>10. ASSUME NEW d \in Drainers, MarkSent(d) PROVE OutboxTypeOK'
    BY <2>10 DEF MarkSent, Done
  <2>11. ASSUME NEW d \in Drainers, MarkFailed(d) PROVE OutboxTypeOK'
    BY <2>11 DEF MarkFailed, Done
  <2>12. ASSUME NEW d \in Drainers, NoHandler(d) PROVE OutboxTypeOK'
    BY <2>12 DEF NoHandler, Done
  <2>13. ASSUME NEW d \in Drainers, Crash(d) PROVE OutboxTypeOK'
    <3>1. crashes' \in 0..MaxCrashes
      BY <2>13, OutboxAssumption DEF Crash
    <3>2. QED
      BY <2>13, <3>1 DEF Crash
  <2>14. CASE UNCHANGED outboxVars
    BY <2>14 DEF outboxVars
  <2>15. QED
    BY <2>1, <2>2, <2>3, <2>4, <2>5, <2>6, <2>7, <2>8, <2>9, <2>10, <2>11, <2>12, <2>13, <2>14
       DEF OutboxNext, Drain
<1>3. QED
  BY <1>1, <1>2, PTL DEF OutboxSpec

-----------------------------------------------------------------------------
(* SENT *)

\* A mark is prepared only after the handler has returned, in the request and
\* in every drainer; nothing is prepared by a drainer without a batch.
MarksArePrepared ==
  /\ \A m \in Messages : state[m] = "sent" => handled[m]
  /\ \A m \in Messages : request[m] = "retiring" => handled[m]
  /\ \A d \in Drainers : outcome[d] = "returned" => handled[First(d)]
  /\ \A d \in Drainers : outcome[d] # "none" => batch[d] # {}

\* Every step keeps the marks of a drainer behind a handler that has run.
LEMMA MarksPreparedInductive ==
  ASSUME OutboxTypeOK, MarksArePrepared, [OutboxNext]_outboxVars
  PROVE  MarksArePrepared'
<1> USE DEF MarksArePrepared, OutboxTypeOK, First, drainer
<1>1. ASSUME NEW m \in Messages, Enqueue(m) PROVE MarksArePrepared'
  BY <1>1 DEF Enqueue
<1>2. ASSUME NEW m \in Messages, BecomesDue(m) PROVE MarksArePrepared'
  BY <1>2 DEF BecomesDue
<1>3. ASSUME NEW m \in Messages, RequestDelivers(m) PROVE MarksArePrepared'
  BY <1>3 DEF RequestDelivers
<1>4. ASSUME NEW m \in Messages, RequestRetires(m) PROVE MarksArePrepared'
  BY <1>4 DEF RequestRetires
<1>5. ASSUME NEW m \in Messages, RequestGivesUp(m) PROVE MarksArePrepared'
  BY <1>5 DEF RequestGivesUp
<1>6. ASSUME NEW d \in Drainers, Claim(d) PROVE MarksArePrepared'
  BY <1>6 DEF Claim
<1>7. ASSUME NEW d \in Drainers, Call(d) PROVE MarksArePrepared'
  BY <1>7 DEF Call
<1>8. ASSUME NEW d \in Drainers, HandlerReturns(d) PROVE MarksArePrepared'
  BY <1>8, FirstOfBatch DEF HandlerReturns
<1>9. ASSUME NEW d \in Drainers, HandlerRaises(d) PROVE MarksArePrepared'
  BY <1>9 DEF HandlerRaises
<1>10. ASSUME NEW d \in Drainers, MarkSent(d) PROVE MarksArePrepared'
  BY <1>10 DEF MarkSent, Done
<1>11. ASSUME NEW d \in Drainers, MarkFailed(d) PROVE MarksArePrepared'
  <2> DEFINE f == First(d)
  <2>0. state' = [state EXCEPT ![f] = "dead"] \/ state' = state
    BY <1>11 DEF MarkFailed
  <2> HIDE DEF f
  <2>1. \A m \in Messages : state'[m] = "sent" => state[m] = "sent"
    BY <2>0
  <2>2. UNCHANGED <<handled, request>>
    BY <1>11 DEF MarkFailed, Done
  <2>3. \A e \in Drainers :
          outcome'[e] # "none" => outcome'[e] = outcome[e] /\ batch'[e] = batch[e]
    BY <1>11 DEF MarkFailed, Done
  <2>4. \A e \in Drainers : batch'[e] = batch[e] => First(e)' = First(e)
    OBVIOUS
  <2>5. \A m \in Messages : request'[m] = "retiring" => handled'[m]
    BY <2>2
  <2>6. \A e \in Drainers : outcome'[e] = "returned" => handled'[First(e)']
    BY <2>2, <2>3, <2>4
  <2>7. \A m \in Messages : state'[m] = "sent" => handled'[m]
    BY <2>1, <2>2
  <2>8. \A e \in Drainers : outcome'[e] # "none" => batch'[e] # {}
    BY <2>3
  <2>9. QED
    BY <2>5, <2>6, <2>7, <2>8
<1>12. ASSUME NEW d \in Drainers, NoHandler(d) PROVE MarksArePrepared'
  BY <1>12 DEF NoHandler, Done
<1>13. ASSUME NEW d \in Drainers, Crash(d) PROVE MarksArePrepared'
  BY <1>13 DEF Crash
<1>14. CASE UNCHANGED outboxVars
  BY <1>14 DEF outboxVars
<1>15. QED
  BY <1>1, <1>2, <1>3, <1>4, <1>5, <1>6, <1>7, <1>8, <1>9, <1>10, <1>11, <1>12, <1>13, <1>14
     DEF OutboxNext, Drain

\* Whoever claims a message and whichever blind mark lands last, a SENT row's
\* handler has returned.
THEOREM SentMeansHandled == OutboxSpec => []SentWasHandled
<1>1. OutboxInit => MarksArePrepared
  BY DEF OutboxInit, MarksArePrepared
<1>2. OutboxTypeOK /\ MarksArePrepared /\ [OutboxNext]_outboxVars => MarksArePrepared'
  BY MarksPreparedInductive
<1>3. MarksArePrepared => SentWasHandled
  BY DEF MarksArePrepared, SentWasHandled
<1>4. QED
  BY <1>1, <1>2, <1>3, OutboxTypeCorrect, PTL DEF OutboxSpec

-----------------------------------------------------------------------------
(* DEAD *)

\* The claim's bump outlives what the drainer remembers: a row in a batch has
\* been counted at least once more than its drainer read.
BumpsArePersistent ==
  /\ \A d \in Drainers, m \in Messages :
       m \in batch[d] => attempts[m] >= Count(loaded[d][m])
  /\ \A d \in Drainers : outcome[d] # "none" => batch[d] # {}
  /\ \A m \in Messages : state[m] = "dead" => attempts[m] >= MaxAttempts \/ m \in Unhandled

\* Every step keeps the attempts that were counted.
LEMMA BumpsPersistentInductive ==
  ASSUME OutboxTypeOK, BumpsArePersistent, [OutboxNext]_outboxVars
  PROVE  BumpsArePersistent'
<1> USE DEF BumpsArePersistent, OutboxTypeOK, drainer
<1>1. ASSUME NEW m \in Messages, Enqueue(m) PROVE BumpsArePersistent'
  BY <1>1 DEF Enqueue
<1>2. ASSUME NEW m \in Messages, BecomesDue(m) PROVE BumpsArePersistent'
  BY <1>2 DEF BecomesDue
<1>3. ASSUME NEW m \in Messages, RequestDelivers(m) PROVE BumpsArePersistent'
  BY <1>3 DEF RequestDelivers
<1>4. ASSUME NEW m \in Messages, RequestRetires(m) PROVE BumpsArePersistent'
  BY <1>4 DEF RequestRetires
<1>5. ASSUME NEW m \in Messages, RequestGivesUp(m) PROVE BumpsArePersistent'
  BY <1>5 DEF RequestGivesUp
<1>6. ASSUME NEW d \in Drainers, Claim(d) PROVE BumpsArePersistent'
  <2>1. \A m \in Messages :
          attempts'[m] \in Nat /\ attempts[m] \in Nat /\ attempts'[m] >= attempts[m]
    BY <1>6, CountType, OutboxAssumption DEF Claim
  <2>2. \A m \in Oldest : m \in Messages /\ attempts'[m] = Count(attempts[m])
    BY <1>6 DEF Claim, Oldest, Deliverable
  <2>3. \A e \in Drainers, m \in Messages : Count(loaded[e][m]) \in Nat
    BY CountType, OutboxAssumption
  <2>4. ASSUME NEW e \in Drainers, NEW m \in Messages, m \in batch'[e]
        PROVE  attempts'[m] >= Count(loaded'[e][m])
    <3>1. CASE e = d
      <4>1. m \in Oldest /\ loaded'[e][m] = attempts[m]
        BY <1>6, <2>4, <3>1 DEF Claim
      <4>2. attempts'[m] = Count(loaded'[e][m])
        BY <2>2, <4>1
      <4>3. QED
        BY <2>1, <4>2
    <3>2. CASE e # d
      <4>1. batch'[e] = batch[e] /\ loaded'[e] = loaded[e]
        BY <1>6, <3>2 DEF Claim
      <4>2. attempts[m] >= Count(loaded[e][m])
        BY <2>4, <4>1
      <4>3. QED
        BY <2>1, <2>3, <4>1, <4>2
    <3>3. QED
      BY <3>1, <3>2
  <2>5. \A e \in Drainers : outcome'[e] # "none" => batch'[e] # {}
    BY <1>6 DEF Claim
  <2>6. \A m \in Messages : state'[m] = "dead" => attempts'[m] >= MaxAttempts \/ m \in Unhandled
    BY <1>6, <2>1, OutboxAssumption DEF Claim
  <2>7. QED
    BY <2>4, <2>5, <2>6
<1>7. ASSUME NEW d \in Drainers, Call(d) PROVE BumpsArePersistent'
  BY <1>7 DEF Call
<1>8. ASSUME NEW d \in Drainers, HandlerReturns(d) PROVE BumpsArePersistent'
  BY <1>8 DEF HandlerReturns
<1>9. ASSUME NEW d \in Drainers, HandlerRaises(d) PROVE BumpsArePersistent'
  BY <1>9 DEF HandlerRaises
<1>10. ASSUME NEW d \in Drainers, MarkSent(d) PROVE BumpsArePersistent'
  BY <1>10 DEF MarkSent, Done
<1>11. ASSUME NEW d \in Drainers, MarkFailed(d) PROVE BumpsArePersistent'
  <2> DEFINE m == First(d)
  <2>1. m \in batch[d] /\ m \in Messages
    BY <1>11, FirstOfBatch DEF MarkFailed
  <2> HIDE DEF m
  <2>2. loaded[d][m] + 1 >= MaxAttempts => attempts[m] >= MaxAttempts
    <3>1. attempts[m] >= Count(loaded[d][m])
      BY <2>1
    <3>2. loaded[d][m] \in 0..MaxAttempts + 1 /\ attempts[m] \in 0..MaxAttempts + 1
      BY <2>1
    <3>3. QED
      BY <3>1, <3>2, OutboxAssumption DEF Count
  <2>3. \A n \in Messages : state'[n] = "dead" =>
          state[n] = "dead" \/ (n = m /\ loaded[d][m] + 1 >= MaxAttempts)
    BY <1>11, <2>1 DEF MarkFailed, m
  <2>4. UNCHANGED <<attempts, loaded>>
    BY <1>11 DEF MarkFailed, Done
  <2>5. \A e \in Drainers : batch'[e] \subseteq batch[e]
    BY <1>11 DEF MarkFailed, Done
  <2>6. \A e \in Drainers : outcome'[e] # "none" =>
          e # d /\ outcome[e] # "none" /\ batch'[e] = batch[e]
    BY <1>11 DEF MarkFailed, Done
  <2>7. QED
    BY <2>2, <2>3, <2>4, <2>5, <2>6
<1>12. ASSUME NEW d \in Drainers, NoHandler(d) PROVE BumpsArePersistent'
  BY <1>12 DEF NoHandler, Done
<1>13. ASSUME NEW d \in Drainers, Crash(d) PROVE BumpsArePersistent'
  BY <1>13 DEF Crash
<1>14. CASE UNCHANGED outboxVars
  BY <1>14 DEF outboxVars
<1>15. QED
  BY <1>1, <1>2, <1>3, <1>4, <1>5, <1>6, <1>7, <1>8, <1>9, <1>10, <1>11, <1>12, <1>13, <1>14
     DEF OutboxNext, Drain

\* Although the decision to give up uses a count read before other drainers'
\* claims, a DEAD row has used up its attempts or has no handler.
THEOREM DeadMeansExhausted == OutboxSpec => []DeadIsExhausted
<1>1. OutboxInit => BumpsArePersistent
  BY DEF OutboxInit, BumpsArePersistent
<1>2. OutboxTypeOK /\ BumpsArePersistent /\ [OutboxNext]_outboxVars => BumpsArePersistent'
  BY BumpsPersistentInductive
<1>3. BumpsArePersistent => DeadIsExhausted
  BY DEF BumpsArePersistent, DeadIsExhausted
<1>4. QED
  BY <1>1, <1>2, <1>3, OutboxTypeCorrect, PTL DEF OutboxSpec
=============================================================================
