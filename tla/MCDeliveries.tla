---------------------------- MODULE MCDeliveries ----------------------------
(***************************************************************************)
(* Small instances of what may arrive late, twice or not at all: the calls   *)
(* to the ledger's service, and the messages of the outbox. They share no    *)
(* variable: a behaviour moves the one named at the start, a run explores    *)
(* each in full, and a property speaks of one.                               *)
(***************************************************************************)
EXTENDS MCRemoteLedger, Outbox

VARIABLE carrier

DeliveriesInit == carrier \in {"service", "outbox"} /\ RemoteInit /\ OutboxInit

DeliveriesNext ==
  \/ carrier = "service" /\ RemoteNext /\ UNCHANGED <<carrier, outboxVars>>
  \/ carrier = "outbox" /\ OutboxNext /\ UNCHANGED <<carrier, remoteVars>>

\* The fairness of RemoteFairSpec and of FairOutboxSpec, each where it moves.
FairDeliveriesSpec ==
  /\ DeliveriesInit /\ [][DeliveriesNext]_<<carrier, remoteVars, outboxVars>>
  /\ SF_remoteVars(carrier = "service" /\ SweepTick)
  /\ WF_remoteVars(carrier = "service" /\ CoolDown)
  /\ \A d \in Drainers : WF_outboxVars(carrier = "outbox" /\ Drain(d))
  /\ \A m \in Messages : WF_outboxVars(carrier = "outbox" /\ BecomesDue(m))
=============================================================================
