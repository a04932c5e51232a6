---------------------------- MODULE MCCorrections ----------------------------
(* RemoteLedger with what staff were told of each correction counted, for the *)
(* question whether as many were applied.                                     *)
EXTENDS MCRemoteLedger

VARIABLE agreed   \* history: agreed[r], the calls with correction r told "ok"

TellsOk(t, r) ==
  call[t] # NoCall /\ call[t].req = r /\ call'[t] = NoCall /\ told'[r] = "ok"

CorrectionsInit == RemoteInit /\ agreed = [r \in Corrections |-> 0]
CorrectionsNext ==
  /\ RemoteNext
  /\ agreed' = [r \in Corrections |-> agreed[r] + Cardinality({t \in Threads : TellsOk(t, r)})]
CorrectionsSpec == CorrectionsInit /\ [][CorrectionsNext]_<<remoteVars, agreed>>

\* What the client says of its key: a retry of the same adjustment does not apply
\* twice, while a genuinely new one is not mistaken for a replay.  When no call
\* is under way or on its way and none was left in doubt, every correction whose
\* caller was told it was made is on the counter, once for each call.
Settled(r) == told[r] # "error" /\ late[r] = 0 /\ \A t \in Threads : call[t] # NoCall => call[t].req # r
NewCorrectionIsNoReplay ==
  (\A r \in Corrections : Settled(r)) =>
    \A v \in Variants :
      adjusted[v] = SumFunction([r \in Corrections |-> IF r.v = v THEN agreed[r] * r.delta ELSE 0])
=============================================================================
