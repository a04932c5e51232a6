------------------------------- MODULE MCStock -------------------------------
(***************************************************************************)
(* Small instances of the stock ledger: called by anyone in any order, with  *)
(* sweeps, releases and corrections of its own, and called by the saga, as    *)
(* Fulfillment's two workers do. A behaviour has the callers chosen at the    *)
(* start, the run explores each in full.                                     *)
(***************************************************************************)
EXTENDS MCFulfillment

VARIABLE callers

MCTwoUnits == [v \in Variants |-> 2]

StockInit == callers \in {"anyone", "saga"} /\ SagaInit

\* Corrections are among anyone's calls here.
StockNext ==
  \/ /\ callers = "anyone" /\ Next
     /\ UNCHANGED <<callers, checkout, records, outbox, work, crashes>>
  \/ callers = "saga" /\ SagaNext /\ UNCHANGED <<callers, adjusted>>

\* The fairness of FairSpec and of FairSagaSpec, each where it moves.
FairStockSpec ==
  /\ StockInit /\ [][StockNext]_<<callers, sagaVars>>
  /\ \A s \in Sweepers : WF_vars(callers = "anyone" /\ SweepBegin(s))
  /\ \A s \in Sweepers, c \in Checkouts, v \in Variants :
       SF_vars(callers = "anyone" /\ SweepRow(s, c, v))
  /\ \A w \in Workers : WF_sagaVars(callers = "saga" /\ WorkerStep(w))
  /\ \A t \in Topics, o \in Orders :
       SF_sagaVars(callers = "saga" /\ \E w \in Workers : Claim(w, t, o))

\* OverdueHoldsEnd where the ledger is swept by its own sweeps.
SweptHoldsEnd == callers = "anyone" => OverdueHoldsEnd
=============================================================================
