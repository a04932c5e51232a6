------------------------------ MODULE BagScreen ------------------------------
(***************************************************************************)
(* The app's bag (screens/CartScreen.tsx): every change of the lines asks     *)
(* /cart/validate/ again, questions overlap, answers come in any order, and  *)
(* the shop changes while the server reads it.                               *)
(*                                                                         *)
(* How lines are added and removed is MobileApp's: here the bag just changes. *)
(***************************************************************************)
EXTENDS Integers, FiniteSets, Functions

CONSTANTS
  Wares,            \* what a line may name
  Bags,             \* bound: the carts the shopper tries, the empty one too
  WarePrices, OpeningShop,
  NoAnswer,         \* validation is null
  MaxNumber,        \* bound: request ids of one visit
  MaxShopChanges    \* bound

NoLines == [x \in Wares |-> 0]

ASSUME BagAssumption ==
  /\ IsFiniteSet(Wares) /\ Bags \subseteq [Wares -> Nat] /\ NoLines \in Bags
  /\ WarePrices \subseteq Nat
  /\ OpeningShop \in [price : [Wares -> WarePrices], stock : [Wares -> Nat], gone : SUBSET Wares]
  /\ MaxNumber \in Nat /\ MaxShopChanges \in Nat

VARIABLES
  bag,         \* cart.lines
  view,        \* the bag is not open, in front, or behind the checkout
  zoneKnown,   \* zone is set
  latest,      \* validationRequest.current
  question,    \* question[n]: the effect's run number n
  validation, validatedFor,  \* what setValidation and setValidatedCartSignature were told
  shop, shopChanges          \* what the server would answer from

screenVars == <<view, zoneKnown, latest, question, validation, validatedFor>>
bagVars == <<bag, screenVars, shop, shopChanges>>

Numbers == 1..MaxNumber
Unasked == [at |-> "none", bag |-> NoLines, zone |-> FALSE, known |-> {}, subtotal |-> 0,
            enough |-> FALSE]

BagTypeOK ==
  /\ bag \in Bags /\ view \in {"closed", "front", "behind"} /\ zoneKnown \in BOOLEAN
  /\ latest \in 0..MaxNumber
  /\ \A n \in Numbers :
       /\ question[n].at \in {"none", "zones", "asked", "priced", "answered", "shown", "failed", "dropped"}
       /\ question[n].bag \in Bags /\ question[n].known \subseteq Wares
       /\ question[n].at = "zones" => n <= latest
  /\ validation = NoAnswer \/ validation.of \in 1..latest
  /\ validatedFor \in Bags /\ shopChanges \in 0..MaxShopChanges

NothingOpen ==
  /\ view' = "closed" /\ zoneKnown' = FALSE /\ latest' = 0
  /\ question' = [n \in Numbers |-> Unasked]
  /\ validation' = NoAnswer /\ validatedFor' = NoLines

BagInit ==
  /\ bag \in Bags /\ view = "closed" /\ zoneKnown = FALSE /\ latest = 0
  /\ question = [n \in Numbers |-> Unasked]
  /\ validation = NoAnswer /\ validatedFor = NoLines
  /\ shop = OpeningShop /\ shopChanges = 0

-----------------------------------------------------------------------------
(* The screen's effect *)

Asking(b, v) == v = "front" /\ b # NoLines

\* The run before it withdraws its number; this one takes the next, and asks for
\* the zones first where it knows none.
Rerun(b, v) ==
  LET withdrawn == latest + (IF Asking(bag, view) THEN 1 ELSE 0)
      mine == withdrawn + 1
  IN IF Asking(b, v)
     THEN /\ mine <= MaxNumber /\ latest' = mine
          /\ question' = [question EXCEPT ![mine] = [Unasked EXCEPT !.bag = b,
               !.at = IF zoneKnown THEN "asked" ELSE "zones", !.zone = zoneKnown]]
     ELSE /\ withdrawn <= MaxNumber /\ latest' = withdrawn /\ UNCHANGED question

ChangeBag(b) ==
  /\ b # bag /\ bag' = b /\ Rerun(b, view)
  /\ UNCHANGED <<view, zoneKnown, validation, validatedFor, shop, shopChanges>>

\* The bag is opened, covered by the checkout, and uncovered again.
Navigate(v) ==
  /\ <<view, v>> \in {<<"closed", "front">>, <<"front", "behind">>, <<"behind", "front">>}
  /\ view' = v /\ Rerun(bag, v)
  /\ UNCHANGED <<bag, zoneKnown, validation, validatedFor, shop, shopChanges>>

\* Gone back: the screen's state goes with it.
CloseBag == view = "front" /\ NothingOpen /\ UNCHANGED <<bag, shop, shopChanges>>

\* The zones arrive, for an old question too; without one the cart is asked alone.
ZonesAnswered(n, found) ==
  /\ question[n].at = "zones" /\ zoneKnown' = (zoneKnown \/ found)
  /\ question' = [question EXCEPT ![n].at = "asked", ![n].zone = found]
  /\ UNCHANGED <<bag, view, latest, validation, validatedFor, shop, shopChanges>>

\* Mutant of Current: the answer is taken whoever asked after it.
CurrentUnchecked(n) == TRUE

\* requestId === validationRequest.current
Current(n) == n = latest

Answer(n) == [of |-> n, bag |-> question[n].bag, lines |-> question[n].known,
              subtotal |-> question[n].subtotal, total |-> question[n].zone,
              enough |-> question[n].enough]

Applies(n, stage, answer) ==
  /\ IF Current(n)
     THEN /\ validation' = answer /\ validatedFor' = question[n].bag
          /\ question' = [question EXCEPT ![n].at = stage]
     ELSE /\ question' = [question EXCEPT ![n].at = "dropped"]
          /\ UNCHANGED <<validation, validatedFor>>
  /\ UNCHANGED <<bag, view, zoneKnown, latest, shop, shopChanges>>

AnswerArrives(n) == question[n].at = "answered" /\ Applies(n, "shown", Answer(n))

\* An error, or a connection lost on the way there or back
QuestionFails(n) ==
  question[n].at \in {"asked", "priced", "answered"} /\ Applies(n, "failed", NoAnswer)

-----------------------------------------------------------------------------
(* CartValidateView: the variants first, then the ledger's counters *)

Lines(n) == {x \in Wares : question[n].bag[x] > 0}
Server == UNCHANGED <<bag, view, zoneKnown, latest, validation, validatedFor>>

ReadPrices(n) ==
  /\ question[n].at = "asked"
  /\ question' = [question EXCEPT ![n].at = "priced",
       ![n].enough = Lines(n) \cap shop.gone = {}, ![n].known = Lines(n) \ shop.gone,
       ![n].subtotal = SumFunctionOnSet([x \in Wares |-> question[n].bag[x] * shop.price[x]],
                                        Lines(n) \ shop.gone)]
  /\ UNCHANGED <<shop, shopChanges>> /\ Server

ReadStock(n) ==
  /\ question[n].at = "priced"
  /\ question' = [question EXCEPT ![n].at = "answered",
       ![n].enough = @ /\ \A x \in Lines(n) : shop.stock[x] >= question[n].bag[x]]
  /\ UNCHANGED <<shop, shopChanges>> /\ Server

\* A price changes, a unit is sold, a variant is taken out of the catalogue.
ShopChanges(x) ==
  /\ shopChanges < MaxShopChanges /\ shopChanges' = shopChanges + 1
  /\ \/ \E p \in WarePrices : shop' = [shop EXCEPT !.price[x] = p]
     \/ shop.stock[x] > 0 /\ shop' = [shop EXCEPT !.stock[x] = @ - 1]
     \/ shop' = [shop EXCEPT !.gone = @ \cup {x}]
  /\ UNCHANGED question /\ Server

-----------------------------------------------------------------------------
BagNext ==
  \/ \E b \in Bags : ChangeBag(b)
  \/ \E v \in {"front", "behind"} : Navigate(v)
  \/ CloseBag
  \/ \E n \in Numbers :
       \/ \E found \in BOOLEAN : ZonesAnswered(n, found)
       \/ ReadPrices(n) \/ ReadStock(n) \/ AnswerArrives(n) \/ QuestionFails(n)
  \/ \E x \in Wares : ShopChanges(x)

BagSpec == BagInit /\ [][BagNext]_bagVars

-----------------------------------------------------------------------------
(* What the bag shows *)

\* currentValidation, which the summary card and the checkout button read
Displayed == IF validatedFor = bag THEN validation ELSE NoAnswer

\* The money beside a line: whose price it is, and for how many. Where the answer
\* has no total for the line, it is the price of one that was stored with it.
LineMoney(x) ==
  IF Displayed # NoAnswer /\ x \in Displayed.lines
  THEN [from |-> "server", units |-> Displayed.bag[x]]
  ELSE [from |-> "cart", units |-> 1]

\* The subtotal, the shipping and the total in the summary and on the checkout
\* button are the server's for exactly the lines in the bag, and once the newest
\* question has ended they are that question's answer, or none if it failed: an
\* older answer that arrives late never comes back over it. Where that answer
\* lets the shopper go on to the checkout, the money beside every line is the
\* server's too, for as many as the bag has; without it, it need not be.
SummaryShowsItsLines ==
  /\ Displayed # NoAnswer => Displayed.bag = bag
  /\ Displayed # NoAnswer /\ Displayed.enough =>
       \A x \in Wares : bag[x] > 0 => LineMoney(x) = [from |-> "server", units |-> bag[x]]
  /\ Asking(bag, view) =>
       /\ question[latest].at = "shown" => Displayed = Answer(latest)
       /\ question[latest].at = "failed" => Displayed = NoAnswer
=============================================================================
