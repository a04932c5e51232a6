---------------------------- MODULE PurchaseProofs ----------------------------
(***************************************************************************)
(* What the stages of a purchase promise the shopper, each stage on its own   *)
(* and for any number of requests, confirmations, presses, questions and     *)
(* picked addresses: the pay button of the app, its bag, the checkout with   *)
(* its payment page and the zone an order is sent to.                       *)
(***************************************************************************)
EXTENDS MCPurchase, MobileApp, FulfillmentProofs

-----------------------------------------------------------------------------
(* The pay button *)

CallRecord == [at : CallStates, bearer : Nat, replayed : BOOLEAN, body : Nat, refresh : Nat]

\* What the steps of the app read of its variables: no bound on a token matters
\* to a press of Pay.
AppShape ==
  /\ minted \in Nat /\ stored \in [access : Nat, refresh : Nat]
  /\ taps \in 0..MaxTaps /\ orders \in [1..MaxTaps -> Nat]
  /\ call \in [Calls -> CallRecord] /\ adrift \subseteq Abandoned

Paying == {"sent", "renew", "refreshing", "renewed", "saving"}

\* A press that is still under way has made no order, however often its request
\* was sent, and no later press has made one; nor has a press whose request the
\* app gave up while it was on its way.
PressInv ==
  /\ \A t \in 1..MaxTaps : orders[t] <= 1 /\ (t > taps => orders[t] = 0)
  /\ call["pay"].at \in Paying => taps \in 1..MaxTaps /\ orders[taps] = 0
  /\ call["pay"].at = "ok" => taps \in 1..MaxTaps /\ orders[taps] = 1
  /\ \A r \in adrift : r.what = "pay" =>
       /\ r.of \in 1..taps /\ orders[r.of] = 0 /\ (call["pay"].at \in Paying => r.of # taps)
       /\ \A o \in adrift : o.what = "pay" /\ o.of = r.of => o = r

\* No request
LEMMA IdleCall == NoCall \in CallRecord /\ NoCall.at = "idle"
BY DEF NoCall, CallRecord, CallStates

\* A request that was just sent
LEMMA SentCall ==
  ASSUME NEW b \in Nat
  PROVE  Sent(b) \in CallRecord /\ Sent(b).at = "sent"
BY DEF NoCall, Sent, CallRecord, CallStates

\* A request that was just sent with a body
LEMMA SentBody ==
  ASSUME NEW b \in Nat, NEW n \in Nat
  PROVE  [Sent(b) EXCEPT !.body = n] \in CallRecord
BY SentCall DEF CallRecord

\* What is sent again with the tokens that were fetched
LEMMA ReplayedCall ==
  ASSUME AppShape, NEW c \in Calls
  PROVE  Replay(c) \in CallRecord /\ Replay(c).at = "sent"
<1>1. ASSUME NEW x \in CallRecord, NEW n \in Nat
      PROVE  LET r == [x EXCEPT !.body = n, !.replayed = TRUE] IN r \in CallRecord /\ r.at = x.at
  BY DEF CallRecord
<1>2. call[c].refresh \in Nat /\ call[c].body \in Nat
  BY DEF AppShape, CallRecord
<1>3. QED
  BY <1>1, <1>2, SentCall DEF Replay

\* The requests the app has
LEMMA CallNames == Calls = {"pay", "profile", "login", "logout"}
BY DEF Calls

\* A request that moves to another stage keeps its shape, and so do the others.
LEMMA BecomesShape ==
  ASSUME AppShape, NEW c \in Calls, NEW stage \in CallStates, Becomes(c, stage)
  PROVE  /\ call' \in [Calls -> CallRecord]
         /\ call'[c].at = stage /\ \A d \in Calls \ {c} : call'[d] = call[d]
BY DEF AppShape, Becomes, CallRecord

\* So does a request that takes a token with it to the next stage.
LEMMA RefreshShape ==
  ASSUME AppShape, NEW c \in Calls, NEW stage \in CallStates, NEW n \in Nat,
         call' = [call EXCEPT ![c].at = stage, ![c].refresh = n]
  PROVE  /\ call' \in [Calls -> CallRecord]
         /\ call'[c].at = stage /\ \A d \in Calls \ {c} : call'[d] = call[d]
BY DEF AppShape, CallRecord

\* A request that is replaced by another leaves the others alone.
LEMMA ReplacedShape ==
  ASSUME AppShape, NEW c \in Calls, NEW r \in CallRecord, call' = [call EXCEPT ![c] = r]
  PROVE  /\ call' \in [Calls -> CallRecord]
         /\ call'[c] = r /\ \A d \in Calls \ {c} : call'[d] = call[d]
BY DEF AppShape

\* What the app leaves on its way to the server: at most the one request it was
\* waiting for, with what that request carries.
LEMMA OnItsWayShape ==
  ASSUME AppShape, NEW c \in Calls
  PROVE  /\ OnItsWay(c) \subseteq Abandoned
         /\ \A r \in OnItsWay(c) :
              /\ call[c].at \in Paying
              /\ r.what = "pay" => c = "pay" /\ r = [what |-> "pay", bearer |-> call[c].bearer, of |-> taps]
              /\ r.what = "logout" => c = "logout" /\ r.of = call[c].body
              /\ r.what = "refresh" => call[c].at = "refreshing" /\ r.of = call[c].refresh
<1>1. /\ call[c].bearer \in Nat /\ call[c].body \in Nat /\ call[c].refresh \in Nat /\ taps \in Nat
      /\ c \in {"pay", "profile", "login", "logout"}
  BY MobileAssumption DEF AppShape, CallRecord, Calls
<1>2. CASE call[c].at = "sent" /\ c # "profile"
  <2> DEFINE about == IF c = "pay" THEN taps ELSE call[c].body
  <2>1. /\ about \in Nat /\ (c = "pay" => about = taps) /\ (c # "pay" => about = call[c].body)
        /\ OnItsWay(c) = {[what |-> c, bearer |-> call[c].bearer, of |-> about]}
    BY <1>1, <1>2 DEF OnItsWay
  <2> HIDE DEF about
  <2>2. [what |-> c, bearer |-> call[c].bearer, of |-> about] \in Abandoned
    BY <1>1, <1>2, <2>1 DEF Abandoned
  <2>3. QED
    BY <1>1, <1>2, <2>1, <2>2 DEF Paying
<1>3. CASE call[c].at = "refreshing"
  BY <1>1, <1>3 DEF OnItsWay, Abandoned, Paying
<1>4. CASE ~(call[c].at = "sent" /\ c # "profile") /\ call[c].at # "refreshing"
  BY <1>4 DEF OnItsWay
<1>5. QED
  BY <1>2, <1>3, <1>4

\* Counting one more order for a press
LEMMA OneMore ==
  ASSUME NEW S, NEW f \in [S -> Nat], NEW n
  PROVE  /\ [f EXCEPT ![n] = @ + 1] \in [S -> Nat]
         /\ n \in S => [f EXCEPT ![n] = @ + 1][n] = f[n] + 1
         /\ \A t \in S : t # n => [f EXCEPT ![n] = @ + 1][t] = f[t]
<1> DEFINE g == [f EXCEPT ![n] = @ + 1]
<1>1. g = [t \in S |-> IF t = n THEN f[n] + 1 ELSE f[t]]
  OBVIOUS
<1> HIDE DEF g
<1>2. \A t \in S : g[t] = IF t = n THEN f[n] + 1 ELSE f[t]
  BY <1>1
<1>3. \A t \in S : g[t] \in Nat
  BY <1>2
<1>4. g \in [S -> Nat]
  BY <1>1, <1>3
<1>5. QED
  BY <1>2, <1>4 DEF g

\* A request that is served late makes one order for its press, or none.
LEMMA LateServed ==
  ASSUME AppShape, NEW r \in adrift, ServeLate(r)
  PROVE  /\ minted' \in Nat /\ minted' >= minted
         /\ orders' \in [1..MaxTaps -> Nat]
         /\ IF r.what = "pay" THEN orders' = [orders EXCEPT ![r.of] = @ + 1] ELSE orders' = orders
<1>1. r.what \in {"pay", "login", "logout", "refresh"} /\ minted \in Nat /\ orders \in [1..MaxTaps -> Nat]
  <2>1. r \in Abandoned
    BY DEF AppShape
  <2>2. r.what \in {"pay", "login", "logout", "refresh"}
    BY <2>1 DEF Abandoned
  <2>3. QED
    BY <2>2 DEF AppShape
<1>2. CASE r.what = "pay"
  <2>1. orders' = [orders EXCEPT ![r.of] = @ + 1] /\ minted' = minted
    BY <1>2 DEF ServeLate
  <2>2. orders' \in [1..MaxTaps -> Nat]
    <3>1. orders \in [1..MaxTaps -> Nat]
      BY <1>1
    <3>2. [orders EXCEPT ![r.of] = @ + 1] \in [1..MaxTaps -> Nat]
      BY <3>1, OneMore
    <3>3. QED
      BY <2>1, <3>2
  <2>3. QED
    BY <1>1, <1>2, <2>1, <2>2
<1>3. CASE r.what = "logout"
  <2>1. orders' = orders /\ minted' = minted
    BY <1>3 DEF ServeLate
  <2>2. QED
    BY <1>1, <1>3, <2>1
<1>4. CASE r.what \in {"login", "refresh"}
  <2>1. orders' = orders /\ minted' = minted + 1
    BY <1>4 DEF ServeLate, Mint
  <2>2. QED
    BY <1>1, <1>4, <2>1
<1>5. QED
  BY <1>1, <1>2, <1>3, <1>4

\* Every step of the app keeps the shapes.
LEMMA ShapeInductive ==
  ASSUME AppShape, [AppNext]_appVars
  PROVE  AppShape'
<1> USE DEF tokens, screen
<1>1. /\ {"pay", "login", "logout", "profile"} \subseteq Calls
      /\ {"sent", "ok", "failed", "renew", "refreshing", "renewed", "saving"} \subseteq CallStates
  BY DEF Calls, CallStates
<1>2. /\ stored.access \in Nat /\ stored.refresh \in Nat /\ Cleared \in [access : Nat, refresh : Nat]
      /\ \A c \in Calls : call[c].refresh \in Nat
  BY DEF AppShape, Cleared, CallRecord
<1>3. ASSUME NEW x \in Items, AddLine(x) \/ LessOne(x) \/ RemoveLine(x) PROVE AppShape'
  BY <1>3 DEF AddLine, LessOne, RemoveLine, Shopping, AppShape
<1>4. CASE Pay
  <2>1. call' \in [Calls -> CallRecord]
    BY <1>1, <1>2, <1>4, SentCall, ReplacedShape DEF Pay
  <2>2. QED
    BY <1>4, <2>1, MobileAssumption DEF Pay, AppShape
<1>5. ASSUME NEW c \in Calls, NEW b \in Nat, NEW n \in Nat, Asks(c, b, n) PROVE AppShape'
  <2>1. call' \in [Calls -> CallRecord]
    BY <1>5, SentBody, ReplacedShape DEF Asks
  <2>2. QED
    BY <1>5, <2>1 DEF Asks, AppShape
<1>6. CASE RefreshProfile \/ SignIn \/ SignOut \/ SignOutHere
  BY <1>1, <1>2, <1>5, <1>6 DEF RefreshProfile, SignIn, SignOut, SignOutHere, AppShape
<1>7. CASE ServePay
  <2>1. call' \in [Calls -> CallRecord]
    BY <1>1, <1>7, BecomesShape DEF ServePay
  <2>2. orders' \in [1..MaxTaps -> Nat]
    BY <1>7 DEF ServePay, AppShape
  <2>3. QED
    BY <1>7, <2>1, <2>2 DEF ServePay, AppShape
<1>8. CASE ServeProfile \/ ServeLogout
  <2>1. call' \in [Calls -> CallRecord]
    BY <1>1, <1>8, BecomesShape DEF ServeProfile, ServeLogout
  <2>2. QED
    BY <1>8, <2>1 DEF ServeProfile, ServeLogout, AppShape
<1>9. CASE ServeLogin
  <2>1. minted' \in Nat
    BY <1>9 DEF ServeLogin, Mint, AppShape
  <2>2. call' \in [Calls -> CallRecord]
    BY <1>1, <1>9, <2>1, BecomesShape, RefreshShape DEF ServeLogin
  <2>3. QED
    BY <1>9, <2>1, <2>2 DEF ServeLogin, AppShape
<1>10. ASSUME NEW c \in Calls, Unauthorized(c) PROVE AppShape'
  <2>1. call' \in [Calls -> CallRecord]
    BY <1>1, <1>10, BecomesShape DEF Unauthorized
  <2>2. QED
    BY <1>10, <2>1 DEF Unauthorized, AppShape
<1>11. ASSUME NEW c \in Calls, Renew(c) PROVE AppShape'
  <2>1. call' \in [Calls -> CallRecord]
    BY <1>1, <1>2, <1>11, RefreshShape DEF Renew
  <2>2. QED
    BY <1>11, <2>1 DEF Renew, AppShape
<1>12. ASSUME NEW c \in Calls, Rotate(c) PROVE AppShape'
  <2>1. minted' \in Nat
    BY <1>12 DEF Rotate, Mint, AppShape
  <2>2. call' \in [Calls -> CallRecord]
    BY <1>1, <1>12, <2>1, RefreshShape DEF Rotate
  <2>3. QED
    BY <1>12, <2>1, <2>2 DEF Rotate, AppShape
<1>13. ASSUME NEW c \in Calls, RefreshRefused(c) PROVE AppShape'
  <2>1. call' \in [Calls -> CallRecord]
    BY <1>1, <1>13, BecomesShape DEF RefreshRefused
  <2>2. QED
    BY <1>2, <1>13, <2>1 DEF RefreshRefused, AppShape
<1>14. ASSUME NEW c \in Calls, SaveAccess(c) PROVE AppShape'
  <2>1. call' \in [Calls -> CallRecord]
    BY <1>1, <1>14, BecomesShape DEF SaveAccess
  <2>2. QED
    BY <1>2, <1>14, <2>1 DEF SaveAccess, AppShape
<1>15. ASSUME NEW c \in Calls, SaveRefresh(c) PROVE AppShape'
  <2>1. call' \in [Calls -> CallRecord]
    BY <1>15, IdleCall, ReplayedCall, ReplacedShape DEF SaveRefresh
  <2>2. QED
    BY <1>2, <1>15, <2>1 DEF SaveRefresh, AppShape
<1>16. ASSUME NEW c \in Calls, NetworkFails(c) PROVE AppShape'
  <2>1. AfterNetworkError(c) \in CallRecord
    BY DEF AfterNetworkError, AppShape, CallRecord, CallStates
  <2>2. call' \in [Calls -> CallRecord]
    BY <1>16, <2>1, ReplacedShape DEF NetworkFails
  <2>3. adrift' \subseteq Abandoned
    BY <1>16, OnItsWayShape DEF NetworkFails, AppShape
  <2>4. QED
    BY <1>16, <2>2, <2>3 DEF NetworkFails, AppShape
<1>17. CASE PayAnswered \/ ProfileAnswered \/ LoginFailed \/ LoggedOut
  <2>1. call' \in [Calls -> CallRecord]
    BY <1>1, <1>17, IdleCall, ReplacedShape
       DEF PayAnswered, ProfileAnswered, LoginFailed, LoggedOut, Settles
  <2>2. QED
    BY <1>2, <1>17, <2>1
       DEF PayAnswered, ProfileAnswered, LoginFailed, LoggedOut, Settles, AppShape
<1>18. CASE AppRestarts
  <2>1. call' \in [Calls -> CallRecord]
    BY <1>2, <1>18, IdleCall, SentCall DEF AppRestarts
  <2>2. adrift' \subseteq Abandoned
    BY <1>18, OnItsWayShape DEF AppRestarts, AppShape
  <2>3. QED
    BY <1>18, <2>1, <2>2 DEF AppRestarts, AppShape
<1>19. ASSUME NEW n \in 1..MaxTokens, AccessExpires(n) PROVE AppShape'
  BY <1>19 DEF AccessExpires, AppShape
<1>20. ASSUME NEW r \in adrift, ServeLate(r) PROVE AppShape'
  <2>1. minted' \in Nat /\ orders' \in [1..MaxTaps -> Nat]
    BY <1>20, LateServed DEF AppShape
  <2>2. QED
    BY <1>20, <2>1 DEF ServeLate, AppShape
<1>21. CASE UNCHANGED appVars
  BY <1>21 DEF appVars, AppShape
<1>22. QED
  BY <1>3, <1>4, <1>6, <1>7, <1>8, <1>9, <1>10, <1>11, <1>12, <1>13, <1>14, <1>15, <1>16, <1>17,
     <1>18, <1>19, <1>20, <1>21 DEF AppNext

\* A step that makes no order and lets no ended press go on keeps the promise.
LEMMA PressKept ==
  ASSUME PressInv, UNCHANGED <<taps, orders, adrift>>,
         \/ call'["pay"] = call["pay"]
         \/ /\ call'["pay"].at # "ok"
            /\ call'["pay"].at \in Paying => call["pay"].at \in Paying
  PROVE  PressInv'
BY DEF PressInv, Paying

\* Only the press under way can leave its request behind.
LEMMA PayOnItsWay ==
  ASSUME AppShape, NEW c \in Calls, NEW r \in OnItsWay(c), r.what = "pay"
  PROVE  /\ c = "pay" /\ call["pay"].at \in Paying
         /\ r = [what |-> "pay", bearer |-> call["pay"].bearer, of |-> taps]
<1>1. c = "pay" /\ call[c].at \in Paying /\ r = [what |-> "pay", bearer |-> call[c].bearer, of |-> taps]
  BY OnItsWayShape
<1>2. QED
  BY <1>1

\* So does a press that is given up with its request on its way: it has made no
\* order yet, and is not sent again.
LEMMA PressAbandoned ==
  ASSUME AppShape, PressInv, UNCHANGED <<taps, orders>>, adrift \subseteq adrift',
         \A r \in adrift' \ adrift : r.what = "pay" =>
           /\ call["pay"].at \in Paying /\ call'["pay"].at \notin Paying
           /\ r = [what |-> "pay", bearer |-> call["pay"].bearer, of |-> taps],
         \/ call'["pay"] = call["pay"]
         \/ /\ call'["pay"].at # "ok"
            /\ call'["pay"].at \in Paying => call["pay"].at \in Paying
  PROVE  PressInv'
<1>1. ASSUME NEW r \in adrift', r.what = "pay", r \notin adrift
      PROVE  /\ r.of = taps /\ r.of \in 1..taps /\ orders[r.of] = 0 /\ call'["pay"].at \notin Paying
             /\ \A o \in adrift : o.what = "pay" => o.of # r.of
             /\ \A o \in adrift' \ adrift : o.what = "pay" => o = r
  <2>1. call["pay"].at \in Paying /\ call'["pay"].at \notin Paying /\ r.of = taps
    BY <1>1
  <2>2. taps \in 1..MaxTaps /\ orders[taps] = 0 /\ \A o \in adrift : o.what = "pay" => o.of # taps
    BY <2>1 DEF PressInv
  <2>3. taps \in 1..taps
    BY <2>2, MobileAssumption
  <2>4. QED
    BY <1>1, <2>1, <2>2, <2>3
<1>2. \A r \in adrift' : r.what = "pay" =>
        /\ r.of \in 1..taps /\ orders[r.of] = 0 /\ (call'["pay"].at \in Paying => r.of # taps)
        /\ \A o \in adrift' : o.what = "pay" /\ o.of = r.of => o = r
  <2>1. ASSUME NEW r \in adrift, r.what = "pay"
        PROVE  /\ r.of \in 1..taps /\ orders[r.of] = 0 /\ (call'["pay"].at \in Paying => r.of # taps)
               /\ \A o \in adrift' : o.what = "pay" /\ o.of = r.of => o = r
    BY <1>1, <2>1 DEF PressInv
  <2>2. QED
    BY <1>1, <2>1
<1>3. /\ \A t \in 1..MaxTaps : orders'[t] <= 1 /\ (t > taps' => orders'[t] = 0)
      /\ call'["pay"].at \in Paying => taps' \in 1..MaxTaps /\ orders'[taps'] = 0
      /\ call'["pay"].at = "ok" => taps' \in 1..MaxTaps /\ orders'[taps'] = 1
  BY DEF PressInv
<1>4. QED
  BY <1>2, <1>3 DEF PressInv

\* Every step of the app keeps a press of Pay to its one order.
LEMMA PressInductive ==
  ASSUME AppShape, PressInv, [AppNext]_appVars
  PROVE  PressInv'
<1> USE DEF tokens, screen
<1>1. /\ {"pay", "login", "logout", "profile"} \subseteq Calls
      /\ {"sent", "ok", "failed", "renew", "refreshing", "renewed", "saving"} \subseteq CallStates
  BY DEF Calls, CallStates
<1>2. /\ stored.access \in Nat /\ stored.refresh \in Nat
      /\ \A c \in Calls : call[c].refresh \in Nat
  BY DEF AppShape, CallRecord
<1>3. ASSUME NEW x \in Items, AddLine(x) \/ LessOne(x) \/ RemoveLine(x) PROVE PressInv'
  BY <1>3, PressKept DEF AddLine, LessOne, RemoveLine, Shopping
<1>4. CASE Pay
  <2>1. call'["pay"].at = "sent"
    BY <1>1, <1>2, <1>4, SentCall, ReplacedShape DEF Pay
  <2>2. /\ taps' = taps + 1 /\ taps' \in 1..MaxTaps /\ UNCHANGED <<orders, adrift>>
        /\ \A n \in 1..taps : n \in 1..taps' /\ n # taps'
    BY <1>4, MobileAssumption DEF Pay, AppShape
  <2>3. QED
    BY <2>1, <2>2, MobileAssumption DEF PressInv, AppShape, Paying
<1>5. ASSUME NEW c \in Calls \ {"pay"}, NEW b \in Nat, NEW n \in Nat, Asks(c, b, n) PROVE PressInv'
  <2>1. call'["pay"] = call["pay"]
    BY <1>1, <1>5, SentBody, ReplacedShape DEF Asks
  <2>2. QED
    BY <1>5, <2>1, PressKept DEF Asks
<1>6. CASE RefreshProfile \/ SignIn \/ SignOut \/ SignOutHere
  BY <1>1, <1>2, <1>5, <1>6, PressKept DEF RefreshProfile, SignIn, SignOut, SignOutHere
<1>7. CASE ServePay
  <2>1. /\ taps' = taps /\ taps \in 1..MaxTaps /\ orders[taps] = 0
        /\ orders' = orders \/ orders' = [orders EXCEPT ![taps] = 1]
        /\ adrift' = adrift /\ call["pay"].at \in Paying
    BY <1>7 DEF ServePay, PressInv, Paying, AppShape
  <2>2. \/ call'["pay"].at = "ok" /\ orders' = [orders EXCEPT ![taps] = @ + 1]
        \/ call'["pay"].at = "failed"
    BY <1>1, <1>7, BecomesShape DEF ServePay
  <2>3. \/ call'["pay"].at = "ok" /\ orders'[taps] = 1
        \/ call'["pay"].at = "failed"
    <3>1. orders' = [orders EXCEPT ![taps] = @ + 1] => orders'[taps] = orders[taps] + 1
      BY <2>1 DEF AppShape
    <3>2. QED
      BY <2>1, <2>2, <3>1
  <2>4. \A t \in 1..MaxTaps : orders'[t] = orders[t] \/ (t = taps /\ orders'[t] = 1)
    BY <2>1 DEF AppShape
  <2>5. \A r \in adrift : r.what = "pay" => r.of # taps /\ r.of \in 1..MaxTaps
    BY <2>1, MobileAssumption DEF PressInv, AppShape
  <2>6. call'["pay"].at \notin Paying
    BY <2>2 DEF Paying
  <2>7. \A r \in adrift' : r.what = "pay" =>
          /\ r.of \in 1..taps' /\ orders'[r.of] = 0
          /\ \A o \in adrift' : o.what = "pay" /\ o.of = r.of => o = r
    BY <2>1, <2>4, <2>5 DEF PressInv
  <2>8. \A t \in 1..MaxTaps : orders'[t] <= 1 /\ (t > taps' => orders'[t] = 0)
    BY <2>1, <2>4, MobileAssumption DEF PressInv, AppShape
  <2>9. QED
    BY <2>1, <2>3, <2>6, <2>7, <2>8 DEF PressInv
<1>8. CASE ServeProfile \/ ServeLogout
  <2>1. call'["pay"] = call["pay"]
    BY <1>1, <1>8, BecomesShape DEF ServeProfile, ServeLogout
  <2>2. QED
    BY <1>8, <2>1, PressKept DEF ServeProfile, ServeLogout
<1>9. CASE ServeLogin
  <2>1. minted' \in Nat
    BY <1>9 DEF ServeLogin, Mint, AppShape
  <2>2. call'["pay"] = call["pay"]
    BY <1>1, <1>9, <2>1, BecomesShape, RefreshShape DEF ServeLogin
  <2>3. QED
    BY <1>9, <2>2, PressKept DEF ServeLogin
<1>10. ASSUME NEW c \in Calls, NEW stage \in CallStates, Becomes(c, stage),
              stage \in Paying => call[c].at \in Paying, stage # "ok", UNCHANGED <<taps, orders, adrift>>
       PROVE  PressInv'
  BY <1>1, <1>10, BecomesShape, PressKept
<1>11. ASSUME NEW c \in Calls, NEW stage \in CallStates, NEW n \in Nat,
              call' = [call EXCEPT ![c].at = stage, ![c].refresh = n],
              stage \in Paying => call[c].at \in Paying, stage # "ok", UNCHANGED <<taps, orders, adrift>>
       PROVE  PressInv'
  <2>1. call'[c].at = stage /\ \A d \in Calls \ {c} : call'[d] = call[d]
    BY <1>11, RefreshShape
  <2>2. QED
    BY <1>1, <1>11, <2>1, PressKept
<1>12. ASSUME NEW c \in Calls, Unauthorized(c) \/ RefreshRefused(c) \/ SaveAccess(c) PROVE PressInv'
  BY <1>1, <1>10, <1>12 DEF Unauthorized, RefreshRefused, SaveAccess, Paying
<1>13. ASSUME NEW c \in Calls, Renew(c) PROVE PressInv'
  BY <1>1, <1>2, <1>11, <1>13 DEF Renew, Paying
<1>14. ASSUME NEW c \in Calls, Rotate(c) PROVE PressInv'
  <2>1. minted' \in Nat
    BY <1>14 DEF Rotate, Mint, AppShape
  <2>2. QED
    BY <1>1, <1>11, <1>14, <2>1 DEF Rotate, Paying
<1>15. ASSUME NEW c \in Calls, SaveRefresh(c) PROVE PressInv'
  <2>1. \/ call'["pay"] = call["pay"]
        \/ c = "pay" /\ call'["pay"].at = "sent"
    BY <1>1, <1>15, IdleCall, ReplayedCall, ReplacedShape DEF SaveRefresh
  <2>2. QED
    BY <1>15, <2>1, PressKept DEF SaveRefresh, Paying
<1>16. ASSUME NEW c \in Calls, NetworkFails(c) PROVE PressInv'
  <2>1. AfterNetworkError(c) \in CallRecord /\ AfterNetworkError(c).at = "failed"
    BY DEF AfterNetworkError, AppShape, CallRecord, CallStates
  <2>2. call'["pay"] = call["pay"] \/ call'["pay"].at = "failed"
    BY <1>1, <1>16, <2>1, ReplacedShape DEF NetworkFails
  <2>3. c = "pay" => call'["pay"].at \notin Paying
    BY <1>1, <1>16, <2>1, ReplacedShape DEF NetworkFails, Paying
  <2>4. adrift' = adrift \cup OnItsWay(c) /\ UNCHANGED <<taps, orders>>
    BY <1>16 DEF NetworkFails
  <2>5. \A r \in adrift' \ adrift : r.what = "pay" =>
          /\ call["pay"].at \in Paying /\ call'["pay"].at \notin Paying
          /\ r = [what |-> "pay", bearer |-> call["pay"].bearer, of |-> taps]
    BY <2>3, <2>4, PayOnItsWay
  <2>6. adrift \subseteq adrift' /\ "failed" \notin Paying
    BY <2>4 DEF Paying
  <2>7. QED
    BY <2>2, <2>4, <2>5, <2>6, PressAbandoned
<1>17. CASE PayAnswered \/ ProfileAnswered \/ LoginFailed \/ LoggedOut
  <2>1. call'["pay"] = call["pay"] \/ call'["pay"].at = "idle"
    BY <1>1, <1>17, IdleCall, ReplacedShape
       DEF PayAnswered, ProfileAnswered, LoginFailed, LoggedOut, Settles
  <2>2. QED
    BY <1>17, <2>1, PressKept
       DEF PayAnswered, ProfileAnswered, LoginFailed, LoggedOut, Settles, Paying
<1>18. CASE AppRestarts
  <2>1. call'["pay"].at = "idle"
    BY <1>1, <1>18, IdleCall DEF AppRestarts
  <2>2. \A r \in adrift' \ adrift : r.what = "pay" =>
          /\ call["pay"].at \in Paying /\ call'["pay"].at \notin Paying
          /\ r = [what |-> "pay", bearer |-> call["pay"].bearer, of |-> taps]
    <3>1. "idle" \notin Paying /\ adrift' = adrift \cup UNION {OnItsWay(c) : c \in Calls}
      BY <1>18 DEF Paying, AppRestarts
    <3>2. QED
      BY <2>1, <3>1, PayOnItsWay
  <2>3. adrift \subseteq adrift' /\ UNCHANGED <<taps, orders>> /\ "idle" \notin Paying
    BY <1>18 DEF AppRestarts, Paying
  <2>4. QED
    BY <2>1, <2>2, <2>3, PressAbandoned
<1>19. ASSUME NEW n \in 1..MaxTokens, AccessExpires(n) PROVE PressInv'
  BY <1>19, PressKept DEF AccessExpires
<1>20. ASSUME NEW r \in adrift, ServeLate(r) PROVE PressInv'
  <2>1. /\ UNCHANGED <<taps, call>> /\ adrift' = adrift \ {r}
        /\ IF r.what = "pay" THEN orders' = [orders EXCEPT ![r.of] = @ + 1] ELSE orders' = orders
    BY <1>20, LateServed DEF ServeLate
  <2>2. CASE r.what # "pay"
    BY <2>1, <2>2 DEF PressInv
  <2>3. CASE r.what = "pay"
    <3>0. r.of \in 1..taps /\ taps \in 0..MaxTaps /\ MaxTaps \in Nat
      BY <2>3, MobileAssumption DEF PressInv, AppShape
    <3>8. r.of \in 1..MaxTaps /\ r.of <= taps
      BY <3>0
    <3>1. /\ r.of \in 1..MaxTaps /\ r.of <= taps /\ orders[r.of] = 0
          /\ call["pay"].at \in Paying \cup {"ok"} => r.of # taps
          /\ \A o \in adrift \ {r} : o.what = "pay" => o.of # r.of
      BY <2>3, <3>8 DEF PressInv
    <3>2. orders'[r.of] = 1 /\ \A t \in (1..MaxTaps) \ {r.of} : orders'[t] = orders[t]
      <4>1. orders \in [1..MaxTaps -> Nat] /\ orders' = [orders EXCEPT ![r.of] = @ + 1]
        BY <2>1, <2>3 DEF AppShape
      <4>2. /\ orders'[r.of] = orders[r.of] + 1
            /\ \A t \in 1..MaxTaps : t # r.of => orders'[t] = orders[t]
        BY <3>1, <4>1, OneMore
      <4>3. QED
        BY <3>1, <4>2
    <3>3. \A t \in 1..MaxTaps : orders'[t] <= 1 /\ (t > taps => orders'[t] = 0)
      BY <3>1, <3>2, MobileAssumption DEF PressInv, AppShape
    <3>4. ASSUME NEW o \in adrift', o.what = "pay"
          PROVE  /\ o.of \in 1..taps /\ orders'[o.of] = 0 /\ (call["pay"].at \in Paying => o.of # taps)
                 /\ \A x \in adrift' : x.what = "pay" /\ x.of = o.of => x = o
      <4>1. o \in adrift /\ o # r /\ adrift' \subseteq adrift
        BY <2>1, <3>4
      <4>2. /\ o.of \in 1..taps /\ orders[o.of] = 0 /\ (call["pay"].at \in Paying => o.of # taps)
            /\ \A x \in adrift : x.what = "pay" /\ x.of = o.of => x = o
        BY <3>4, <4>1 DEF PressInv
      <4>3. o.of # r.of /\ o.of \in 1..MaxTaps
        <5>1. o.of # r.of
          BY <3>1, <3>4, <4>1
        <5>2. QED
          BY <3>0, <4>2, <5>1
      <4>4. orders'[o.of] = 0
        BY <3>2, <4>2, <4>3
      <4>5. QED
        BY <4>1, <4>2, <4>4
    <3>5. call["pay"].at \in Paying => taps \in 1..MaxTaps /\ orders'[taps] = 0
      BY <3>1, <3>2 DEF PressInv
    <3>6. call["pay"].at = "ok" => taps \in 1..MaxTaps /\ orders'[taps] = 1
      BY <3>1, <3>2 DEF PressInv
    <3>7. QED
      BY <2>1, <3>3, <3>4, <3>5, <3>6 DEF PressInv
  <2>4. QED
    BY <2>2, <2>3
<1>21. CASE UNCHANGED appVars
  BY <1>21, PressKept DEF appVars
<1>22. QED
  BY <1>3, <1>4, <1>6, <1>7, <1>8, <1>9, <1>12, <1>13, <1>14, <1>15, <1>16, <1>17, <1>18, <1>19,
     <1>20, <1>21 DEF AppNext

\* One press of Pay makes at most one order, for any number of presses, tokens
\* and broken connections.
THEOREM PressMakesOneOrder == AppSpec => []OneOrderPerTap
<1>1. AppInit => AppShape /\ PressInv
  BY IdleCall, CallNames, MobileAssumption DEF AppInit, AppShape, PressInv, Paying
<1>2. AppShape /\ PressInv /\ [AppNext]_appVars => (AppShape /\ PressInv)'
  BY ShapeInductive, PressInductive
<1>3. PressInv => OneOrderPerTap
  BY DEF PressInv, OneOrderPerTap
<1>4. QED
  BY <1>1, <1>2, <1>3, PTL DEF AppSpec

\* What a request carries are tokens that were issued; a refresh that was sent
\* carries one, and so does a sign-out under way.
Issued(r, n) == r.bearer <= n /\ r.body <= n /\ r.refresh <= n /\ (r.at = "refreshing" => r.refresh # 0)
SignsOutOne(r) == r.at \in Paying => r.body # 0

CallsIssued ==
  /\ \A c \in Calls : Issued(call[c], minted)
  /\ SignsOutOne(call["logout"])

\* So does a sign-out or a refresh that is on its way with nobody waiting for it.
AdriftIssued == \A r \in adrift : r.what \in {"logout", "refresh"} => r.of \in 1..minted

TokensIssued ==
  /\ minted \in Nat /\ minted <= MaxTokens /\ revoked \subseteq 1..minted /\ expired \subseteq 1..minted
  /\ stored.access <= minted /\ stored.refresh <= minted

AppBounds ==
  /\ customer \in BOOLEAN /\ cart \in Basket
  /\ asked \in 0..MaxCalls /\ breaks \in 0..MaxBreaks

\* A request that is replaced by one with issued tokens, whoever mints meanwhile
LEMMA CallReplaced ==
  ASSUME AppShape, CallsIssued, minted' \in Nat, minted' >= minted,
         NEW c \in Calls, NEW r \in CallRecord, Issued(r, minted'), c = "logout" => SignsOutOne(r),
         call' = [call EXCEPT ![c] = r]
  PROVE  CallsIssued'
<1>1. /\ call'[c] = r /\ \A d \in Calls \ {c} : call'[d] = call[d]
  BY DEF AppShape
<1>2. ASSUME NEW d \in Calls PROVE Issued(call'[d], minted')
  <2>1. CASE d = c
    BY <1>1, <2>1
  <2>2. CASE d # c
    <3>1. call[d] \in CallRecord /\ minted \in Nat
      BY DEF AppShape
    <3>2. call'[d] = call[d]
      BY <1>1, <2>2
    <3>3. QED
      BY <3>1, <3>2 DEF CallsIssued, Issued, CallRecord
  <2>3. QED
    BY <2>1, <2>2
<1>3. SignsOutOne(call'["logout"])
  BY <1>1, CallNames DEF CallsIssued
<1>4. QED
  BY <1>2, <1>3 DEF CallsIssued

\* A request that moves on with the tokens it has, or takes one with it
LEMMA CallMoves ==
  ASSUME AppShape, CallsIssued, minted' \in Nat, minted' >= minted,
         NEW c \in Calls, NEW stage \in CallStates, NEW n \in Nat, n <= minted',
         stage = "refreshing" => n # 0,
         stage \in Paying => call[c].at \in Paying \/ c # "logout",
         call' = [call EXCEPT ![c].at = stage, ![c].refresh = n]
  PROVE  CallsIssued'
<1> DEFINE r == [call[c] EXCEPT !.at = stage, !.refresh = n]
<1>1. call[c] \in CallRecord /\ minted \in Nat
  BY DEF AppShape
<1>2. r \in CallRecord /\ r.at = stage /\ r.refresh = n /\ r.body = call[c].body /\ r.bearer = call[c].bearer
  BY <1>1 DEF CallRecord
<1>3. call' = [call EXCEPT ![c] = r]
  BY DEF AppShape
<1>4. Issued(call[c], minted) /\ (c = "logout" => SignsOutOne(call[c]))
  BY DEF CallsIssued
<1> HIDE DEF r
<1>5. Issued(r, minted')
  BY <1>1, <1>2, <1>4 DEF Issued, CallRecord
<1>6. c = "logout" => SignsOutOne(r)
  BY <1>2, <1>4 DEF SignsOutOne
<1>7. QED
  BY <1>2, <1>3, <1>5, <1>6, CallReplaced

\* The same when it keeps its refresh token
LEMMA CallBecomes ==
  ASSUME AppShape, CallsIssued, minted' = minted,
         NEW c \in Calls, NEW stage \in CallStates \ {"refreshing"},
         stage \in Paying => call[c].at \in Paying \/ c # "logout", Becomes(c, stage)
  PROVE  CallsIssued'
<1>1. call[c] \in CallRecord /\ minted \in Nat /\ call[c].refresh \in Nat
  BY DEF AppShape, CallRecord
<1>2. call[c].refresh <= minted'
  BY DEF CallsIssued, Issued
<1>3. [call[c] EXCEPT !.at = stage] = [call[c] EXCEPT !.at = stage, !.refresh = call[c].refresh]
  BY <1>1 DEF CallRecord
<1>4. call' = [call EXCEPT ![c].at = stage, ![c].refresh = call[c].refresh]
  BY <1>3 DEF Becomes, AppShape
<1>5. minted' \in Nat /\ minted' >= minted /\ (stage = "refreshing" => call[c].refresh # 0)
  BY <1>1
<1> HIDE DEF CallsIssued
<1>6. QED
  BY <1>1, <1>2, <1>4, <1>5, CallMoves

\* Every step keeps what a request carries among the tokens that were issued.
LEMMA CallsInductive ==
  ASSUME AppShape, TokensIssued, CallsIssued, [AppNext]_appVars
  PROVE  CallsIssued' /\ minted' \in Nat /\ minted' >= minted
<1> USE DEF tokens, screen
<1> DEFINE Held == minted' \in Nat /\ minted' = minted
<1>1. /\ {"pay", "login", "logout", "profile"} \subseteq Calls
      /\ {"sent", "ok", "failed", "renew", "refreshing", "renewed", "saving"} \subseteq CallStates
  BY DEF Calls, CallStates
<1>2. /\ stored.access \in Nat /\ stored.refresh \in Nat /\ minted \in Nat
      /\ stored.access <= minted /\ stored.refresh <= minted
      /\ \A c \in Calls : call[c] \in CallRecord /\ call[c].refresh \in Nat /\ call[c].body \in Nat
                          /\ call[c].refresh <= minted /\ call[c].body <= minted
  BY DEF AppShape, CallRecord, TokensIssued, CallsIssued, Issued
<1>3. minted' \in Nat /\ minted' >= minted
  <2>1. ASSUME NEW r \in adrift, ServeLate(r) PROVE minted' \in Nat /\ minted' >= minted
    BY <2>1, LateServed
  <2>2. CASE minted' = minted \/ minted' = minted + 1
    BY <1>2, <2>2
  <2>3. QED
    BY <2>1, <2>2
       DEF AppNext, appVars, AddLine, LessOne, RemoveLine, Shopping, Pay, RefreshProfile, SignIn,
           SignOut, SignOutHere, Asks, ServePay, ServeProfile, ServeLogin, ServeLogout, Unauthorized,
           Renew, Rotate, RefreshRefused, SaveAccess, SaveRefresh, NetworkFails, PayAnswered,
           ProfileAnswered, LoginFailed, LoggedOut, Settles, AppRestarts, AccessExpires, Mint
<1> SUFFICES CallsIssued'
  BY <1>3
<1>4. ASSUME call' = call PROVE CallsIssued'
  BY <1>2, <1>3, <1>4, CallNames DEF CallsIssued, Issued, AppShape, CallRecord
<1>5. Issued(NoCall, minted') /\ SignsOutOne(NoCall)
  BY <1>3 DEF NoCall, Issued, SignsOutOne, Paying
<1>6. ASSUME NEW b \in Nat, b <= minted', NEW n \in Nat, n <= minted', NEW again \in BOOLEAN
      PROVE  /\ Issued(Sent(b), minted') /\ Issued([Sent(b) EXCEPT !.body = n], minted')
             /\ Issued([Sent(b) EXCEPT !.body = n, !.replayed = again], minted')
             /\ n # 0 => SignsOutOne([Sent(b) EXCEPT !.body = n])
             /\ n # 0 => SignsOutOne([Sent(b) EXCEPT !.body = n, !.replayed = again])
  BY <1>3, <1>6 DEF Sent, NoCall, Issued, SignsOutOne
<1>7. ASSUME NEW c \in Calls, NEW b \in Nat, NEW n \in Nat, b <= minted, n <= minted,
             c = "logout" => n # 0, Asks(c, b, n)
      PROVE  CallsIssued'
  <2>1. b <= minted' /\ n <= minted'
    BY <1>2, <1>3, <1>7
  <2>2. Issued([Sent(b) EXCEPT !.body = n], minted') /\ (n # 0 => SignsOutOne([Sent(b) EXCEPT !.body = n]))
    BY <1>6, <2>1
  <2>3. QED
    BY <1>3, <1>7, <2>2, SentBody, CallReplaced DEF Asks
<1>8. ASSUME NEW c \in Calls, NEW stage \in CallStates \ {"refreshing"}, minted' = minted,
             stage \in Paying => call[c].at \in Paying \/ c # "logout", Becomes(c, stage)
      PROVE  CallsIssued'
  BY <1>8, CallBecomes
<1>9. ASSUME NEW c \in Calls, call' = [call EXCEPT ![c] = NoCall] PROVE CallsIssued'
  BY <1>3, <1>5, <1>9, IdleCall, CallReplaced
<1>10. CASE Pay
  <2>1. stored.access <= minted' /\ 0 \in Nat /\ 0 <= minted'
    BY <1>2, <1>3
  <2>2. Issued(Sent(stored.access), minted')
    BY <1>2, <1>6, <2>1
  <2>3. QED
    BY <1>1, <1>2, <1>3, <1>10, <2>2, SentCall, CallReplaced DEF Pay
<1>11. CASE RefreshProfile \/ SignIn \/ SignOut
  <2>1. 0 \in Nat /\ 0 <= minted
    BY <1>2
  <2>2. CASE RefreshProfile
    BY <1>1, <1>2, <1>7, <2>1, <2>2 DEF RefreshProfile
  <2>3. CASE SignIn
    BY <1>1, <1>7, <2>1, <2>3 DEF SignIn
  <2>4. CASE SignOut
    BY <1>1, <1>2, <1>7, <2>4 DEF SignOut
  <2>5. QED
    BY <1>11, <2>2, <2>3, <2>4
<1>12. CASE ServePay \/ ServeProfile \/ ServeLogout
  <2>1. /\ minted' = minted /\ {"ok", "failed"} \subseteq CallStates \ {"refreshing"}
        /\ "ok" \notin Paying /\ "failed" \notin Paying
    BY <1>1, <1>12 DEF ServePay, ServeProfile, ServeLogout, Paying
  <2>2. \E c \in Calls, stage \in {"ok", "failed"} : Becomes(c, stage)
    BY <1>1, <1>12 DEF ServePay, ServeProfile, ServeLogout
  <2>3. QED
    BY <1>8, <2>1, <2>2
<1>13. CASE ServeLogin
  <2>1. CASE minted' = minted /\ Becomes("login", "failed")
    <3>1. "login" \in Calls /\ "failed" \in CallStates \ {"refreshing"} /\ "failed" \notin Paying
      BY <1>1 DEF Paying
    <3>2. QED
      BY <1>8, <2>1, <3>1
  <2>2. CASE call' = [call EXCEPT !["login"].at = "renewed", !["login"].refresh = minted']
    <3>1. /\ "login" \in Calls /\ "login" # "logout" /\ "renewed" \in CallStates
          /\ "renewed" # "refreshing" /\ minted' <= minted'
      BY <1>1, <1>3
    <3>2. QED
      BY <1>3, <2>2, <3>1, CallMoves
  <2>3. QED
    BY <1>13, <2>1, <2>2 DEF ServeLogin
<1>14. ASSUME NEW c \in Calls, Unauthorized(c) \/ RefreshRefused(c) \/ SaveAccess(c) PROVE CallsIssued'
  BY <1>1, <1>8, <1>14 DEF Unauthorized, RefreshRefused, SaveAccess, Paying
<1>15. ASSUME NEW c \in Calls, Renew(c) PROVE CallsIssued'
  <2> DEFINE stage == IF stored.refresh = 0 THEN "failed" ELSE "refreshing"
  <2>1. stage \in CallStates /\ (stage = "refreshing" => stored.refresh # 0) /\ call[c].at \in Paying
    BY <1>1, <1>15 DEF Renew, Paying
  <2>2. call' = [call EXCEPT ![c].at = stage, ![c].refresh = stored.refresh]
    BY <1>15 DEF Renew
  <2>3. stored.refresh <= minted'
    BY <1>2, <1>3
  <2> HIDE DEF stage
  <2>4. QED
    BY <1>2, <1>3, <2>1, <2>2, <2>3, CallMoves
<1>16. ASSUME NEW c \in Calls, Rotate(c) PROVE CallsIssued'
  <2>1. call[c].at \in Paying /\ minted' <= minted' /\ minted' # 0
    BY <1>2, <1>3, <1>16 DEF Rotate, Mint, Paying
  <2>2. call' = [call EXCEPT ![c].at = "renewed", ![c].refresh = minted']
    BY <1>16 DEF Rotate
  <2>3. QED
    BY <1>1, <1>3, <2>1, <2>2, CallMoves
<1>17. ASSUME NEW c \in Calls, SaveRefresh(c) PROVE CallsIssued'
  <2>1. call[c].at \in Paying /\ call[c].refresh <= minted' /\ call[c].body <= minted'
    BY <1>2, <1>3, <1>17 DEF SaveRefresh, Paying
  <2>2. c = "logout" => call[c].body # 0
    BY <2>1 DEF CallsIssued, SignsOutOne
  <2>3. Issued(Replay(c), minted') /\ (c = "logout" => SignsOutOne(Replay(c)))
    BY <1>2, <1>6, <2>1, <2>2 DEF Replay
  <2>4. CASE call' = [call EXCEPT ![c] = NoCall]
    BY <1>9, <2>4
  <2>5. CASE call' = [call EXCEPT ![c] = Replay(c)]
    BY <1>3, <2>3, <2>5, ReplayedCall, CallReplaced
  <2>6. QED
    BY <1>17, <2>4, <2>5 DEF SaveRefresh
<1>18. ASSUME NEW c \in Calls, NetworkFails(c) PROVE CallsIssued'
  <2>1. /\ Becomes(c, "failed") /\ minted' = minted
    BY <1>18 DEF NetworkFails, AfterNetworkError, Becomes, AppShape
  <2>2. QED
    BY <1>1, <1>8, <2>1 DEF Paying
<1>19. CASE PayAnswered \/ ProfileAnswered \/ LoginFailed \/ LoggedOut
  <2>1. \E c \in Calls : call' = [call EXCEPT ![c] = NoCall]
    BY <1>1, <1>19 DEF PayAnswered, ProfileAnswered, LoginFailed, LoggedOut, Settles
  <2>2. QED
    BY <1>9, <2>1
<1>20. CASE AppRestarts
  <2>1. stored.access <= minted'
    BY <1>2, <1>3
  <2>2. Issued(Sent(stored.access), minted')
    BY <1>2, <1>6, <2>1
  <2>3. \A c \in Calls : call'[c] = NoCall \/ (c = "profile" /\ call'[c] = Sent(stored.access))
    BY <1>20 DEF AppRestarts
  <2>4. "logout" \in Calls /\ "logout" # "profile"
    BY <1>1
  <2>5. call'["logout"] = NoCall /\ \A c \in Calls : Issued(call'[c], minted')
    BY <1>5, <2>2, <2>3, <2>4
  <2>6. QED
    BY <1>5, <2>5 DEF CallsIssued
<1>21. QED
  BY <1>3, <1>4, <1>10, <1>11, <1>12, <1>13, <1>14, <1>15, <1>16, <1>17, <1>18, <1>19, <1>20
     DEF AppNext, AddLine, LessOne, RemoveLine, Shopping, SignOutHere, ServeLate, AccessExpires, appVars

\* A sign-out or a refresh that the app gives up carries a token that was issued.
LEMMA AdriftInductive ==
  ASSUME AppShape, CallsIssued, AdriftIssued, [AppNext]_appVars
  PROVE  AdriftIssued'
<1> USE DEF tokens, screen
<1>1. minted \in Nat /\ minted' \in Nat /\ minted' >= minted
  <2>1. ASSUME NEW r \in adrift, ServeLate(r) PROVE minted' \in Nat /\ minted' >= minted
    BY <2>1, LateServed
  <2>2. CASE minted' = minted \/ minted' = minted + 1
    BY <2>2 DEF AppShape
  <2>3. QED
    BY <2>1, <2>2
       DEF AppShape, AppNext, appVars, AddLine, LessOne, RemoveLine, Shopping, Pay, RefreshProfile,
           SignIn, SignOut, SignOutHere, Asks, ServePay, ServeProfile, ServeLogin, ServeLogout,
           Unauthorized, Renew, Rotate, RefreshRefused, SaveAccess, SaveRefresh, NetworkFails,
           PayAnswered, ProfileAnswered, LoginFailed, LoggedOut, Settles, AppRestarts,
           AccessExpires, Mint
<1>2. ASSUME NEW c \in Calls, NEW r \in OnItsWay(c), r.what \in {"logout", "refresh"}
      PROVE  r.of \in 1..minted
  <2>1. /\ call[c].at \in Paying
        /\ r.what = "logout" => c = "logout" /\ r.of = call[c].body
        /\ r.what = "refresh" => call[c].at = "refreshing" /\ r.of = call[c].refresh
    BY OnItsWayShape
  <2>2. call[c].body \in Nat /\ call[c].refresh \in Nat
    BY DEF AppShape, CallRecord
  <2>3. call[c].body <= minted /\ call[c].refresh <= minted
        /\ (call[c].at = "refreshing" => call[c].refresh # 0)
    BY DEF CallsIssued, Issued
  <2>4. c = "logout" => call[c].body # 0
    BY <2>1 DEF CallsIssued, SignsOutOne
  <2>5. r.of \in Nat /\ r.of # 0 /\ r.of <= minted
    BY <1>2, <2>1, <2>2, <2>3, <2>4
  <2>6. QED
    BY <1>1, <2>5
<1>3. ASSUME \A r \in adrift' : r \in adrift \/ \E c \in Calls : r \in OnItsWay(c)
      PROVE  AdriftIssued'
  <2>1. ASSUME NEW r \in adrift', r.what \in {"logout", "refresh"} PROVE r.of \in 1..minted
    BY <1>2, <1>3, <2>1 DEF AdriftIssued
  <2>2. 1..minted \subseteq 1..minted'
    BY <1>1
  <2>3. QED
    BY <2>1, <2>2 DEF AdriftIssued
<1>4. \A r \in adrift' : r \in adrift \/ \E c \in Calls : r \in OnItsWay(c)
  <2>1. CASE AppRestarts \/ \E c \in Calls : NetworkFails(c)
    BY <2>1 DEF AppRestarts, NetworkFails
  <2>2. CASE \E r \in adrift : ServeLate(r)
    BY <2>2 DEF ServeLate
  <2>3. CASE UNCHANGED adrift
    BY <2>3
  <2>4. QED
    BY <2>1, <2>2, <2>3
       DEF AppNext, appVars, AddLine, LessOne, RemoveLine, Shopping, Pay, RefreshProfile,
           SignIn, SignOut, SignOutHere, Asks, ServePay, ServeProfile, ServeLogin, ServeLogout,
           Unauthorized, Renew, Rotate, RefreshRefused, SaveAccess, SaveRefresh,
           PayAnswered, ProfileAnswered, LoginFailed, LoggedOut, Settles, AccessExpires
<1>5. QED
  BY <1>3, <1>4

\* Every step issues, revokes and stores only tokens that were issued.
LEMMA TokensInductive ==
  ASSUME AppShape, TokensIssued, CallsIssued, AdriftIssued, [AppNext]_appVars
  PROVE  TokensIssued'
<1> USE DEF tokens, screen
<1>1. /\ minted' \in Nat /\ minted' >= minted /\ CallsIssued'
  BY CallsInductive
<1>2. /\ stored.access \in Nat /\ stored.refresh \in Nat /\ minted \in Nat
      /\ stored \in [access : Nat, refresh : Nat]
      /\ \A c \in Calls : call[c] \in CallRecord /\ call[c].refresh \in Nat /\ call[c].body \in Nat
                          /\ call[c].refresh <= minted /\ call[c].body <= minted
  BY DEF AppShape, CallRecord, CallsIssued, Issued
<1>3. ASSUME minted' = minted \/ (minted < MaxTokens /\ minted' = minted + 1),
             revoked' = revoked \/ (\E n \in 1..minted : revoked' = revoked \cup {n}),
             expired' = expired \/ (\E n \in 1..minted : expired' = expired \cup {n}),
             stored' \in [access : Nat, refresh : Nat],
             stored'.access = stored.access \/ stored'.access <= minted,
             stored'.refresh = stored.refresh \/ stored'.refresh <= minted
      PROVE  TokensIssued'
  <2>1. minted' <= MaxTokens
    BY <1>3, MobileAssumption DEF TokensIssued
  <2>2. 1..minted \subseteq 1..minted'
    BY <1>1, <1>2
  <2>3. stored'.access <= minted' /\ stored'.refresh <= minted'
    <3>1. stored'.access \in Nat /\ stored'.refresh \in Nat
      BY <1>3
    <3>2. QED
      BY <1>1, <1>2, <1>3, <3>1 DEF TokensIssued
  <2>4. revoked' \subseteq 1..minted'
    <3> DEFINE before == 1..minted
    <3>1. revoked \subseteq before /\ before \subseteq 1..minted'
      BY <2>2 DEF TokensIssued
    <3>2. revoked' = revoked \/ (\E n \in before : revoked' = revoked \cup {n})
      BY <1>3
    <3> HIDE DEF before
    <3>3. revoked' \subseteq before
      BY <3>1, <3>2
    <3>4. QED
      BY <3>1, <3>3
  <2>5. expired' \subseteq 1..minted'
    <3> DEFINE before == 1..minted
    <3>1. expired \subseteq before /\ before \subseteq 1..minted'
      BY <2>2 DEF TokensIssued
    <3>2. expired' = expired \/ (\E n \in before : expired' = expired \cup {n})
      BY <1>3
    <3> HIDE DEF before
    <3>3. expired' \subseteq before
      BY <3>1, <3>2
    <3>4. QED
      BY <3>1, <3>3
  <2>6. QED
    BY <1>1, <2>1, <2>3, <2>4, <2>5 DEF TokensIssued
<1>4. ASSUME stored' = Cleared
      PROVE  stored' \in [access : Nat, refresh : Nat] /\ stored'.access <= minted /\ stored'.refresh <= minted
  BY <1>2, <1>4 DEF Cleared
<1>5. CASE ServeLogout
  <2>1. "logout" \in Calls /\ call["logout"].at \in Paying
    BY <1>5, CallNames DEF ServeLogout, Paying
  <2>2. call["logout"].body \in 1..minted
    <3>1. call["logout"].body # 0
      BY <2>1 DEF CallsIssued, SignsOutOne
    <3>2. QED
      BY <1>2, <2>1, <3>1
  <2>3. QED
    BY <1>2, <1>3, <1>5, <2>2 DEF ServeLogout
<1>6. ASSUME NEW c \in Calls, Rotate(c) PROVE TokensIssued'
  <2>1. call[c].refresh \in 1..minted
    <3>1. call[c].refresh # 0
      BY <1>6 DEF Rotate, CallsIssued, Issued
    <3>2. QED
      BY <1>2, <3>1
  <2>2. QED
    BY <1>2, <1>3, <1>6, <2>1 DEF Rotate, Mint
<1>7. ASSUME NEW c \in Calls, SaveAccess(c) PROVE TokensIssued'
  <2>1. /\ stored' \in [access : Nat, refresh : Nat]
        /\ stored'.access = call[c].refresh /\ stored'.refresh = stored.refresh
    BY <1>2, <1>7 DEF SaveAccess
  <2>2. QED
    BY <1>2, <1>3, <1>7, <2>1 DEF SaveAccess
<1>8. ASSUME NEW c \in Calls, SaveRefresh(c) PROVE TokensIssued'
  <2>1. /\ stored' \in [access : Nat, refresh : Nat]
        /\ stored'.refresh = call[c].refresh /\ stored'.access = stored.access
    BY <1>2, <1>8 DEF SaveRefresh
  <2>2. QED
    BY <1>2, <1>3, <1>8, <2>1 DEF SaveRefresh
<1>9. CASE ServeLogin
  BY <1>2, <1>3, <1>9 DEF ServeLogin, Mint
<1>10. CASE ProfileAnswered \/ LoggedOut
  BY <1>2, <1>3, <1>4, <1>10 DEF ProfileAnswered, LoggedOut, Settles
<1>11. ASSUME SignOutHere \/ \E c \in Calls : RefreshRefused(c) PROVE TokensIssued'
  BY <1>2, <1>3, <1>4, <1>11 DEF RefreshRefused, SignOutHere
<1>12. ASSUME NEW n \in 1..MaxTokens, AccessExpires(n) PROVE TokensIssued'
  BY <1>2, <1>3, <1>12 DEF AccessExpires
<1>13. CASE UNCHANGED <<tokens, stored>>
  BY <1>2, <1>3, <1>13
<1>14. ASSUME NEW r \in adrift, ServeLate(r) PROVE TokensIssued'
  <2>1. r.what \in {"pay", "login", "logout", "refresh"}
    <3>1. r \in Abandoned
      BY DEF AppShape
    <3>2. QED
      BY <3>1 DEF Abandoned
  <2>2. UNCHANGED <<expired, stored>>
    BY <1>14 DEF ServeLate
  <2>3. CASE r.what \in {"pay", "login"}
    <3>1. revoked' = revoked /\ (minted' = minted \/ (minted < MaxTokens /\ minted' = minted + 1))
      BY <1>14, <2>3 DEF ServeLate, Mint
    <3>2. QED
      BY <1>2, <1>3, <2>2, <3>1
  <2>4. CASE r.what \in {"logout", "refresh"}
    <3>1. r.of \in 1..minted
      BY <2>4 DEF AdriftIssued
    <3>2. revoked' = revoked \cup {r.of} /\ (minted' = minted \/ (minted < MaxTokens /\ minted' = minted + 1))
      BY <1>14, <2>4 DEF ServeLate, Mint
    <3>3. QED
      BY <1>2, <1>3, <2>2, <3>1, <3>2
  <2>5. QED
    BY <2>1, <2>3, <2>4
<1>15. QED
  BY <1>5, <1>6, <1>7, <1>8, <1>9, <1>10, <1>11, <1>12, <1>13, <1>14
     DEF AppNext, appVars, AddLine, LessOne, RemoveLine, Shopping, Pay, RefreshProfile, SignIn,
         SignOut, Asks, ServePay, ServeProfile, Unauthorized, Renew, NetworkFails, PayAnswered,
         LoginFailed, Settles, AppRestarts

\* Every step keeps the cart within its caps and the counters within their bounds.
LEMMA AppBoundsInductive ==
  ASSUME AppBounds, [AppNext]_appVars
  PROVE  AppBounds'
<1> USE DEF tokens, screen
<1>1. MaxItemQty \in Nat /\ MaxCalls \in Nat /\ MaxBreaks \in Nat
  BY MobileAssumption
<1>2. ASSUME NEW x \in Items, AddLine(x) \/ LessOne(x) \/ RemoveLine(x) PROVE AppBounds'
  <2>1. cart[x] \in 0..MaxItemQty
    BY DEF AppBounds, Basket
  <2>2. Capped(cart[x] + 1) \in 0..MaxItemQty /\ (cart[x] > 0 => cart[x] - 1 \in 0..MaxItemQty)
    BY <1>1, <2>1 DEF Capped
  <2>3. cart' \in Basket
    BY <1>1, <1>2, <2>2 DEF AddLine, LessOne, RemoveLine, AppBounds, Basket
  <2>4. QED
    BY <1>2, <2>3 DEF AddLine, LessOne, RemoveLine, Shopping, AppBounds
<1>3. EmptyBasket \in Basket
  BY <1>1 DEF EmptyBasket, Basket
<1>4. CASE PayAnswered \/ ProfileAnswered \/ LoginFailed \/ LoggedOut
  BY <1>3, <1>4 DEF PayAnswered, ProfileAnswered, LoginFailed, LoggedOut, Settles, AppBounds
<1>5. CASE AppRestarts \/ (\E c \in Calls : NetworkFails(c))
  <2>1. breaks < MaxBreaks /\ breaks' = breaks + 1 /\ UNCHANGED <<cart, asked>>
    BY <1>5 DEF AppRestarts, NetworkFails
  <2>2. customer' \in BOOLEAN
    BY <1>5 DEF AppRestarts, NetworkFails, AppBounds
  <2>3. QED
    BY <1>1, <2>1, <2>2 DEF AppBounds
<1>6. CASE RefreshProfile \/ SignIn \/ SignOut
  BY <1>1, <1>6 DEF RefreshProfile, SignIn, SignOut, Asks, AppBounds
<1>13. CASE SignOutHere \/ \E r \in adrift : ServeLate(r)
  <2>1. UNCHANGED <<cart, asked, breaks>> /\ customer' \in BOOLEAN
    BY <1>13 DEF SignOutHere, ServeLate, AppBounds
  <2>2. QED
    BY <2>1 DEF AppBounds
<1>7. CASE Pay \/ ServePay \/ ServeProfile \/ ServeLogin \/ ServeLogout
  BY <1>7 DEF Pay, ServePay, ServeProfile, ServeLogin, ServeLogout, AppBounds
<1>8. ASSUME NEW c \in Calls, Unauthorized(c) \/ Renew(c) \/ Rotate(c) \/ RefreshRefused(c) \/ SaveAccess(c)
      PROVE  AppBounds'
  BY <1>8 DEF Unauthorized, Renew, Rotate, RefreshRefused, SaveAccess, AppBounds
<1>9. ASSUME NEW c \in Calls, SaveRefresh(c) PROVE AppBounds'
  BY <1>9 DEF SaveRefresh, AppBounds
<1>10. ASSUME NEW n \in 1..MaxTokens, AccessExpires(n) PROVE AppBounds'
  BY <1>10 DEF AccessExpires, AppBounds
<1>11. CASE UNCHANGED appVars
  BY <1>11 DEF appVars, AppBounds
<1>12. QED
  BY <1>2, <1>4, <1>5, <1>6, <1>7, <1>8, <1>9, <1>10, <1>11, <1>13 DEF AppNext

\* The app holds only tokens that were issued and what is revoked or expired is one.
THEOREM AppTypeCorrect == AppSpec => []AppTypeOK
<1> DEFINE Inv == AppShape /\ TokensIssued /\ CallsIssued /\ AdriftIssued /\ AppBounds
<1>1. AppInit => Inv
  <2>1. SUFFICES ASSUME AppInit PROVE Inv
    OBVIOUS
  <2>2. AppShape
    BY <2>1, IdleCall, MobileAssumption DEF AppInit, AppShape
  <2>3. TokensIssued
    BY <2>1, MobileAssumption DEF AppInit, TokensIssued
  <2>4. CallsIssued
    BY <2>1, CallNames DEF AppInit, CallsIssued, Issued, SignsOutOne, NoCall, Paying
  <2>5. AppBounds /\ AdriftIssued
    BY <2>1, MobileAssumption DEF AppInit, AppBounds, EmptyBasket, Basket, AdriftIssued
  <2>6. QED
    BY <2>2, <2>3, <2>4, <2>5
<1>2. Inv /\ [AppNext]_appVars => Inv'
  BY ShapeInductive, TokensInductive, CallsInductive, AdriftInductive, AppBoundsInductive
<1>3. Inv => AppTypeOK
  <2>1. SUFFICES ASSUME Inv PROVE AppTypeOK
    OBVIOUS
  <2>2. stored \in [access : 0..minted, refresh : 0..minted]
    BY <2>1 DEF AppShape, TokensIssued
  <2>3. ASSUME NEW c \in Calls
        PROVE  call[c] \in [at : CallStates, bearer : 0..minted, replayed : BOOLEAN,
                            body : 0..minted, refresh : 0..minted]
    <3>1. call[c] \in CallRecord /\ Issued(call[c], minted) /\ minted \in Nat
      BY <2>1 DEF AppShape, CallsIssued
    <3>2. QED
      BY <3>1 DEF CallRecord, Issued
  <2>4. minted \in 0..MaxTokens
    BY <2>1, MobileAssumption DEF TokensIssued
  <2>5. call \in [Calls -> [at : CallStates, bearer : 0..minted, replayed : BOOLEAN,
                            body : 0..minted, refresh : 0..minted]]
    <3>1. call = [c \in Calls |-> call[c]]
      BY <2>1 DEF AppShape
    <3>2. QED
      BY <2>3, <3>1
  <2>6. QED
    BY <2>1, <2>2, <2>4, <2>5 DEF AppTypeOK, AppShape, TokensIssued, AppBounds
<1>4. QED
  BY <1>1, <1>2, <1>3, PTL DEF AppSpec

-----------------------------------------------------------------------------
(* The bag *)

\* The subtotals a question may bring back
Subtotals ==
  {0} \cup {SumFunctionOnSet(f, X) : f \in [Wares -> Nat], X \in SUBSET Wares}

Question ==
  [at : {"none", "zones", "asked", "priced", "answered", "shown", "failed", "dropped"},
   bag : Bags, zone : BOOLEAN, known : SUBSET Wares, subtotal : Subtotals, enough : BOOLEAN]

\* What the steps of the bag read of its variables
BagShape ==
  /\ bag \in Bags /\ view \in {"closed", "front", "behind"} /\ zoneKnown \in BOOLEAN
  /\ latest \in 0..MaxNumber /\ question \in [Numbers -> Question]
  /\ shop \in [price : [Wares -> WarePrices], stock : [Wares -> Nat], gone : SUBSET Wares]

\* While the bag is in front, the newest question is about the lines in it, and
\* what is shown is what that question's end has left.
NewestAsks ==
  /\ latest \in Numbers /\ question[latest].bag = bag
  /\ question[latest].at \in {"zones", "asked", "priced", "answered", "shown", "failed"}
  /\ question[latest].at = "shown" => validation = Answer(latest) /\ validatedFor = bag
  /\ question[latest].at = "failed" => validation = NoAnswer

BagInv ==
  /\ validation # NoAnswer => validation.bag = validatedFor
  /\ Asking(bag, view) => NewestAsks

\* No money, and a sum of prices
LEMMA SubtotalShape ==
  /\ 0 \in Subtotals
  /\ \A b \in Bags, p \in [Wares -> WarePrices], X \in SUBSET Wares :
       SumFunctionOnSet([x \in Wares |-> b[x] * p[x]], X) \in Subtotals
<1>1. 0 \in Subtotals
  BY DEF Subtotals
<1>2. ASSUME NEW f \in [Wares -> Nat], NEW X \in SUBSET Wares
      PROVE  SumFunctionOnSet(f, X) \in Subtotals
  BY DEF Subtotals
<1>3. ASSUME NEW b \in Bags, NEW p \in [Wares -> WarePrices]
      PROVE  [x \in Wares |-> b[x] * p[x]] \in [Wares -> Nat]
  <2>1. b \in [Wares -> Nat] /\ p \in [Wares -> Nat]
    BY BagAssumption
  <2>2. \A m, n \in Nat : m * n \in Nat
    OBVIOUS
  <2>3. QED
    BY <2>1, <2>2
<1>4. QED
  BY <1>1, <1>2, <1>3

\* A question that nobody has asked
LEMMA UnaskedShape == Unasked \in Question /\ Unasked.at = "none"
<1>1. NoLines \in Bags /\ 0 \in Subtotals
  BY SubtotalShape, BagAssumption
<1>2. QED
  BY <1>1 DEF Unasked, Question

\* A rerun leaves a newest question about the new lines, or none that counts.
LEMMA RerunAsks ==
  ASSUME BagShape, NEW b \in Bags, NEW v, Rerun(b, v), bag' = b, view' = v
  PROVE  /\ latest' \in 0..MaxNumber /\ question' \in [Numbers -> Question]
         /\ Asking(bag, view)' => NewestAsks'
<1>1. /\ latest + (IF Asking(bag, view) THEN 1 ELSE 0) \in Nat
      /\ latest + (IF Asking(bag, view) THEN 1 ELSE 0) + 1 \in Nat \ {0} /\ MaxNumber \in Nat
  BY BagAssumption DEF BagShape
<1>2. CASE Asking(b, v)
  <2> DEFINE stage == IF zoneKnown THEN "asked" ELSE "zones"
             q == [Unasked EXCEPT !.bag = b, !.at = stage, !.zone = zoneKnown]
  <2>1. q \in Question /\ q.bag = b /\ q.at \in {"asked", "zones"}
    <3>1. stage \in {"asked", "zones"} /\ zoneKnown \in BOOLEAN
      BY DEF BagShape
    <3> HIDE DEF stage
    <3>2. q \in Question /\ q.bag = b /\ q.at = stage
      BY <3>1, UnaskedShape DEF Question
    <3>3. QED
      BY <3>1, <3>2
  <2>2. PICK n \in Numbers : latest' = n /\ question' = [question EXCEPT ![n] = q]
    BY <1>1, <1>2 DEF Rerun, Numbers
  <2> HIDE DEF q, stage
  <2>3. question' \in [Numbers -> Question] /\ question'[n] = q
    BY <2>1, <2>2 DEF BagShape
  <2>4. NewestAsks'
    BY <2>1, <2>2, <2>3 DEF NewestAsks
  <2>5. QED
    BY <1>1, <2>2, <2>3, <2>4 DEF Numbers
<1>3. CASE ~Asking(b, v)
  <2>1. ~Asking(bag, view)'
    BY <1>3 DEF Asking
  <2>2. latest' \in 0..MaxNumber /\ question' = question
    BY <1>1, <1>3 DEF Rerun
  <2>3. QED
    BY <2>1, <2>2 DEF BagShape
<1>4. QED
  BY <1>2, <1>3

\* The prices are read of the lines the shop still has.
LEMMA PricesRead ==
  ASSUME BagShape, NEW n \in Numbers, ReadPrices(n)
  PROVE  /\ question' \in [Numbers -> Question] /\ question'[n].bag = question[n].bag
         /\ question'[n].at = "priced" /\ \A m \in Numbers \ {n} : question'[m] = question[m]
<1> DEFINE enough == Lines(n) \cap shop.gone = {}
           known == Lines(n) \ shop.gone
           sum == SumFunctionOnSet([x \in Wares |-> question[n].bag[x] * shop.price[x]],
                                   Lines(n) \ shop.gone)
           q == [question[n] EXCEPT !.at = "priced", !.enough = enough, !.known = known,
                                    !.subtotal = sum]
<1>1. question[n] \in Question /\ question[n].bag \in Bags /\ shop.price \in [Wares -> WarePrices]
  BY DEF BagShape, Question
<1>2. enough \in BOOLEAN /\ known \in SUBSET Wares
  BY DEF Lines
<1>3. sum \in Subtotals
  BY <1>1, <1>2, SubtotalShape
<1>4. question' = [question EXCEPT ![n].at = "priced", ![n].enough = enough, ![n].known = known,
                                   ![n].subtotal = sum]
  BY DEF ReadPrices
<1> HIDE DEF enough, sum, known
<1>5. q \in Question /\ q.bag = question[n].bag /\ q.at = "priced"
  BY <1>1, <1>2, <1>3 DEF Question
<1>6. question' = [question EXCEPT ![n] = q]
  BY <1>4 DEF BagShape
<1> HIDE DEF q
<1>7. QED
  BY <1>5, <1>6 DEF BagShape

\* A question that moves on, without being shown or having failed, changes
\* nothing that is displayed.
LEMMA QuestionMoves ==
  ASSUME BagShape, BagInv, NEW n \in Numbers,
         question[n].at \in {"zones", "asked", "priced"},
         question' \in [Numbers -> Question], question'[n].bag = question[n].bag,
         question'[n].at \in {"asked", "priced", "answered"},
         \A m \in Numbers \ {n} : question'[m] = question[m],
         UNCHANGED <<bag, view, latest, validation, validatedFor>>
  PROVE  BagInv'
<1>1. ASSUME Asking(bag, view) PROVE NewestAsks'
  <2>1. CASE latest = n
    BY <1>1, <2>1 DEF BagInv, NewestAsks
  <2>2. CASE latest # n
    BY <1>1, <2>2 DEF BagInv, NewestAsks, Answer
  <2>3. QED
    BY <2>1, <2>2
<1>2. QED
  BY <1>1 DEF BagInv, Asking

\* An answer, or a failure, is taken from the newest question only.
LEMMA AppliesShown ==
  ASSUME BagShape, BagInv, NEW n \in Numbers, NEW stage, NEW answer,
         question[n].at # "dropped", Applies(n, stage, answer),
         \/ stage = "shown" /\ answer = Answer(n)
         \/ stage = "failed" /\ answer = NoAnswer
  PROVE  question' \in [Numbers -> Question] /\ BagInv'
<1> DEFINE to == IF Current(n) THEN stage ELSE "dropped"
<1>1. question' = [question EXCEPT ![n].at = to]
  BY DEF Applies
<1>2. to \in {"shown", "failed", "dropped"}
  OBVIOUS
<1>3. Current(n) <=> latest = n
  BY DEF Current
<1>4. IF latest = n
      THEN to = stage /\ validation' = answer /\ validatedFor' = question[n].bag
      ELSE UNCHANGED <<validation, validatedFor>>
  BY <1>3 DEF Applies
<1> HIDE DEF to
<1>5. /\ question' \in [Numbers -> Question] /\ question'[n].at = to
      /\ \A m \in Numbers \ {n} : question'[m] = question[m]
      /\ question'[n].bag = question[n].bag /\ question'[n].subtotal = question[n].subtotal
      /\ question'[n].known = question[n].known
      /\ question'[n].zone = question[n].zone /\ question'[n].enough = question[n].enough
  BY <1>1, <1>2 DEF BagShape, Question
<1>6. UNCHANGED <<bag, view, latest>>
  BY DEF Applies
<1>7. Answer(n).bag = question[n].bag
  BY DEF Answer
<1>8. Answer(n)' = Answer(n)
  BY <1>5 DEF Answer
<1>9. validation' # NoAnswer => validation'.bag = validatedFor'
  BY <1>4, <1>7 DEF BagInv
<1>10. ASSUME Asking(bag, view) PROVE NewestAsks'
  <2>1. CASE latest = n
    BY <1>4, <1>5, <1>6, <1>8, <1>10, <2>1 DEF BagInv, NewestAsks
  <2>2. CASE latest # n
    BY <1>4, <1>5, <1>6, <1>10, <2>2 DEF BagInv, NewestAsks, Answer
  <2>3. QED
    BY <2>1, <2>2
<1>11. QED
  BY <1>5, <1>6, <1>9, <1>10 DEF BagInv, Asking

\* Every step of the bag keeps what it displays in step with its lines.
LEMMA BagInductive ==
  ASSUME BagShape, BagInv, [BagNext]_bagVars
  PROVE  BagShape' /\ BagInv'
<1>1. ASSUME NEW b \in Bags, ChangeBag(b) PROVE BagShape' /\ BagInv'
  BY <1>1, RerunAsks DEF ChangeBag, BagShape, BagInv
<1>2. ASSUME NEW v \in {"front", "behind"}, Navigate(v) PROVE BagShape' /\ BagInv'
  <2>1. /\ bag' = bag /\ view' = v /\ bag \in Bags /\ Rerun(bag, v)
        /\ UNCHANGED <<zoneKnown, validation, validatedFor, shop>>
    BY <1>2 DEF Navigate, BagShape
  <2>2. QED
    BY <2>1, RerunAsks DEF BagShape, BagInv
<1>3. CASE CloseBag
  <2>1. question' \in [Numbers -> Question]
    BY <1>3, UnaskedShape DEF CloseBag, NothingOpen
  <2>2. ~Asking(bag, view)'
    BY <1>3 DEF CloseBag, NothingOpen, Asking
  <2>3. BagInv'
    BY <1>3, <2>2 DEF CloseBag, NothingOpen, BagInv
  <2>4. latest' = 0 /\ view' = "closed" /\ zoneKnown' \in BOOLEAN /\ UNCHANGED <<bag, shop>>
    BY <1>3 DEF CloseBag, NothingOpen
  <2>5. MaxNumber \in Nat
    BY BagAssumption
  <2>6. QED
    BY <2>1, <2>3, <2>4, <2>5 DEF BagShape
<1>4. ASSUME NEW n \in Numbers, NEW found \in BOOLEAN, ZonesAnswered(n, found)
      PROVE  BagShape' /\ BagInv'
  <2> DEFINE q == [question[n] EXCEPT !.at = "asked", !.zone = found]
  <2>1. question' = [question EXCEPT ![n] = q]
    BY <1>4 DEF ZonesAnswered, BagShape
  <2>5. q \in Question /\ q.bag = question[n].bag /\ q.at = "asked"
    BY <1>4 DEF BagShape, Question
  <2> HIDE DEF q
  <2>2. /\ question' \in [Numbers -> Question] /\ question'[n].bag = question[n].bag
        /\ question'[n].at = "asked" /\ \A m \in Numbers \ {n} : question'[m] = question[m]
    BY <2>1, <2>5 DEF BagShape
  <2>3. BagInv'
    BY <1>4, <2>2, QuestionMoves DEF ZonesAnswered
  <2>4. QED
    BY <1>4, <2>2, <2>3 DEF ZonesAnswered, BagShape
<1>5. ASSUME NEW n \in Numbers, ReadPrices(n) PROVE BagShape' /\ BagInv'
  <2>1. /\ question' \in [Numbers -> Question] /\ question'[n].bag = question[n].bag
        /\ question'[n].at = "priced" /\ \A m \in Numbers \ {n} : question'[m] = question[m]
    BY <1>5, PricesRead
  <2>2. BagInv'
    BY <1>5, <2>1, QuestionMoves DEF ReadPrices, Server
  <2>3. QED
    BY <1>5, <2>1, <2>2 DEF ReadPrices, Server, BagShape
<1>6. ASSUME NEW n \in Numbers, ReadStock(n) PROVE BagShape' /\ BagInv'
  <2> DEFINE enough == question[n].enough /\ \A x \in Lines(n) : shop.stock[x] >= question[n].bag[x]
  <2>1. enough \in BOOLEAN
    OBVIOUS
  <2> HIDE DEF enough
  <2> DEFINE q == [question[n] EXCEPT !.at = "answered", !.enough = enough]
  <2>2. question' = [question EXCEPT ![n] = q]
    BY <1>6 DEF ReadStock, BagShape, enough
  <2>6. q \in Question /\ q.bag = question[n].bag /\ q.at = "answered"
    BY <2>1 DEF BagShape, Question
  <2> HIDE DEF q
  <2>3. /\ question' \in [Numbers -> Question] /\ question'[n].bag = question[n].bag
        /\ question'[n].at = "answered" /\ \A m \in Numbers \ {n} : question'[m] = question[m]
    BY <2>2, <2>6 DEF BagShape
  <2>4. BagInv'
    BY <1>6, <2>3, QuestionMoves DEF ReadStock, Server
  <2>5. QED
    BY <1>6, <2>3, <2>4 DEF ReadStock, Server, BagShape
<1>7. ASSUME NEW n \in Numbers, AnswerArrives(n) \/ QuestionFails(n) PROVE BagShape' /\ BagInv'
  <2>1. question' \in [Numbers -> Question] /\ BagInv'
    BY <1>7, AppliesShown DEF AnswerArrives, QuestionFails
  <2>2. QED
    BY <1>7, <2>1 DEF AnswerArrives, QuestionFails, Applies, BagShape
<1>8. ASSUME NEW x \in Wares, ShopChanges(x) PROVE BagShape' /\ BagInv'
  <2>1. shop' \in [price : [Wares -> WarePrices], stock : [Wares -> Nat], gone : SUBSET Wares]
    BY <1>8 DEF ShopChanges, BagShape
  <2>2. QED
    BY <1>8, <2>1 DEF ShopChanges, Server, BagShape, BagInv, Asking, NewestAsks, Answer
<1>9. CASE UNCHANGED bagVars
  BY <1>9 DEF bagVars, screenVars, BagShape, BagInv, Asking, NewestAsks, Answer
<1>10. QED
  BY <1>1, <1>2, <1>3, <1>4, <1>5, <1>6, <1>7, <1>8, <1>9 DEF BagNext

\* A bag that is not open asks nothing.
LEMMA BagAtStart == BagInit => BagShape /\ BagInv
<1> SUFFICES ASSUME BagInit PROVE BagShape /\ BagInv
  OBVIOUS
<1>1. question \in [Numbers -> Question]
  BY UnaskedShape DEF BagInit
<1>2. ~Asking(bag, view)
  BY DEF BagInit, Asking
<1>3. BagInv
  BY <1>2 DEF BagInit, BagInv
<1>4. /\ latest = 0 /\ view = "closed" /\ zoneKnown \in BOOLEAN /\ shop = OpeningShop /\ bag \in Bags
    /\ MaxNumber \in Nat
  BY BagAssumption DEF BagInit
<1>5. BagShape
  BY <1>1, <1>4, BagAssumption DEF BagShape
<1>6. QED
  BY <1>3, <1>5

\* A question that had enough of everything knows every line it was about, and so
\* does the answer that is kept of it.
Complete(n) == question[n].enough => question[n].known = Lines(n)
EnoughIsAll ==
  /\ \A n \in Numbers : Complete(n)
  /\ validation # NoAnswer /\ validation.enough =>
       validation.lines = {x \in Wares : validation.bag[x] > 0}

\* A question that keeps its bag, its known lines and does not gain enough stays
\* complete.
LEMMA CompleteKept ==
  ASSUME EnoughIsAll, UNCHANGED validation,
         \A m \in Numbers : /\ question'[m].bag = question[m].bag /\ question'[m].known = question[m].known
                            /\ question'[m].enough => question[m].enough
  PROVE  EnoughIsAll'
BY DEF EnoughIsAll, Complete, Lines

\* A question asked anew has nothing yet.
LEMMA RerunIncomplete ==
  ASSUME BagShape, EnoughIsAll, NEW b, NEW v, Rerun(b, v), UNCHANGED validation
  PROVE  EnoughIsAll'
<1>1. CASE Asking(b, v)
  <2> DEFINE q == [Unasked EXCEPT !.bag = b, !.at = IF zoneKnown THEN "asked" ELSE "zones",
                                  !.zone = zoneKnown]
  <2>1. q.enough = FALSE
    BY DEF Unasked
  <2>2. PICK n : question' = [question EXCEPT ![n] = q]
    BY <1>1 DEF Rerun
  <2> HIDE DEF q
  <2>3. \A m \in Numbers : question'[m] = question[m] \/ question'[m] = q
    BY <2>2 DEF BagShape
  <2>4. QED
    BY <2>1, <2>3 DEF EnoughIsAll, Complete, Lines
<1>2. CASE ~Asking(b, v)
  BY <1>2 DEF Rerun, EnoughIsAll, Complete, Lines
<1>3. QED
  BY <1>1, <1>2

\* Every step keeps what is enough complete.
LEMMA EnoughInductive ==
  ASSUME BagShape, EnoughIsAll, [BagNext]_bagVars
  PROVE  EnoughIsAll'
<1>1. ASSUME NEW b \in Bags, ChangeBag(b) PROVE EnoughIsAll'
  BY <1>1, RerunIncomplete DEF ChangeBag
<1>2. ASSUME NEW v \in {"front", "behind"}, Navigate(v) PROVE EnoughIsAll'
  BY <1>2, RerunIncomplete DEF Navigate
<1>3. CASE CloseBag
  BY <1>3 DEF CloseBag, NothingOpen, EnoughIsAll, Complete, Unasked
<1>4. ASSUME NEW n \in Numbers, NEW found \in BOOLEAN, ZonesAnswered(n, found) PROVE EnoughIsAll'
  <2>1. question' = [question EXCEPT ![n].at = "asked", ![n].zone = found] /\ UNCHANGED validation
    BY <1>4 DEF ZonesAnswered
  <2>2. QED
    BY <2>1, CompleteKept DEF BagShape, Question
<1>5. ASSUME NEW n \in Numbers, ReadPrices(n) PROVE EnoughIsAll'
  <2> DEFINE enough == Lines(n) \cap shop.gone = {}
             known == Lines(n) \ shop.gone
             sum == SumFunctionOnSet([x \in Wares |-> question[n].bag[x] * shop.price[x]],
                                     Lines(n) \ shop.gone)
  <2>1. question' = [question EXCEPT ![n].at = "priced", ![n].enough = enough, ![n].known = known,
                                     ![n].subtotal = sum]
    BY <1>5 DEF ReadPrices
  <2>2. enough => known = Lines(n)
    OBVIOUS
  <2> HIDE DEF enough, known, sum
  <2>3. /\ question'[n].enough = enough /\ question'[n].known = known
        /\ question'[n].bag = question[n].bag /\ \A m \in Numbers \ {n} : question'[m] = question[m]
    BY <2>1 DEF BagShape, Question
  <2>4. Complete(n)'
    BY <2>2, <2>3 DEF Complete, Lines
  <2>5. \A m \in Numbers \ {n} : Complete(m)'
    BY <2>3 DEF EnoughIsAll, Complete, Lines
  <2>6. QED
    BY <1>5, <2>4, <2>5 DEF ReadPrices, Server, EnoughIsAll
<1>6. ASSUME NEW n \in Numbers, ReadStock(n) PROVE EnoughIsAll'
  <2> DEFINE plenty == \A x \in Lines(n) : shop.stock[x] >= question[n].bag[x]
  <2>1. question' = [question EXCEPT ![n].at = "answered", ![n].enough = @ /\ plenty]
    BY <1>6 DEF ReadStock
  <2> HIDE DEF plenty
  <2>2. \A m \in Numbers : /\ question'[m].bag = question[m].bag /\ question'[m].known = question[m].known
                           /\ question'[m].enough => question[m].enough
    BY <2>1 DEF BagShape, Question
  <2>3. QED
    BY <1>6, <2>2, CompleteKept DEF ReadStock, Server
<1>7. ASSUME NEW n \in Numbers, AnswerArrives(n) \/ QuestionFails(n) PROVE EnoughIsAll'
  <2>1. PICK to : question' = [question EXCEPT ![n].at = to]
    BY <1>7 DEF AnswerArrives, QuestionFails, Applies
  <2>2. \A m \in Numbers : /\ question'[m].bag = question[m].bag /\ question'[m].known = question[m].known
                           /\ question'[m].enough = question[m].enough
    BY <2>1 DEF BagShape, Question
  <2>3. \A m \in Numbers : Complete(m)'
    BY <2>2 DEF EnoughIsAll, Complete, Lines
  <2>4. validation' \in {validation, NoAnswer, Answer(n)}
    BY <1>7 DEF AnswerArrives, QuestionFails, Applies
  <2>5. /\ Answer(n).enough = question[n].enough /\ Answer(n).lines = question[n].known
        /\ Answer(n).bag = question[n].bag
    BY DEF Answer
  <2>6. Answer(n).enough => Answer(n).lines = {x \in Wares : Answer(n).bag[x] > 0}
    BY <2>5 DEF EnoughIsAll, Complete, Lines
  <2>7. QED
    BY <2>3, <2>4, <2>6 DEF EnoughIsAll
<1>8. ASSUME NEW x \in Wares, ShopChanges(x) PROVE EnoughIsAll'
  BY <1>8 DEF ShopChanges, Server, EnoughIsAll, Complete, Lines
<1>9. CASE UNCHANGED bagVars
  BY <1>9 DEF bagVars, screenVars, EnoughIsAll, Complete, Lines
<1>10. QED
  BY <1>1, <1>2, <1>3, <1>4, <1>5, <1>6, <1>7, <1>8, <1>9 DEF BagNext

\* The summary of the bag is the server's answer about exactly its lines, and so
\* is the money beside them when that answer lets the shopper go on, for any number
\* of questions and whatever order their answers come in.
THEOREM BagIsAnswered == BagSpec => []SummaryShowsItsLines
<1>1. BagInit => BagShape /\ BagInv
  BY BagAtStart
<1>2. BagInit => EnoughIsAll
  BY DEF BagInit, EnoughIsAll, Complete, Unasked
<1>3. (BagShape /\ BagInv /\ EnoughIsAll) /\ [BagNext]_bagVars => (BagShape /\ BagInv /\ EnoughIsAll)'
  BY BagInductive, EnoughInductive
<1>4. BagShape /\ BagInv /\ EnoughIsAll => SummaryShowsItsLines
  <2> SUFFICES ASSUME BagShape, BagInv, EnoughIsAll PROVE SummaryShowsItsLines
    OBVIOUS
  <2>1. Displayed # NoAnswer => Displayed = validation /\ Displayed.bag = bag
    BY DEF Displayed, BagInv
  <2>2. ASSUME Displayed # NoAnswer, Displayed.enough, NEW x \in Wares, bag[x] > 0
        PROVE  LineMoney(x) = [from |-> "server", units |-> bag[x]]
    <3>1. x \in Displayed.lines
      BY <2>1, <2>2 DEF EnoughIsAll
    <3>2. QED
      BY <2>1, <2>2, <3>1 DEF LineMoney
  <2>3. ASSUME Asking(bag, view)
        PROVE  /\ question[latest].at = "shown" => Displayed = Answer(latest)
               /\ question[latest].at = "failed" => Displayed = NoAnswer
    BY <2>3 DEF BagInv, NewestAsks, Displayed
  <2>4. QED
    BY <2>1, <2>2, <2>3 DEF SummaryShowsItsLines
<1>5. QED
  BY <1>1, <1>2, <1>3, <1>4, PTL DEF BagSpec

\* What the bag keeps beyond its shape: zones are asked for by a question of this
\* visit, and what is shown came from one.
BagBounds ==
  /\ \A n \in Numbers : question[n].at = "zones" => n <= latest
  /\ validation = NoAnswer \/ validation.of \in 1..latest
  /\ validatedFor \in Bags /\ shopChanges \in 0..MaxShopChanges

\* A rerun takes the next number, if any.
LEMMA RerunBounds ==
  ASSUME BagShape, BagBounds, NEW b \in Bags, NEW v, Rerun(b, v),
         UNCHANGED <<validation, validatedFor, shopChanges>>, bag' = b, view' = v
  PROVE  BagBounds'
<1>1. latest \in Nat /\ latest' \in 0..MaxNumber /\ MaxNumber \in Nat
  BY RerunAsks, BagAssumption DEF BagShape
<1> DEFINE withdrawn == latest + (IF Asking(bag, view) THEN 1 ELSE 0)
<1>2. withdrawn \in Nat /\ withdrawn >= latest
  BY <1>1
<1>3. latest' >= latest
  BY <1>1, <1>2 DEF Rerun
<1>4. ASSUME NEW n \in Numbers PROVE question'[n] = question[n] \/ n = latest'
  BY <1>1, <1>2, <1>4 DEF Rerun, BagShape
<1>5. \A n \in Numbers : question'[n].at = "zones" => n <= latest'
  BY <1>1, <1>3, <1>4 DEF BagBounds, Numbers
<1>6. 1..latest \subseteq 1..latest'
  BY <1>1, <1>3
<1>7. QED
  BY <1>5, <1>6 DEF BagBounds

\* Every step keeps them.
LEMMA BagBoundsInductive ==
  ASSUME BagShape, BagBounds, [BagNext]_bagVars
  PROVE  BagBounds'
<1> USE DEF screenVars
<1>1. latest \in Nat /\ MaxShopChanges \in Nat
  BY BagAssumption DEF BagShape
<1>2. ASSUME NEW b \in Bags, ChangeBag(b) PROVE BagBounds'
  BY <1>2, RerunBounds DEF ChangeBag
<1>3. ASSUME NEW v \in {"front", "behind"}, Navigate(v) PROVE BagBounds'
  BY <1>3, RerunBounds DEF Navigate, BagShape
<1>4. CASE CloseBag
  BY <1>4, UnaskedShape, BagAssumption DEF CloseBag, NothingOpen, BagBounds
<1>5. ASSUME NEW n \in Numbers, question' \in [Numbers -> Question], question'[n].at # "zones",
             \A m \in Numbers \ {n} : question'[m] = question[m], UNCHANGED latest
      PROVE  \A m \in Numbers : question'[m].at = "zones" => m <= latest'
  BY <1>5 DEF BagBounds
<1>6. ASSUME NEW n \in Numbers, NEW found \in BOOLEAN, ZonesAnswered(n, found) PROVE BagBounds'
  BY <1>6 DEF ZonesAnswered, BagShape, BagBounds, Question
<1>7. ASSUME NEW n \in Numbers, ReadPrices(n) PROVE BagBounds'
  <2>1. \A m \in Numbers : question'[m].at = "zones" => m <= latest'
    BY <1>5, <1>7, PricesRead DEF ReadPrices, Server
  <2>2. QED
    BY <1>7, <2>1 DEF ReadPrices, Server, BagBounds
<1>8. ASSUME NEW n \in Numbers, ReadStock(n) PROVE BagBounds'
  BY <1>8 DEF ReadStock, Server, BagShape, BagBounds, Question
<1>9. ASSUME NEW n \in Numbers, NEW stage \in {"shown", "failed"}, NEW answer, Applies(n, stage, answer),
             answer = NoAnswer \/ answer = Answer(n)
      PROVE  BagBounds'
  <2>1. /\ \A m \in Numbers \ {n} : question'[m] = question[m]
        /\ question'[n].at \in {"shown", "failed", "dropped"} /\ UNCHANGED <<latest, shopChanges>>
    BY <1>9 DEF Applies, BagShape, Question
  <2>2. \A m \in Numbers : question'[m].at = "zones" => m <= latest'
    BY <2>1 DEF BagBounds
  <2>3. validatedFor' \in Bags
    BY <1>9 DEF Applies, BagBounds, BagShape, Question
  <2>4. validation' = NoAnswer \/ validation'.of \in 1..latest'
    <3>1. CASE Current(n)
      <4>1. n \in 1..latest' /\ (answer = Answer(n) => answer.of = n)
        BY <1>1, <2>1, <3>1 DEF Current, Answer, Numbers
      <4>2. QED
        BY <1>9, <3>1, <4>1 DEF Applies
    <3>2. CASE ~Current(n)
      BY <1>9, <2>1, <3>2 DEF Applies, BagBounds
    <3>3. QED
      BY <3>1, <3>2
  <2>5. QED
    BY <2>1, <2>2, <2>3, <2>4 DEF BagBounds
<1>10. ASSUME NEW n \in Numbers, AnswerArrives(n) \/ QuestionFails(n) PROVE BagBounds'
  BY <1>9, <1>10 DEF AnswerArrives, QuestionFails
<1>11. ASSUME NEW x \in Wares, ShopChanges(x) PROVE BagBounds'
  BY <1>1, <1>11 DEF ShopChanges, Server, BagBounds
<1>12. CASE UNCHANGED bagVars
  BY <1>12 DEF bagVars, BagBounds
<1>13. QED
  BY <1>2, <1>3, <1>4, <1>6, <1>7, <1>8, <1>10, <1>11, <1>12 DEF BagNext

\* The bag's questions are about carts, and what is shown came from one of them.
LEMMA BagTypeCorrect == BagSpec => []BagTypeOK
<1>1. BagInit => BagShape /\ BagInv /\ BagBounds
  BY BagAtStart, UnaskedShape, BagAssumption DEF BagInit, BagBounds
<1>2. (BagShape /\ BagInv /\ BagBounds) /\ [BagNext]_bagVars => (BagShape /\ BagInv /\ BagBounds)'
  BY BagInductive, BagBoundsInductive
<1>3. BagShape /\ BagBounds => BagTypeOK
  BY DEF BagShape, BagBounds, BagTypeOK, Question
<1>4. QED
  BY <1>1, <1>2, <1>3, PTL DEF BagSpec

-----------------------------------------------------------------------------
(* The checkout and its payment *)

\* What an order may come to
Totals == {0} \cup {SumFunction(f) + n : f \in [Skus -> Nat], n \in Nat}

PlaceRecord ==
  [at : Stages, client : Clients, lines : [Skus -> Nat], unit : [Skus -> Nat], fee : Nat]
OrderRecord ==
  [status : {"none", "pending", "paid", "cancelled"}, lines : [Skus -> Nat], unit : [Skus -> Nat],
   fee : Nat, total : Totals]
PaymentRecord == [status : {"none", "pending", "paid"}, amount : Totals]
ConfirmRecord == [at : {"idle", "begun", "newly"}, of : Requests \cup {Nobody}]

\* What the steps of the checkout read of its variables
CatalogShape ==
  basePrice \in Nat /\ override \in [Skus -> Nat \cup {NoOverride}] /\ fee \in Nat
PlaceShape == place \in [Requests -> PlaceRecord]
OrderShape == order \in [Requests -> OrderRecord]
MoneyShape ==
  /\ paymentRow \in [Requests -> PaymentRecord]
  /\ page \in [Requests -> Totals] /\ charged \in [Requests -> Totals]
ConfirmShape ==
  /\ confirm \in [Confirmers -> ConfirmRecord] /\ mailed \in [Requests -> Nat]
  /\ opened \subseteq Requests
ShopShape == CatalogShape /\ PlaceShape /\ OrderShape /\ MoneyShape /\ ConfirmShape

\* What an order's lines and its fee come to
Due(i) == Subtotal(order[i].lines, order[i].unit) + order[i].fee

\* A cart times its prices is a function of numbers, so an order comes to one of
\* the totals.
LEMMA DueIsTotal ==
  ASSUME NEW lines \in [Skus -> Nat], NEW unit \in [Skus -> Nat], NEW n \in Nat
  PROVE  Subtotal(lines, unit) + n \in Totals
<1>1. \A k, m \in Nat : k * m \in Nat
  OBVIOUS
<1>2. [v \in Skus |-> lines[v] * unit[v]] \in [Skus -> Nat]
  BY <1>1
<1>3. \A f \in [Skus -> Nat] : SumFunction(f) + n \in Totals
  BY DEF Totals
<1>4. QED
  BY <1>2, <1>3 DEF Subtotal

\* The page asks for the lines and, unless there is none, the fee.
LEMMA LineItemsAreDue ==
  ASSUME OrderShape, NEW i \in Requests
  PROVE  LineItems(i) = Due(i) /\ Due(i) \in Totals
<1>1. /\ order[i].fee \in Nat /\ order[i].lines \in [Skus -> Nat]
      /\ order[i].unit \in [Skus -> Nat]
  BY DEF OrderShape, OrderRecord
<1>2. order[i].fee = IF order[i].fee > 0 THEN order[i].fee ELSE 0
  BY <1>1
<1>3. QED
  BY <1>1, <1>2, DueIsTotal DEF LineItems, Due

\* A request that moves to another stage keeps what it has read.
LEMMA MovesShape ==
  ASSUME PlaceShape, NEW i \in Requests, NEW stage \in Stages, MoveTo(i, stage)
  PROVE  /\ PlaceShape' /\ place'[i].at = stage
         /\ \A j \in Requests \ {i} : place'[j] = place[j]
BY DEF PlaceShape, PlaceRecord, MoveTo

\* An order that changes its status keeps its lines, its fee and its total.
LEMMA StatusShape ==
  ASSUME OrderShape, NEW i \in Requests,
         NEW stage \in {"none", "pending", "paid", "cancelled"},
         order' = [order EXCEPT ![i].status = stage]
  PROVE  /\ OrderShape' /\ order'[i].status = stage /\ Due(i)' = Due(i)
         /\ order'[i].total = order[i].total
         /\ \A j \in Requests \ {i} : order'[j] = order[j]
BY DEF OrderShape, OrderRecord, Due

\* The order a checkout builds: its total is what its lines and its fee come to.
LEMMA CreatesShape ==
  ASSUME PlaceShape, OrderShape, NEW i \in Requests, CreateOrder(i)
  PROVE  /\ OrderShape' /\ order'[i].status = "pending" /\ order'[i].total = Due(i)'
         /\ \A j \in Requests \ {i} : order'[j] = order[j]
<1> DEFINE total == Subtotal(place[i].lines, place[i].unit) + place[i].fee
           r == [status |-> "pending", lines |-> place[i].lines, unit |-> place[i].unit,
                 fee |-> place[i].fee, total |-> total]
<1>1. /\ place[i].lines \in [Skus -> Nat] /\ place[i].unit \in [Skus -> Nat]
      /\ place[i].fee \in Nat
  BY DEF PlaceShape, PlaceRecord
<1>2. total \in Totals
  BY <1>1, DueIsTotal
<1>3. /\ r \in OrderRecord /\ r.status = "pending" /\ r.lines = place[i].lines
      /\ r.unit = place[i].unit /\ r.fee = place[i].fee /\ r.total = total
  BY <1>1, <1>2 DEF OrderRecord
<1>4. order' = [order EXCEPT ![i] = r]
  BY DEF CreateOrder, Snapshot
<1> HIDE DEF r
<1>5. /\ order' \in [Requests -> OrderRecord] /\ order'[i] = r
      /\ \A j \in Requests \ {i} : order'[j] = order[j]
  BY <1>3, <1>4 DEF OrderShape
<1>6. QED
  BY <1>3, <1>5 DEF OrderShape, Due

\* The row of a payment, when it is recorded and when it is confirmed
LEMMA PaymentShape ==
  ASSUME OrderShape, MoneyShape, NEW i \in Requests
  PROVE  /\ NoPayment \in PaymentRecord /\ NoPayment.status = "none"
         /\ paymentRow' = Pending(i) =>
              /\ paymentRow' \in [Requests -> PaymentRecord]
              /\ paymentRow'[i].status = "pending" /\ paymentRow'[i].amount = order[i].total
              /\ \A j \in Requests \ {i} : paymentRow'[j] = paymentRow[j]
         /\ paymentRow' = [paymentRow EXCEPT ![i].status = "paid"] =>
              /\ paymentRow' \in [Requests -> PaymentRecord]
              /\ paymentRow'[i].status = "paid" /\ paymentRow'[i].amount = paymentRow[i].amount
              /\ \A j \in Requests \ {i} : paymentRow'[j] = paymentRow[j]
<1>1. NoPayment \in PaymentRecord /\ NoPayment.status = "none"
  <2>1. 0 \in Totals
    BY DEF Totals
  <2>2. QED
    BY <2>1 DEF NoPayment, PaymentRecord
<1>2. order[i].total \in Totals
  BY DEF OrderShape, OrderRecord
<1>3. ASSUME paymentRow' = Pending(i)
      PROVE  /\ paymentRow' \in [Requests -> PaymentRecord]
             /\ paymentRow'[i].status = "pending" /\ paymentRow'[i].amount = order[i].total
             /\ \A j \in Requests \ {i} : paymentRow'[j] = paymentRow[j]
  <2> DEFINE r == [status |-> "pending", amount |-> order[i].total]
  <2>1. r \in PaymentRecord /\ r.status = "pending" /\ r.amount = order[i].total
    BY <1>2 DEF PaymentRecord
  <2>2. paymentRow' = [paymentRow EXCEPT ![i] = r]
    BY <1>3 DEF Pending
  <2> HIDE DEF r
  <2>3. QED
    BY <2>1, <2>2 DEF MoneyShape
<1>4. ASSUME paymentRow' = [paymentRow EXCEPT ![i].status = "paid"]
      PROVE  /\ paymentRow' \in [Requests -> PaymentRecord]
             /\ paymentRow'[i].status = "paid" /\ paymentRow'[i].amount = paymentRow[i].amount
             /\ \A j \in Requests \ {i} : paymentRow'[j] = paymentRow[j]
  BY <1>4 DEF MoneyShape, PaymentRecord
<1>5. QED
  BY <1>1, <1>3, <1>4

\* Before its order is built a request has asked for nothing; the order it
\* builds is asked for, paid and recorded at what its lines come to, and only an
\* answered request has a payment row or can be paid.
RequestInv(i) ==
  /\ place[i].at \in {"free", "received", "zoned", "priced", "held"} => order[i].status = "none"
  /\ place[i].at \in {"built", "posted"} => order[i].status = "pending"
  /\ order[i].status = "none" => page[i] = 0 /\ charged[i] = 0
  /\ order[i].status # "none" =>
       order[i].total = Due(i) /\ page[i] \in {0, Due(i)} /\ charged[i] \in {0, Due(i)}
  /\ IF place[i].at = "answered"
     THEN /\ order[i].status \in {"pending", "paid"}
          /\ paymentRow[i].status = order[i].status /\ paymentRow[i].amount = order[i].total
     ELSE paymentRow[i] = NoPayment /\ order[i].status # "paid" /\ charged[i] = 0
  /\ i \in opened => place[i].at = "answered"
  /\ charged[i] # 0 => i \in opened

\* A request whose rows do not change keeps its promise.
LEMMA RequestKept ==
  ASSUME NEW j \in Requests, RequestInv(j),
         place'[j] = place[j], order'[j] = order[j], paymentRow'[j] = paymentRow[j],
         page'[j] = page[j], charged'[j] = charged[j],
         j \in opened' <=> j \in opened
  PROVE  RequestInv(j)'
BY DEF RequestInv, Due

\* The steps of place_order keep the shapes and the promise.
LEMMA PlaceInductive ==
  ASSUME ShopShape, \A j \in Requests : RequestInv(j), NEW i \in Requests,
         \/ \E client \in Clients, lines \in CartsSent : SubmitCart(i, client, lines)
         \/ ReadZone(i) \/ PriceCart(i) \/ ReserveCart(i) \/ CreateOrder(i) \/ CreateFails(i)
         \/ PostSession(i) \/ RecordPayment(i) \/ SimulateSession(i) \/ NoSession(i)
  PROVE  ShopShape' /\ \A j \in Requests : RequestInv(j)'
<1> USE DEF catalog, paying, Placing, Healthy
<1>1. {"free", "received", "zoned", "priced", "held", "built", "posted", "answered", "refused"}
        \subseteq Stages
  BY DEF Stages
<1>2. RequestInv(i)
  OBVIOUS
<1>3. UNCHANGED <<basePrice, override, fee, charged, opened, confirm, mailed>>
  BY DEF SubmitCart, ReadZone, PriceCart, ReserveCart, CreateOrder, CreateFails, PostSession,
         RecordPayment, SimulateSession, NoSession
<1>4. CatalogShape' /\ ConfirmShape'
  BY <1>3 DEF ShopShape, CatalogShape, ConfirmShape
<1>5. ASSUME PlaceShape', OrderShape', MoneyShape', RequestInv(i)',
             \A j \in Requests \ {i} : /\ place'[j] = place[j] /\ order'[j] = order[j]
                                       /\ paymentRow'[j] = paymentRow[j] /\ page'[j] = page[j]
      PROVE  ShopShape' /\ \A j \in Requests : RequestInv(j)'
  <2>1. ASSUME NEW j \in Requests \ {i} PROVE RequestInv(j)'
    BY <1>3, <1>5, RequestKept
  <2>2. QED
    BY <1>4, <1>5, <2>1 DEF ShopShape
\* Until its order is built, a request only changes its own stage and copies.
<1>6. ASSUME UNCHANGED <<order, paymentRow, page>>, PlaceShape',
             \A j \in Requests \ {i} : place'[j] = place[j],
             place[i].at \in {"free", "received", "zoned", "priced", "held"},
             place'[i].at \in {"received", "zoned", "priced", "held", "refused"}
      PROVE  ShopShape' /\ \A j \in Requests : RequestInv(j)'
  <2>1. RequestInv(i)'
    BY <1>2, <1>3, <1>6 DEF RequestInv, Due
  <2>2. OrderShape' /\ MoneyShape'
    BY <1>3, <1>6 DEF ShopShape, OrderShape, MoneyShape
  <2>3. QED
    BY <1>5, <1>6, <2>1, <2>2
<1>7. ASSUME NEW client \in Clients, NEW lines \in CartsSent, SubmitCart(i, client, lines)
      PROVE  ShopShape' /\ \A j \in Requests : RequestInv(j)'
  <2> DEFINE stage == IF Orderable(lines) THEN "received" ELSE "refused"
             r == [NoRequest EXCEPT !.at = stage, !.client = client, !.lines = lines]
  <2>1. NoRequest \in PlaceRecord
    BY DEF NoRequest, PlaceRecord, Stages, Clients, EmptyCart, Unpriced
  <2>2. stage \in {"received", "refused"} /\ lines \in [Skus -> Nat]
    BY StorefrontAssumption
  <2> HIDE DEF stage
  <2>3. r \in PlaceRecord /\ r.at = stage
    BY <1>1, <2>1, <2>2 DEF PlaceRecord
  <2>4. place' = [place EXCEPT ![i] = r] /\ place[i].at = "free"
    BY <1>7 DEF SubmitCart, Reached, stage
  <2> HIDE DEF r
  <2>5. PlaceShape' /\ place'[i] = r /\ \A j \in Requests \ {i} : place'[j] = place[j]
    BY <2>3, <2>4 DEF ShopShape, PlaceShape
  <2>6. QED
    BY <1>6, <1>7, <2>2, <2>3, <2>4, <2>5 DEF SubmitCart
<1>8. CASE ReadZone(i)
  <2>1. /\ PlaceShape' /\ place'[i].at = "zoned" /\ place[i].at = "received"
        /\ \A j \in Requests \ {i} : place'[j] = place[j]
    BY <1>1, <1>8 DEF ReadZone, Reached, ShopShape, CatalogShape, PlaceShape, PlaceRecord
  <2>2. QED
    BY <1>6, <1>8, <2>1 DEF ReadZone
<1>9. CASE PriceCart(i)
  <2>1. [v \in Skus |-> Price(v)] \in [Skus -> Nat]
    BY DEF Price, ShopShape, CatalogShape
  <2>2. /\ PlaceShape' /\ place'[i].at = "priced" /\ place[i].at = "zoned"
        /\ \A j \in Requests \ {i} : place'[j] = place[j]
    BY <1>1, <1>9, <2>1 DEF PriceCart, Reached, ShopShape, PlaceShape, PlaceRecord
  <2>3. QED
    BY <1>6, <1>9, <2>2 DEF PriceCart
<1>10. CASE ReserveCart(i) \/ CreateFails(i)
  <2>1. /\ PlaceShape' /\ place'[i].at \in {"held", "refused"} /\ place[i].at \in {"priced", "held"}
        /\ \A j \in Requests \ {i} : place'[j] = place[j]
    BY <1>1, <1>10, MovesShape DEF ReserveCart, CreateFails, Reached, ShopShape
  <2>2. QED
    BY <1>6, <1>10, <2>1 DEF ReserveCart, CreateFails
<1>11. CASE CreateOrder(i)
  <2>1. /\ PlaceShape' /\ place'[i].at = "built" /\ place[i].at = "held"
        /\ \A j \in Requests \ {i} : place'[j] = place[j]
    BY <1>1, <1>11, MovesShape DEF CreateOrder, Reached, ShopShape
  <2>2. /\ OrderShape' /\ order'[i].status = "pending" /\ order'[i].total = Due(i)'
        /\ \A j \in Requests \ {i} : order'[j] = order[j]
    BY <1>11, CreatesShape DEF ShopShape
  <2>3. UNCHANGED <<paymentRow, page>>
    BY <1>11 DEF CreateOrder
  <2>4. RequestInv(i)'
    BY <1>2, <1>3, <2>1, <2>2, <2>3 DEF RequestInv
  <2>5. MoneyShape'
    BY <1>3, <2>3 DEF ShopShape, MoneyShape
  <2>6. QED
    BY <1>5, <2>1, <2>2, <2>3, <2>4, <2>5
<1>12. CASE PostSession(i)
  <2>1. /\ PlaceShape' /\ place'[i].at = "posted" /\ place[i].at = "built"
        /\ \A j \in Requests \ {i} : place'[j] = place[j]
    BY <1>1, <1>12, MovesShape DEF PostSession, Reached, ShopShape
  <2>2. UNCHANGED <<order, paymentRow>> /\ page' = [page EXCEPT ![i] = Due(i)] /\ Due(i) \in Totals
    BY <1>12, LineItemsAreDue DEF PostSession, ShopShape
  <2>3. MoneyShape' /\ page'[i] = Due(i) /\ \A j \in Requests \ {i} : page'[j] = page[j]
    BY <1>3, <2>2 DEF ShopShape, MoneyShape
  <2>4. RequestInv(i)'
    BY <1>2, <1>3, <2>1, <2>2, <2>3 DEF RequestInv, Due
  <2>5. OrderShape'
    BY <2>2 DEF ShopShape, OrderShape
  <2>6. QED
    BY <1>5, <2>1, <2>2, <2>3, <2>4, <2>5
<1>13. CASE RecordPayment(i) \/ SimulateSession(i)
  <2>1. /\ PlaceShape' /\ place'[i].at = "answered" /\ place[i].at \in {"built", "posted"}
        /\ \A j \in Requests \ {i} : place'[j] = place[j]
    BY <1>1, <1>13, MovesShape DEF RecordPayment, SimulateSession, Reached, ShopShape
  <2>2. UNCHANGED <<order, page>> /\ paymentRow' = Pending(i)
    BY <1>13 DEF RecordPayment, SimulateSession
  <2>3. /\ paymentRow' \in [Requests -> PaymentRecord]
        /\ paymentRow'[i].status = "pending" /\ paymentRow'[i].amount = order[i].total
        /\ \A j \in Requests \ {i} : paymentRow'[j] = paymentRow[j]
    BY <2>2, PaymentShape DEF ShopShape
  <2>4. RequestInv(i)'
    BY <1>2, <1>3, <2>1, <2>2, <2>3 DEF RequestInv, Due
  <2>5. OrderShape' /\ MoneyShape'
    BY <1>3, <2>2, <2>3 DEF ShopShape, OrderShape, MoneyShape
  <2>6. QED
    BY <1>5, <2>1, <2>2, <2>3, <2>4, <2>5
<1>14. CASE NoSession(i)
  <2>1. /\ PlaceShape' /\ place'[i].at = "refused" /\ place[i].at \in {"built", "posted"}
        /\ \A j \in Requests \ {i} : place'[j] = place[j]
    BY <1>1, <1>14, MovesShape DEF NoSession, Reached, ShopShape
  <2>2. UNCHANGED <<page, paymentRow>>
    BY <1>14 DEF NoSession
  <2>3. order' = order \/ order' = [order EXCEPT ![i].status = "cancelled"]
    BY <1>14 DEF NoSession
  <2>4. /\ OrderShape' /\ order'[i].status \in {"pending", "cancelled"} /\ Due(i)' = Due(i)
        /\ order'[i].total = order[i].total /\ \A j \in Requests \ {i} : order'[j] = order[j]
    <3>1. CASE order' = order
      BY <1>2, <2>1, <3>1 DEF RequestInv, ShopShape, OrderShape, Due
    <3>2. CASE order' = [order EXCEPT ![i].status = "cancelled"]
      BY <3>2, StatusShape DEF ShopShape
    <3>3. QED
      BY <2>3, <3>1, <3>2
  <2>5. RequestInv(i)'
    BY <1>2, <1>3, <2>1, <2>2, <2>4 DEF RequestInv
  <2>6. MoneyShape'
    BY <1>3, <2>2 DEF ShopShape, MoneyShape
  <2>7. QED
    BY <1>5, <2>1, <2>2, <2>4, <2>5, <2>6
<1>15. QED
  BY <1>7, <1>8, <1>9, <1>10, <1>11, <1>12, <1>13, <1>14

\* So do the payment page and the confirmations.
LEMMA PayInductive ==
  ASSUME ShopShape, \A j \in Requests : RequestInv(j), NEW i \in Requests,
         OpenPage(i) \/ PayOnPage(i)
  PROVE  ShopShape' /\ \A j \in Requests : RequestInv(j)'
<1> USE DEF catalog, placing
<1>1. UNCHANGED <<basePrice, override, fee, place, order, page, paymentRow, confirm, mailed>>
  BY DEF OpenPage, PayOnPage
<1>2. /\ charged' \in [Requests -> Totals] /\ opened' \subseteq Requests
      /\ \A j \in Requests \ {i} : charged'[j] = charged[j] /\ (j \in opened' <=> j \in opened)
  BY DEF OpenPage, PayOnPage, ShopShape, MoneyShape, ConfirmShape
<1>3. RequestInv(i)'
  <2>1. CASE OpenPage(i)
    BY <1>1, <2>1 DEF OpenPage, Reached, RequestInv, Due
  <2>2. CASE PayOnPage(i)
    <3>1. charged'[i] = page[i] /\ i \in opened /\ opened' = opened
      BY <2>2 DEF PayOnPage, ShopShape, MoneyShape
    <3>2. QED
      BY <1>1, <3>1 DEF RequestInv, Due
  <2>3. QED
    BY <2>1, <2>2
<1>4. \A j \in Requests \ {i} : RequestInv(j)'
  BY <1>1, <1>2, RequestKept
<1>5. ShopShape'
  BY <1>1, <1>2 DEF ShopShape, CatalogShape, PlaceShape, OrderShape, MoneyShape, ConfirmShape
<1>6. QED
  BY <1>3, <1>4, <1>5

\* A confirmation in flight is for an order whose client was sent to its page;
\* one that has just paid it has not mailed it, nor has another, and is the only
\* one; nothing is mailed for a payment that nobody confirmed.
MailInv ==
  /\ \A d \in Confirmers : confirm[d].at # "idle" => confirm[d].of \in opened
  /\ \A d \in Confirmers : confirm[d].at = "newly" =>
       order[confirm[d].of].status = "paid" /\ mailed[confirm[d].of] = 0
  /\ \A d, e \in Confirmers :
       confirm[d].at = "newly" /\ confirm[e].at = "newly" /\ confirm[d].of = confirm[e].of => d = e
  /\ \A i \in Requests :
       mailed[i] <= 1 /\ (order[i].status # "paid" => mailed[i] = 0)

\* A confirmation that moves on
LEMMA ConfirmMoves ==
  ASSUME ShopShape, NEW d \in Confirmers
  PROVE  /\ NoConfirm \in ConfirmRecord /\ NoConfirm.at = "idle"
         /\ confirm' = [confirm EXCEPT ![d] = NoConfirm] =>
              /\ confirm' \in [Confirmers -> ConfirmRecord] /\ confirm'[d].at = "idle"
              /\ \A e \in Confirmers \ {d} : confirm'[e] = confirm[e]
         /\ confirm' = [confirm EXCEPT ![d].at = "newly"] =>
              /\ confirm' \in [Confirmers -> ConfirmRecord]
              /\ confirm'[d].at = "newly" /\ confirm'[d].of = confirm[d].of
              /\ \A e \in Confirmers \ {d} : confirm'[e] = confirm[e]
<1>1. NoConfirm \in ConfirmRecord /\ NoConfirm.at = "idle"
  BY DEF NoConfirm, ConfirmRecord
<1>2. QED
  BY <1>1 DEF ShopShape, ConfirmShape, ConfirmRecord

\* A confirmation that begins
LEMMA ConfirmBegins ==
  ASSUME ShopShape, NEW d \in Confirmers, NEW i \in Requests, Begins(d, i)
  PROVE  /\ confirm' \in [Confirmers -> ConfirmRecord]
         /\ confirm'[d].at = "begun" /\ confirm'[d].of = i
         /\ \A e \in Confirmers \ {d} : confirm'[e] = confirm[e]
<1> DEFINE r == [at |-> "begun", of |-> i]
<1>1. r \in ConfirmRecord /\ r.at = "begun" /\ r.of = i
  BY DEF ConfirmRecord
<1>2. confirm' = [confirm EXCEPT ![d] = r]
  BY DEF Begins
<1> HIDE DEF r
<1>3. QED
  BY <1>1, <1>2 DEF ShopShape, ConfirmShape

\* The confirmations keep the shapes, the promise and the mails.
LEMMA ConfirmInductive ==
  ASSUME ShopShape, \A j \in Requests : RequestInv(j), MailInv, ConfirmNext
  PROVE  ShopShape' /\ (\A j \in Requests : RequestInv(j)') /\ MailInv'
<1> USE DEF catalog, placing, paying, Mailing, Healthy
<1>1. ASSUME confirm' \in [Confirmers -> ConfirmRecord], mailed' \in [Requests -> Nat],
             UNCHANGED <<catalog, placing, paymentRow, paying>>
      PROVE  ShopShape' /\ \A j \in Requests : RequestInv(j)'
  <2>1. ShopShape'
    BY <1>1 DEF ShopShape, CatalogShape, PlaceShape, OrderShape, MoneyShape, ConfirmShape
  <2>2. QED
    BY <1>1, <2>1, RequestKept
<1>2. ASSUME NEW d \in Confirmers, NEW i \in Requests, Begins(d, i), i \in opened
      PROVE  ShopShape' /\ (\A j \in Requests : RequestInv(j)') /\ MailInv'
  <2>1. /\ confirm' \in [Confirmers -> ConfirmRecord]
        /\ confirm'[d].at = "begun" /\ confirm'[d].of = i
        /\ \A e \in Confirmers \ {d} : confirm'[e] = confirm[e]
    BY <1>2, ConfirmBegins
  <2>2. UNCHANGED <<catalog, placing, paymentRow, paying, mailed>>
    BY <1>2 DEF Begins
  <2>3. ShopShape' /\ \A j \in Requests : RequestInv(j)'
    BY <1>1, <2>1, <2>2 DEF ShopShape, ConfirmShape
  <2>4. MailInv'
    BY <1>2, <2>1, <2>2 DEF MailInv
  <2>5. QED
    BY <2>3, <2>4
<1>3. ASSUME NEW d \in Confirmers, NEW i \in Requests,
             PaymongoWebhook(d, i) \/ CheckoutSuccess(d, i) \/ SimulatedConfirm(d, i)
      PROVE  ShopShape' /\ (\A j \in Requests : RequestInv(j)') /\ MailInv'
  <2>1. Begins(d, i)
    BY <1>3 DEF PaymongoWebhook, CheckoutSuccess, SimulatedConfirm
  <2>2. i \in opened
    BY <1>3 DEF PaymongoWebhook, CheckoutSuccess, SimulatedConfirm, Simulated, RequestInv
  <2>3. QED
    BY <1>2, <2>1, <2>2
<1>4. ASSUME NEW d \in Confirmers, ConfirmPaid(d)
      PROVE  ShopShape' /\ (\A j \in Requests : RequestInv(j)') /\ MailInv'
  <2>1. PICK i \in Requests :
          confirm[d].of = i /\ i \in opened /\ confirm[d].at = "begun" /\ place[i].at = "answered"
    BY <1>4 DEF ConfirmPaid, MailInv, ShopShape, ConfirmShape, RequestInv
  <2>2. UNCHANGED <<catalog, place, page, paying, mailed>>
    BY <1>4 DEF ConfirmPaid
  <2>3. CASE Unpaid(i)
    <3>1. /\ paymentRow' = [paymentRow EXCEPT ![i].status = "paid"]
          /\ order' = [order EXCEPT ![i].status = "paid"]
          /\ confirm' = [confirm EXCEPT ![d].at = "newly"]
      BY <1>4, <2>1, <2>3 DEF ConfirmPaid
    <3>2. /\ paymentRow' \in [Requests -> PaymentRecord]
          /\ paymentRow'[i].status = "paid" /\ paymentRow'[i].amount = paymentRow[i].amount
          /\ \A j \in Requests \ {i} : paymentRow'[j] = paymentRow[j]
      BY <2>1, <3>1, PaymentShape DEF ShopShape
    <3>3. /\ OrderShape' /\ order'[i].status = "paid" /\ Due(i)' = Due(i)
          /\ order'[i].total = order[i].total
          /\ \A j \in Requests \ {i} : order'[j] = order[j]
      BY <2>1, <3>1, StatusShape DEF ShopShape
    <3>4. /\ confirm' \in [Confirmers -> ConfirmRecord]
          /\ confirm'[d].at = "newly" /\ confirm'[d].of = i
          /\ \A e \in Confirmers \ {d} : confirm'[e] = confirm[e]
      BY <2>1, <3>1, ConfirmMoves
    <3>5. RequestInv(i)'
      BY <2>1, <2>2, <3>2, <3>3 DEF RequestInv
    <3>6. \A j \in Requests \ {i} : RequestInv(j)'
      BY <2>2, <3>2, <3>3, RequestKept
    <3>7. ShopShape'
      BY <2>2, <3>2, <3>3, <3>4 DEF ShopShape, CatalogShape, PlaceShape, MoneyShape, ConfirmShape
    <3>8. order[i].status # "paid" /\ mailed[i] = 0
      BY <2>1, <2>3 DEF Unpaid, RequestInv, MailInv
    <3>9. \A e \in Confirmers \ {d} : confirm[e].at = "newly" => confirm[e].of # i
      BY <2>1, <3>8 DEF MailInv
    <3>10. MailInv'
      <4>1. \A e \in Confirmers : confirm'[e].at # "idle" => confirm'[e].of \in opened'
        BY <2>1, <2>2, <3>4 DEF MailInv
      <4>2. ASSUME NEW e \in Confirmers, confirm'[e].at = "newly"
            PROVE  order'[confirm'[e].of].status = "paid" /\ mailed'[confirm'[e].of] = 0
        <5>1. CASE e = d
          BY <2>2, <3>3, <3>4, <3>8, <5>1
        <5>2. CASE e # d
          <6>1. confirm[e].at = "newly" /\ confirm'[e] = confirm[e] /\ confirm[e].of \in Requests
            BY <3>4, <4>2, <5>2 DEF MailInv, ShopShape, ConfirmShape
          <6>2. QED
            BY <2>2, <3>3, <3>9, <5>2, <6>1 DEF MailInv
        <5>3. QED
          BY <5>1, <5>2
      <4>3. \A e, f \in Confirmers :
              confirm'[e].at = "newly" /\ confirm'[f].at = "newly" /\ confirm'[e].of = confirm'[f].of
                => e = f
        BY <3>4, <3>9 DEF MailInv
      <4>4. \A j \in Requests : mailed'[j] <= 1 /\ (order'[j].status # "paid" => mailed'[j] = 0)
        BY <2>2, <3>3 DEF MailInv
      <4>5. QED
        BY <4>1, <4>2, <4>3, <4>4 DEF MailInv
    <3>11. QED
      BY <3>5, <3>6, <3>7, <3>10
  <2>4. CASE ~Unpaid(i)
    <3>1. confirm' = [confirm EXCEPT ![d] = NoConfirm] /\ UNCHANGED <<order, paymentRow>>
      BY <1>4, <2>1, <2>4 DEF ConfirmPaid
    <3>2. /\ confirm' \in [Confirmers -> ConfirmRecord] /\ confirm'[d].at = "idle"
          /\ \A e \in Confirmers \ {d} : confirm'[e] = confirm[e]
      BY <3>1, ConfirmMoves
    <3>3. ShopShape' /\ \A j \in Requests : RequestInv(j)'
      BY <1>1, <2>2, <3>1, <3>2 DEF ShopShape, ConfirmShape
    <3>4. MailInv'
      BY <2>2, <3>1, <3>2 DEF MailInv
    <3>5. QED
      BY <3>3, <3>4
  <2>5. QED
    BY <2>3, <2>4
<1>5. ASSUME NEW d \in Confirmers, SendMail(d)
      PROVE  ShopShape' /\ (\A j \in Requests : RequestInv(j)') /\ MailInv'
  <2> DEFINE i == confirm[d].of
  <2>1. /\ i \in Requests /\ i \in opened /\ confirm[d].at = "newly"
        /\ order[i].status = "paid" /\ mailed[i] = 0
    BY <1>5 DEF SendMail, MailInv, ShopShape, ConfirmShape
  <2>2. /\ confirm' = [confirm EXCEPT ![d] = NoConfirm] /\ mailed' = [mailed EXCEPT ![i] = @ + 1]
        /\ UNCHANGED <<catalog, placing, paymentRow, paying>>
    BY <1>5 DEF SendMail
  <2>3. /\ confirm' \in [Confirmers -> ConfirmRecord] /\ confirm'[d].at = "idle"
        /\ \A e \in Confirmers \ {d} : confirm'[e] = confirm[e]
    BY <2>2, ConfirmMoves
  <2>4. /\ mailed' \in [Requests -> Nat] /\ mailed'[i] = 1
        /\ \A j \in Requests \ {i} : mailed'[j] = mailed[j]
    BY <2>1, <2>2 DEF ShopShape, ConfirmShape
  <2>5. \A e \in Confirmers \ {d} : confirm[e].at = "newly" => confirm[e].of \in Requests \ {i}
    BY <2>1 DEF MailInv, ShopShape, ConfirmShape
  <2>6. ShopShape' /\ \A j \in Requests : RequestInv(j)'
    BY <1>1, <2>2, <2>3, <2>4
  <2> HIDE DEF i
  <2>7. MailInv'
    BY <2>1, <2>2, <2>3, <2>4, <2>5 DEF MailInv
  <2>8. QED
    BY <2>6, <2>7
<1>6. ASSUME NEW d \in Confirmers, ConfirmDies(d)
      PROVE  ShopShape' /\ (\A j \in Requests : RequestInv(j)') /\ MailInv'
  <2>1. /\ confirm' = [confirm EXCEPT ![d] = NoConfirm] /\ mailed' = mailed
        /\ UNCHANGED <<catalog, placing, paymentRow, paying>>
    BY <1>6 DEF ConfirmDies
  <2>2. /\ confirm' \in [Confirmers -> ConfirmRecord] /\ confirm'[d].at = "idle"
        /\ \A e \in Confirmers \ {d} : confirm'[e] = confirm[e]
    BY <2>1, ConfirmMoves
  <2>3. ShopShape' /\ \A j \in Requests : RequestInv(j)'
    BY <1>1, <2>1, <2>2 DEF ShopShape, ConfirmShape
  <2>4. MailInv'
    BY <2>1, <2>2 DEF MailInv
  <2>5. QED
    BY <2>3, <2>4
<1>7. QED
  BY <1>3, <1>4, <1>5, <1>6 DEF ConfirmNext

\* The checkout starts with no order, no payment and no mail.
LEMMA ShopAtStart == ShopInit => ShopShape /\ (\A j \in Requests : RequestInv(j)) /\ MailInv
<1> SUFFICES ASSUME ShopInit PROVE ShopShape /\ (\A j \in Requests : RequestInv(j)) /\ MailInv
  OBVIOUS
<1>1. 0 \in Totals
  BY DEF Totals
<1>2. /\ NoRequest \in PlaceRecord /\ NoRequest.at = "free"
      /\ Unordered \in OrderRecord /\ Unordered.status = "none"
      /\ NoPayment \in PaymentRecord /\ NoConfirm \in ConfirmRecord /\ NoConfirm.at = "idle"
  BY <1>1 DEF NoRequest, PlaceRecord, Stages, Clients, EmptyCart, Unpriced, Unordered, OrderRecord,
              NoPayment, PaymentRecord, NoConfirm, ConfirmRecord
<1>3. CatalogShape
  BY StorefrontAssumption DEF ShopInit, CatalogShape
<1>4. PlaceShape /\ OrderShape /\ MoneyShape /\ ConfirmShape
  BY <1>1, <1>2 DEF ShopInit, PlaceShape, OrderShape, MoneyShape, ConfirmShape
<1>5. ASSUME NEW j \in Requests PROVE RequestInv(j)
  BY <1>2 DEF ShopInit, RequestInv
<1>6. MailInv
  BY <1>2 DEF ShopInit, MailInv
<1>7. QED
  BY <1>3, <1>4, <1>5, <1>6 DEF ShopShape

\* Every step of the shop, staff's included, keeps them.
LEMMA ShopInductive ==
  ASSUME ShopShape, \A j \in Requests : RequestInv(j), MailInv, [ShopNext]_shopVars
  PROVE  ShopShape' /\ (\A j \in Requests : RequestInv(j)') /\ MailInv'
<1> USE DEF catalog, placing, paying
<1>1. ASSUME CatalogShape', UNCHANGED <<placing, paymentRow, paying, confirm, mailed>>
      PROVE  ShopShape' /\ (\A j \in Requests : RequestInv(j)') /\ MailInv'
  <2>1. ShopShape'
    BY <1>1 DEF ShopShape, PlaceShape, OrderShape, MoneyShape, ConfirmShape
  <2>2. \A j \in Requests : RequestInv(j)'
    BY <1>1, RequestKept
  <2>3. MailInv'
    BY <1>1 DEF MailInv
  <2>4. QED
    BY <2>1, <2>2, <2>3
<1>2. CASE CatalogNext
  <2>1. UNCHANGED <<placing, paymentRow, paying, confirm, mailed>>
    BY <1>2 DEF CatalogNext, EditProduct, EditVariant, EditZone, Edited
  <2>2. CatalogShape'
    BY <1>2, StorefrontAssumption
       DEF CatalogNext, EditProduct, EditVariant, EditZone, ShopShape, CatalogShape
  <2>3. QED
    BY <1>1, <2>1, <2>2
<1>3. ASSUME NEW i \in Requests,
             \/ \E client \in Clients, lines \in CartsSent : SubmitCart(i, client, lines)
             \/ ReadZone(i) \/ PriceCart(i) \/ ReserveCart(i) \/ CreateOrder(i) \/ CreateFails(i)
             \/ PostSession(i) \/ RecordPayment(i) \/ SimulateSession(i) \/ NoSession(i)
      PROVE  ShopShape' /\ (\A j \in Requests : RequestInv(j)') /\ MailInv'
  <2>1. ShopShape' /\ \A j \in Requests : RequestInv(j)'
    BY <1>3, PlaceInductive
  <2>2. UNCHANGED <<confirm, mailed, opened>>
    BY <1>3 DEF SubmitCart, ReadZone, PriceCart, ReserveCart, CreateOrder, CreateFails, PostSession,
                RecordPayment, SimulateSession, NoSession, Placing
  <2>3. \A j \in Requests : order[j].status = "paid" <=> order'[j].status = "paid"
    <3>1. \A j \in Requests \ {i} : order'[j] = order[j]
      BY <1>3 DEF SubmitCart, ReadZone, PriceCart, ReserveCart, CreateOrder, CreateFails,
                  PostSession, RecordPayment, SimulateSession, NoSession, ShopShape, OrderShape
    <3>2. RequestInv(i) /\ place[i].at # "answered"
      BY <1>3 DEF SubmitCart, ReadZone, PriceCart, ReserveCart, CreateOrder, CreateFails,
                  PostSession, RecordPayment, SimulateSession, NoSession, Reached
    <3>3. order[i].status # "paid"
      BY <3>2 DEF RequestInv
    <3>4. \/ order' = order \/ order' = [order EXCEPT ![i].status = "cancelled"] \/ CreateOrder(i)
      BY <1>3 DEF SubmitCart, ReadZone, PriceCart, ReserveCart, CreateFails,
                  PostSession, RecordPayment, SimulateSession, NoSession
    <3>5. order'[i].status # "paid"
      BY <3>3, <3>4, StatusShape, CreatesShape DEF ShopShape
    <3>6. QED
      BY <3>1, <3>3, <3>5
  <2>4. MailInv'
    BY <2>2, <2>3 DEF MailInv, ShopShape, ConfirmShape
  <2>5. QED
    BY <2>1, <2>4
<1>4. ASSUME NEW i \in Requests, OpenPage(i) \/ PayOnPage(i)
      PROVE  ShopShape' /\ (\A j \in Requests : RequestInv(j)') /\ MailInv'
  <2>1. ShopShape' /\ \A j \in Requests : RequestInv(j)'
    BY <1>4, PayInductive
  <2>2. UNCHANGED <<confirm, mailed, order>> /\ opened \subseteq opened'
    BY <1>4 DEF OpenPage, PayOnPage
  <2>3. MailInv'
    BY <2>2 DEF MailInv
  <2>4. QED
    BY <2>1, <2>3
<1>5. CASE ConfirmNext
  BY <1>5, ConfirmInductive
<1>6. CASE UNCHANGED shopVars
  <2>1. CatalogShape'
    BY <1>6 DEF shopVars, ShopShape, CatalogShape
  <2>2. QED
    BY <1>1, <1>6, <2>1 DEF shopVars
<1>7. QED
  BY <1>2, <1>3, <1>4, <1>5, <1>6 DEF ShopNext, PlaceNext

\* For any number of requests, carts, prices and confirmations: the checkout
\* keeps its shapes, its promise about each request, and its mails.
LEMMA ShopKeepsItsPromise ==
  ShopSpec => [](ShopShape /\ (\A j \in Requests : RequestInv(j)) /\ MailInv)
<1>1. /\ ShopShape /\ (\A j \in Requests : RequestInv(j)) /\ MailInv
      /\ [ShopNext]_shopVars
      => (ShopShape /\ (\A j \in Requests : RequestInv(j)) /\ MailInv)'
  BY ShopInductive
<1>2. QED
  BY <1>1, ShopAtStart, PTL DEF ShopSpec

\* What is asked for, paid and recorded is what the order's lines and fee come
\* to, for any carts, prices and fees, whenever staff change them.
THEOREM ShopperPaysTheOrder == ShopSpec => []ChargedAsOrdered
<1>1. ShopShape /\ (\A j \in Requests : RequestInv(j)) => ChargedAsOrdered
  <2> SUFFICES ASSUME ShopShape, NEW i \in Requests, RequestInv(i)
               PROVE  IF order[i].status = "none"
                      THEN page[i] = 0 /\ charged[i] = 0 /\ paymentRow[i] = NoPayment
                      ELSE /\ order[i].total = Due(i)
                           /\ page[i] \in {0, Due(i)} /\ charged[i] \in {0, Due(i)}
                           /\ paymentRow[i] # NoPayment => paymentRow[i].amount = Due(i)
    BY DEF ChargedAsOrdered, Due
  <2>1. QED
    BY DEF RequestInv
<1>2. QED
  BY <1>1, ShopKeepsItsPromise, PTL

\* One confirmation e-mail at most, and only for a confirmed payment, however
\* many webhooks and success pages there are.
THEOREM MailsGoOnce == ShopSpec => []MailedOnce
<1>1. ShopShape /\ MailInv => MailedOnce
  <2> SUFFICES ASSUME ShopShape, MailInv, NEW i \in Requests
               PROVE  mailed[i] <= 1 /\ (mailed[i] = 1 => order[i].status = "paid")
    BY DEF MailedOnce
  <2>1. QED
    BY DEF MailInv
<1>2. QED
  BY <1>1, ShopKeepsItsPromise, PTL

\* What the checkout keeps beyond its shapes: prices and fees are the catalogue's,
\* carts are ones that were sent, a page is paid at what it asks for, and an idle
\* confirmation is about nobody.
CatalogBounds ==
  /\ basePrice \in Prices /\ override \in [Skus -> Prices \cup {NoOverride}] /\ fee \in Fees
  /\ provider \in Providers /\ edits \in 0..MaxEdits /\ faults \in 0..MaxFaults
CartsKept == \A i \in Requests : place[i].lines \in CartsSent \cup {EmptyCart}
PaidAsAsked == \A i \in Requests : charged[i] \in {0, page[i]}
IdleIsNobody == \A d \in Confirmers : confirm[d].at = "idle" => confirm[d].of = Nobody

\* Every step keeps the catalogue's values and the bounds.
LEMMA CatalogBoundsInductive ==
  ASSUME CatalogBounds, [ShopNext]_shopVars
  PROVE  CatalogBounds'
<1> USE DEF catalog, placing, paying, Placing, Healthy, Fault, Mailing
<1>1. MaxEdits \in Nat /\ MaxFaults \in Nat
  BY StorefrontAssumption
<1>2. CASE CatalogNext
  BY <1>1, <1>2 DEF CatalogNext, EditProduct, EditVariant, EditZone, Edited, CatalogBounds
<1>3. ASSUME UNCHANGED catalog, faults' = faults \/ (faults < MaxFaults /\ faults' = faults + 1)
      PROVE  CatalogBounds'
  BY <1>1, <1>3 DEF CatalogBounds
<1>4. CASE PlaceNext
  BY <1>3, <1>4 DEF PlaceNext, SubmitCart, ReadZone, PriceCart, ReserveCart, CreateOrder,
       CreateFails, PostSession, RecordPayment, SimulateSession, NoSession, OpenPage, PayOnPage
<1>5. CASE ConfirmNext
  BY <1>3, <1>5 DEF ConfirmNext, PaymongoWebhook, CheckoutSuccess, SimulatedConfirm, Begins,
       ConfirmPaid, SendMail, ConfirmDies
<1>6. CASE UNCHANGED shopVars
  BY <1>3, <1>6 DEF shopVars
<1>7. QED
  BY <1>2, <1>4, <1>5, <1>6 DEF ShopNext

\* A cart is what its client sent, to the end of the request.
LEMMA CartsInductive ==
  ASSUME PlaceShape, CartsKept, [ShopNext]_shopVars
  PROVE  CartsKept'
<1> USE DEF placing, paying
<1>1. ASSUME NEW i \in Requests,
             \A j \in Requests \ {i} : place'[j] = place[j],
             place'[i].lines = place[i].lines \/ place'[i].lines \in CartsSent
      PROVE  CartsKept'
  BY <1>1 DEF CartsKept
<1>2. ASSUME NEW i \in Requests, NEW client \in Clients, NEW lines \in CartsSent,
             SubmitCart(i, client, lines)
      PROVE  CartsKept'
  <2> DEFINE r == [NoRequest EXCEPT
        !.at = IF Orderable(lines) THEN "received" ELSE "refused", !.client = client, !.lines = lines]
  <2>1. r.lines = lines
    BY DEF NoRequest
  <2>2. place' = [place EXCEPT ![i] = r]
    BY <1>2 DEF SubmitCart
  <2> HIDE DEF r
  <2>3. QED
    BY <1>1, <2>1, <2>2 DEF PlaceShape
<1>3. ASSUME NEW i \in Requests, ReadZone(i) \/ PriceCart(i) PROVE CartsKept'
  <2>1. /\ \A j \in Requests \ {i} : place'[j] = place[j]
        /\ place'[i].lines = place[i].lines
    BY <1>3 DEF ReadZone, PriceCart, PlaceShape, PlaceRecord
  <2>2. QED
    BY <1>1, <2>1
<1>4. ASSUME NEW i \in Requests, NEW stage, MoveTo(i, stage) PROVE CartsKept'
  <2>1. /\ \A j \in Requests \ {i} : place'[j] = place[j]
        /\ place'[i].lines = place[i].lines
    BY <1>4 DEF MoveTo, PlaceShape, PlaceRecord
  <2>2. QED
    BY <1>1, <2>1
<1>5. ASSUME NEW i \in Requests,
             ReserveCart(i) \/ CreateOrder(i) \/ CreateFails(i) \/ PostSession(i)
               \/ RecordPayment(i) \/ SimulateSession(i) \/ NoSession(i)
      PROVE  CartsKept'
  BY <1>4, <1>5 DEF ReserveCart, CreateOrder, CreateFails, PostSession, RecordPayment,
       SimulateSession, NoSession
<1>6. CASE UNCHANGED place
  BY <1>6 DEF CartsKept
<1>7. CASE CatalogNext \/ ConfirmNext
  BY <1>6, <1>7 DEF CatalogNext, EditProduct, EditVariant, EditZone, Edited, ConfirmNext,
       PaymongoWebhook, CheckoutSuccess, SimulatedConfirm, Begins, ConfirmPaid, SendMail, ConfirmDies,
       Mailing
<1>8. ASSUME NEW i \in Requests, OpenPage(i) \/ PayOnPage(i) PROVE CartsKept'
  BY <1>6, <1>8 DEF OpenPage, PayOnPage
<1>9. QED
  BY <1>2, <1>3, <1>5, <1>6, <1>7, <1>8 DEF ShopNext, PlaceNext, shopVars

\* A payment is what the page asked for: the page was written before its client
\* could open it.
LEMMA PaidInductive ==
  ASSUME ShopShape, \A j \in Requests : RequestInv(j), PaidAsAsked, [ShopNext]_shopVars
  PROVE  PaidAsAsked'
<1> USE DEF catalog, placing, paying, Placing
<1>1. CASE UNCHANGED <<page, charged>>
  BY <1>1 DEF PaidAsAsked
<1>2. ASSUME NEW i \in Requests, PostSession(i) PROVE PaidAsAsked'
  <2>1. charged[i] = 0
    BY <1>2 DEF PostSession, Reached, RequestInv
  <2>2. charged' = charged /\ \A j \in Requests \ {i} : page'[j] = page[j]
    BY <1>2 DEF PostSession, ShopShape, MoneyShape
  <2>3. QED
    BY <2>1, <2>2 DEF PaidAsAsked
<1>3. ASSUME NEW i \in Requests, PayOnPage(i) PROVE PaidAsAsked'
  BY <1>3 DEF PayOnPage, PaidAsAsked, ShopShape, MoneyShape
<1>4. ASSUME NEW i \in Requests,
             \/ \E client \in Clients, lines \in CartsSent : SubmitCart(i, client, lines)
             \/ ReadZone(i) \/ PriceCart(i) \/ ReserveCart(i) \/ CreateOrder(i) \/ CreateFails(i)
             \/ RecordPayment(i) \/ SimulateSession(i) \/ NoSession(i) \/ OpenPage(i)
      PROVE  PaidAsAsked'
  BY <1>1, <1>4 DEF SubmitCart, ReadZone, PriceCart, ReserveCart, CreateOrder, CreateFails,
       RecordPayment, SimulateSession, NoSession, OpenPage
<1>5. CASE CatalogNext \/ ConfirmNext
  BY <1>1, <1>5 DEF CatalogNext, EditProduct, EditVariant, EditZone, Edited, ConfirmNext,
       PaymongoWebhook, CheckoutSuccess, SimulatedConfirm, Begins, ConfirmPaid, SendMail, ConfirmDies,
       Mailing
<1>6. QED
  BY <1>1, <1>2, <1>3, <1>4, <1>5 DEF ShopNext, PlaceNext, shopVars

\* A confirmation that has ended is about nobody.
LEMMA IdleInductive ==
  ASSUME ShopShape, IdleIsNobody, [ShopNext]_shopVars
  PROVE  IdleIsNobody'
<1> USE DEF catalog, placing, paying, Placing
<1>1. CASE confirm' = confirm
  BY <1>1 DEF IdleIsNobody
<1>2. ASSUME NEW d \in Confirmers, NEW r, r.at = "idle" => r.of = Nobody,
             confirm' = [confirm EXCEPT ![d] = r]
      PROVE  IdleIsNobody'
  <2>1. confirm'[d] = r /\ \A e \in Confirmers \ {d} : confirm'[e] = confirm[e]
    BY <1>2 DEF ShopShape, ConfirmShape
  <2>2. QED
    BY <1>2, <2>1 DEF IdleIsNobody
<1>3. ASSUME NEW d \in Confirmers, confirm' = [confirm EXCEPT ![d] = NoConfirm] PROVE IdleIsNobody'
  BY <1>2, <1>3 DEF NoConfirm
<1>4. ASSUME NEW d \in Confirmers, NEW i \in Requests, Begins(d, i) PROVE IdleIsNobody'
  <2>1. [at |-> "begun", of |-> i].at # "idle"
    OBVIOUS
  <2>2. QED
    BY <1>2, <1>4, <2>1 DEF Begins
<1>5. ASSUME NEW d \in Confirmers, ConfirmPaid(d) PROVE IdleIsNobody'
  <2>1. CASE confirm' = [confirm EXCEPT ![d].at = "newly"]
    <3>1. confirm'[d].at = "newly" /\ \A e \in Confirmers \ {d} : confirm'[e] = confirm[e]
      BY <2>1, ConfirmMoves
    <3>2. QED
      BY <3>1 DEF IdleIsNobody
  <2>2. QED
    BY <1>3, <1>5, <2>1 DEF ConfirmPaid
<1>6. CASE ConfirmNext
  BY <1>3, <1>4, <1>5, <1>6 DEF ConfirmNext, PaymongoWebhook, CheckoutSuccess, SimulatedConfirm,
       SendMail, ConfirmDies
<1>7. CASE CatalogNext \/ PlaceNext
  BY <1>1, <1>7 DEF CatalogNext, EditProduct, EditVariant, EditZone, Edited, PlaceNext, SubmitCart,
       ReadZone, PriceCart, ReserveCart, CreateOrder, CreateFails, PostSession, RecordPayment,
       SimulateSession, NoSession, OpenPage, PayOnPage
<1>8. QED
  BY <1>1, <1>6, <1>7 DEF ShopNext, shopVars

\* What an order comes to is a number.
LEMMA TotalsAreNumbers == Totals \subseteq Nat
<1>1. ASSUME NEW f \in [Skus -> Nat] PROVE SumFunction(f) \in Nat
  <2>1. DOMAIN f = Skus /\ IsFiniteSet(Skus) /\ \A v \in Skus : f[v] \in Nat
    BY StorefrontAssumption
  <2>2. SumFunctionOnSet(f, Skus) \in Nat
    BY <2>1, SumOfNaturals
  <2>3. QED
    BY <2>1, <2>2 DEF SumFunction
<1>2. \A k, n \in Nat : k + n \in Nat
  OBVIOUS
<1>3. QED
  BY <1>1, <1>2 DEF Totals

\* Every variable of the checkout keeps its type, and orders go with payments.
LEMMA ShopTypeCorrect == ShopSpec => []ShopTypeOK
<1> DEFINE Kept == ShopShape /\ (\A j \in Requests : RequestInv(j)) /\ MailInv
           Bounds == CatalogBounds /\ CartsKept /\ PaidAsAsked /\ IdleIsNobody
<1>1. ShopInit => Kept /\ Bounds
  <2>1. SUFFICES ASSUME ShopInit PROVE Bounds
    BY ShopAtStart
  <2>2. CatalogBounds
    BY <2>1, StorefrontAssumption DEF ShopInit, CatalogBounds
  <2>3. CartsKept
    BY <2>1 DEF ShopInit, CartsKept, NoRequest
  <2>4. PaidAsAsked /\ IdleIsNobody
    BY <2>1 DEF ShopInit, PaidAsAsked, IdleIsNobody, NoConfirm
  <2>5. QED
    BY <2>2, <2>3, <2>4
<1>2. (Kept /\ Bounds) /\ [ShopNext]_shopVars => (Kept /\ Bounds)'
  <2>1. SUFFICES ASSUME Kept, Bounds, [ShopNext]_shopVars PROVE Kept' /\ Bounds'
    OBVIOUS
  <2>2. Kept'
    BY <2>1, ShopInductive
  <2>3. CartsKept'
    BY <2>1, CartsInductive DEF ShopShape
  <2>4. QED
    BY <2>1, <2>2, <2>3, CatalogBoundsInductive, PaidInductive, IdleInductive
<1>3. Kept /\ Bounds => ShopTypeOK
  <2>1. SUFFICES ASSUME Kept, Bounds PROVE ShopTypeOK
    OBVIOUS
  <2>2. ASSUME NEW i \in Requests
        PROVE  /\ place[i].at \in Stages /\ place[i].client \in Clients
               /\ order[i].status \in {"none", "pending", "paid", "cancelled"}
               /\ paymentRow[i].status \in {"none", "pending", "paid"}
               /\ page[i] \in Nat /\ mailed[i] \in Nat
    BY <2>1, TotalsAreNumbers
       DEF ShopShape, PlaceShape, PlaceRecord, OrderShape, OrderRecord, MoneyShape, PaymentRecord,
           ConfirmShape
  <2>3. ASSUME NEW i \in Requests
        PROVE  /\ paymentRow[i] # NoPayment <=> place[i].at = "answered"
               /\ order[i].status = "paid" <=> paymentRow[i].status = "paid"
    <3>1. RequestInv(i) /\ NoPayment.status = "none"
      BY <2>1 DEF NoPayment
    <3>2. QED
      BY <3>1 DEF RequestInv
  <2>4. opened \subseteq {i \in Requests : place[i].at = "answered"}
    BY <2>1 DEF ShopShape, ConfirmShape, RequestInv
  <2>5. confirm \in [Confirmers -> [at : {"idle", "begun", "newly"}, of : opened \cup {Nobody}]]
    <3>1. \A d \in Confirmers : confirm[d] \in [at : {"idle", "begun", "newly"}, of : opened \cup {Nobody}]
      BY <2>1 DEF ShopShape, ConfirmShape, ConfirmRecord, MailInv, IdleIsNobody
    <3>2. QED
      BY <2>1, <3>1 DEF ShopShape, ConfirmShape
  <2>6. QED
    BY <2>1, <2>2, <2>3, <2>4, <2>5 DEF ShopTypeOK, CatalogBounds, CartsKept, PaidAsAsked
<1>4. QED
  BY <1>1, <1>2, <1>3, PTL DEF ShopSpec

-----------------------------------------------------------------------------
(* The zone *)

\* No name is in two of the tables, and the empty name is in none.
LEMMA TablesAreDisjoint ==
  /\ NcrTokens \cap VisMinTokens = {} /\ NcrTokens \cap LuzonTokens = {}
  /\ VisMinTokens \cap LuzonTokens = {}
  /\ "" \notin NcrTokens \cup VisMinTokens \cup LuzonTokens
<1>1. NcrTokens \cap VisMinTokens = {}
  BY DEF NcrTokens, VisMinTokens
<1>2. NcrTokens \cap LuzonTokens = {}
  BY DEF NcrTokens, LuzonTokens
<1>3. VisMinTokens \cap LuzonTokens = {}
  BY DEF VisMinTokens, LuzonTokens
<1>4. "" \notin NcrTokens \cup VisMinTokens \cup LuzonTokens
  BY DEF NcrTokens, VisMinTokens, LuzonTokens
<1>5. QED
  BY <1>1, <1>2, <1>3, <1>4

\* A province the tables name decides where a city that they do not know lies.
LEMMA ProvinceDecides ==
  ASSUME NEW p, NEW c, MatchZone(c) = NoZone, NEW z \in Naming(p)
  PROVE  ResolveZoneName(p, c) = z
<1>1. z \in Zones /\ p \in Tokens[z]
  BY DEF Naming
<1>0. /\ Tokens["NCR"] = NcrTokens /\ Tokens["VisMin"] = VisMinTokens
      /\ Tokens["Luzon"] = LuzonTokens
  BY DEF Tokens
<1>2. ASSUME NEW w \in Zones, p \in Tokens[w] PROVE w = z
  <2>1. /\ ~(p \in NcrTokens /\ p \in VisMinTokens) /\ ~(p \in NcrTokens /\ p \in LuzonTokens)
        /\ ~(p \in VisMinTokens /\ p \in LuzonTokens)
    BY TablesAreDisjoint
  <2>2. w \in {"NCR", "VisMin", "Luzon"} /\ z \in {"NCR", "VisMin", "Luzon"}
    BY <1>1 DEF Zones
  <2>3. QED
    BY <1>0, <1>1, <1>2, <2>1, <2>2
<1>3. p # ""
  BY <1>0, <1>1, TablesAreDisjoint DEF Zones
<1>4. Naming(p) = {z}
  BY <1>1, <1>2 DEF Naming
<1>5. FirstOf({z}) = z /\ z # NoZone
  BY <1>1 DEF FirstOf, Zones, NoZone
<1>6. MatchZone(p) = z
  BY <1>3, <1>4, <1>5 DEF MatchZone
<1>7. QED
  BY <1>3, <1>5, <1>6 DEF ResolveZoneName

ShipRecord ==
  [at : {"none", "sent", "ordered", "refused"}, zone : Zones \cup {NoZone}, fee : ZoneFees \cup {0}]
AskRecord ==
  [at : {"none", "asked", "answered", "over"}, of : Localities \cup {Unpicked.of},
   zone : Zones \cup {NoZone}]

\* What the steps of the choice read of its variables
ZoneShape ==
  /\ zoneRow \in [Zones -> [active : BOOLEAN, fee : ZoneFees]]
  /\ chooser \in {"nobody", "web", "phone"} /\ select \in Zones \cup {NoZone}
  /\ ask \in [1..MaxPicks -> AskRecord] /\ lastWord \in 0..MaxPicks
  /\ shipTo \in ShipRecord /\ zoneEdits \in Nat

\* The client sends what was selected, of what it was offered, and the page shows
\* the fee that was offered for it.
FormShows ==
  /\ formZone = select /\ (select # NoZone => select \in DOMAIN offered)
  /\ shownFee = (IF chooser = "phone" \/ select = NoZone THEN 0 ELSE offered[select])

\* Until a zone is edited the page offers the rows as they are, and an order is
\* charged what the page offered.
OfferStands ==
  /\ chooser = "nobody" =>
       select = NoZone /\ shipTo.at = "none" /\ \A n \in 1..MaxPicks : ask[n].at = "none"
  /\ zoneEdits = 0 /\ chooser # "nobody" => offered = Listed
  /\ shipTo.at = "ordered" /\ zoneEdits = 0 => shipTo.fee = offered[shipTo.zone]

Resolved(n) == ResolveZoneName(ask[n].of.province, ask[n].of.city)

\* Addresses are picked on the page only; an answer on its way is its own
\* question's, and so is the zone that a suggestion has set.
SuggestionsHold ==
  /\ chooser # "web" => lastWord = 0 /\ \A n \in 1..MaxPicks : ask[n].at = "none"
  /\ \A n \in 1..MaxPicks : ask[n].at = "answered" => ask[n].zone \in {NoZone, Resolved(n)}
  /\ lastWord # 0 => ask[lastWord].at = "over" /\ select \in {NoZone, Resolved(lastWord)}

ZoneInv == ZoneShape /\ FormShows /\ OfferStands /\ SuggestionsHold

\* Nothing but the rows listed can be selected; the form and the fee follow.
LEMMA SetZoneShows ==
  ASSUME NEW zone, NEW n, SetZone(zone, n), offered' = offered, chooser = "web", chooser' = chooser
  PROVE  FormShows' /\ select' \in {zone, NoZone} /\ lastWord' = n
BY DEF SetZone, AfterChange, FormShows

\* Every step keeps what is shown and where it comes from.
LEMMA ZoneInductive ==
  ASSUME ZoneInv, [ZoneNext]_zoneVars
  PROVE  ZoneInv'
<1> USE DEF dropdown
<1>1. Active \subseteq Zones /\ DOMAIN Listed = Active /\ \A z \in Active : Listed[z] = zoneRow[z].fee
  BY DEF Active, Listed
<1>2. CASE OpenCheckoutPage
  <2>1. /\ chooser = "nobody" /\ chooser' = "web" /\ offered' = Listed
        /\ UNCHANGED <<zoneRow, dropdown, ask, shipTo, zoneEdits>>
    BY <1>2 DEF OpenCheckoutPage
  <2>2. select = NoZone /\ lastWord = 0
    BY <2>1 DEF ZoneInv, OfferStands, SuggestionsHold
  <2>3. Listed' = Listed
    BY <2>1 DEF Listed, Active
  <2>4. QED
    BY <2>1, <2>2, <2>3 DEF ZoneInv, ZoneShape, FormShows, OfferStands, SuggestionsHold, Resolved
<1>3. CASE ListZones
  <2>1. /\ chooser = "nobody" /\ chooser' = "phone" /\ offered' = Listed
        /\ select' = FirstListed /\ formZone' = FirstListed
        /\ UNCHANGED <<zoneRow, ask, shipTo, zoneEdits, shownFee, lastWord>>
    BY <1>3 DEF ListZones, SetZoneOnPhone
  <2>2. FirstListed \in Active \cup {NoZone} /\ select = NoZone /\ lastWord = 0 /\ shownFee = 0
    BY <2>1 DEF FirstListed, ZoneInv, FormShows, OfferStands, SuggestionsHold
  <2>3. Listed' = Listed
    BY <2>1 DEF Listed, Active
  <2>4. FormShows' /\ ZoneShape'
    BY <1>1, <2>1, <2>2 DEF ZoneInv, ZoneShape, FormShows
  <2>5. QED
    BY <2>1, <2>2, <2>3, <2>4 DEF ZoneInv, OfferStands, SuggestionsHold, Resolved
<1>15. ASSUME NEW z \in Zones \cup {NoZone}, ChooseZone(z) PROVE ZoneInv'
  <2>1. /\ chooser = "web" /\ SetZone(z, 0)
        /\ UNCHANGED <<zoneRow, chooser, offered, ask, shipTo, zoneEdits>>
    BY <1>15 DEF ChooseZone
  <2>2. FormShows' /\ select' \in {z, NoZone} /\ lastWord' = 0
    BY <2>1, SetZoneShows
  <2>3. ZoneShape'
    BY <2>1, <2>2, ZoneAssumption DEF ZoneInv, ZoneShape
  <2>4. OfferStands'
    BY <2>1 DEF ZoneInv, OfferStands, Listed, Active
  <2>5. SuggestionsHold'
    BY <2>1, <2>2 DEF ZoneInv, SuggestionsHold, Resolved
  <2>6. QED
    BY <2>2, <2>3, <2>4, <2>5 DEF ZoneInv
<1>16. ASSUME NEW z \in Zones, ChooseZoneOnPhone(z) PROVE ZoneInv'
  <2>1. /\ chooser = "phone" /\ z \in DOMAIN offered /\ select' = z /\ formZone' = z
        /\ UNCHANGED <<zoneRow, chooser, offered, ask, shipTo, zoneEdits, shownFee, lastWord>>
    BY <1>16 DEF ChooseZoneOnPhone, SetZoneOnPhone
  <2>2. ZoneShape' /\ FormShows'
    BY <2>1 DEF ZoneInv, ZoneShape, FormShows
  <2>3. OfferStands'
    BY <2>1 DEF ZoneInv, OfferStands, Listed, Active
  <2>4. SuggestionsHold'
    BY <2>1 DEF ZoneInv, SuggestionsHold, Resolved
  <2>5. QED
    BY <2>2, <2>3, <2>4 DEF ZoneInv
\* The app's questions for a total touch nothing of this.
<1>17. ASSUME NEW n \in 1..MaxPicks, ReadTotal(n) \/ TotalArrives(n) \/ TotalLost(n) PROVE ZoneInv'
  BY <1>17
     DEF ReadTotal, TotalArrives, TotalLost, TellTotal, ZoneInv, ZoneShape, FormShows, OfferStands,
         SuggestionsHold, Resolved, Listed, Active
\* A question that is asked, answered or lost: the dropdown stays.
<1>4. ASSUME NEW n \in 1..MaxPicks, chooser = "web", ask' \in [1..MaxPicks -> AskRecord], ask[n].at # "over",
             \A m \in (1..MaxPicks) \ {n} : ask'[m] = ask[m],
             ask'[n].at = "answered" => ask'[n].zone \in {NoZone, Resolved(n)'},
             UNCHANGED <<zoneRow, chooser, offered, select, formZone, shownFee, lastWord, shipTo, zoneEdits>>
      PROVE  ZoneInv'
  <2>1. ZoneShape' /\ FormShows'
    BY <1>4 DEF ZoneInv, ZoneShape, FormShows
  <2>2. OfferStands'
    BY <1>4 DEF ZoneInv, OfferStands, Listed, Active
  <2>3. \A m \in (1..MaxPicks) \ {n} : Resolved(m)' = Resolved(m)
    BY <1>4 DEF Resolved
  <2>4. lastWord # 0 => lastWord \in (1..MaxPicks) \ {n}
    BY <1>4 DEF ZoneInv, ZoneShape, SuggestionsHold
  <2>5. SuggestionsHold'
    <3>1. \A m \in 1..MaxPicks : ask'[m].at = "answered" => ask'[m].zone \in {NoZone, Resolved(m)'}
      BY <1>4, <2>3 DEF ZoneInv, SuggestionsHold
    <3>2. lastWord' # 0 =>
            ask'[lastWord'].at = "over" /\ select' \in {NoZone, Resolved(lastWord)'}
      <4>1. lastWord' = lastWord /\ select' = select
        BY <1>4
      <4>2. ASSUME lastWord # 0 PROVE Resolved(lastWord)' = Resolved(lastWord)
        BY <1>4, <2>4, <4>1, <4>2 DEF Resolved
      <4>3. QED
        BY <1>4, <2>4, <4>1, <4>2 DEF ZoneInv, SuggestionsHold
    <3>3. QED
      BY <1>4, <3>1, <3>2 DEF SuggestionsHold
  <2>6. QED
    BY <2>1, <2>2, <2>5 DEF ZoneInv
<1>5. ASSUME NEW n \in 1..MaxPicks, NEW spot \in Localities, PickAddress(n, spot) PROVE ZoneInv'
  <2> DEFINE r == [at |-> "asked", of |-> spot, zone |-> NoZone]
  <2>1. r \in AskRecord /\ r.at = "asked"
    BY DEF AskRecord
  <2>2. ask' = [ask EXCEPT ![n] = r] /\ ask[n].at = "none"
    BY <1>5 DEF PickAddress
  <2> HIDE DEF r
  <2>3. /\ ask' \in [1..MaxPicks -> AskRecord] /\ ask'[n].at = "asked"
        /\ \A m \in (1..MaxPicks) \ {n} : ask'[m] = ask[m]
    BY <2>1, <2>2 DEF ZoneInv, ZoneShape
  <2>4. /\ chooser = "web"
        /\ UNCHANGED <<zoneRow, chooser, offered, select, formZone, shownFee, lastWord, shipTo, zoneEdits>>
    BY <1>5 DEF PickAddress
  <2>5. QED
    BY <1>4, <2>2, <2>3, <2>4
<1>6. ASSUME NEW n \in 1..MaxPicks, ResolveShippingZone(n) PROVE ZoneInv'
  <2> DEFINE to == ResolveZone(ask[n].of.province, ask[n].of.city)
  <2>1. to \in {NoZone, Resolved(n)} /\ to \in Zones \cup {NoZone}
    BY DEF ResolveZone, Resolved, Active
  <2>2. ask' = [ask EXCEPT ![n].at = "answered", ![n].zone = to] /\ ask[n].at = "asked"
    BY <1>6 DEF ResolveShippingZone
  <2> HIDE DEF to
  <2>3. /\ ask' \in [1..MaxPicks -> AskRecord] /\ ask'[n].zone = to /\ ask'[n].of = ask[n].of
        /\ \A m \in (1..MaxPicks) \ {n} : ask'[m] = ask[m]
    BY <2>1, <2>2 DEF ZoneInv, ZoneShape, AskRecord
  <2>4. ask'[n].zone \in {NoZone, Resolved(n)'}
    BY <2>1, <2>3 DEF Resolved
  <2>5. chooser = "web" /\ UNCHANGED <<zoneRow, chooser, offered, dropdown, shipTo, zoneEdits>>
    BY <1>6 DEF ResolveShippingZone, ZoneInv, SuggestionsHold
  <2>6. QED
    BY <1>4, <2>2, <2>3, <2>4, <2>5
<1>7. ASSUME NEW n \in 1..MaxPicks, ask' = [ask EXCEPT ![n].at = "over"]
      PROVE  /\ ask' \in [1..MaxPicks -> AskRecord] /\ ask'[n].at = "over"
             /\ ask'[n].of = ask[n].of /\ \A m \in (1..MaxPicks) \ {n} : ask'[m] = ask[m]
  BY <1>7 DEF ZoneInv, ZoneShape, AskRecord
<1>8. ASSUME NEW n \in 1..MaxPicks, SuggestionLost(n) PROVE ZoneInv'
  <2>1. ask' = [ask EXCEPT ![n].at = "over"] /\ ask[n].at # "over"
    BY <1>8 DEF SuggestionLost
  <2>2. chooser = "web" /\ UNCHANGED <<zoneRow, chooser, offered, dropdown, shipTo, zoneEdits>>
    BY <1>8 DEF SuggestionLost, ZoneInv, SuggestionsHold
  <2>3. QED
    BY <1>4, <1>7, <2>1, <2>2
<1>9. ASSUME NEW n \in 1..MaxPicks, Suggest(n) PROVE ZoneInv'
  <2>1. /\ ask' = [ask EXCEPT ![n].at = "over"] /\ ask[n].at = "answered"
        /\ UNCHANGED <<zoneRow, chooser, offered, shipTo, zoneEdits>>
    BY <1>9 DEF Suggest
  <2>2. /\ ask' \in [1..MaxPicks -> AskRecord] /\ ask'[n].at = "over"
        /\ ask'[n].of = ask[n].of /\ \A m \in (1..MaxPicks) \ {n} : ask'[m] = ask[m]
    BY <1>7, <2>1
  <2>0. chooser = "web"
    BY <2>1 DEF ZoneInv, SuggestionsHold
  <2>3. CASE ask[n].zone = NoZone
    <3>1. UNCHANGED dropdown
      BY <1>9, <2>3 DEF Suggest
    <3>2. QED
      BY <1>4, <2>0, <2>1, <2>2, <3>1
  <2>4. CASE ask[n].zone # NoZone
    <3>1. SetZone(ask[n].zone, n)
      BY <1>9, <2>4 DEF Suggest
    <3>2. FormShows' /\ select' \in {ask[n].zone, NoZone} /\ lastWord' = n
      BY <2>0, <2>1, <3>1, SetZoneShows
    <3>3. ask[n].zone \in {NoZone, Resolved(n)} /\ ask[n].zone \in Zones \cup {NoZone}
      BY <2>1 DEF ZoneInv, SuggestionsHold, ZoneShape, AskRecord
    <3>4. ZoneShape'
      BY <2>1, <2>2, <3>2, <3>3 DEF ZoneInv, ZoneShape
    <3>5. OfferStands'
      <4>1. Listed' = Listed
        BY <2>1 DEF Listed, Active
      <4>2. QED
        BY <2>0, <2>1, <4>1 DEF ZoneInv, OfferStands
    <3>6. \A m \in 1..MaxPicks : Resolved(m)' = Resolved(m)
      BY <2>2 DEF Resolved
    <3>7. SuggestionsHold'
      <4>1. \A m \in 1..MaxPicks :
              ask'[m].at = "answered" => ask'[m].zone \in {NoZone, Resolved(m)'}
        BY <2>2, <3>6 DEF ZoneInv, SuggestionsHold
      <4>2. lastWord' # 0 =>
              ask'[lastWord'].at = "over" /\ select' \in {NoZone, Resolved(lastWord)'}
        BY <2>2, <3>2, <3>3 DEF Resolved
      <4>3. QED
        BY <2>0, <2>1, <4>1, <4>2 DEF SuggestionsHold
    <3>8. QED
      BY <3>2, <3>4, <3>5, <3>7 DEF ZoneInv
  <2>5. QED
    BY <2>3, <2>4
<1>10. CASE SubmitZone
  <2>1. /\ shipTo' = [at |-> "sent", zone |-> formZone, fee |-> 0] /\ select # NoZone
        /\ UNCHANGED <<zoneRow, chooser, offered, dropdown, ask, zoneEdits>>
    BY <1>10 DEF SubmitZone
  <2>2. shipTo' \in ShipRecord /\ shipTo'.at = "sent"
    BY <2>1 DEF ZoneInv, ZoneShape, FormShows, ShipRecord
  <2>3. QED
    BY <2>1, <2>2
       DEF ZoneInv, ZoneShape, FormShows, OfferStands, SuggestionsHold, Resolved, Listed, Active
<1>11. CASE OrderToZone
  <2>1. /\ shipTo.at = "sent" /\ UNCHANGED <<zoneRow, chooser, offered, dropdown, ask, zoneEdits>>
    BY <1>11 DEF OrderToZone
  <2>2. /\ shipTo' \in ShipRecord /\ shipTo'.at \in {"ordered", "refused"}
        /\ shipTo'.at = "ordered" =>
             shipTo'.zone \in Active /\ shipTo'.fee = zoneRow[shipTo'.zone].fee
    <3>1. CASE shipTo.zone \in Active
      <4>1. shipTo' = [shipTo EXCEPT !.at = "ordered", !.fee = zoneRow[shipTo.zone].fee]
        BY <1>11, <3>1 DEF OrderToZone
      <4>2. zoneRow[shipTo.zone].fee \in ZoneFees
        BY <1>1, <3>1 DEF ZoneInv, ZoneShape
      <4>3. QED
        BY <3>1, <4>1, <4>2 DEF ZoneInv, ZoneShape, ShipRecord
    <3>2. CASE shipTo.zone \notin Active
      BY <1>11, <3>2 DEF OrderToZone, ZoneInv, ZoneShape, ShipRecord
    <3>3. QED
      BY <3>1, <3>2
  <2>3. Listed' = Listed
    BY <2>1 DEF Listed, Active
  <2>4. OfferStands'
    BY <1>1, <2>1, <2>2, <2>3 DEF ZoneInv, OfferStands
  <2>5. QED
    BY <2>1, <2>2, <2>4 DEF ZoneInv, ZoneShape, FormShows, SuggestionsHold, Resolved
<1>12. ASSUME NEW z \in Zones, NEW row \in [active : BOOLEAN, fee : ZoneFees], EditZoneRow(z, row)
       PROVE  ZoneInv'
  <2>1. /\ zoneEdits' = zoneEdits + 1 /\ zoneRow' = [zoneRow EXCEPT ![z] = row]
        /\ UNCHANGED <<chooser, offered, dropdown, ask, shipTo>>
    BY <1>12 DEF EditZoneRow
  <2>2. zoneEdits' \in Nat \ {0} /\ zoneRow' \in [Zones -> [active : BOOLEAN, fee : ZoneFees]]
    BY <2>1 DEF ZoneInv, ZoneShape
  <2>3. QED
    BY <2>1, <2>2 DEF ZoneInv, ZoneShape, FormShows, OfferStands, SuggestionsHold, Resolved
<1>13. CASE UNCHANGED zoneVars
  BY <1>13
     DEF zoneVars, ZoneInv, ZoneShape, FormShows, OfferStands, SuggestionsHold, Resolved, Listed,
         Active
<1>14. QED
  BY <1>2, <1>3, <1>5, <1>6, <1>8, <1>9, <1>10, <1>11, <1>12, <1>13, <1>15, <1>16, <1>17 DEF ZoneNext

\* Nothing is selected, asked or sent before a checkout is opened.
LEMMA ZoneAtStart == ZoneInit => ZoneInv
<1> SUFFICES ASSUME ZoneInit PROVE ZoneInv
  OBVIOUS
<1>1. Unpicked \in AskRecord /\ Unpicked.at = "none"
  BY DEF Unpicked, AskRecord
<1>2. Unsent \in ShipRecord /\ Unsent.at = "none"
  BY DEF Unsent, ShipRecord
<1>3. ZoneShape
  BY <1>1, <1>2, ZoneAssumption DEF ZoneInit, ZoneShape
<1>4. FormShows /\ OfferStands /\ SuggestionsHold
  BY <1>1, <1>2 DEF ZoneInit, FormShows, OfferStands, SuggestionsHold
<1>5. QED
  BY <1>3, <1>4 DEF ZoneInv

\* The web page sends and shows one choice, an order is charged what its client
\* was offered, and an unknown city is its province's, for any addresses, fees,
\* picks and edits.
THEOREM ZoneStaysAsShown == ZoneSpec => []ZoneAsShown
<1>1. ZoneInit => ZoneInv
  BY ZoneAtStart
<1>2. ZoneInv /\ [ZoneNext]_zoneVars => ZoneInv'
  BY ZoneInductive
<1>3. ZoneInv => ZoneAsShown
  <2> SUFFICES ASSUME ZoneInv PROVE ZoneAsShown
    OBVIOUS
  <2>1. ASSUME lastWord # 0, select # NoZone, MatchZone(ask[lastWord].of.city) = NoZone,
               NEW z \in Naming(ask[lastWord].of.province)
        PROVE  select = z
    BY <2>1, ProvinceDecides DEF ZoneInv, SuggestionsHold, Resolved
  <2>2. QED
    BY <2>1 DEF ZoneInv, FormShows, OfferStands, ZoneAsShown
<1>4. QED
  BY <1>1, <1>2, <1>3, PTL DEF ZoneSpec

QuoteRecord ==
  [at : {"none", "asked", "answered", "over"}, zone : Zones \cup {NoZone}, fee : ZoneFees \cup {0}]

\* What the choice keeps beyond its shape
ZoneBounds ==
  /\ chosen \in Zones \cup {NoZone} /\ quote \in [1..MaxPicks -> QuoteRecord]
  /\ payLabel \in [zone : Zones \cup {NoZone}, fee : ZoneFees \cup {0}]
  /\ DOMAIN offered \subseteq Zones /\ offered \in [DOMAIN offered -> ZoneFees]
  /\ zoneEdits \in 0..MaxZoneEdits

\* Every step keeps it.
LEMMA ZoneBoundsInductive ==
  ASSUME ZoneShape, ZoneBounds, [ZoneNext]_zoneVars
  PROVE  ZoneBounds'
<1> USE DEF dropdown, phoneVars
<1>1. MaxZoneEdits \in Nat
  BY ZoneAssumption
<1>2. ASSUME NEW n \in 1..MaxPicks, NEW q \in QuoteRecord, quote' = [quote EXCEPT ![n] = q]
      PROVE  quote' \in [1..MaxPicks -> QuoteRecord]
  BY <1>2 DEF ZoneBounds
<1>3. ASSUME NEW z \in Zones \cup {NoZone}, SetZoneOnPhone(z)
      PROVE  quote' \in [1..MaxPicks -> QuoteRecord] /\ chosen' = chosen
  <2>1. [at |-> "asked", zone |-> z, fee |-> 0] \in QuoteRecord
    BY DEF QuoteRecord
  <2>2. QED
    BY <1>2, <1>3, <2>1 DEF SetZoneOnPhone, AskTotal, ZoneBounds
<1>4. CASE OpenCheckoutPage \/ ListZones
  <2>1. offered' = Listed /\ UNCHANGED <<zoneEdits, payLabel>>
    BY <1>4 DEF OpenCheckoutPage, ListZones
  <2>2. DOMAIN Listed = Active /\ Active \subseteq Zones /\ Listed \in [Active -> ZoneFees]
    BY DEF Listed, Active, ZoneShape
  <2>3. FirstListed \in Zones \cup {NoZone}
    BY DEF FirstListed, Zones
  <2>4. chosen' = chosen /\ quote' \in [1..MaxPicks -> QuoteRecord]
    BY <1>3, <1>4, <2>3 DEF OpenCheckoutPage, ListZones, ZoneBounds
  <2>5. QED
    BY <2>1, <2>2, <2>4 DEF ZoneBounds
<1>5. ASSUME NEW z \in Zones \cup {NoZone}, ChooseZone(z) PROVE ZoneBounds'
  BY <1>5 DEF ChooseZone, ZoneBounds
<1>6. ASSUME NEW z \in Zones, ChooseZoneOnPhone(z) PROVE ZoneBounds'
  BY <1>3, <1>6 DEF ChooseZoneOnPhone, ZoneBounds
<1>7. ASSUME NEW n \in 1..MaxPicks, NEW spot \in Localities, PickAddress(n, spot) PROVE ZoneBounds'
  BY <1>7 DEF PickAddress, ZoneBounds
<1>8. ASSUME NEW n \in 1..MaxPicks, ResolveShippingZone(n) \/ Suggest(n) \/ SuggestionLost(n) PROVE ZoneBounds'
  BY <1>8 DEF ResolveShippingZone, Suggest, SuggestionLost, ZoneBounds
<1>9. ASSUME NEW n \in 1..MaxPicks, ReadTotal(n) PROVE ZoneBounds'
  <2> DEFINE q == IF quote[n].zone \in Active
                  THEN [at |-> "answered", zone |-> quote[n].zone, fee |-> zoneRow[quote[n].zone].fee]
                  ELSE [at |-> "answered", zone |-> NoZone, fee |-> 0]
  <2>1. q \in QuoteRecord
    BY DEF QuoteRecord, ZoneShape, Active
  <2>2. quote' = [quote EXCEPT ![n] = q]
    BY <1>9 DEF ReadTotal
  <2> HIDE DEF q
  <2>3. QED
    BY <1>2, <1>9, <2>1, <2>2 DEF ReadTotal, ZoneBounds
<1>10. ASSUME NEW n \in 1..MaxPicks, TotalArrives(n) \/ TotalLost(n) PROVE ZoneBounds'
  <2>1. quote[n] \in QuoteRecord /\ quote' = [quote EXCEPT ![n].at = "over"]
    BY <1>10 DEF TotalArrives, TotalLost, TellTotal, ZoneBounds
  <2>2. quote' \in [1..MaxPicks -> QuoteRecord]
    BY <2>1 DEF ZoneBounds, QuoteRecord
  <2>3. payLabel' \in [zone : Zones \cup {NoZone}, fee : ZoneFees \cup {0}]
    BY <1>10, <2>1 DEF TotalArrives, TotalLost, TellTotal, NoTotal, QuoteRecord
  <2>4. QED
    BY <1>10, <2>2, <2>3 DEF TotalArrives, TotalLost, TellTotal, ZoneBounds
<1>11. CASE SubmitZone \/ OrderToZone
  BY <1>11 DEF SubmitZone, OrderToZone, ZoneBounds
<1>12. ASSUME NEW z \in Zones, NEW row, EditZoneRow(z, row) PROVE ZoneBounds'
  BY <1>1, <1>12 DEF EditZoneRow, ZoneBounds
<1>13. CASE UNCHANGED zoneVars
  BY <1>13 DEF zoneVars, ZoneBounds
<1>14. QED
  BY <1>4, <1>5, <1>6, <1>7, <1>8, <1>9, <1>10, <1>11, <1>12, <1>13 DEF ZoneNext

\* Every variable of the choice keeps its type.
LEMMA ZoneTypeCorrect == ZoneSpec => []ZoneTypeOK
<1>1. ZoneInit => ZoneInv /\ ZoneBounds
  <2>1. ZoneInit => ZoneBounds
    <3>1. DOMAIN <<>> = {} /\ <<>> \in [{} -> ZoneFees]
      OBVIOUS
    <3>2. Unquoted \in QuoteRecord /\ NoTotal \in [zone : Zones \cup {NoZone}, fee : ZoneFees \cup {0}]
      BY DEF Unquoted, NoTotal, QuoteRecord
    <3>3. QED
      BY <3>1, <3>2, ZoneAssumption DEF ZoneInit, ZoneBounds
  <2>2. QED
    BY <2>1, ZoneAtStart
<1>2. (ZoneInv /\ ZoneBounds) /\ [ZoneNext]_zoneVars => (ZoneInv /\ ZoneBounds)'
  BY ZoneInductive, ZoneBoundsInductive DEF ZoneInv
<1>3. ZoneInv /\ ZoneBounds => ZoneTypeOK
  <2>1. SUFFICES ASSUME ZoneInv, ZoneBounds PROVE ZoneTypeOK
    OBVIOUS
  <2>2. \E S \in SUBSET Zones : offered \in [S -> ZoneFees]
    BY <2>1 DEF ZoneBounds
  <2>3. formZone \in Zones \cup {NoZone} /\ shownFee \in ZoneFees \cup {0}
    BY <2>1 DEF ZoneInv, ZoneShape, FormShows, ZoneBounds
  <2>4. QED
    BY <2>1, <2>2, <2>3 DEF ZoneInv, ZoneShape, ZoneBounds, ZoneTypeOK, ShipRecord, AskRecord, QuoteRecord
<1>4. QED
  BY <1>1, <1>2, <1>3, PTL DEF ZoneSpec

-----------------------------------------------------------------------------
(* The stages together *)

\* Whichever stage a behaviour moves, each sees only its own steps.
LEMMA StagesMoveAlone == PurchaseSpec => ShopSpec /\ SagaSpec /\ BagSpec /\ ZoneSpec
<1>1. PurchaseInit => ShopInit /\ SagaInit /\ BagInit /\ ZoneInit
  BY DEF PurchaseInit
<1>2. [PurchaseNext]_purchaseVars => [ShopNext]_shopVars
  BY DEF PurchaseNext, purchaseVars
<1>3. [PurchaseNext]_purchaseVars => [SagaNext]_sagaVars
  BY DEF PurchaseNext, purchaseVars
<1>4. [PurchaseNext]_purchaseVars => [BagNext]_bagVars
  BY DEF PurchaseNext, purchaseVars
<1>5. [PurchaseNext]_purchaseVars => [ZoneNext]_zoneVars
  BY DEF PurchaseNext, purchaseVars
<1>6. QED
  BY <1>1, <1>2, <1>3, <1>4, <1>5, PTL DEF PurchaseSpec, ShopSpec, SagaSpec, BagSpec, ZoneSpec

\* From the bag to the sale every variable keeps its type: orders go with payments,
\* only answered pages are opened, the bag's questions are of this visit, and what
\* is offered are zones with their fees.
THEOREM PurchaseTypeCorrect == PurchaseSpec => []PurchaseTypeOK
<1>1. SagaTypeOK /\ ShopTypeOK /\ BagTypeOK /\ ZoneTypeOK => PurchaseTypeOK
  BY DEF PurchaseTypeOK
<1>2. QED
  BY <1>1, StagesMoveAlone, SagaTypeCorrect, ShopTypeCorrect, BagTypeCorrect, ZoneTypeCorrect, PTL

\* What the bag, the zones, the checkout and the saga promise holds of the purchase
\* they make up.
THEOREM PurchaseKeepsItsPromises ==
  PurchaseSpec => [](/\ SummaryShowsItsLines /\ ZoneAsShown /\ ChargedAsOrdered /\ MailedOnce
                     /\ OneSalePerOrder /\ ReleasedReceiptHoldsNothing)
BY StagesMoveAlone, BagIsAnswered, ZoneStaysAsShown, ShopperPaysTheOrder, MailsGoOnce,
   DeliveredOnce, ReleasedMeansReleased, PTL
=============================================================================
