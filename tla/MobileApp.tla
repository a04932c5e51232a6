------------------------------ MODULE MobileApp ------------------------------
(***************************************************************************)
(* The shopper's app on one phone: the session (api/client.ts,              *)
(* store/AuthContext.tsx), the cart (store/CartContext.tsx) and the pay      *)
(* button (screens/CheckoutScreen.tsx), against the mobile API's token views *)
(* and checkout. Its request()s overlap at every await; tokens expire,       *)
(* connections break on the way there or back, and the app is killed.        *)
(*                                                                         *)
(* A token pair is its number, 0 no token. The server's side of a checkout   *)
(* is Storefront: here it makes an order or refuses.                        *)
(***************************************************************************)
EXTENDS Integers, FiniteSets

CONSTANTS
  Items,          \* what a cart line may name
  MaxItemQty,     \* MAX_LINE_QTY of the app
  MaxTaps, MaxTokens, MaxCalls, MaxBreaks  \* bounds: presses of Pay, pairs,
                  \* other calls, broken connections and kills

ASSUME MobileAssumption ==
  /\ IsFiniteSet(Items) /\ MaxItemQty \in Nat \ {0} /\ MaxTaps \in Nat
  /\ MaxTokens \in Nat \ {0} /\ MaxCalls \in Nat /\ MaxBreaks \in Nat

VARIABLES
  minted, revoked, expired,   \* pairs issued, blacklisted, whose access is out of date
  stored,      \* the pair in the phone's secure store
  customer,    \* whether the app shows somebody signed in
  cart,
  call,        \* call[c]: a request() of the app
  taps,        \* presses of Pay
  orders,      \* orders[t]: how many orders press t has made
  adrift,      \* requests the app gave up while they were on their way
  asked, breaks

tokens == <<minted, revoked, expired>>
screen == <<customer, cart, taps>>
appVars == <<tokens, stored, screen, call, orders, adrift, asked, breaks>>

Calls == {"pay", "profile", "login", "logout"}
Basket == [Items -> 0..MaxItemQty]
EmptyBasket == [x \in Items |-> 0]
Cleared == [access |-> 0, refresh |-> 0]

NoCall == [at |-> "idle", bearer |-> 0, replayed |-> FALSE, body |-> 0, refresh |-> 0]
Abandoned == [what : {"pay", "login", "logout", "refresh"}, bearer : Nat, of : Nat]
CallStates == {"idle", "sent", "renew", "refreshing", "renewed", "saving", "ok", "failed"}

AppTypeOK ==
  /\ minted \in 0..MaxTokens /\ revoked \subseteq 1..minted /\ expired \subseteq 1..minted
  /\ stored \in [access : 0..minted, refresh : 0..minted] /\ customer \in BOOLEAN
  /\ cart \in Basket
  /\ call \in [Calls -> [at : CallStates, bearer : 0..minted, replayed : BOOLEAN,
                         body : 0..minted, refresh : 0..minted]]
  /\ taps \in 0..MaxTaps /\ asked \in 0..MaxCalls /\ breaks \in 0..MaxBreaks
  /\ orders \in [1..MaxTaps -> Nat] /\ adrift \subseteq Abandoned

\* The customer has signed in before.
AppInit ==
  /\ minted = 1 /\ revoked = {} /\ expired = {}
  /\ stored = [access |-> 1, refresh |-> 1] /\ customer = TRUE
  /\ cart = EmptyBasket /\ call = [c \in Calls |-> NoCall]
  /\ taps = 0 /\ orders = [t \in 1..MaxTaps |-> 0] /\ adrift = {} /\ asked = 0 /\ breaks = 0

-----------------------------------------------------------------------------
(* The cart *)

Shopping == UNCHANGED <<tokens, stored, customer, taps, call, orders, adrift, asked, breaks>>

\* Mutant of Capped: the limit itself may be passed.
CappedLate(qty) == IF qty > MaxItemQty + 1 THEN MaxItemQty ELSE qty
Capped(qty) == IF qty > MaxItemQty THEN MaxItemQty ELSE qty
AddLine(x) == cart' = [cart EXCEPT ![x] = Capped(@ + 1)] /\ Shopping
LessOne(x) == cart[x] > 0 /\ cart' = [cart EXCEPT ![x] = @ - 1] /\ Shopping
RemoveLine(x) == cart' = [cart EXCEPT ![x] = 0] /\ Shopping

-----------------------------------------------------------------------------
(* request(), and who calls it *)

Sent(bearer) == [NoCall EXCEPT !.at = "sent", !.bearer = bearer]
Becomes(c, stage) == call' = [call EXCEPT ![c].at = stage]

\* pay()
Pay ==
  /\ call["pay"].at = "idle" /\ cart # EmptyBasket /\ taps < MaxTaps /\ taps' = taps + 1
  /\ call' = [call EXCEPT !["pay"] = Sent(stored.access)]
  /\ UNCHANGED <<tokens, stored, customer, cart, orders, adrift, asked, breaks>>

Asks(c, bearer, body) ==
  /\ call[c].at = "idle" /\ asked < MaxCalls /\ asked' = asked + 1
  /\ call' = [call EXCEPT ![c] = [Sent(bearer) EXCEPT !.body = body]]
  /\ UNCHANGED <<tokens, stored, screen, orders, adrift, breaks>>

\* refreshProfile, signIn or register, and signOut with the refresh token it has read
RefreshProfile == customer /\ Asks("profile", stored.access, 0)
SignIn == ~customer /\ Asks("login", 0, 0)
SignOut == customer /\ stored.refresh # 0 /\ Asks("logout", stored.access, stored.refresh)

\* Without one there is nothing to revoke: signOut goes on at once.
SignOutHere ==
  /\ customer /\ stored.refresh = 0 /\ stored' = Cleared /\ customer' = FALSE
  /\ UNCHANGED <<tokens, cart, taps, call, orders, adrift, asked, breaks>>

\* A stale access token is refused before any view runs; no token at all only
\* where IsAuthenticated is asked for.
Denied(c) ==
  call[c].bearer \in expired \/ (c \in {"profile", "logout"} /\ call[c].bearer = 0)

\* The first 401 asks for new tokens; a second one is the answer.
Unauthorized(c) ==
  /\ call[c].at = "sent" /\ Denied(c)
  /\ Becomes(c, IF call[c].replayed THEN "failed" ELSE "renew")
  /\ UNCHANGED <<tokens, stored, screen, orders, adrift, asked, breaks>>

\* CheckoutView: an order, a refusal, or a refusal that leaves a cancelled order
ServePay ==
  /\ call["pay"].at = "sent" /\ ~Denied("pay")
  /\ \/ orders' = [orders EXCEPT ![taps] = @ + 1] /\ Becomes("pay", "ok")
     \/ orders' = [orders EXCEPT ![taps] = @ + 1] /\ Becomes("pay", "failed")
     \/ orders' = orders /\ Becomes("pay", "failed")
  /\ UNCHANGED <<tokens, stored, screen, adrift, asked, breaks>>

ServeProfile ==
  /\ call["profile"].at = "sent" /\ ~Denied("profile") /\ Becomes("profile", "ok")
  /\ UNCHANGED <<tokens, stored, screen, orders, adrift, asked, breaks>>

Mint == minted < MaxTokens /\ minted' = minted + 1

\* LoginView and RegisterView: a pair of their own, or a refusal
ServeLogin ==
  /\ call["login"].at = "sent"
  /\ \/ Mint /\ call' = [call EXCEPT !["login"].at = "renewed", !["login"].refresh = minted']
     \/ minted' = minted /\ Becomes("login", "failed")
  /\ UNCHANGED <<revoked, expired, stored, screen, orders, adrift, asked, breaks>>

\* LogoutView blacklists the token in the body.
ServeLogout ==
  /\ call["logout"].at = "sent" /\ ~Denied("logout") /\ Becomes("logout", "ok")
  /\ revoked' = revoked \cup {call["logout"].body}
  /\ UNCHANGED <<minted, expired, stored, screen, orders, adrift, asked, breaks>>

\* refreshAccessToken: with no refresh token the 401 stands.
Renew(c) ==
  /\ call[c].at = "renew"
  /\ call' = [call EXCEPT ![c].at = IF stored.refresh = 0 THEN "failed" ELSE "refreshing",
                          ![c].refresh = stored.refresh]
  /\ UNCHANGED <<tokens, stored, screen, orders, adrift, asked, breaks>>

\* RefreshView rotates the pair and blacklists the old token.
Rotate(c) ==
  /\ call[c].at = "refreshing" /\ call[c].refresh \notin revoked /\ Mint
  /\ revoked' = revoked \cup {call[c].refresh}
  /\ call' = [call EXCEPT ![c].at = "renewed", ![c].refresh = minted']
  /\ UNCHANGED <<expired, stored, screen, orders, adrift, asked, breaks>>

\* A refused refresh clears the store (clearTokens, its two deletes as one).
RefreshRefused(c) ==
  /\ call[c].at = "refreshing" /\ call[c].refresh \in revoked
  /\ stored' = Cleared /\ Becomes(c, "failed")
  /\ UNCHANGED <<tokens, screen, orders, adrift, asked, breaks>>

\* saveTokens: two writes
SaveAccess(c) ==
  /\ call[c].at = "renewed" /\ stored' = [stored EXCEPT !.access = call[c].refresh]
  /\ Becomes(c, "saving")
  /\ UNCHANGED <<tokens, screen, orders, adrift, asked, breaks>>

\* Then request() sends its request once more, and signIn shows the customer.
Replay(c) == [Sent(call[c].refresh) EXCEPT !.body = call[c].body, !.replayed = TRUE]
SaveRefresh(c) ==
  /\ call[c].at = "saving" /\ stored' = [stored EXCEPT !.refresh = call[c].refresh]
  /\ call' = [call EXCEPT ![c] = IF c = "login" THEN NoCall ELSE Replay(c)]
  /\ customer' = (customer \/ c = "login")
  /\ UNCHANGED <<tokens, cart, taps, orders, adrift, asked, breaks>>

\* Mutant of AfterNetworkError: request() sends again whatever went wrong.
AfterNetworkErrorRetried(c) ==
  IF call[c].replayed THEN [call[c] EXCEPT !.at = "failed"]
  ELSE [Sent(call[c].bearer) EXCEPT !.body = call[c].body, !.replayed = TRUE]

\* What is still on its way to the server when the app gives up waiting
OnItsWay(c) ==
  CASE call[c].at = "sent" /\ c # "profile" ->
         {[what |-> c, bearer |-> call[c].bearer, of |-> IF c = "pay" THEN taps ELSE call[c].body]}
    [] call[c].at = "refreshing" -> {[what |-> "refresh", bearer |-> 0, of |-> call[c].refresh]}
    [] OTHER -> {}

\* fetch rejects, before or after the server acted: the call has failed.
AfterNetworkError(c) == [call[c] EXCEPT !.at = "failed"]
NetworkFails(c) ==
  /\ call[c].at \in {"sent", "refreshing", "renewed", "ok"} /\ breaks < MaxBreaks
  /\ breaks' = breaks + 1 /\ call' = [call EXCEPT ![c] = AfterNetworkError(c)]
  /\ adrift' = adrift \cup OnItsWay(c)
  /\ UNCHANGED <<tokens, stored, screen, orders, asked>>

\* The server acts on a request nobody waits for, or never sees it.
ServeLate(r) ==
  /\ adrift' = adrift \ {r} /\ r.bearer \notin expired
  /\ CASE r.what = "pay" ->
            orders' = [orders EXCEPT ![r.of] = @ + 1] /\ UNCHANGED <<minted, revoked>>
       [] r.what = "login" -> Mint /\ UNCHANGED <<orders, revoked>>
       [] r.what = "logout" ->
            r.bearer # 0 /\ revoked' = revoked \cup {r.of} /\ UNCHANGED <<orders, minted>>
       [] r.what = "refresh" ->
            r.of \notin revoked /\ Mint /\ revoked' = revoked \cup {r.of} /\ UNCHANGED orders
  /\ UNCHANGED <<expired, stored, screen, call, asked, breaks>>

Settles(c) ==
  call' = [call EXCEPT ![c] = NoCall] /\ UNCHANGED <<tokens, taps, orders, adrift, asked, breaks>>

\* pay() empties the cart when an order was made, and shows an error otherwise.
PayAnswered ==
  /\ call["pay"].at \in {"ok", "failed"} /\ Settles("pay")
  /\ cart' = IF call["pay"].at = "ok" THEN EmptyBasket ELSE cart
  /\ UNCHANGED <<stored, customer>>

\* restoreProfile signs the customer out on any failure.
ProfileAnswered ==
  /\ call["profile"].at \in {"ok", "failed"} /\ Settles("profile")
  /\ customer' = (call["profile"].at = "ok")
  /\ stored' = IF call["profile"].at = "ok" THEN stored ELSE Cleared
  /\ UNCHANGED cart

LoginFailed ==
  call["login"].at = "failed" /\ Settles("login") /\ UNCHANGED <<stored, customer, cart>>

\* signOut clears the store whatever the server said.
LoggedOut ==
  /\ call["logout"].at \in {"ok", "failed"} /\ Settles("logout")
  /\ stored' = Cleared /\ customer' = FALSE /\ UNCHANGED cart

\* The app is killed and started again: a stored session is restored (with the
\* biometric gate on, only after the customer has passed it).
AppRestarts ==
  /\ breaks < MaxBreaks /\ breaks' = breaks + 1 /\ customer' = FALSE
  /\ \E restore \in BOOLEAN :
       call' = [c \in Calls |-> IF restore /\ c = "profile" /\ stored.refresh # 0
                                THEN Sent(stored.access) ELSE NoCall]
  /\ adrift' = adrift \cup UNION {OnItsWay(c) : c \in Calls}
  /\ UNCHANGED <<tokens, stored, cart, taps, orders, asked>>

\* ACCESS_TOKEN_LIFETIME passes.
AccessExpires(n) ==
  /\ n \in (1..minted) \ expired /\ expired' = expired \cup {n}
  /\ UNCHANGED <<minted, revoked, stored, screen, call, orders, adrift, asked, breaks>>

-----------------------------------------------------------------------------
AppNext ==
  \/ \E x \in Items : AddLine(x) \/ LessOne(x) \/ RemoveLine(x)
  \/ Pay \/ RefreshProfile \/ SignIn \/ SignOut \/ SignOutHere
  \/ ServePay \/ ServeProfile \/ ServeLogin \/ ServeLogout
  \/ \E c \in Calls :
       \/ Unauthorized(c) \/ Renew(c) \/ Rotate(c) \/ RefreshRefused(c)
       \/ SaveAccess(c) \/ SaveRefresh(c) \/ NetworkFails(c)
  \/ PayAnswered \/ ProfileAnswered \/ LoginFailed \/ LoggedOut
  \/ AppRestarts \/ \E r \in adrift : ServeLate(r)
  \/ \E n \in 1..MaxTokens : AccessExpires(n)

AppSpec == AppInit /\ [][AppNext]_appVars

-----------------------------------------------------------------------------
(* Properties *)

\* One press of Pay makes at most one order, although request() sends the same
\* checkout again with new tokens, other calls renew or clear those tokens
\* meanwhile, answers are lost, and a request the app gave up is served late; and
\* the cart is emptied only for an order.
OneOrderPerTap ==
  /\ \A t \in 1..MaxTaps : orders[t] <= 1
  /\ call["pay"].at = "ok" => orders[taps] = 1
=============================================================================
