---------------------------- MODULE ConsoleAccess ----------------------------
(***************************************************************************)
(* The two back-office consoles (config/consoles.py): the sign-in form with  *)
(* its lockout (apps/accounts/login_throttle.py), the second factor, and the *)
(* gate that every request of a signed-in browser passes, while accounts are *)
(* suspended, re-roled and enrolled (apps/accounts/admin.py; how those       *)
(* writes meet other writes of the row is in AccountData).                   *)
(*                                                                         *)
(* Every browser of the instance is behind one address. A bucket is a cache  *)
(* key with a time to live: 0 failures means that the key is absent.         *)
(***************************************************************************)
EXTENDS Integers, FiniteSets

CONSTANTS
  Accounts, Browsers,
  Supers,       \* the superusers
  Office,       \* the address of every browser
  NoAccount,    \* who an anonymous browser is
  MaxPerUser, MaxPerAddress, Window,
  RequireOtp,   \* CONSOLE_REQUIRE_OTP
  MaxChanges,   \* bound: changes made to accounts
  Watched       \* bound: the accounts whose attempts are remembered

ASSUME ConsoleAssumption ==
  /\ Supers \subseteq Accounts /\ Watched \subseteq Accounts /\ NoAccount \notin Accounts /\ Office \notin Accounts
  /\ MaxPerUser \in Nat \ {0} /\ MaxPerAddress \in Nat \ {0} /\ Window \in Nat \ {0}
  /\ IsFiniteSet(Browsers) /\ RequireOtp \in BOOLEAN /\ MaxChanges \in Nat

VARIABLES
  role, staff, active,  \* the fields of Customer that the gate reads
  device,      \* device[a]: a has a confirmed TOTP device
  failures,    \* failures[k]: the counter of a bucket
  ttl,         \* ttl[k]: what is left of its window
  form,        \* form[b]: the sign-in form b has submitted
  session,     \* session[b]: who is signed in, and whether with a token
  changes,
  \* history
  guesses,     \* guesses[a]: credentials found wrong since a's bucket opened
  lockedFor,   \* lockedFor[a]: ticks since a was locked out
  presented    \* presented[b]: accounts whose token was entered in b since it was signed out

accountVars == <<role, staff, active, device, changes>>
buckets == <<failures, ttl, guesses, lockedFor>>
consoleVars == <<accountVars, buckets, form, session, presented>>

Consoles == {"merchant", "administrator"}
StaffRole == Consoles \cup {"customer"}
Buckets == Accounts \cup {Office}

NoForm == [at |-> "idle", who |-> NoAccount, console |-> "merchant", bucket |-> Office,
           verified |-> FALSE]
Form == [at : {"idle", "checked", "add", "incr", "set", "passed"}, who : Accounts \cup {NoAccount},
         console : Consoles, bucket : Buckets, verified : BOOLEAN]
Anonymous == [who |-> NoAccount, verified |-> FALSE]

ConsoleTypeOK ==
  /\ role \in [Accounts -> StaffRole]
  /\ staff \in [Accounts -> BOOLEAN] /\ active \in [Accounts -> BOOLEAN]
  /\ device \in [Accounts -> BOOLEAN]
  /\ failures \in [Buckets -> Nat] /\ ttl \in [Buckets -> 0..Window]
  /\ form \in [Browsers -> Form]
  /\ session \in [Browsers -> [who : Accounts \cup {NoAccount}, verified : BOOLEAN]]
  /\ changes \in 0..MaxChanges
  /\ guesses \in [Watched -> Nat] /\ lockedFor \in [Watched -> Nat]
  /\ presented \in [Browsers -> SUBSET Accounts]
  /\ \A k \in Buckets : failures[k] = 0 <=> ttl[k] = 0

\* create_superuser and create_console_account have made the accounts.
ConsoleInit ==
  /\ role = [a \in Accounts |-> IF a \in Supers THEN "administrator" ELSE "merchant"]
  /\ staff = [a \in Accounts |-> TRUE] /\ active = [a \in Accounts |-> TRUE]
  /\ device = [a \in Accounts |-> FALSE]
  /\ failures = [k \in Buckets |-> 0] /\ ttl = [k \in Buckets |-> 0]
  /\ form = [b \in Browsers |-> NoForm]
  /\ session = [b \in Browsers |-> Anonymous]
  /\ changes = 0
  /\ guesses = [a \in Watched |-> 0] /\ lockedFor = [a \in Watched |-> 0]
  /\ presented = [b \in Browsers |-> {}]

-----------------------------------------------------------------------------
(* The checks of the form and of the gate *)

OtpRequiredFor(a) == device[a] \/ RequireOtp

ConfirmLoginAllowed(a, c) == active[a] /\ staff[a] /\ (a \in Supers \/ role[a] = c)

\* admin_view asks this of every request, with the account as it is now.
\* Mutant of HasPermission: the token is the form's business only.
HasPermissionByRole(b, c) ==
  session[b].who # NoAccount /\ ConfirmLoginAllowed(session[b].who, c)
HasPermission(b, c) ==
  /\ session[b].who # NoAccount
  /\ ConfirmLoginAllowed(session[b].who, c)
  /\ OtpRequiredFor(session[b].who) => session[b].verified

LocksUser(a) == failures[a] >= MaxPerUser
IsLockedOut(a) == LocksUser(a) \/ failures[Office] >= MaxPerAddress

-----------------------------------------------------------------------------
(* ConsoleAuthenticationForm.clean *)

\* A browser does one thing at a time.
Free(b) == form[b].at = "idle"

\* The account a request of b is from: a suspended one's session is anonymous.
User(b) == IF session[b].who \in Accounts /\ active[session[b].who] THEN session[b].who ELSE NoAccount

\* A browser that is signed in without access gets the denied page, not a form.
\* A login that is locked out is refused before its credentials are looked at.
Submit(b, a, c) ==
  /\ Free(b)
  /\ User(b) = NoAccount \/ HasPermission(b, c)
  /\ ~IsLockedOut(a)
  /\ form' = [form EXCEPT ![b] = [NoForm EXCEPT !.at = "checked", !.who = a, !.console = c]]
  /\ UNCHANGED <<accountVars, buckets, session, presented>>

\* Mutant of Counts: only wrong passwords are failures.
CountsPasswords(password, token) == ~password
\* A wrong password, a wrong token, the other console: all are failures.
Counts(password, token) == TRUE

\* The credentials: the password first, then a token for those who owe one.
Authenticate(b, password, token) ==
  LET a == form[b].who
      second == OtpRequiredFor(a) => device[a] /\ token
      accepted == password /\ ConfirmLoginAllowed(a, form[b].console) /\ second
  IN /\ form[b].at = "checked"
     /\ form' = [form EXCEPT ![b] =
          CASE accepted -> [NoForm EXCEPT !.at = "passed", !.who = a, !.verified = device[a]]
            [] ~accepted /\ Counts(password, token) -> [NoForm EXCEPT !.at = "add", !.bucket = a]
            [] OTHER -> NoForm]
     /\ guesses' = [x \in Watched |-> guesses[x] + IF x = a /\ ~accepted THEN 1 ELSE 0]
     /\ presented' = [presented EXCEPT ![b] = IF accepted /\ device[a] THEN @ \cup {a} ELSE @]
     /\ UNCHANGED <<accountVars, failures, ttl, lockedFor, session>>

-----------------------------------------------------------------------------
(* record_failure: _increment on the user's bucket and then on the address's *)

\* Mutant of WindowAfter: every failure extends the window.
WindowAfterSliding(k) == Window
\* incr leaves the window as add has set it.
WindowAfter(k) == ttl[k]

\* Mutant of WindowOpened: add is given no timeout.
WindowOpenedWithout(k) == ttl[k]
WindowOpened(k) == Window

Counted(b) ==
  form' = [form EXCEPT ![b] =
    IF form[b].bucket = Office THEN NoForm ELSE [NoForm EXCEPT !.at = "add"]]

Opens(k) ==
  /\ failures' = [failures EXCEPT ![k] = 1] /\ ttl' = [ttl EXCEPT ![k] = WindowOpened(k)]
  /\ guesses' = [a \in Watched |-> IF a = k /\ failures[k] # 0 THEN 0 ELSE guesses[a]]
  /\ lockedFor' = [a \in Watched |-> IF a = k THEN 0 ELSE lockedFor[a]]

\* cache.add
Add(b) ==
  LET k == form[b].bucket
  IN /\ form[b].at = "add"
     /\ IF failures[k] = 0
        THEN Opens(k) /\ Counted(b)
        ELSE form' = [form EXCEPT ![b] = [form[b] EXCEPT !.at = "incr"]] /\ UNCHANGED buckets
     /\ UNCHANGED <<accountVars, session, presented>>

\* cache.incr, which raises when the key has expired since.
Incr(b) ==
  LET k == form[b].bucket
  IN /\ form[b].at = "incr"
     /\ IF failures[k] # 0
        THEN /\ failures' = [failures EXCEPT ![k] = @ + 1]
             /\ ttl' = [ttl EXCEPT ![k] = WindowAfter(k)]
             /\ Counted(b)
             /\ UNCHANGED <<guesses, lockedFor>>
        ELSE form' = [form EXCEPT ![b] = [form[b] EXCEPT !.at = "set"]] /\ UNCHANGED buckets
     /\ UNCHANGED <<accountVars, session, presented>>

\* cache.set: a fresh window, over one that another failure may have opened.
Set(b) ==
  /\ form[b].at = "set"
  /\ Opens(form[b].bucket) /\ Counted(b)
  /\ UNCHANGED <<accountVars, session, presented>>

Forgotten(S) ==
  /\ failures' = [k \in Buckets |-> IF k \in S THEN 0 ELSE failures[k]]
  /\ ttl' = [k \in Buckets |-> IF k \in S THEN 0 ELSE ttl[k]]
  /\ guesses' = [a \in Watched |-> IF a \in S THEN 0 ELSE guesses[a]]

-----------------------------------------------------------------------------
(* Sessions *)

\* login() keeps the session of the same account and flushes another's.
SessionOf(b, a, verified) ==
  [who |-> a, verified |-> verified \/ (session[b].who = a /\ session[b].verified)]

\* clear, and the view's login.
LogIn(b) ==
  /\ form[b].at = "passed"
  /\ Forgotten({form[b].who, Office})
  /\ lockedFor' = [a \in Watched |-> IF a = form[b].who THEN 0 ELSE lockedFor[a]]
  /\ session' = [session EXCEPT ![b] = SessionOf(b, form[b].who, form[b].verified)]
  /\ form' = [form EXCEPT ![b] = NoForm]
  /\ UNCHANGED <<accountVars, presented>>

\* The storefront's login asks no token and counts nothing.
StorefrontLogIn(b, a) ==
  /\ Free(b) /\ User(b) = NoAccount /\ active[a]
  /\ session' = [session EXCEPT ![b] = SessionOf(b, a, FALSE)]
  /\ UNCHANGED <<accountVars, buckets, form, presented>>

LogOut(b) ==
  /\ Free(b) /\ session[b].who # NoAccount
  /\ session' = [session EXCEPT ![b] = Anonymous]
  /\ presented' = [presented EXCEPT ![b] = {}]
  /\ UNCHANGED <<accountVars, buckets, form>>

-----------------------------------------------------------------------------
(* Changes made to accounts, and time *)

Change == changes < MaxChanges /\ changes' = changes + 1
           /\ UNCHANGED <<buckets, form, session, presented>>

SetActive(a) ==
  Change /\ active' = [active EXCEPT ![a] = ~@] /\ UNCHANGED <<role, staff, device>>
\* create_console_account also ends a suspension; the console's form need not.
SetConsole(a, r) ==
  /\ Change /\ a \notin Supers
  /\ role' = [role EXCEPT ![a] = r] /\ staff' = [staff EXCEPT ![a] = r # "customer"]
  /\ \/ UNCHANGED active
     \/ r \in Consoles /\ active' = [active EXCEPT ![a] = TRUE]
  /\ UNCHANGED device
Enrol(a) ==
  Change /\ device' = [device EXCEPT ![a] = TRUE] /\ UNCHANGED <<role, staff, active>>

Tick ==
  /\ \E k \in Buckets : ttl[k] > 0
  /\ LET over == {k \in Buckets : ttl[k] <= 1}
     IN /\ failures' = [k \in Buckets |-> IF k \in over THEN 0 ELSE failures[k]]
        /\ ttl' = [k \in Buckets |-> IF k \in over THEN 0 ELSE ttl[k] - 1]
        /\ guesses' = [a \in Watched |-> IF a \in over THEN 0 ELSE guesses[a]]
        /\ lockedFor' = [a \in Watched |->
             IF LocksUser(a) /\ a \notin over THEN lockedFor[a] + 1 ELSE 0]
  /\ UNCHANGED <<accountVars, form, session, presented>>

ConsoleNext ==
  \/ \E b \in Browsers :
       \/ \E a \in Accounts, c \in Consoles : Submit(b, a, c)
       \/ \E password, token \in BOOLEAN : Authenticate(b, password, token)
       \/ Add(b) \/ Incr(b) \/ Set(b) \/ LogIn(b) \/ LogOut(b)
       \/ \E a \in Accounts : StorefrontLogIn(b, a)
  \/ \E a \in Accounts : SetActive(a) \/ Enrol(a) \/ \E r \in StaffRole : SetConsole(a, r)
  \/ Tick

ConsoleSpec == ConsoleInit /\ [][ConsoleNext]_consoleVars

-----------------------------------------------------------------------------
(* Properties *)

\* Between the opening of an account's bucket and its end, no more credentials
\* are tried at the consoles than the limit allows and the browsers that had
\* already passed the lockout check: no failure is lost between two counters,
\* and a wrong token counts like a wrong password.
GuessesBounded ==
  \A a \in Watched : guesses[a] <= MaxPerUser - 1 + Cardinality(Browsers)

\* A lockout ends a fixed time after the first failure, whatever failures of
\* forms already under way are still counted while it lasts.
LockoutIsFixed == \A a \in Watched : lockedFor[a] < Window

\* A console serves an account with a device only to a browser in which that
\* account's token was entered, also when the session is older than the
\* enrolment, comes from the storefront's login or was another account's.
EnrolledNeedsToken ==
  \A b \in Browsers, c \in Consoles :
    HasPermission(b, c) /\ device[session[b].who] => session[b].who \in presented[b]
=============================================================================
