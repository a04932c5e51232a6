-------------------------- MODULE ConsoleAccessProofs --------------------------
(***************************************************************************)
(* The consoles' lockout and second factor, for any number of accounts and  *)
(* browsers, any limits and any window.                                     *)
(***************************************************************************)
EXTENDS ConsoleAccess, FiniteSetTheorems, TLAPS

\* A form that is under way names an account, and what it has still to count is
\* that account's bucket or the address's.
FormsAreFilled ==
  \A b \in Browsers :
    form[b].at \in {"checked", "passed"} => form[b].who \in Accounts

\* The forms that clean starts from or ends in, and those that count a failure
LEMMA PlainForms ==
  /\ NoForm \in [at : {"idle"}, who : {NoAccount}, console : {"merchant"}, bucket : {Office},
                 verified : {FALSE}]
  /\ [NoForm EXCEPT !.at = "add"]
       \in [at : {"add"}, who : {NoAccount}, console : {"merchant"}, bucket : {Office},
            verified : {FALSE}]
BY DEF NoForm

\* The form of a login that passed the lockout check
LEMMA CheckedForm ==
  ASSUME NEW a, NEW c
  PROVE  [NoForm EXCEPT !.at = "checked", !.who = a, !.console = c]
           \in [at : {"checked"}, who : {a}, console : {c}, bucket : {Office}, verified : {FALSE}]
BY DEF NoForm

\* The form whose credentials were accepted
LEMMA PassedForm ==
  ASSUME NEW a, NEW v
  PROVE  [NoForm EXCEPT !.at = "passed", !.who = a, !.verified = v]
           \in [at : {"passed"}, who : {a}, console : {"merchant"}, bucket : {Office}, verified : {v}]
BY DEF NoForm

\* The form that has a failure to count on its account's bucket
LEMMA FailedForm ==
  ASSUME NEW a
  PROVE  [NoForm EXCEPT !.at = "add", !.bucket = a]
           \in [at : {"add"}, who : {NoAccount}, console : {"merchant"}, bucket : {a},
                verified : {FALSE}]
BY DEF NoForm

\* What Authenticate decides, and the form it leaves in each case
Accepted(b, password, token) ==
  /\ password /\ ConfirmLoginAllowed(form[b].who, form[b].console)
  /\ OtpRequiredFor(form[b].who) => device[form[b].who] /\ token

\* Either the credentials are accepted and the form has passed, or a failure is
\* left to count.
LEMMA AuthenticatedForm ==
  ASSUME NEW b \in Browsers, NEW password \in BOOLEAN, NEW token \in BOOLEAN,
         Authenticate(b, password, token)
  PROVE  LET a == form[b].who IN
         \/ /\ Accepted(b, password, token)
            /\ \E r \in [at : {"passed"}, who : {a}, console : {"merchant"}, bucket : {Office},
                         verified : {device[a]}] : form' = [form EXCEPT ![b] = r]
         \/ /\ ~Accepted(b, password, token)
            /\ \E r \in [at : {"add"}, who : {NoAccount}, console : {"merchant"}, bucket : {a},
                         verified : {FALSE}] : form' = [form EXCEPT ![b] = r]
<1>1. CASE Accepted(b, password, token)
  <2>1. form' = [form EXCEPT ![b] =
                   [NoForm EXCEPT !.at = "passed", !.who = form[b].who,
                                  !.verified = device[form[b].who]]]
    BY <1>1 DEF Authenticate, Accepted
  <2>2. QED
    BY <1>1, <2>1, PassedForm
<1>2. CASE ~Accepted(b, password, token)
  <2>1. form' = [form EXCEPT ![b] = [NoForm EXCEPT !.at = "add", !.bucket = form[b].who]]
    BY <1>2 DEF Authenticate, Accepted, Counts
  <2>2. QED
    BY <1>2, <2>1, FailedForm
<1>3. QED
  BY <1>1, <1>2

\* The types hold initially.
LEMMA ConsoleTypesAtStart == ConsoleInit => ConsoleTypeOK /\ FormsAreFilled
BY ConsoleAssumption
   DEF ConsoleInit, ConsoleTypeOK, FormsAreFilled, NoForm, Form, Anonymous, StaffRole, Consoles, Buckets

\* A bucket that is opened has a failure and a whole window.
LEMMA OpensTypes ==
  ASSUME ConsoleTypeOK, NEW k \in Buckets, Opens(k)
  PROVE  /\ failures' \in [Buckets -> Nat] /\ ttl' \in [Buckets -> 0..Window]
         /\ guesses' \in [Watched -> Nat] /\ lockedFor' \in [Watched -> Nat]
         /\ \A j \in Buckets : failures'[j] = 0 <=> ttl'[j] = 0
BY ConsoleAssumption DEF ConsoleTypeOK, Opens, WindowOpened

\* Counting a failure leads to the address's bucket, and from there to nothing.
LEMMA CountedTypes ==
  ASSUME ConsoleTypeOK, FormsAreFilled, NEW b \in Browsers, Counted(b)
  PROVE  form' \in [Browsers -> Form] /\ FormsAreFilled'
<1> DEFINE r == IF form[b].bucket = Office THEN NoForm ELSE [NoForm EXCEPT !.at = "add"]
<1>1. r \in Form /\ r.at \in {"idle", "add"}
  BY PlainForms DEF Form, Consoles, Buckets
<1>2. form' = [form EXCEPT ![b] = r]
  BY DEF Counted
<1> HIDE DEF r
<1>3. QED
  BY <1>1, <1>2 DEF ConsoleTypeOK, FormsAreFilled

\* A step of a browser, of an administrator or of time keeps the types.
LEMMA ConsoleTypesInductive ==
  ASSUME ConsoleTypeOK, FormsAreFilled, [ConsoleNext]_consoleVars
  PROVE  ConsoleTypeOK' /\ FormsAreFilled'
<1> USE DEF ConsoleTypeOK, FormsAreFilled, accountVars, buckets
<1>1. ASSUME NEW b \in Browsers, NEW a \in Accounts, NEW c \in Consoles, Submit(b, a, c)
      PROVE  ConsoleTypeOK' /\ FormsAreFilled'
  <2>1. PICK r \in [at : {"checked"}, who : {a}, console : {c}, bucket : {Office}, verified : {FALSE}] :
          form' = [form EXCEPT ![b] = r]
    BY <1>1, CheckedForm DEF Submit
  <2>2. r \in Form
    BY <2>1 DEF Form, Buckets
  <2>3. form' \in [Browsers -> Form] /\ FormsAreFilled'
    BY <2>1, <2>2
  <2>4. QED
    BY <1>1, <2>3 DEF Submit
<1>2. ASSUME NEW b \in Browsers, NEW password \in BOOLEAN, NEW token \in BOOLEAN,
             Authenticate(b, password, token)
      PROVE  ConsoleTypeOK' /\ FormsAreFilled'
  <2> DEFINE a == form[b].who
  <2>1. a \in Accounts /\ device[a] \in BOOLEAN
    BY <1>2 DEF Authenticate
  <2>2. PICK r : /\ form' = [form EXCEPT ![b] = r]
                 /\ \/ r \in [at : {"passed"}, who : {a}, console : {"merchant"}, bucket : {Office},
                              verified : {device[a]}]
                    \/ r \in [at : {"add"}, who : {NoAccount}, console : {"merchant"}, bucket : {a},
                              verified : {FALSE}]
    BY <1>2, AuthenticatedForm
  <2> HIDE DEF a
  <2>3. r \in Form /\ (r.at \in {"checked", "passed"} => r.who \in Accounts)
    BY <2>1, <2>2 DEF Form, Buckets, Consoles
  <2>4. form' \in [Browsers -> Form] /\ FormsAreFilled'
    BY <2>2, <2>3
  <2>5. guesses' \in [Watched -> Nat] /\ presented' \in [Browsers -> SUBSET Accounts]
    BY <1>2, <2>1 DEF Authenticate
  <2>6. QED
    BY <1>2, <2>4, <2>5 DEF Authenticate
<1>3. ASSUME NEW b \in Browsers, Add(b) PROVE ConsoleTypeOK' /\ FormsAreFilled'
  <2>1. form[b].bucket \in Buckets
    BY DEF Form
  <2>2. CASE failures[form[b].bucket] = 0
    BY <1>3, <2>1, <2>2, OpensTypes, CountedTypes DEF Add
  <2>3. CASE failures[form[b].bucket] # 0
    <3>1. form' = [form EXCEPT ![b] = [form[b] EXCEPT !.at = "incr"]] /\ UNCHANGED buckets
      BY <1>3, <2>3 DEF Add
    <3>2. [form[b] EXCEPT !.at = "incr"] \in Form /\ [form[b] EXCEPT !.at = "incr"].at = "incr"
      BY DEF Form
    <3>3. form' \in [Browsers -> Form] /\ FormsAreFilled'
      BY <3>1, <3>2
    <3>4. QED
      BY <1>3, <3>1, <3>3 DEF Add
  <2>4. QED
    BY <2>2, <2>3
<1>4. ASSUME NEW b \in Browsers, Incr(b) PROVE ConsoleTypeOK' /\ FormsAreFilled'
  <2> DEFINE k == form[b].bucket
  <2>1. k \in Buckets
    BY DEF Form
  <2>2. CASE failures[k] # 0
    <3>1. failures' = [failures EXCEPT ![k] = failures[k] + 1] /\ ttl' = ttl
          /\ Counted(b) /\ UNCHANGED <<guesses, lockedFor>>
      BY <1>4, <2>1, <2>2 DEF Incr, WindowAfter
    <3>2. failures' \in [Buckets -> Nat] /\ \A j \in Buckets : failures'[j] = 0 <=> ttl'[j] = 0
      BY <2>1, <2>2, <3>1
    <3>3. QED
      BY <1>4, <3>1, <3>2, CountedTypes DEF Incr
  <2>3. CASE failures[k] = 0
    <3>1. form' = [form EXCEPT ![b] = [form[b] EXCEPT !.at = "set"]] /\ UNCHANGED buckets
      BY <1>4, <2>3 DEF Incr
    <3>2. [form[b] EXCEPT !.at = "set"] \in Form /\ [form[b] EXCEPT !.at = "set"].at = "set"
      BY DEF Form
    <3>3. form' \in [Browsers -> Form] /\ FormsAreFilled'
      BY <3>1, <3>2
    <3>4. QED
      BY <1>4, <3>1, <3>3 DEF Incr
  <2>4. QED
    BY <2>2, <2>3
<1>5. ASSUME NEW b \in Browsers, Set(b) PROVE ConsoleTypeOK' /\ FormsAreFilled'
  <2>1. form[b].bucket \in Buckets
    BY DEF Form
  <2>2. QED
    BY <1>5, <2>1, OpensTypes, CountedTypes DEF Set
<1>6. ASSUME NEW b \in Browsers, LogIn(b) PROVE ConsoleTypeOK' /\ FormsAreFilled'
  <2>1. form[b].who \in Accounts /\ form[b].verified \in BOOLEAN
    BY <1>6 DEF LogIn, Form
  <2>2. form' \in [Browsers -> Form] /\ FormsAreFilled'
    BY <1>6, PlainForms DEF LogIn, Form, Consoles, Buckets
  <2>3. session' \in [Browsers -> [who : Accounts \cup {NoAccount}, verified : BOOLEAN]]
    BY <1>6, <2>1 DEF LogIn, SessionOf
  <2>4. /\ failures' \in [Buckets -> Nat] /\ ttl' \in [Buckets -> 0..Window]
        /\ \A j \in Buckets : failures'[j] = 0 <=> ttl'[j] = 0
    BY <1>6, ConsoleAssumption DEF LogIn, Forgotten
  <2>5. guesses' \in [Watched -> Nat] /\ lockedFor' \in [Watched -> Nat]
    BY <1>6 DEF LogIn, Forgotten
  <2>6. QED
    BY <1>6, <2>2, <2>3, <2>4, <2>5 DEF LogIn
<1>7. ASSUME NEW b \in Browsers, LogOut(b) PROVE ConsoleTypeOK' /\ FormsAreFilled'
  BY <1>7 DEF LogOut, Anonymous
<1>8. ASSUME NEW b \in Browsers, NEW a \in Accounts, StorefrontLogIn(b, a)
      PROVE  ConsoleTypeOK' /\ FormsAreFilled'
  BY <1>8 DEF StorefrontLogIn, SessionOf
<1>9. ASSUME NEW a \in Accounts, SetActive(a) \/ Enrol(a) \/ \E r \in StaffRole : SetConsole(a, r)
      PROVE  ConsoleTypeOK' /\ FormsAreFilled'
  <2>1. changes' \in 0..MaxChanges
    BY <1>9, ConsoleAssumption DEF SetActive, Enrol, SetConsole, Change
  <2>2. CASE SetActive(a)
    BY <2>1, <2>2 DEF SetActive, Change
  <2>3. CASE Enrol(a)
    BY <2>1, <2>3 DEF Enrol, Change
  <2>4. ASSUME NEW r \in StaffRole, SetConsole(a, r) PROVE ConsoleTypeOK' /\ FormsAreFilled'
    BY <2>1, <2>4 DEF SetConsole, Change
  <2>5. QED
    BY <1>9, <2>2, <2>3, <2>4
<1>10. CASE Tick
  <2>1. /\ failures' \in [Buckets -> Nat] /\ ttl' \in [Buckets -> 0..Window]
        /\ \A j \in Buckets : failures'[j] = 0 <=> ttl'[j] = 0
    BY <1>10, ConsoleAssumption DEF Tick
  <2>2. guesses' \in [Watched -> Nat] /\ lockedFor' \in [Watched -> Nat]
    BY <1>10 DEF Tick
  <2>3. QED
    BY <1>10, <2>1, <2>2 DEF Tick
<1>11. CASE UNCHANGED consoleVars
  BY <1>11 DEF consoleVars
<1>12. QED
  BY <1>1, <1>2, <1>3, <1>4, <1>5, <1>6, <1>7, <1>8, <1>9, <1>10, <1>11 DEF ConsoleNext

\* Every variable keeps its type, and a bucket has a failure exactly while it
\* has time left: a counter that has expired is really gone.
THEOREM ConsoleTypeCorrect == ConsoleSpec => []ConsoleTypeOK
<1>1. ConsoleTypeOK /\ FormsAreFilled /\ [ConsoleNext]_consoleVars
        => (ConsoleTypeOK /\ FormsAreFilled)'
  BY ConsoleTypesInductive
<1>2. QED
  BY ConsoleTypesAtStart, <1>1, PTL DEF ConsoleSpec

-----------------------------------------------------------------------------
(* The second factor *)

\* A session or a passed form that counts as verified had the account's token
\* entered in its browser.
TokensWereEntered ==
  \A b \in Browsers :
    /\ session[b].verified => session[b].who \in presented[b]
    /\ form[b].at = "passed" /\ form[b].verified => form[b].who \in presented[b]

\* No step verifies a session whose account has not entered its token there.
LEMMA TokensInductive ==
  ASSUME ConsoleTypeOK, FormsAreFilled, TokensWereEntered, [ConsoleNext]_consoleVars
  PROVE  TokensWereEntered'
<1> USE DEF ConsoleTypeOK, FormsAreFilled, TokensWereEntered, accountVars, buckets
<1>1. ASSUME NEW b \in Browsers, NEW a \in Accounts, NEW c \in Consoles, Submit(b, a, c)
      PROVE  TokensWereEntered'
  <2>1. PICK r \in [at : {"checked"}, who : {a}, console : {c}, bucket : {Office}, verified : {FALSE}] :
          form' = [form EXCEPT ![b] = r]
    BY <1>1, CheckedForm DEF Submit
  <2>2. QED
    BY <1>1, <2>1 DEF Submit
<1>2. ASSUME NEW b \in Browsers, NEW password \in BOOLEAN, NEW token \in BOOLEAN,
             Authenticate(b, password, token)
      PROVE  TokensWereEntered'
  <2> DEFINE a == form[b].who
  <2>1. a \in Accounts /\ device[a] \in BOOLEAN
    BY <1>2 DEF Authenticate
  <2>2. presented' = [presented EXCEPT ![b] =
          IF Accepted(b, password, token) /\ device[a] THEN presented[b] \cup {a} ELSE presented[b]]
    BY <1>2 DEF Authenticate, Accepted
  <2>3. PICK r : /\ form' = [form EXCEPT ![b] = r]
                 /\ \/ /\ Accepted(b, password, token)
                       /\ r \in [at : {"passed"}, who : {a}, console : {"merchant"},
                                 bucket : {Office}, verified : {device[a]}]
                    \/ r \in [at : {"add"}, who : {NoAccount}, console : {"merchant"}, bucket : {a},
                              verified : {FALSE}]
    BY <1>2, AuthenticatedForm
  <2> HIDE DEF a
  <2>4. r.at = "passed" => Accepted(b, password, token) /\ r.who = a /\ r.verified = device[a]
    BY <2>3
  <2>5. QED
    BY <1>2, <2>1, <2>2, <2>3, <2>4 DEF Authenticate
<1>3. ASSUME NEW b \in Browsers, Counted(b), UNCHANGED <<session, presented>>
      PROVE  TokensWereEntered'
  <2> DEFINE r == IF form[b].bucket = Office THEN NoForm ELSE [NoForm EXCEPT !.at = "add"]
  <2>1. r.at \in {"idle", "add"}
    BY PlainForms
  <2>2. form' = [form EXCEPT ![b] = r]
    BY <1>3 DEF Counted
  <2> HIDE DEF r
  <2>3. QED
    BY <1>3, <2>1, <2>2
<1>4. ASSUME NEW b \in Browsers, Add(b) PROVE TokensWereEntered'
  BY <1>3, <1>4 DEF Add, Form
<1>5. ASSUME NEW b \in Browsers, Incr(b) PROVE TokensWereEntered'
  BY <1>3, <1>5 DEF Incr, Form
<1>6. ASSUME NEW b \in Browsers, Set(b) PROVE TokensWereEntered'
  BY <1>3, <1>6 DEF Set
<1>7. ASSUME NEW b \in Browsers, LogIn(b) PROVE TokensWereEntered'
  BY <1>7 DEF LogIn, SessionOf, NoForm, Form
<1>8. ASSUME NEW b \in Browsers, LogOut(b) PROVE TokensWereEntered'
  BY <1>8 DEF LogOut, Anonymous, Free
<1>9. ASSUME NEW b \in Browsers, NEW a \in Accounts, StorefrontLogIn(b, a) PROVE TokensWereEntered'
  BY <1>9, ConsoleAssumption DEF StorefrontLogIn, SessionOf
<1>10. CASE UNCHANGED <<form, session, presented>>
  BY <1>10
<1>11. QED
  BY <1>1, <1>2, <1>4, <1>5, <1>6, <1>7, <1>8, <1>9, <1>10
     DEF ConsoleNext, SetActive, Enrol, SetConsole, Change, Tick, consoleVars

\* No console serves an enrolled account in a browser where its token was never
\* entered, for any interleaving of sign-ins, enrolments and storefront logins.
THEOREM SecondFactorHolds == ConsoleSpec => []EnrolledNeedsToken
<1>1. ConsoleInit => TokensWereEntered
  BY DEF ConsoleInit, TokensWereEntered, Anonymous, NoForm
<1>2. ConsoleTypeOK /\ FormsAreFilled /\ TokensWereEntered /\ [ConsoleNext]_consoleVars
        => (ConsoleTypeOK /\ FormsAreFilled /\ TokensWereEntered)'
  BY ConsoleTypesInductive, TokensInductive
<1>3. TokensWereEntered => EnrolledNeedsToken
  BY DEF TokensWereEntered, EnrolledNeedsToken, HasPermission, OtpRequiredFor
<1>4. QED
  BY ConsoleTypesAtStart, <1>1, <1>2, <1>3, PTL DEF ConsoleSpec

-----------------------------------------------------------------------------
(* The lockout *)

\* A bucket that is gone locks nobody out, and what has passed of a lockout and
\* what is left of its window never exceed a window.
LockoutInv ==
  \A a \in Watched : /\ ttl[a] = 0 => lockedFor[a] = 0
                     /\ lockedFor[a] + ttl[a] <= Window

\* A lockout never outlives the window its first failure opened.
LEMMA LockoutInductive ==
  ASSUME ConsoleTypeOK, FormsAreFilled, LockoutInv, [ConsoleNext]_consoleVars
  PROVE  LockoutInv'
<1> USE DEF ConsoleTypeOK, LockoutInv, accountVars, buckets
<1>1. Watched \subseteq Buckets /\ Office \notin Watched /\ Window \in Nat /\ Window # 0
  BY ConsoleAssumption DEF Buckets
<1>2. ASSUME NEW k \in Buckets, Opens(k) PROVE LockoutInv'
  BY <1>1, <1>2 DEF Opens, WindowOpened
<1>3. ASSUME NEW b \in Browsers, Add(b) \/ Incr(b) \/ Set(b) PROVE LockoutInv'
  <2>1. form[b].bucket \in Buckets
    BY DEF Form
  <2>2. CASE UNCHANGED <<ttl, lockedFor>>
    BY <2>2
  <2>3. CASE Opens(form[b].bucket)
    BY <1>2, <2>1, <2>3
  <2>4. CASE ttl' = [ttl EXCEPT ![form[b].bucket] = ttl[form[b].bucket]] /\ lockedFor' = lockedFor
    BY <2>1, <2>2, <2>4
  <2>5. QED
    BY <1>3, <2>2, <2>3, <2>4 DEF Add, Incr, Set, WindowAfter
<1>4. ASSUME NEW b \in Browsers, LogIn(b) PROVE LockoutInv'
  BY <1>1, <1>4 DEF LogIn, Forgotten
<1>5. CASE Tick
  <2>1. ASSUME NEW a \in Watched
        PROVE  (ttl'[a] = 0 => lockedFor'[a] = 0) /\ lockedFor'[a] + ttl'[a] <= Window
    <3>1. CASE ttl[a] <= 1
      BY <1>1, <1>5, <3>1 DEF Tick
    <3>2. CASE ttl[a] > 1
      BY <1>1, <1>5, <3>2 DEF Tick
    <3>3. QED
      BY <1>1, <3>1, <3>2
  <2>2. QED
    BY <2>1
<1>6. CASE UNCHANGED <<ttl, lockedFor>>
  BY <1>6
<1>7. QED
  BY <1>3, <1>4, <1>5, <1>6
     DEF ConsoleNext, Submit, Authenticate, LogOut, StorefrontLogIn, SetActive, Enrol,
         SetConsole, Change, consoleVars

\* No lockout lasts longer than the window that its first failure opened.
THEOREM LockoutEnds == ConsoleSpec => []LockoutIsFixed
<1>1. ConsoleInit => LockoutInv
  BY ConsoleAssumption DEF ConsoleInit, LockoutInv, Buckets
<1>2. ConsoleTypeOK /\ FormsAreFilled /\ LockoutInv /\ [ConsoleNext]_consoleVars
        => (ConsoleTypeOK /\ FormsAreFilled /\ LockoutInv)'
  BY ConsoleTypesInductive, LockoutInductive
<1>3. ConsoleTypeOK /\ LockoutInv => LockoutIsFixed
  <2> SUFFICES ASSUME ConsoleTypeOK, LockoutInv, NEW a \in Watched PROVE lockedFor[a] < Window
    BY DEF LockoutIsFixed
  <2>1. a \in Buckets /\ Window \in Nat /\ Window # 0
    BY ConsoleAssumption DEF Buckets
  <2>2. ttl[a] \in Nat /\ lockedFor[a] \in Nat
    BY <2>1 DEF ConsoleTypeOK
  <2>3. QED
    BY <2>1, <2>2 DEF LockoutInv
<1>4. QED
  BY ConsoleTypesAtStart, <1>1, <1>2, <1>3, PTL DEF ConsoleSpec

-----------------------------------------------------------------------------
(* How many guesses *)

\* The browsers whose failure is still to be counted in a's bucket, and those
\* whose credentials for a are still to be tried.
Owing(a) == {b \in Browsers : form[b].at \in {"add", "incr", "set"} /\ form[b].bucket = a}
Trying(a) == {b \in Browsers : form[b].at = "checked" /\ form[b].who = a}

\* Every guess is in the counter or about to be, and those that will still be
\* made passed the lockout check when the counter was below its limit.
GuessInv ==
  \A a \in Watched :
    /\ guesses[a] <= failures[a] + Cardinality(Owing(a))
    /\ guesses[a] + Cardinality(Trying(a)) <= MaxPerUser - 1 + Cardinality(Browsers)

\* Browsers are finitely many: what adding or removing one does to a count of them
LEMMA BrowserCounts ==
  ASSUME NEW S \in SUBSET Browsers
  PROVE  /\ IsFiniteSet(S) /\ Cardinality(S) \in Nat /\ Cardinality(Browsers) \in Nat
         /\ Cardinality(S) <= Cardinality(Browsers)
         /\ \A b : Cardinality(S \cup {b}) = IF b \in S THEN Cardinality(S) ELSE Cardinality(S) + 1
         /\ \A b : Cardinality(S \ {b}) = IF b \in S THEN Cardinality(S) - 1 ELSE Cardinality(S)
<1>1. IsFiniteSet(S) /\ Cardinality(S) <= Cardinality(Browsers)
  BY ConsoleAssumption, FS_Subset
<1>2. Cardinality(S) \in Nat /\ Cardinality(Browsers) \in Nat
  BY <1>1, ConsoleAssumption, FS_CardinalityType
<1>3. QED
  BY <1>1, <1>2, FS_AddElement, FS_RemoveElement

\* Nobody owes and tries at once.
LEMMA OwingOrTrying ==
  ASSUME NEW a, NEW b \in Browsers, Free(b)
  PROVE  Cardinality(Owing(a)) + Cardinality(Trying(a)) + 1 <= Cardinality(Browsers)
<1> DEFINE S == Owing(a)  T == Trying(a) \cup {b}
<1>1. S \in SUBSET Browsers /\ T \in SUBSET Browsers /\ Trying(a) \in SUBSET Browsers
      /\ S \cup T \in SUBSET Browsers /\ S \cap T = {} /\ b \notin Trying(a)
  BY DEF Owing, Trying, Free
<1>2. Cardinality(T) = Cardinality(Trying(a)) + 1
  BY <1>1, BrowserCounts
<1>3. Cardinality(S \cup T) = Cardinality(S) + Cardinality(T) - Cardinality(S \cap T)
  BY <1>1, BrowserCounts, FS_Union
<1>4. Cardinality(S \cap T) = 0
  BY <1>1, FS_EmptySet
<1>5. /\ Cardinality(S \cup T) <= Cardinality(Browsers) /\ Cardinality(S) \in Nat
      /\ Cardinality(Trying(a)) \in Nat
  BY <1>1, BrowserCounts
<1> HIDE DEF S, T
<1>6. Cardinality(S) + Cardinality(Trying(a)) + 1 <= Cardinality(Browsers)
  BY <1>2, <1>3, <1>4, <1>5
<1>7. QED
  BY <1>6 DEF S

\* Only the browser whose form changes starts or stops owing and trying.
LEMMA FormChanges ==
  ASSUME ConsoleTypeOK, NEW b \in Browsers, NEW r, form' = [form EXCEPT ![b] = r], NEW a
  PROVE  /\ Owing(a)' = IF r.at \in {"add", "incr", "set"} /\ r.bucket = a
                        THEN Owing(a) \cup {b} ELSE Owing(a) \ {b}
         /\ Trying(a)' = IF r.at = "checked" /\ r.who = a
                         THEN Trying(a) \cup {b} ELSE Trying(a) \ {b}
BY DEF Owing, Trying, ConsoleTypeOK

\* The browsers that owe a count or are trying are finitely many.
LEMMA CountsAreNumbers ==
  ASSUME NEW a
  PROVE  /\ Owing(a) \in SUBSET Browsers /\ Cardinality(Owing(a)) \in Nat
         /\ Trying(a) \in SUBSET Browsers /\ Cardinality(Trying(a)) \in Nat
         /\ Cardinality(Trying(a)) <= Cardinality(Browsers) /\ Cardinality(Browsers) \in Nat
<1>1. Owing(a) \in SUBSET Browsers /\ Trying(a) \in SUBSET Browsers
  BY DEF Owing, Trying
<1>2. QED
  BY <1>1, BrowserCounts

\* A failure that has been counted is not owed any more: what the counter gains
\* pays for it.
LEMMA CountedGuess ==
  ASSUME ConsoleTypeOK, GuessInv, NEW b \in Browsers, Counted(b),
         form[b].at \in {"add", "incr", "set"},
         \A a \in Watched :
           IF a = form[b].bucket
           THEN /\ failures'[a] \in Nat \ {0}
                /\ \/ guesses'[a] = 0
                   \/ guesses'[a] = guesses[a] /\ failures'[a] = failures[a] + 1
           ELSE guesses'[a] = guesses[a] /\ failures'[a] = failures[a]
  PROVE  GuessInv'
<1> DEFINE r == IF form[b].bucket = Office THEN NoForm ELSE [NoForm EXCEPT !.at = "add"]
<1>1. form' = [form EXCEPT ![b] = r]
  BY DEF Counted
<1>2. r.at \in {"idle", "add"} /\ r.bucket = Office
  BY PlainForms
<1> HIDE DEF r
<1>3. ASSUME NEW a \in Watched
      PROVE  /\ guesses'[a] <= failures'[a] + Cardinality(Owing(a)')
             /\ guesses'[a] + Cardinality(Trying(a)') <= MaxPerUser - 1 + Cardinality(Browsers)
  <2>1. a # Office /\ MaxPerUser \in Nat /\ MaxPerUser >= 1
    BY ConsoleAssumption
  <2>2. Owing(a)' = Owing(a) \ {b} /\ Trying(a)' = Trying(a)
    <3>1. Owing(a)' = Owing(a) \ {b} /\ Trying(a)' = Trying(a) \ {b}
      BY <1>1, <1>2, <2>1, FormChanges
    <3>2. b \notin Trying(a)
      BY DEF Trying
    <3>3. QED
      BY <3>1, <3>2
  <2>3. b \in Owing(a) <=> form[b].bucket = a
    BY DEF Owing
  <2>4. Cardinality(Owing(a)') = IF form[b].bucket = a THEN Cardinality(Owing(a)) - 1
                                                        ELSE Cardinality(Owing(a))
    BY <2>2, <2>3, CountsAreNumbers, BrowserCounts
  <2>5. Cardinality(Owing(a)') \in Nat
    BY <2>2, CountsAreNumbers, BrowserCounts
  <2>6. guesses[a] \in Nat /\ failures[a] \in Nat
    BY ConsoleAssumption DEF ConsoleTypeOK, Buckets
  <2>7. /\ guesses[a] <= failures[a] + Cardinality(Owing(a))
        /\ guesses[a] + Cardinality(Trying(a)) <= MaxPerUser - 1 + Cardinality(Browsers)
    BY DEF GuessInv
  <2>8. QED
    BY <2>1, <2>2, <2>4, <2>5, <2>6, <2>7, CountsAreNumbers
<1>4. QED
  BY <1>3 DEF GuessInv

\* A bucket that is gone has no guess left; nothing else changes.
LEMMA ForgottenGuess ==
  ASSUME ConsoleTypeOK, GuessInv,
         \A a : Owing(a)' = Owing(a) /\ Trying(a)' = Trying(a),
         \A a \in Watched : \/ guesses'[a] = 0 /\ failures'[a] = 0
                            \/ guesses'[a] = guesses[a] /\ failures'[a] = failures[a]
  PROVE  GuessInv'
<1>1. ASSUME NEW a \in Watched
      PROVE  /\ guesses'[a] <= failures'[a] + Cardinality(Owing(a)')
             /\ guesses'[a] + Cardinality(Trying(a)') <= MaxPerUser - 1 + Cardinality(Browsers)
  <2>1. MaxPerUser \in Nat /\ MaxPerUser >= 1
    BY ConsoleAssumption
  <2>2. /\ guesses[a] <= failures[a] + Cardinality(Owing(a))
        /\ guesses[a] + Cardinality(Trying(a)) <= MaxPerUser - 1 + Cardinality(Browsers)
    BY DEF GuessInv
  <2>3. Owing(a)' = Owing(a) /\ Trying(a)' = Trying(a)
    OBVIOUS
  <2>4. QED
    BY <2>1, <2>2, <2>3, CountsAreNumbers
<1>2. QED
  BY <1>1 DEF GuessInv

\* Each credential found wrong is counted or owed, and each browser past the
\* check has at most one guess left, at every step.
LEMMA GuessInductive ==
  ASSUME ConsoleTypeOK, FormsAreFilled, GuessInv, [ConsoleNext]_consoleVars
  PROVE  GuessInv'
<1>1. ASSUME NEW b \in Browsers, NEW a \in Accounts, NEW c \in Consoles, Submit(b, a, c)
      PROVE  GuessInv'
  <2>1. PICK r : /\ form' = [form EXCEPT ![b] = r]
                 /\ r \in [at : {"checked"}, who : {a}, console : {c}, bucket : {Office},
                           verified : {FALSE}]
    BY <1>1, CheckedForm DEF Submit
  <2>2. ASSUME NEW x \in Watched
        PROVE  /\ guesses'[x] <= failures'[x] + Cardinality(Owing(x)')
               /\ guesses'[x] + Cardinality(Trying(x)') <= MaxPerUser - 1 + Cardinality(Browsers)
    <3>1. Free(b) /\ b \notin Owing(x) /\ b \notin Trying(x)
      BY <1>1 DEF Submit, Owing, Trying, Free
    <3>10. form' = [form EXCEPT ![b] = r]
      BY <2>1
    <3>11. /\ Owing(x)' = IF r.at \in {"add", "incr", "set"} /\ r.bucket = x
                         THEN Owing(x) \cup {b} ELSE Owing(x) \ {b}
           /\ Trying(x)' = IF r.at = "checked" /\ r.who = x
                          THEN Trying(x) \cup {b} ELSE Trying(x) \ {b}
      BY <3>10, FormChanges
    <3>12. r.at = "checked" /\ r.who = a
      BY <2>1
    <3>2. Owing(x)' = Owing(x)
      BY <3>1, <3>11, <3>12
    <3>3. Trying(x)' = IF x = a THEN Trying(x) \cup {b} ELSE Trying(x)
      BY <3>1, <3>11, <3>12
    <3>4. Cardinality(Trying(x)') = IF x = a THEN Cardinality(Trying(x)) + 1 ELSE Cardinality(Trying(x))
      BY <3>1, <3>3, CountsAreNumbers, BrowserCounts
    <3>5. x = a => failures[x] < MaxPerUser
      BY <1>1, ConsoleAssumption DEF Submit, IsLockedOut, LocksUser, ConsoleTypeOK, Buckets
    <3>6. guesses' = guesses /\ failures' = failures
      BY <1>1 DEF Submit, buckets
    <3>7. guesses[x] \in Nat /\ failures[x] \in Nat /\ MaxPerUser \in Nat
      BY ConsoleAssumption DEF ConsoleTypeOK, Buckets
    <3>8. Cardinality(Owing(x)) + Cardinality(Trying(x)) + 1 <= Cardinality(Browsers)
      BY <3>1, OwingOrTrying
    <3>9. /\ guesses[x] <= failures[x] + Cardinality(Owing(x))
          /\ guesses[x] + Cardinality(Trying(x)) <= MaxPerUser - 1 + Cardinality(Browsers)
      BY DEF GuessInv
    <3>13. QED
      BY <3>2, <3>4, <3>5, <3>6, <3>7, <3>8, <3>9, CountsAreNumbers
  <2>3. QED
    BY <2>2 DEF GuessInv
<1>2. ASSUME NEW b \in Browsers, NEW password \in BOOLEAN, NEW token \in BOOLEAN,
             Authenticate(b, password, token)
      PROVE  GuessInv'
  <2> DEFINE a == form[b].who
  <2>0. PICK r : /\ form' = [form EXCEPT ![b] = r]
                 /\ \/ /\ Accepted(b, password, token)
                       /\ r \in [at : {"passed"}, who : {a}, console : {"merchant"},
                                 bucket : {Office}, verified : {device[a]}]
                    \/ /\ ~Accepted(b, password, token)
                       /\ r \in [at : {"add"}, who : {NoAccount}, console : {"merchant"},
                                 bucket : {a}, verified : {FALSE}]
    BY <1>2, AuthenticatedForm
  <2>1. \/ Accepted(b, password, token) /\ r.at = "passed"
        \/ ~Accepted(b, password, token) /\ r.at = "add" /\ r.bucket = a
    BY <2>0
  <2>2. /\ guesses' = [x \in Watched |-> guesses[x] + IF x = a /\ ~Accepted(b, password, token) THEN 1 ELSE 0]
        /\ failures' = failures
    BY <1>2 DEF Authenticate, Accepted
  <2>3. ASSUME NEW x \in Watched
        PROVE  /\ guesses'[x] <= failures'[x] + Cardinality(Owing(x)')
               /\ guesses'[x] + Cardinality(Trying(x)') <= MaxPerUser - 1 + Cardinality(Browsers)
    <3> DEFINE wrong == x = a /\ ~Accepted(b, password, token)
    <3>1. b \notin Owing(x) /\ (b \in Trying(x) <=> x = a)
      BY <1>2 DEF Authenticate, Owing, Trying
    <3>10. /\ Owing(x)' = IF r.at \in {"add", "incr", "set"} /\ r.bucket = x
                         THEN Owing(x) \cup {b} ELSE Owing(x) \ {b}
           /\ Trying(x)' = IF r.at = "checked" /\ r.who = x
                          THEN Trying(x) \cup {b} ELSE Trying(x) \ {b}
      BY <2>0, FormChanges
    <3>2. Owing(x)' = IF wrong THEN Owing(x) \cup {b} ELSE Owing(x)
      BY <2>1, <3>1, <3>10
    <3>3. Trying(x)' = Trying(x) \ {b}
      BY <2>1, <3>10
    <3>4. Cardinality(Owing(x)') = IF wrong THEN Cardinality(Owing(x)) + 1 ELSE Cardinality(Owing(x))
      BY <3>1, <3>2, CountsAreNumbers, BrowserCounts
    <3>5. Cardinality(Trying(x)') = IF x = a THEN Cardinality(Trying(x)) - 1 ELSE Cardinality(Trying(x))
      BY <3>1, <3>3, CountsAreNumbers, BrowserCounts
    <3>6. guesses'[x] = IF wrong THEN guesses[x] + 1 ELSE guesses[x]
      BY <2>2, ConsoleAssumption DEF ConsoleTypeOK
    <3>7. guesses[x] \in Nat /\ failures[x] \in Nat /\ MaxPerUser \in Nat
      BY ConsoleAssumption DEF ConsoleTypeOK, Buckets
    <3>8. /\ guesses[x] <= failures[x] + Cardinality(Owing(x))
          /\ guesses[x] + Cardinality(Trying(x)) <= MaxPerUser - 1 + Cardinality(Browsers)
      BY DEF GuessInv
    <3>9. QED
      BY <2>2, <3>4, <3>5, <3>6, <3>7, <3>8, CountsAreNumbers
  <2>4. QED
    BY <2>3 DEF GuessInv
<1>3. ASSUME NEW b \in Browsers, form[b].at \in {"add", "incr", "set"},
             Opens(form[b].bucket), Counted(b)
      PROVE  GuessInv'
  <2>1. Watched \subseteq Buckets
    BY ConsoleAssumption DEF Buckets
  <2>2. form[b].bucket \in Buckets
    BY DEF ConsoleTypeOK, Form
  <2>3. ASSUME NEW x \in Watched
        PROVE  IF x = form[b].bucket
               THEN /\ failures'[x] \in Nat \ {0}
                    /\ \/ guesses'[x] = 0
                       \/ guesses'[x] = guesses[x] /\ failures'[x] = failures[x] + 1
               ELSE guesses'[x] = guesses[x] /\ failures'[x] = failures[x]
    BY <1>3, <2>1, <2>2, <2>3 DEF Opens, ConsoleTypeOK
  <2>4. QED
    BY <1>3, <2>3, CountedGuess
<1>4. ASSUME NEW b \in Browsers, NEW stage \in {"incr", "set"},
             form[b].at \in {"add", "incr"}, UNCHANGED buckets,
             form' = [form EXCEPT ![b] = [form[b] EXCEPT !.at = stage]]
      PROVE  GuessInv'
  <2> DEFINE r == [form[b] EXCEPT !.at = stage]
  <2>1. r.at = stage /\ r.bucket = form[b].bucket
    BY DEF ConsoleTypeOK, Form
  <2>2. form' = [form EXCEPT ![b] = r]
    BY <1>4
  <2> HIDE DEF r
  <2>3. ASSUME NEW x PROVE Owing(x)' = Owing(x) /\ Trying(x)' = Trying(x)
    <3>1. (b \in Owing(x) <=> form[b].bucket = x) /\ b \notin Trying(x)
      BY <1>4 DEF Owing, Trying
    <3>2. /\ Owing(x)' = IF r.at \in {"add", "incr", "set"} /\ r.bucket = x
                        THEN Owing(x) \cup {b} ELSE Owing(x) \ {b}
          /\ Trying(x)' = IF r.at = "checked" /\ r.who = x
                         THEN Trying(x) \cup {b} ELSE Trying(x) \ {b}
      BY <2>2, FormChanges
    <3>3. QED
      BY <2>1, <3>1, <3>2
  <2>4. QED
    BY <1>4, <2>3, ForgottenGuess DEF buckets
<1>5. ASSUME NEW b \in Browsers, Add(b) PROVE GuessInv'
  BY <1>3, <1>4, <1>5 DEF Add
<1>6. ASSUME NEW b \in Browsers, Incr(b) PROVE GuessInv'
  <2> DEFINE k == form[b].bucket
  <2>1. k \in Buckets /\ Watched \subseteq Buckets
    BY ConsoleAssumption DEF ConsoleTypeOK, Form, Buckets
  <2>2. CASE failures[k] = 0
    BY <1>4, <1>6, <2>2 DEF Incr
  <2>3. CASE failures[k] # 0
    <3>1. /\ failures' = [failures EXCEPT ![k] = failures[k] + 1] /\ guesses' = guesses
          /\ Counted(b) /\ form[b].at = "incr"
      BY <1>6, <2>3 DEF Incr
    <3>2. ASSUME NEW x \in Watched
          PROVE  IF x = k
                 THEN /\ failures'[x] \in Nat \ {0}
                      /\ \/ guesses'[x] = 0
                         \/ guesses'[x] = guesses[x] /\ failures'[x] = failures[x] + 1
                 ELSE guesses'[x] = guesses[x] /\ failures'[x] = failures[x]
      BY <2>1, <2>3, <3>1 DEF ConsoleTypeOK
    <3>3. QED
      BY <3>1, <3>2, CountedGuess
  <2>4. QED
    BY <2>2, <2>3
<1>7. ASSUME NEW b \in Browsers, Set(b) PROVE GuessInv'
  BY <1>3, <1>7 DEF Set
<1>8. ASSUME NEW b \in Browsers, LogIn(b) PROVE GuessInv'
  <2> DEFINE r == NoForm
  <2>1. form' = [form EXCEPT ![b] = r] /\ r.at = "idle"
    BY <1>8, PlainForms DEF LogIn
  <2> HIDE DEF r
  <2>2. ASSUME NEW x PROVE Owing(x)' = Owing(x) /\ Trying(x)' = Trying(x)
    <3>1. b \notin Owing(x) /\ b \notin Trying(x)
      BY <1>8 DEF LogIn, Owing, Trying
    <3>2. /\ Owing(x)' = IF r.at \in {"add", "incr", "set"} /\ r.bucket = x
                        THEN Owing(x) \cup {b} ELSE Owing(x) \ {b}
          /\ Trying(x)' = IF r.at = "checked" /\ r.who = x
                         THEN Trying(x) \cup {b} ELSE Trying(x) \ {b}
      BY <2>1, FormChanges
    <3>3. QED
      BY <2>1, <3>1, <3>2
  <2>3. ASSUME NEW x \in Watched
        PROVE  \/ guesses'[x] = 0 /\ failures'[x] = 0
               \/ guesses'[x] = guesses[x] /\ failures'[x] = failures[x]
    BY <1>8, ConsoleAssumption DEF LogIn, Forgotten, Buckets
  <2>4. QED
    BY <2>2, <2>3, ForgottenGuess
<1>9. CASE Tick
  <2>1. ASSUME NEW x PROVE Owing(x)' = Owing(x) /\ Trying(x)' = Trying(x)
    BY <1>9 DEF Tick, Owing, Trying
  <2>2. ASSUME NEW x \in Watched
        PROVE  \/ guesses'[x] = 0 /\ failures'[x] = 0
               \/ guesses'[x] = guesses[x] /\ failures'[x] = failures[x]
    BY <1>9, ConsoleAssumption DEF Tick, Buckets
  <2>3. QED
    BY <2>1, <2>2, ForgottenGuess
<1>10. CASE UNCHANGED <<form, failures, guesses>>
  <2>1. ASSUME NEW x PROVE Owing(x)' = Owing(x) /\ Trying(x)' = Trying(x)
    BY <1>10 DEF Owing, Trying
  <2>2. QED
    BY <1>10, <2>1, ForgottenGuess
<1>11. QED
  BY <1>1, <1>2, <1>5, <1>6, <1>7, <1>8, <1>9, <1>10
     DEF ConsoleNext, LogOut, StorefrontLogIn, SetActive, Enrol, SetConsole, Change, consoleVars,
         buckets

\* A window lets through no more guesses than the limit and one for each further
\* browser that was past the check, for any number of browsers and any limit.
THEOREM GuessesStayBounded == ConsoleSpec => []GuessesBounded
<1>1. ConsoleInit => GuessInv
  <2> SUFFICES ASSUME ConsoleInit, NEW a \in Watched
               PROVE  /\ guesses[a] <= failures[a] + Cardinality(Owing(a))
                      /\ guesses[a] + Cardinality(Trying(a)) <= MaxPerUser - 1 + Cardinality(Browsers)
    BY DEF GuessInv
  <2>1. guesses[a] = 0 /\ failures[a] = 0 /\ MaxPerUser \in Nat /\ MaxPerUser >= 1
    BY ConsoleAssumption DEF ConsoleInit, Buckets
  <2>2. QED
    BY <2>1, CountsAreNumbers
<1>2. ConsoleTypeOK /\ FormsAreFilled /\ GuessInv /\ [ConsoleNext]_consoleVars
        => (ConsoleTypeOK /\ FormsAreFilled /\ GuessInv)'
  BY ConsoleTypesInductive, GuessInductive
<1>3. ConsoleTypeOK /\ GuessInv => GuessesBounded
  <2> SUFFICES ASSUME ConsoleTypeOK, GuessInv, NEW a \in Watched
               PROVE  guesses[a] <= MaxPerUser - 1 + Cardinality(Browsers)
    BY DEF GuessesBounded
  <2>1. guesses[a] \in Nat /\ MaxPerUser \in Nat
    BY ConsoleAssumption DEF ConsoleTypeOK
  <2>2. QED
    BY <2>1, CountsAreNumbers DEF GuessInv
<1>4. QED
  BY ConsoleTypesAtStart, <1>1, <1>2, <1>3, PTL DEF ConsoleSpec
===============================================================================
