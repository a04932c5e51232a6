-------------------------- MODULE AccountDataProofs --------------------------
(***************************************************************************)
(* What AccountData guarantees for every set of accounts, products, phones, *)
(* orders and processes, and any number of requests, deletions and faults.  *)
(*                                                                         *)
(* A cleanup is idempotent, so what has to be known of a drain is only      *)
(* which event it has applied and not yet marked: no such event may be the  *)
(* last hope of a row that was left behind.                                 *)
(***************************************************************************)
EXTENDS AccountData, TLAPS

At(w, steps) == job[w].at \in steps

\* What a process has read by the step it is at
JobFilled(w) ==
  /\ At(w, {"user", "toggle", "found", "review", "notify", "form", "save"}) =>
       w \in Workers /\ job[w].who \in Customers
  /\ At(w, {"toggle", "found"}) => job[w].item \in Products
  /\ At(w, {"review"}) => job[w].item \in Bought
  /\ At(w, {"notify"}) => job[w].item \in Orders
  /\ At(w, {"list"} \cup Handling) => job[w].item \in Events
JobsFilled == \A w \in Workers \cup {Scheduler} : JobFilled(w)

TypesInv == DataTypeOK /\ JobsFilled

\* The records a step makes are jobs.
LEMMA JobRecords ==
  /\ Idle \in Job /\ Shopper \in Row
  /\ \A c \in Customers, todo \in SUBSET Events :
       /\ [Idle EXCEPT !.at = "user", !.who = c] \in Job
       /\ [Idle EXCEPT !.at = "lock", !.todo = todo] \in Job
  /\ \A c \in Customers, o \in Orders :
       [Idle EXCEPT !.at = "notify", !.who = c, !.item = o] \in Job
  /\ \A e \in Events : [Idle EXCEPT !.at = "list", !.item = e] \in Job
<1>1. Shopper \in Row
  BY DEF Shopper, Row
<1>2. Idle \in Job
  BY <1>1 DEF Idle, Job
<1>3. QED
  BY <1>1, <1>2 DEF Idle, Job

\* The field a proof cites of a job
LEMMA JobFields ==
  ASSUME NEW j \in Job
  PROVE  /\ j.who \in Customers \cup {Gone} /\ j.copy \in Row /\ j.sets \subseteq Columns
         /\ j.fields \subseteq Columns /\ j.todo \subseteq Events
         /\ j.item \in Products \cup Orders \cup Events \cup {"none"}
BY DEF Job

\* An instance in memory is a job about to save.
Saving(c, copy, set, fields) ==
  [Idle EXCEPT !.at = "save", !.who = c, !.sets = set, !.fields = fields,
               !.copy = copy]
Saves(j, c, set, fields) ==
  /\ j \in Job /\ j.at = "save" /\ j.who = c /\ j.sets = set
  /\ j.fields = fields /\ j.todo = {} /\ j.item = "none"

LEMMA SavingRecord ==
  ASSUME NEW c \in Customers, NEW copy, copy \in Row,
         NEW set \in SUBSET Columns, NEW fields \in SUBSET Columns
  PROVE  Saves(Saving(c, copy, set, fields), c, set, fields)
BY DEF Saves, Saving, Job, Idle

\* What a request loads has a copy of the row.
LEMMA LoadedRecord ==
  ASSUME NEW c \in Customers, account[c] \in Row,
         NEW set \in SUBSET Columns, NEW value \in BOOLEAN, NEW fields \in SUBSET Columns
  PROVE  Saves(Loaded(c, set, value, fields), c, set, fields)
<1> DEFINE copy == [k \in Columns |-> IF k \in set THEN value ELSE account[c][k]]
<1>1. copy \in Row
  BY DEF Row
<1>2. Loaded(c, set, value, fields) = Saving(c, copy, set, fields)
  BY Zenon DEF Loaded, Saving
<1> HIDE DEF copy
<1>3. QED
  BY <1>1, <1>2, SavingRecord

\* A job changes for one process.
LEMMA JobMoves ==
  ASSUME job \in [Workers \cup {Scheduler} -> Job], NEW w \in Workers \cup {Scheduler},
         NEW j \in Job, job' = [job EXCEPT ![w] = j]
  PROVE  /\ job' \in [Workers \cup {Scheduler} -> Job] /\ job'[w] = j
         /\ \A u \in Workers \cup {Scheduler} : u # w => job'[u] = job[u]
OBVIOUS

\* What a job becomes when its step and what it is about move on.
StepNames == {"idle", "user", "toggle", "found", "review", "notify", "form", "save",
              "list", "lock", "apply", "applied", "failed"}
Items == Products \cup Orders \cup Events \cup {"none"}
Moved(r, at, item) == [r EXCEPT !.at = at, !.item = item]
Stepped(r, at) == [r EXCEPT !.at = at]
Draining(todo) == [Idle EXCEPT !.at = "lock", !.todo = todo]

LEMMA JobGoes ==
  ASSUME NEW r \in Job,
         NEW at \in StepNames,
         NEW item \in Items
  PROVE  LET j == Moved(r, at, item)
         IN  /\ j \in Job /\ j.at = at /\ j.item = item /\ j.who = r.who
             /\ j.copy = r.copy /\ j.sets = r.sets /\ j.fields = r.fields /\ j.todo = r.todo
<1> DEFINE j == Moved(r, at, item)
<1>1. /\ j.at = at /\ j.item = item /\ j.who = r.who
      /\ j.copy = r.copy /\ j.sets = r.sets /\ j.fields = r.fields /\ j.todo = r.todo
  BY DEF Job, Items, StepNames, Moved
<1>2. j \in Job
  BY DEF Job, Items, StepNames, Moved
<1>3. QED
  BY <1>1, <1>2

\* Its step alone
LEMMA JobSteps ==
  ASSUME NEW r \in Job,
         NEW at \in StepNames
  PROVE  LET j == Stepped(r, at)
         IN  /\ j \in Job /\ j.at = at /\ j.item = r.item /\ j.who = r.who
             /\ j.copy = r.copy /\ j.sets = r.sets /\ j.fields = r.fields /\ j.todo = r.todo
<1> DEFINE j == Stepped(r, at)
<1>1. /\ j.at = at /\ j.item = r.item /\ j.who = r.who
      /\ j.copy = r.copy /\ j.sets = r.sets /\ j.fields = r.fields /\ j.todo = r.todo
  BY DEF Job, StepNames, Stepped
<1>2. j \in Job
  BY DEF Job, StepNames, Stepped
<1>3. QED
  BY <1>1, <1>2

\* A form that is posted is about to save.
Posted(r, set, copy) ==
  [r EXCEPT !.at = "save", !.sets = set, !.copy = copy]

LEMMA PostedRecord ==
  ASSUME NEW r \in Job, NEW set \in SUBSET Columns, NEW copy \in Row
  PROVE  LET j == Posted(r, set, copy)
         IN  /\ j \in Job /\ j.at = "save" /\ j.who = r.who
             /\ j.sets = set /\ j.fields = r.fields /\ j.todo = r.todo
<1> DEFINE j == Posted(r, set, copy)
<1>1. /\ j.at = "save" /\ j.who = r.who
      /\ j.sets = set /\ j.fields = r.fields /\ j.todo = r.todo
  BY DEF Job, Posted
<1>2. j \in Job
  BY DEF Job, Posted
<1>3. QED
  BY <1>1, <1>2

-----------------------------------------------------------------------------
(* The forms the steps of a job take. Only the job of w moves.                *)

Processes == Workers \cup {Scheduler}
JobTypes == job \in [Processes -> Job]
Alone(w) == JobTypes' /\ \A u \in Processes : u # w => job'[u] = job[u]
\* It keeps all but its step and what it is about.
Becomes(w, at, item) ==
  /\ Alone(w)
  /\ job'[w].at = at /\ job'[w].item = item
  /\ job'[w].who = job[w].who /\ job'[w].copy = job[w].copy
  /\ job'[w].sets = job[w].sets /\ job'[w].fields = job[w].fields /\ job'[w].todo = job[w].todo

LEMMA Setting ==
  ASSUME JobTypes, NEW w \in Processes, NEW j \in Job, job' = [job EXCEPT ![w] = j]
  PROVE  Alone(w) /\ job'[w] = j
BY DEF JobTypes, Alone, Processes

LEMMA Ending ==
  ASSUME JobTypes, NEW w \in Processes, Finished(w)
  PROVE  Alone(w) /\ job'[w] = Idle /\ job'[w].at = "idle" /\ job'[w].todo = {}
<1>1. Idle \in Job /\ Idle.at = "idle" /\ Idle.todo = {}
  BY JobRecords DEF Idle
<1>2. QED
  BY <1>1, Setting DEF Finished

LEMMA Beginning ==
  ASSUME JobTypes, NEW w \in Processes, NEW j \in Job, Starts(w, j)
  PROVE  Alone(w) /\ job'[w] = j
BY Setting DEF Starts

LEMMA Going ==
  ASSUME JobTypes, NEW w \in Processes,
         NEW at \in StepNames,
         Goes(w, at)
  PROVE  Becomes(w, at, job[w].item)
<1>1. job[w] \in Job
  BY DEF JobTypes
<1> DEFINE j == Stepped(job[w], at)
<1>2. job' = [job EXCEPT ![w] = j]
  BY Zenon DEF Goes, Stepped
<1>3. /\ j \in Job /\ j.at = at /\ j.item = job[w].item
      /\ j.who = job[w].who /\ j.copy = job[w].copy /\ j.sets = job[w].sets
      /\ j.fields = job[w].fields /\ j.todo = job[w].todo
  BY <1>1, JobSteps
<1> HIDE DEF j
<1>4. QED
  BY <1>2, <1>3, Setting DEF Becomes

LEMMA Reading ==
  ASSUME JobTypes, NEW w \in Processes,
         NEW at \in StepNames,
         NEW item \in Items,
         job' = [job EXCEPT ![w].at = at, ![w].item = item]
  PROVE  Becomes(w, at, item)
<1>1. job[w] \in Job
  BY DEF JobTypes
<1> DEFINE j == Moved(job[w], at, item)
<1>2. job' = [job EXCEPT ![w] = j]
  BY <1>1, Zenon DEF JobTypes, Moved
<1>3. /\ j \in Job /\ j.at = at /\ j.item = item
      /\ j.who = job[w].who /\ j.copy = job[w].copy /\ j.sets = job[w].sets
      /\ j.fields = job[w].fields /\ j.todo = job[w].todo
  BY <1>1, JobGoes
<1> HIDE DEF j
<1>4. QED
  BY <1>2, <1>3, Setting DEF Becomes

\* The record of a drain with events left to lock
LEMMA DrainRecords ==
  ASSUME NEW todo \in SUBSET Events
  PROVE  /\ Draining(todo) \in Job
         /\ Draining(todo).at = "lock" /\ Draining(todo).todo = todo
<1>1. Shopper \in Row
  BY JobRecords
<1>2. Draining(todo).at = "lock" /\ Draining(todo).todo = todo
  BY DEF Idle, Draining
<1>3. Draining(todo) \in Job
  BY <1>1 DEF Job, Idle, Draining
<1>4. QED
  BY <1>2, <1>3

LEMMA Skipping ==
  ASSUME JobTypes, NEW w \in Processes, NEW e, Skips(w, e)
  PROVE  /\ Alone(w) /\ job'[w].at \in {"idle", "lock"}
         /\ job'[w].todo \subseteq job[w].todo
<1> DEFINE todo == job[w].todo \ {e}
           j == Draining(todo)
<1>1. todo \in SUBSET Events
  BY JobFields DEF JobTypes
<1>2. j \in Job /\ j.at = "lock" /\ j.todo = todo
  BY <1>1, DrainRecords
<1>3. Idle \in Job /\ Idle.at = "idle" /\ Idle.todo = {}
  BY JobRecords DEF Idle
<1>4. job' = [job EXCEPT ![w] = IF todo = {} THEN Idle ELSE j]
  BY DEF Skips, Draining
<1> HIDE DEF j
<1>5. QED
  BY <1>2, <1>3, <1>4, Setting

\* The others read what they read.
LEMMA OthersFilled ==
  ASSUME JobsFilled, NEW w \in Processes, Alone(w), JobFilled(w)'
  PROVE  JobsFilled'
<1>1. ASSUME NEW u \in Processes, u # w, JobFilled(u) PROVE JobFilled(u)'
  <2>1. job'[u] = job[u]
    BY <1>1 DEF Alone
  <2>2. QED
    BY <1>1, <2>1 DEF JobFilled, At
<1>2. QED
  BY <1>1 DEF JobsFilled, Processes

-----------------------------------------------------------------------------
(* Types, and what a process has read                                        *)

\* A step of w after which it handles no event and has no more to look at
Quiet(w) == Alone(w) /\ ~At(w, Handling)' /\ job'[w].todo \subseteq job[w].todo

LEMMA NamesOfSteps ==
  /\ StepNames = {"idle", "user", "toggle", "found", "review", "notify", "form", "save",
                  "list", "lock", "apply", "applied", "failed"}
  /\ Handling = {"apply", "applied", "failed"}
BY DEF StepNames, Handling

\* A job that is over, or one that has read nothing yet, is filled.
LEMMA EndingFills ==
  ASSUME JobTypes, NEW w \in Processes, Finished(w)
  PROVE  Quiet(w) /\ JobFilled(w)'
<1>1. Alone(w) /\ job'[w].at = "idle" /\ job'[w].todo = {}
  BY Ending
<1>2. QED
  BY <1>1 DEF Quiet, JobFilled, At, Handling

LEMMA SavingFills ==
  ASSUME JobTypes, NEW w \in Workers, NEW c \in Customers,
         account[c] \in Row, NEW set \in SUBSET Columns, NEW value \in BOOLEAN,
         NEW fields \in SUBSET Columns,
         Starts(w, Loaded(c, set, value, fields))
  PROVE  Quiet(w) /\ JobFilled(w)'
<1> DEFINE j == Loaded(c, set, value, fields)
<1>1. Saves(j, c, set, fields)
  BY LoadedRecord
<1> HIDE DEF j
<1>2. Alone(w) /\ job'[w] = j
  BY <1>1, Beginning DEF Saves, Processes, j
<1>3. QED
  BY <1>1, <1>2 DEF Saves, Quiet, JobFilled, At, Handling

LEMMA FormFills ==
  ASSUME JobTypes, NEW w \in Workers, NEW c \in Customers, account[c] \in Row, OpenForm(w, c)
  PROVE  Quiet(w) /\ JobFilled(w)'
<1> DEFINE fields == Columns
<1>1. Starts(w, Stepped(Loaded(c, {}, TRUE, fields), "form"))
  BY Zenon DEF OpenForm, Stepped
<1> DEFINE r == Loaded(c, {}, TRUE, fields)
           j == Stepped(r, "form")
<1>2. fields \in SUBSET Columns /\ {} \in SUBSET Columns
  BY DEF Columns
<1>3. Saves(r, c, {}, fields)
  BY <1>2, LoadedRecord
<1> HIDE DEF r
<1>4. j \in Job /\ j.at = "form" /\ j.who = c /\ j.todo = {}
  BY <1>3, JobSteps, NamesOfSteps DEF Saves
<1> HIDE DEF j
<1>5. Alone(w) /\ job'[w] = j
  BY <1>1, <1>4, Beginning DEF j, r, Processes
<1>6. QED
  BY <1>4, <1>5 DEF Quiet, JobFilled, At, Handling

LEMMA PostFills ==
  ASSUME JobTypes, account \in [Customers -> Row \cup {Gone}], NEW w \in Workers, JobFilled(w),
         PostForm(w)
  PROVE  Quiet(w) /\ JobFilled(w)'
<1>1. job[w] \in Job /\ job[w].at = "form" /\ job[w].who \in Customers
  BY DEF JobTypes, Processes, PostForm, JobFilled, At
<1>2. CASE account[job[w].who] = Gone
  BY <1>1, <1>2, EndingFills DEF PostForm, Processes
<1>3. CASE account[job[w].who] # Gone
  <2> DEFINE Copy(edit) == [job[w].copy EXCEPT ![edit] = ~job[w].copy[edit]]
  <2>1. PICK edit \in Columns :
          job' = [job EXCEPT ![w] = [job[w] EXCEPT !.at = "save", !.sets = {edit}, !.copy[edit] = ~@]]
    BY <1>3, Zenon DEF PostForm
  <2>8. [job[w] EXCEPT !.at = "save", !.sets = {edit}, !.copy[edit] = ~@]
          = Posted(job[w], {edit}, Copy(edit))
    BY <1>1 DEF Posted, Job
  <2> DEFINE copy == Copy(edit)
             j == Posted(job[w], {edit}, copy)
  <2>2. copy \in Row
    BY <1>1, JobFields DEF Row
  <2>3. {edit} \in SUBSET Columns
    OBVIOUS
  <2> HIDE DEF copy
  <2>4. /\ j \in Job /\ j.at = "save" /\ j.who = job[w].who
        /\ j.todo = job[w].todo
    BY <1>1, <2>2, <2>3, PostedRecord
  <2>5. job' = [job EXCEPT ![w] = j]
    BY <2>1, <2>8 DEF copy
  <2> HIDE DEF j
  <2>6. Alone(w) /\ job'[w] = j
    BY <2>4, <2>5, Setting DEF Processes
  <2>7. QED
    BY <1>1, <2>4, <2>6 DEF Quiet, JobFilled, At, Handling
<1>4. QED
  BY <1>2, <1>3

LEMMA LoadsFill ==
  ASSUME JobTypes, account \in [Customers -> Row \cup {Gone}], NEW w \in Workers,
         NEW c \in Customers, LoadsAccount(w, c)
  PROVE  Quiet(w) /\ JobFilled(w)'
<1>1. account[c] # Gone => account[c] \in Row
  OBVIOUS
<1>2. /\ {"name"} \in SUBSET Columns /\ {} \in SUBSET Columns
      /\ {"active"} \in SUBSET Columns /\ {"name", "active"} \in SUBSET Columns
      /\ Columns \in SUBSET Columns /\ ProfileFields \in SUBSET Columns
      /\ ProfileFields = {"name"} /\ TRUE \in BOOLEAN /\ FALSE \in BOOLEAN
  BY DEF Columns, ProfileFields
<1>4. CASE ProfileView(w, c)
  BY <1>1, <1>2, <1>4, SavingFills DEF ProfileView, SignedIn
<1>5. CASE ProfilePatch(w, c)
  BY <1>1, <1>2, <1>5, SavingFills DEF ProfilePatch, SignedIn
<1>6. CASE PasswordReset(w, c)
  BY <1>1, <1>2, <1>6, SavingFills DEF PasswordReset
<1>7. CASE SuspendOrActivate(w, c)
  BY <1>1, <1>2, <1>7, SavingFills DEF SuspendOrActivate
<1>8. CASE CreateConsoleAccount(w, c)
  BY <1>1, <1>2, <1>8, SavingFills DEF CreateConsoleAccount
<1>3. CASE ConsolePasswordChange(w, c)
  BY <1>1, <1>2, <1>3, SavingFills DEF ConsolePasswordChange
<1>9. CASE OpenForm(w, c)
  BY <1>1, <1>9, FormFills DEF OpenForm
<1>10. CASE Shop(w, c)
  <2> DEFINE j == [Idle EXCEPT !.at = "user", !.who = c]
  <2>1. j \in Job
    BY JobRecords
  <2>2. j.at = "user" /\ j.who = c /\ j.todo = {}
    BY DEF Idle
  <2>3. Starts(w, j)
    BY <1>10 DEF Shop
  <2> HIDE DEF j
  <2>4. Alone(w) /\ job'[w] = j
    BY <2>1, <2>3, Beginning DEF Processes
  <2>5. QED
    BY <2>2, <2>4 DEF Quiet, JobFilled, At, Handling
<1>11. QED
  BY <1>3, <1>4, <1>5, <1>6, <1>7, <1>8, <1>9, <1>10 DEF LoadsAccount

LEMMA NotifyFills ==
  ASSUME JobTypes, NEW w \in Workers, NEW o \in Orders, NotifyReads(w, o)
  PROVE  Quiet(w) /\ JobFilled(w)'
<1> DEFINE c == buyer[o]
           j == [Idle EXCEPT !.at = "notify", !.who = c, !.item = o]
<1>1. c \in Customers /\ Starts(w, j)
  BY DEF NotifyReads
<1>2. j.at = "notify" /\ j.who = c /\ j.item = o /\ j.todo = {}
  BY DEF Idle
<1> HIDE DEF c
<1>3. j \in Job
  BY <1>1, JobRecords
<1> HIDE DEF j
<1>4. Alone(w) /\ job'[w] = j
  BY <1>1, <1>3, Beginning DEF Processes
<1>5. QED
  BY <1>1, <1>2, <1>4 DEF Quiet, JobFilled, At, Handling

\* A request of a shopper goes on with what it has read, or is over.
LEMMA ReadFills ==
  ASSUME NEW w \in Workers, JobFilled(w), job[w].at = "user", NEW item \in Items,
         \/ Becomes(w, "toggle", item) /\ item \in Products
         \/ Becomes(w, "review", item) /\ item \in Bought
  PROVE  Quiet(w) /\ JobFilled(w)'
BY DEF Becomes, Quiet, JobFilled, At, Handling

LEMMA ShopFills ==
  ASSUME JobTypes, products \subseteq Products, NEW w \in Workers, JobFilled(w), ShopSteps(w)
  PROVE  Quiet(w) /\ JobFilled(w)'
<1>1. w \in Processes
  BY DEF Processes
<1>2. ASSUME Finished(w) PROVE Quiet(w) /\ JobFilled(w)'
  BY <1>1, <1>2, EndingFills
<1>3. CASE ReadProduct(w)
  <2>1. PICK p \in products : job' = [job EXCEPT ![w].at = "toggle", ![w].item = p]
    BY <1>3 DEF ReadProduct
  <2>2. p \in Products /\ p \in Items
    BY DEF Items
  <2>3. Becomes(w, "toggle", p)
    BY <1>1, <2>1, <2>2, Reading, NamesOfSteps
  <2>4. QED
    BY <1>3, <2>2, <2>3, ReadFills DEF ReadProduct
<1>4. CASE ReadPurchase(w)
  <2>1. PICK p \in Bought : job' = [job EXCEPT ![w].at = "review", ![w].item = p]
    BY <1>4 DEF ReadPurchase
  <2>2. p \in Items
    BY DataAssumption DEF Items
  <2>3. Becomes(w, "review", p)
    BY <1>1, <2>1, <2>2, Reading, NamesOfSteps
  <2>4. QED
    BY <1>4, <2>2, <2>3, ReadFills DEF ReadPurchase
<1>5. CASE ToggleWishlist(w)
  <2>1. CASE Goes(w, "found")
    <3>1. Becomes(w, "found", job[w].item)
      BY <1>1, <2>1, Going, NamesOfSteps
    <3>2. job[w].at = "toggle"
      BY <1>5 DEF ToggleWishlist
    <3>3. QED
      BY <3>1, <3>2 DEF Becomes, Quiet, JobFilled, At, Handling
  <2>2. QED
    BY <1>2, <1>5, <2>1 DEF ToggleWishlist
<1>6. QED
  BY <1>2, <1>3, <1>4, <1>5
     DEF ShopSteps, PlaceOrder, RegisterDevice, RemoveWish, SubmitReview, Refused, NotifyCustomer

\* The relations, and the objects they refer to
LEMMA LinkNames ==
  /\ Links = [table : {"review.customer", "token.customer", "notice.customer", "order.customer"},
              ref : Customers] \cup [table : {"review.product", "wish.product"}, ref : Products]
  /\ \A r \in Customers \cup Products : LinksTo(r) # {}
<1>1. Range(OfCustomer) = {"review.customer", "token.customer", "notice.customer", "order.customer"}
  BY DEF Range, OfCustomer
<1>2. Range(OfProduct) = {"review.product", "wish.product"}
  BY DEF Range, OfProduct
<1>3. Links = [table : {"review.customer", "token.customer", "notice.customer", "order.customer"},
               ref : Customers] \cup [table : {"review.product", "wish.product"}, ref : Products]
  BY <1>1, <1>2 DEF Links
<1>4. ASSUME NEW r \in Customers \cup Products PROVE LinksTo(r) # {}
  <2>1. CASE r \in Customers
    <3>1. [table |-> "review.customer", ref |-> r] \in LinksTo(r)
      BY <1>3, <2>1 DEF LinksTo
    <3>2. QED
      BY <3>1
  <2>2. CASE r \in Products
    <3>1. [table |-> "review.product", ref |-> r] \in LinksTo(r)
      BY <1>3, <2>2 DEF LinksTo
    <3>2. QED
      BY <3>1
  <2>3. QED
    BY <2>1, <2>2
<1>5. QED
  BY <1>3, <1>4

\* A deletion goes on to drain its schema.
LEMMA DeletesFill ==
  ASSUME JobTypes, NEW w \in Workers, NEW r \in Customers \cup Products, Deletes(w, r)
  PROVE  Quiet(w) /\ JobFilled(w)'
<1>1. PICK n \in 1..MaxDeletions :
        job' = [job EXCEPT ![w] = [Idle EXCEPT !.at = "list",
                                               !.item = <<CHOOSE l \in LinksTo(r) : TRUE, n>>]]
  BY DEF Deletes
<1> DEFINE e == <<CHOOSE l \in LinksTo(r) : TRUE, n>>
           j == [Idle EXCEPT !.at = "list", !.item = e]
<1>2. e \in Events
  <2>1. (CHOOSE l \in LinksTo(r) : TRUE) \in LinksTo(r)
    BY LinkNames
  <2>2. LinksTo(r) \subseteq Links
    BY DEF LinksTo
  <2>3. QED
    BY <2>1, <2>2 DEF Events
<1>3. job' = [job EXCEPT ![w] = j]
  BY <1>1
<1> HIDE DEF e
<1>4. j.at = "list" /\ j.item = e /\ j.todo = {}
  BY DEF Idle
<1>5. j \in Job
  BY <1>2, JobRecords
<1> HIDE DEF j
<1>6. Alone(w) /\ job'[w] = j
  BY <1>3, <1>5, Setting DEF Processes
<1>7. QED
  BY <1>2, <1>4, <1>6 DEF Quiet, JobFilled, At, Handling

-----------------------------------------------------------------------------
(* Every step of a job is one of these.                                      *)

Lists(w) == /\ Alone(w) /\ job'[w].at = "lock"
            /\ \E schema \in {"identity", "catalog"} : job'[w].todo = Pending(schema)
Locks(w) == job[w].at = "lock" /\ \E e \in job[w].todo : Becomes(w, "apply", e)
Handles(w, at) == job[w].at = "apply" /\ Becomes(w, at, job[w].item)
StepOf(w) == Quiet(w) \/ Lists(w) \/ Locks(w) \/ (\E at \in {"applied", "failed"} : Handles(w, at))

LEMMA ListsPending ==
  ASSUME JobTypes, NEW w \in Processes, NEW schema \in {"identity", "catalog"},
         job' = [job EXCEPT ![w] = Listed(schema)]
  PROVE  Lists(w) /\ JobFilled(w)'
<1> DEFINE todo == Pending(schema)
           j == Draining(todo)
<1>1. todo \in SUBSET Events
  BY DEF Pending
<1>2. job' = [job EXCEPT ![w] = j]
  BY Zenon DEF Listed, Draining
<1> HIDE DEF todo
<1>3. j \in Job /\ j.at = "lock" /\ j.todo = todo
  BY <1>1, DrainRecords
<1> HIDE DEF j
<1>4. Alone(w) /\ job'[w] = j
  BY <1>2, <1>3, Setting
<1>5. QED
  BY <1>3, <1>4 DEF Lists, JobFilled, At, Handling, todo

LEMMA SkipsFills ==
  ASSUME JobTypes, NEW w \in Processes, NEW e, Skips(w, e)
  PROVE  Quiet(w) /\ JobFilled(w)'
BY Skipping DEF Quiet, JobFilled, At, Handling

LEMMA LocksFill ==
  ASSUME JobTypes, NEW w \in Processes, LockEvent(w)
  PROVE  (Quiet(w) \/ Locks(w)) /\ JobFilled(w)'
<1>1. job[w].todo \subseteq Events
  BY JobFields DEF JobTypes
<1>2. PICK e \in job[w].todo :
        Skips(w, e) \/ job' = [job EXCEPT ![w].at = "apply", ![w].item = e]
  BY DEF LockEvent, Oldest
<1>3. CASE Skips(w, e)
  BY <1>3, SkipsFills
<1>4. CASE job' = [job EXCEPT ![w].at = "apply", ![w].item = e]
  <2>1. e \in Events /\ e \in Items
    BY <1>1 DEF Items
  <2>2. Becomes(w, "apply", e)
    BY <1>4, <2>1, Reading, NamesOfSteps
  <2>3. Locks(w)
    BY <2>2 DEF Locks, LockEvent
  <2>4. JobFilled(w)'
    BY <2>1, <2>2 DEF Becomes, JobFilled, At, Handling
  <2>5. QED
    BY <2>3, <2>4
<1>5. QED
  BY <1>2, <1>3, <1>4

LEMMA HandlesFill ==
  ASSUME JobTypes, NEW w \in Processes, JobFilled(w), NEW at \in {"applied", "failed"},
         job[w].at = "apply", Goes(w, at)
  PROVE  Handles(w, at) /\ JobFilled(w)'
<1>1. Becomes(w, at, job[w].item)
  BY Going, NamesOfSteps
<1>2. job[w].item \in Events
  BY DEF JobFilled, At, Handling
<1>3. JobFilled(w)'
  BY <1>1, <1>2 DEF Becomes, JobFilled, At, Handling
<1>4. QED
  BY <1>1, <1>3 DEF Handles

\* Together: whatever happens, jobs stay filled, and at most one process moves.
LEMMA JobsMove ==
  ASSUME DataTypeOK, JobsFilled, [DataNext]_dataVars
  PROVE  UNCHANGED job \/ (\E w \in Processes : StepOf(w) /\ JobFilled(w)')
<1> DEFINE Goal == UNCHANGED job \/ (\E w \in Processes : StepOf(w) /\ JobFilled(w)')
<1>1. JobTypes /\ account \in [Customers -> Row \cup {Gone}] /\ products \subseteq Products
  BY DEF DataTypeOK, JobTypes, Processes
<1>2. \A w \in Processes : JobFilled(w)
  BY DEF JobsFilled, Processes
<1>3. DOMAIN job = Processes /\ Workers \subseteq Processes /\ Scheduler \in Processes
  BY <1>1 DEF JobTypes, Processes
<1>4. ASSUME NEW w \in Processes, Quiet(w), JobFilled(w)' PROVE Goal
  BY <1>4 DEF StepOf
<1>5. ASSUME NEW w \in Workers, NEW c \in Customers, LoadsAccount(w, c) PROVE Goal
  BY <1>1, <1>3, <1>4, <1>5, LoadsFill
<1>6. ASSUME NEW w \in Workers, NEW o \in Orders, NotifyReads(w, o) PROVE Goal
  BY <1>1, <1>3, <1>4, <1>6, NotifyFills
<1>7. ASSUME NEW w \in Workers, PostForm(w) PROVE Goal
  BY <1>1, <1>2, <1>3, <1>4, <1>7, PostFills
<1>8. ASSUME NEW w \in Workers, SaveAccount(w) PROVE Goal
  BY <1>1, <1>3, <1>4, <1>8, EndingFills DEF SaveAccount
<1>9. ASSUME NEW w \in Workers, ShopSteps(w) PROVE Goal
  BY <1>1, <1>2, <1>3, <1>4, <1>9, ShopFills
<1>10. ASSUME NEW w \in Workers, NEW c \in Customers, DeleteAccount(w, c) PROVE Goal
  BY <1>1, <1>3, <1>4, <1>10, DeletesFill DEF DeleteAccount
<1>11. ASSUME NEW w \in Workers, NEW p \in Products, DeleteProduct(w, p) PROVE Goal
  BY <1>1, <1>3, <1>4, <1>11, DeletesFill DEF DeleteProduct
<1>12. ASSUME NEW cp \in DOMAIN review, ModerateReview(cp) PROVE Goal
  BY <1>12 DEF ModerateReview
<1>13. ASSUME NEW w \in Workers, ListEvents(w) PROVE Goal
  BY <1>1, <1>3, <1>13, ListsPending DEF ListEvents, Schema, StepOf
<1>14. ASSUME NEW schema \in {"identity", "catalog"}, SchedulerDrains(schema) PROVE Goal
  BY <1>1, <1>3, <1>14, ListsPending DEF SchedulerDrains, StepOf
<1>15. ASSUME NEW w \in Processes, LockEvent(w) PROVE Goal
  BY <1>1, <1>15, LocksFill DEF StepOf
<1>16. ASSUME NEW w \in Processes, ApplyCleanup(w) PROVE Goal
  BY <1>1, <1>2, <1>16, HandlesFill DEF ApplyCleanup, StepOf
<1>17. ASSUME NEW w \in Processes, CleanupFails(w) PROVE Goal
  BY <1>1, <1>2, <1>17, HandlesFill DEF CleanupFails, StepOf
<1>18. ASSUME NEW w \in Processes, MarkEvent(w) PROVE Goal
  BY <1>1, <1>4, <1>18, SkipsFills DEF MarkEvent
<1>19. ASSUME NEW w \in Processes, Crash(w) PROVE Goal
  BY <1>1, <1>4, <1>19, EndingFills DEF Crash
<1>20. CASE UNCHANGED dataVars
  BY <1>20 DEF dataVars
<1>21. QED
  BY <1>3, <1>5, <1>6, <1>7, <1>8, <1>9, <1>10, <1>11, <1>12, <1>13, <1>14, <1>15, <1>16, <1>17,
     <1>18, <1>19, <1>20 DEF DataNext

LEMMA JobsInductive ==
  ASSUME DataTypeOK, JobsFilled, [DataNext]_dataVars
  PROVE  JobTypes' /\ JobsFilled'
<1>1. CASE UNCHANGED job
  BY <1>1 DEF DataTypeOK, JobTypes, JobsFilled, JobFilled, At, Processes
<1>2. ASSUME NEW w \in Processes, StepOf(w), JobFilled(w)' PROVE JobTypes' /\ JobsFilled'
  <2>1. Alone(w)
    BY <1>2 DEF StepOf, Quiet, Lists, Locks, Handles, Becomes
  <2>2. QED
    BY <1>2, <2>1, OthersFilled DEF Alone
<1>3. QED
  BY <1>1, <1>2, JobsMove

-----------------------------------------------------------------------------
(* The rows keep their types, and the wishlist its foreign key.               *)

AccountTypes ==
  /\ account \in [Customers -> Row \cup {Gone}]
  /\ wishlist \subseteq {c \in Customers : account[c] # Gone} \X Products
ProductTypes == products \subseteq Products /\ Bought \subseteq products
ReferringTypes ==
  /\ buyer \in [Orders -> Customers \cup {"none", "guest"}]
  /\ review \in [Customers \X Bought -> {"none", "pending", "approved", "rejected"}]
  /\ phone \in [Phones -> Customers \cup {"none"}]
  /\ notice \in [Orders -> Customers \cup {"none"}]
EventTypes == event \in [Events -> {"none", "pending", "completed"}]
BoundTypes == requests \in 0..MaxRequests /\ faults \in 0..MaxFaults

LEMMA TypesSplit ==
  /\ DataTypeOK <=> AccountTypes /\ ProductTypes /\ ReferringTypes /\ EventTypes /\ JobTypes
                      /\ BoundTypes
  /\ DataTypeOK' <=> AccountTypes' /\ ProductTypes' /\ ReferringTypes' /\ EventTypes' /\ JobTypes'
                       /\ BoundTypes'
BY DEF DataTypeOK, AccountTypes, ProductTypes, ReferringTypes, EventTypes, JobTypes, BoundTypes,
       Processes

\* A save writes a row, over one that was there or in its place.
SavesRow(w) ==
  /\ job[w].who \in Customers /\ account' \in [Customers -> Row \cup {Gone}]
  /\ \A c \in Customers : c # job[w].who => account'[c] = account[c]
  /\ account[job[w].who] # Gone => account'[job[w].who] # Gone

LEMMA SaveWrites ==
  ASSUME JobTypes, AccountTypes, NEW w \in Workers, JobFilled(w), SaveAccount(w)
  PROVE  SavesRow(w)
<1> DEFINE c == job[w].who
           merged == [k \in Columns |-> IF k \in job[w].fields THEN job[w].copy[k] ELSE account[c][k]]
<1>1. c \in Customers /\ job[w].copy \in Row
  BY JobFields DEF JobTypes, Processes, SaveAccount, JobFilled, At
<1>2. Gone \notin Row
  BY DataAssumption
<1>3. CASE account[c] = Gone
  BY <1>1, <1>3 DEF SaveAccount, SavesRow, AccountTypes
<1>4. CASE account[c] # Gone
  <2>1. account[c] \in Row
    BY <1>1, <1>4 DEF AccountTypes
  <2>2. merged \in Row
    BY <1>1, <2>1 DEF Row
  <2>3. account' = [account EXCEPT ![c] = merged]
    BY <1>4 DEF SaveAccount
  <2> HIDE DEF merged
  <2>4. QED
    BY <1>1, <1>2, <2>2, <2>3 DEF SavesRow, AccountTypes
<1>5. QED
  BY <1>3, <1>4

LEMMA ShopTypes ==
  ASSUME AccountTypes, ProductTypes, ReferringTypes, NEW w \in Workers, JobFilled(w),
         ShopSteps(w), UNCHANGED account
  PROVE  AccountTypes' /\ ReferringTypes'
<1>1. At(w, {"user", "toggle", "found", "review", "notify"}) => job[w].who \in Customers
  BY DEF JobFilled, At
<1>2. CASE \E o \in Orders : PlaceOrder(w, o)
  BY <1>1, <1>2 DEF PlaceOrder, At, AccountTypes, ReferringTypes
<1>3. CASE \E d \in Phones : RegisterDevice(w, d)
  BY <1>1, <1>3 DEF RegisterDevice, At, AccountTypes, ReferringTypes
<1>4. CASE ReadProduct(w) \/ ReadPurchase(w) \/ Refused(w)
  BY <1>4 DEF ReadProduct, ReadPurchase, Refused, rows, AccountTypes, ReferringTypes
<1>5. CASE ToggleWishlist(w)
  <2>1. job[w].who \in Customers /\ job[w].item \in Products
    BY <1>5 DEF ToggleWishlist, JobFilled, At
  <2>2. wishlist' = wishlist \/ (account[job[w].who] # Gone /\ wishlist' = wishlist \cup {<<job[w].who, job[w].item>>})
    BY <1>5 DEF ToggleWishlist, Inserts
  <2>3. AccountTypes'
    BY <2>1, <2>2 DEF AccountTypes
  <2>4. QED
    BY <1>5, <2>3 DEF ToggleWishlist, ReferringTypes
<1>6. CASE RemoveWish(w)
  BY <1>6 DEF RemoveWish, AccountTypes, ReferringTypes
<1>7. CASE SubmitReview(w)
  <2>1. job[w].who \in Customers /\ job[w].item \in Bought
    BY <1>7 DEF SubmitReview, JobFilled, At
  <2>2. QED
    BY <1>7, <2>1 DEF SubmitReview, AccountTypes, ReferringTypes
<1>8. CASE NotifyCustomer(w)
  <2>1. job[w].who \in Customers /\ job[w].item \in Orders
    BY <1>8 DEF NotifyCustomer, JobFilled, At
  <2>2. QED
    BY <1>8, <2>1 DEF NotifyCustomer, AccountTypes, ReferringTypes
<1>9. QED
  BY <1>2, <1>3, <1>4, <1>5, <1>6, <1>7, <1>8 DEF ShopSteps

LEMMA CleanupTypes ==
  ASSUME AccountTypes, ReferringTypes, NEW w \in Processes, ApplyCleanup(w), UNCHANGED account
  PROVE  AccountTypes' /\ ReferringTypes'
<1>1. AccountTypes'
  BY DEF ApplyCleanup, AccountTypes
<1>2. /\ buyer' \in [Orders -> Customers \cup {"none", "guest"}]
      /\ phone' \in [Phones -> Customers \cup {"none"}]
      /\ notice' \in [Orders -> Customers \cup {"none"}]
  BY DEF ApplyCleanup, ReferringTypes
<1>3. review' \in [Customers \X Bought -> {"none", "pending", "approved", "rejected"}]
  BY DEF ApplyCleanup, ReferringTypes
<1>4. QED
  BY <1>1, <1>2, <1>3 DEF ReferringTypes

LEMMA DeletionTypes ==
  ASSUME EventTypes, NEW w \in Workers, NEW r, Deletes(w, r)
  PROVE  EventTypes'
BY DEF EventTypes, Deletes

LEMMA RowTypesInductive ==
  ASSUME DataTypeOK, JobsFilled, [DataNext]_dataVars
  PROVE  AccountTypes' /\ ProductTypes' /\ ReferringTypes' /\ EventTypes' /\ BoundTypes'
<1> DEFINE Goal == AccountTypes' /\ ProductTypes' /\ ReferringTypes' /\ EventTypes' /\ BoundTypes'
<1>1. AccountTypes /\ ProductTypes /\ ReferringTypes /\ EventTypes /\ JobTypes /\ BoundTypes
  BY TypesSplit
<1>2. \A w \in Processes : JobFilled(w)
  BY DEF JobsFilled, Processes
<1>3. DOMAIN job = Processes /\ Workers \subseteq Processes /\ DOMAIN review = Customers \X Bought
  BY <1>1 DEF JobTypes, ReferringTypes, Processes
<1>4. ASSUME UNCHANGED <<account, products, rows, event, bounds>> PROVE Goal
  BY <1>1, <1>4 DEF rows, bounds, AccountTypes, ProductTypes, ReferringTypes, EventTypes, BoundTypes
<1>5. ASSUME UNCHANGED <<account, products, rows, event>>, NEW w, NEW j, Starts(w, j) PROVE Goal
  BY <1>1, <1>5, DataAssumption
     DEF Starts, rows, AccountTypes, ProductTypes, ReferringTypes, EventTypes, BoundTypes
<1>6. ASSUME UNCHANGED <<account, products, rows, event>>, NEW w \in Workers, NEW c \in Customers,
             LoadsAccount(w, c)
      PROVE  Goal
  BY <1>5, <1>6 DEF LoadsAccount, ProfileView, ProfilePatch, PasswordReset, SuspendOrActivate,
                    ConsolePasswordChange, CreateConsoleAccount, OpenForm, Shop
<1>7. ASSUME UNCHANGED <<account, products, rows, event>>, NEW w \in Workers, NEW o \in Orders,
             NotifyReads(w, o)
      PROVE  Goal
  BY <1>5, <1>7 DEF NotifyReads
<1>8. ASSUME UNCHANGED <<products, rows, event, bounds>>, NEW w \in Workers, SaveAccount(w)
      PROVE  Goal
  <2>1. SavesRow(w)
    BY <1>1, <1>2, <1>3, <1>8, SaveWrites
  <2>2. \A c \in Customers : account[c] # Gone => account'[c] # Gone
    BY <2>1 DEF SavesRow
  <2>3. AccountTypes'
    BY <1>1, <1>8, <2>1, <2>2 DEF SavesRow, AccountTypes, rows
  <2>4. QED
    BY <1>1, <1>8, <2>3 DEF rows, bounds, ProductTypes, ReferringTypes, EventTypes, BoundTypes
<1>9. ASSUME UNCHANGED <<account, products, event, bounds>>, NEW w \in Workers, ShopSteps(w)
      PROVE  Goal
  <2>1. AccountTypes' /\ ReferringTypes'
    BY <1>1, <1>2, <1>3, <1>9, ShopTypes
  <2>2. QED
    BY <1>1, <1>9, <2>1 DEF bounds, ProductTypes, EventTypes, BoundTypes
<1>10. ASSUME UNCHANGED <<wishlist, buyer, review, phone, notice, bounds>>, NEW w \in Workers,
              NEW c \in Customers, DeleteAccount(w, c)
       PROVE  Goal
  <2>1. AccountTypes'
    BY <1>1, <1>10 DEF DeleteAccount, AccountTypes
  <2>2. EventTypes'
    BY <1>1, <1>10, DeletionTypes DEF DeleteAccount
  <2>3. QED
    BY <1>1, <1>10, <2>1, <2>2 DEF DeleteAccount, bounds, ProductTypes, ReferringTypes, BoundTypes
<1>11. ASSUME UNCHANGED <<wishlist, buyer, review, phone, notice, bounds>>, NEW w \in Workers,
              NEW p \in Products, DeleteProduct(w, p)
       PROVE  Goal
  <2>1. ProductTypes'
    BY <1>1, <1>11 DEF DeleteProduct, ProductTypes
  <2>2. EventTypes'
    BY <1>1, <1>11, DeletionTypes DEF DeleteProduct
  <2>3. QED
    BY <1>1, <1>11, <2>1, <2>2 DEF DeleteProduct, bounds, AccountTypes, ReferringTypes, BoundTypes
<1>12. ASSUME UNCHANGED <<account, products, event, bounds>>, NEW cp \in DOMAIN review,
              ModerateReview(cp)
       PROVE  Goal
  <2>1. ReferringTypes'
    BY <1>1, <1>3, <1>12 DEF ModerateReview, ReferringTypes
  <2>2. QED
    BY <1>1, <1>12, <2>1 DEF ModerateReview, bounds, AccountTypes, ProductTypes, EventTypes, BoundTypes
<1>13. ASSUME UNCHANGED <<account, products, event, bounds>>, NEW w \in Processes, ApplyCleanup(w)
       PROVE  Goal
  <2>1. AccountTypes' /\ ReferringTypes'
    BY <1>1, <1>13, CleanupTypes
  <2>2. QED
    BY <1>1, <1>13, <2>1 DEF bounds, ProductTypes, EventTypes, BoundTypes
<1>14. ASSUME UNCHANGED <<account, products, rows, bounds>>, NEW w \in Processes, MarkEvent(w)
       PROVE  Goal
  <2>1. Outcome(job[w].at) \in {"completed", "pending"}
    BY DEF Outcome
  <2>2. EventTypes'
    BY <1>1, <1>14, <2>1 DEF MarkEvent, EventTypes
  <2>3. QED
    BY <1>1, <1>14, <2>2 DEF rows, bounds, AccountTypes, ProductTypes, ReferringTypes, BoundTypes
<1>15. ASSUME UNCHANGED <<account, products, rows, event>>, NEW w \in Processes,
              CleanupFails(w) \/ Crash(w)
       PROVE  Goal
  BY <1>1, <1>15, DataAssumption DEF CleanupFails, Crash, rows, AccountTypes, ProductTypes,
     ReferringTypes, EventTypes, BoundTypes
<1>16. CASE UNCHANGED dataVars
  BY <1>4, <1>16 DEF dataVars
<1>17. QED
  BY <1>3, <1>4, <1>6, <1>7, <1>8, <1>9, <1>10, <1>11, <1>12, <1>13, <1>14, <1>15, <1>16 DEF DataNext

LEMMA TypesAtStart == DataInit => TypesInv
<1> SUFFICES ASSUME DataInit PROVE DataTypeOK /\ JobsFilled
  BY DEF TypesInv
<1>1. Idle \in Job /\ Shopper \in Row /\ Idle.at = "idle"
  BY JobRecords DEF Idle
<1>2. DataTypeOK
  BY <1>1, DataAssumption DEF DataInit, DataTypeOK
<1>3. JobsFilled
  BY <1>1 DEF DataInit, JobsFilled, JobFilled, At, Handling
<1>4. QED
  BY <1>2, <1>3

LEMMA TypesInductive == TypesInv /\ [DataNext]_dataVars => TypesInv'
<1> SUFFICES ASSUME TypesInv, [DataNext]_dataVars PROVE TypesInv'
  OBVIOUS
<1>1. JobTypes' /\ JobsFilled'
  BY JobsInductive DEF TypesInv
<1>2. AccountTypes' /\ ProductTypes' /\ ReferringTypes' /\ EventTypes' /\ BoundTypes'
  BY RowTypesInductive DEF TypesInv
<1>3. QED
  BY <1>1, <1>2, TypesSplit DEF TypesInv

LEMMA TypesHold == DataSpec => []TypesInv
BY TypesAtStart, TypesInductive, PTL DEF DataSpec

\* Every row and every job keeps its type, whatever copies of them requests have;
\* a wishlist row always has its account, although the rows of the other schemas
\* may not.
THEOREM DataTypeCorrect == DataSpec => []DataTypeOK
<1>1. TypesInv => DataTypeOK
  BY DEF TypesInv
<1>2. QED
  BY <1>1, TypesHold, PTL

-----------------------------------------------------------------------------
(* The rows that refer to an object, and the cleanup owed to it               *)

\* Row x refers, through link l, to its object, when the tables hold these rows.
Refers(x, l, wishes, buyers, reviews, phones, notices) ==
  \/ /\ l.table = "review.customer"
     /\ \E cp \in DOMAIN reviews : reviews[cp] # "none" /\ cp[1] = l.ref /\ x = <<"review", cp>>
  \/ /\ l.table = "review.product"
     /\ \E cp \in DOMAIN reviews : reviews[cp] # "none" /\ cp[2] = l.ref /\ x = <<"review", cp>>
  \/ l.table = "wish.product" /\ \E cp \in wishes : cp[2] = l.ref /\ x = <<"wish", cp>>
  \/ l.table = "token.customer" /\ \E d \in Phones : phones[d] = l.ref /\ x = <<"token", d>>
  \/ l.table = "notice.customer" /\ \E o \in Orders : notices[o] = l.ref /\ x = <<"notice", o>>
  \/ l.table = "order.customer" /\ \E o \in Orders : buyers[o] = l.ref /\ x = <<"order", o>>

LEMMA RowsRefer ==
  ASSUME NEW l \in Links
  PROVE  /\ \A x : x \in Rows(l) <=> Refers(x, l, wishlist, buyer, review, phone, notice)
         /\ \A x : x \in Rows(l)' <=> Refers(x, l, wishlist', buyer', review', phone', notice')
<1>1. l.table \in {"review.customer", "review.product", "wish.product", "token.customer",
                   "notice.customer", "order.customer"}
  BY LinkNames
<1>2. CASE l.table = "review.customer"
  BY <1>2 DEF Rows, Refers
<1>3. CASE l.table = "review.product"
  BY <1>3 DEF Rows, Refers
<1>4. CASE l.table = "wish.product"
  BY <1>4 DEF Rows, Refers
<1>5. CASE l.table = "token.customer"
  BY <1>5 DEF Rows, Refers
<1>6. CASE l.table = "notice.customer"
  BY <1>6 DEF Rows, Refers
<1>7. CASE l.table = "order.customer"
  BY <1>7 DEF Rows, Refers
<1>8. QED
  BY <1>1, <1>2, <1>3, <1>4, <1>5, <1>6, <1>7

\* A row that two objects share is a review, and its product was bought.
LEMMA SharedRow ==
  ASSUME ReferringTypes, NEW l \in Links, NEW m \in Links, NEW x, x \in Rows(l), x \in Rows(m)
  PROVE  l.ref = m.ref \/ l.ref \in Bought \/ m.ref \in Bought
<1>1. DOMAIN review = Customers \X Bought
  BY DEF ReferringTypes
<1>2. /\ Refers(x, l, wishlist, buyer, review, phone, notice)
      /\ Refers(x, m, wishlist, buyer, review, phone, notice)
  BY RowsRefer
<1>3. QED
  BY <1>1, <1>2 DEF Refers

Orphaned(l) == ~Exists(l.ref) /\ ~(Rows(l) \subseteq late)

\* An event is still to be carried out: it is pending, and nobody who has
\* carried it out is about to mark it.
Owes(l, n) ==
  /\ event[<<l, n>>] = "pending"
  /\ \A w \in Processes : ~(At(w, {"applied"}) /\ job[w].item = <<l, n>>)

\* The links of what was left behind
Owed(l) == Orphaned(l) => \E n \in 1..MaxDeletions : Owes(l, n)
CleanupOwed == \A l \in Links : Owed(l)

\* A drain has only read events that were recorded.
EventKnown(w) ==
  /\ At(w, Handling) => event[job[w].item] # "none"
  /\ \A e \in job[w].todo : event[e] # "none"
EventsKnown == \A w \in Processes : EventKnown(w)

CleanupInv == TypesInv /\ EventsKnown /\ CleanupOwed

\* An event stays recorded.
EventsStay == \A e \in Events : event[e] # "none" => event'[e] # "none"

LEMMA StepKeepsEvents == EventTypes /\ [DataNext]_dataVars => EventsStay
<1> SUFFICES ASSUME EventTypes, [DataNext]_dataVars PROVE EventsStay
  OBVIOUS
<1>1. UNCHANGED event => EventsStay
  BY DEF EventsStay
<1>2. ASSUME NEW w, NEW r, Deletes(w, r) PROVE EventsStay
  BY <1>2 DEF Deletes, EventsStay
<1>3. ASSUME NEW w, MarkEvent(w) PROVE EventsStay
  <2>1. Outcome(job[w].at) # "none"
    BY DEF Outcome
  <2>2. event' = [event EXCEPT ![job[w].item] = Outcome(job[w].at)]
    BY <1>3 DEF MarkEvent
  <2>3. QED
    BY <2>1, <2>2 DEF EventTypes, EventsStay
<1>4. QED
  BY <1>1, <1>2, <1>3 DEF DataNext, DeleteAccount, DeleteProduct, dataVars

LEMMA EventsKnownInductive ==
  ASSUME TypesInv, EventsKnown, [DataNext]_dataVars
  PROVE  EventsKnown'
<1>1. EventTypes /\ JobTypes /\ DataTypeOK /\ JobsFilled
  BY TypesSplit DEF TypesInv
<1>2. EventsStay
  BY <1>1, StepKeepsEvents
<1>3. \A w \in Processes : job[w].todo \subseteq Events /\ (At(w, Handling) => job[w].item \in Events)
  BY <1>1, JobFields DEF JobTypes, JobsFilled, JobFilled, Processes, At
<1>4. \A w \in Processes : job'[w] = job[w] => EventKnown(w)'
  BY <1>2, <1>3 DEF EventsStay, EventsKnown, EventKnown, At
<1>5. ASSUME NEW w \in Processes, StepOf(w) PROVE EventKnown(w)'
  <2>1. CASE Quiet(w)
    BY <1>2, <1>3, <2>1 DEF Quiet, EventsStay, EventsKnown, EventKnown
  <2>2. CASE Lists(w)
    <3>1. ~At(w, Handling)'
      BY <2>2 DEF Lists, At, Handling
    <3>2. \A e \in job'[w].todo : e \in Events /\ event[e] = "pending"
      BY <2>2 DEF Lists, Pending
    <3>3. QED
      BY <1>2, <3>1, <3>2 DEF EventsStay, EventKnown
  <2>3. CASE Locks(w)
    BY <1>2, <1>3, <2>3 DEF Locks, Becomes, EventsStay, EventsKnown, EventKnown
  <2>4. CASE \E at \in {"applied", "failed"} : Handles(w, at)
    <3>1. At(w, Handling) /\ job'[w].item = job[w].item /\ job'[w].todo = job[w].todo
      BY <2>4 DEF Handles, Becomes, At, Handling
    <3>2. QED
      BY <1>2, <1>3, <3>1 DEF EventsStay, EventsKnown, EventKnown
  <2>5. QED
    BY <1>5, <2>1, <2>2, <2>3, <2>4 DEF StepOf
<1>6. CASE UNCHANGED job
  BY <1>4, <1>6 DEF EventsKnown
<1>7. ASSUME NEW w \in Processes, StepOf(w) PROVE EventsKnown'
  <2>1. Alone(w)
    BY <1>7 DEF StepOf, Quiet, Lists, Locks, Handles, Becomes
  <2>2. QED
    BY <1>4, <1>5, <1>7, <2>1 DEF Alone, EventsKnown
<1>8. QED
  BY <1>1, <1>6, <1>7, JobsMove

\* An event goes on being owed while it is pending and nobody carries it out.
LEMMA OwesStays ==
  ASSUME JobTypes, NEW l \in Links, NEW n \in 1..MaxDeletions, Owes(l, n),
         event'[<<l, n>>] = "pending", NEW w \in Processes, Alone(w),
         At(w, {"applied"})' => job'[w].item # <<l, n>>
  PROVE  Owes(l, n)'
BY DEF Owes, Alone, At

\* So does what is owed, when nothing more is left behind.
LEMMA OwedStays ==
  ASSUME JobTypes, NEW l \in Links, Owed(l), Orphaned(l)' => Orphaned(l),
         \A n \in 1..MaxDeletions : Owes(l, n) => event'[<<l, n>>] = "pending",
         UNCHANGED job \/ \E w \in Processes :
           Alone(w) /\ \A n \in 1..MaxDeletions :
             Owes(l, n) /\ At(w, {"applied"})' => job'[w].item # <<l, n>>
  PROVE  Owed(l)'
<1> SUFFICES ASSUME Orphaned(l)' PROVE \E n \in 1..MaxDeletions : Owes(l, n)'
  BY DEF Owed
<1>1. PICK n \in 1..MaxDeletions : Owes(l, n)
  BY DEF Owed
<1>2. CASE UNCHANGED job
  BY <1>1, <1>2 DEF Owes, At
<1>3. CASE \E w \in Processes : Alone(w) /\ (At(w, {"applied"})' => job'[w].item # <<l, n>>)
  BY <1>1, <1>3, OwesStays
<1>4. QED
  BY <1>1, <1>2, <1>3

\* A row that is written when an object it refers to is gone is late.
LEMMA WritesLate ==
  ASSUME NEW row, NEW refs, Writes(row, refs), UNCHANGED <<account, products>>, NEW l \in Links,
         \A x : x \in Rows(l)' => x \in Rows(l) \/ x = row,
         row \in Rows(l)' => l.ref \in refs
  PROVE  Orphaned(l)' => Orphaned(l)
<1> SUFFICES ASSUME Orphaned(l)' PROVE Orphaned(l)
  OBVIOUS
<1>1. ~Exists(l.ref)
  BY DEF Orphaned, Exists
<1>2. PICK x : x \in Rows(l)' /\ x \notin late'
  BY DEF Orphaned
<1>3. x # row
  BY <1>1, <1>2 DEF Writes
<1>4. x \in Rows(l) /\ x \notin late
  BY <1>2, <1>3 DEF Writes
<1>5. QED
  BY <1>1, <1>4 DEF Orphaned

LEMMA ShopLeavesNone ==
  ASSUME TypesInv, NEW w \in Workers, ShopSteps(w), UNCHANGED <<account, products>>,
         NEW l \in Links
  PROVE  Orphaned(l)' => Orphaned(l)
<1>1. JobFilled(w) /\ ReferringTypes
  BY TypesSplit DEF TypesInv, JobsFilled
<1>2. /\ \A x : x \in Rows(l) <=> Refers(x, l, wishlist, buyer, review, phone, notice)
      /\ \A x : x \in Rows(l)' <=> Refers(x, l, wishlist', buyer', review', phone', notice')
  BY RowsRefer
<1>3. ASSUME UNCHANGED rows PROVE Orphaned(l)' => Orphaned(l)
  BY <1>3 DEF rows, Orphaned, Exists, Rows
<1>4. ASSUME NEW o \in Orders, PlaceOrder(w, o) PROVE Orphaned(l)' => Orphaned(l)
  <2>1. /\ buyer' = [buyer EXCEPT ![o] = job[w].who] /\ Writes(<<"order", o>>, {job[w].who})
        /\ UNCHANGED <<wishlist, review, phone, notice>>
    BY <1>4 DEF PlaceOrder
  <2>2. \A x : x \in Rows(l)' => x \in Rows(l) \/ x = <<"order", o>>
    BY <1>1, <1>2, <2>1 DEF Refers, ReferringTypes
  <2>3. <<"order", o>> \in Rows(l)' => l.ref \in {job[w].who}
    BY <1>1, <1>2, <2>1 DEF Refers, ReferringTypes
  <2>4. QED
    BY <2>1, <2>2, <2>3, WritesLate
<1>5. ASSUME NEW d \in Phones, RegisterDevice(w, d) PROVE Orphaned(l)' => Orphaned(l)
  <2>1. /\ phone' = [phone EXCEPT ![d] = job[w].who] /\ Writes(<<"token", d>>, {job[w].who})
        /\ UNCHANGED <<wishlist, review, buyer, notice>>
    BY <1>5 DEF RegisterDevice
  <2>2. \A x : x \in Rows(l)' => x \in Rows(l) \/ x = <<"token", d>>
    BY <1>1, <1>2, <2>1 DEF Refers, ReferringTypes
  <2>3. <<"token", d>> \in Rows(l)' => l.ref \in {job[w].who}
    BY <1>1, <1>2, <2>1 DEF Refers, ReferringTypes
  <2>4. QED
    BY <2>1, <2>2, <2>3, WritesLate
<1>6. ASSUME NotifyCustomer(w) PROVE Orphaned(l)' => Orphaned(l)
  <2> DEFINE o == job[w].item
  <2>1. /\ notice' = [notice EXCEPT ![o] = job[w].who] /\ Writes(<<"notice", o>>, {job[w].who})
        /\ UNCHANGED <<wishlist, review, buyer, phone>> /\ o \in Orders
    BY <1>1, <1>6 DEF NotifyCustomer, JobFilled, At
  <2> HIDE DEF o
  <2>2. \A x : x \in Rows(l)' => x \in Rows(l) \/ x = <<"notice", o>>
    BY <1>1, <1>2, <2>1 DEF Refers, ReferringTypes
  <2>3. <<"notice", o>> \in Rows(l)' => l.ref \in {job[w].who}
    BY <1>1, <1>2, <2>1 DEF Refers, ReferringTypes
  <2>4. QED
    BY <2>1, <2>2, <2>3, WritesLate
<1>7. ASSUME SubmitReview(w) PROVE Orphaned(l)' => Orphaned(l)
  <2> DEFINE cp == <<job[w].who, job[w].item>>
  <2>1. /\ review' = [review EXCEPT ![cp] = "pending"] /\ cp \in Customers \X Bought
        /\ Writes(<<"review", cp>>, {cp[1], cp[2]}) /\ UNCHANGED <<wishlist, buyer, phone, notice>>
    BY <1>1, <1>7 DEF SubmitReview, JobFilled, At
  <2> HIDE DEF cp
  <2>2. \A x : x \in Rows(l)' => x \in Rows(l) \/ x = <<"review", cp>>
    BY <1>1, <1>2, <2>1 DEF Refers, ReferringTypes
  <2>3. <<"review", cp>> \in Rows(l)' => l.ref \in {cp[1], cp[2]}
    BY <1>1, <1>2, <2>1 DEF Refers, ReferringTypes
  <2>4. QED
    BY <2>1, <2>2, <2>3, WritesLate
<1>8. ASSUME ToggleWishlist(w) PROVE Orphaned(l)' => Orphaned(l)
  <2> DEFINE cp == <<job[w].who, job[w].item>>
  <2>1. CASE wishlist' = wishlist /\ late' = late
    BY <1>3, <1>8, <2>1 DEF ToggleWishlist, rows
  <2>2. CASE wishlist' = wishlist \cup {cp} /\ Writes(<<"wish", cp>>, {cp[2]})
    <3>1. UNCHANGED <<buyer, review, phone, notice>>
      BY <1>8 DEF ToggleWishlist
    <3> HIDE DEF cp
    <3>2. \A x : x \in Rows(l)' => x \in Rows(l) \/ x = <<"wish", cp>>
      BY <1>2, <2>2, <3>1 DEF Refers
    <3>3. <<"wish", cp>> \in Rows(l)' => l.ref \in {cp[2]}
      BY <1>2, <2>2, <3>1 DEF Refers
    <3>4. QED
      BY <2>2, <3>2, <3>3, WritesLate
  <2>3. QED
    BY <1>8, <2>1, <2>2 DEF ToggleWishlist
<1>9. ASSUME RemoveWish(w) PROVE Orphaned(l)' => Orphaned(l)
  <2> DEFINE cp == <<job[w].who, job[w].item>>
  <2>1. /\ wishlist' = wishlist \ {cp} /\ late' = late \ {<<"wish", cp>>}
        /\ UNCHANGED <<buyer, review, phone, notice>>
    BY <1>9 DEF RemoveWish
  <2> HIDE DEF cp
  <2>2. \A x : x \in Rows(l)' => x \in Rows(l) /\ x # <<"wish", cp>>
    BY <1>2, <2>1 DEF Refers
  <2>3. QED
    BY <2>1, <2>2 DEF Orphaned, Exists
<1>10. QED
  BY <1>3, <1>4, <1>5, <1>6, <1>7, <1>8, <1>9 DEF ShopSteps, ReadProduct, ReadPurchase, Refused

\* A deletion records a cleanup of its own rows, and hides none of another's.
LEMMA DeletesOwe ==
  ASSUME CleanupInv, NEW w \in Workers, NEW r \in Customers \cup Products, r \notin Bought,
         Deletes(w, r), UNCHANGED <<wishlist, buyer, review, phone, notice>>,
         \A s : s # r => (Exists(s) <=> Exists(s)'), NEW l \in Links
  PROVE  Owed(l)'
<1>1. /\ JobTypes /\ ReferringTypes /\ ProductTypes /\ EventTypes /\ EventsKnown /\ Owed(l)
      /\ \A u \in Processes : At(u, {"applied"}) => job[u].item \in Events
  BY TypesSplit DEF CleanupInv, TypesInv, CleanupOwed, JobsFilled, JobFilled, At, Handling, Processes
<1>2. w \in Processes /\ Quiet(w)
  BY <1>1, DeletesFill DEF Processes
<1>3. PICK n \in 1..MaxDeletions :
        /\ \A m \in LinksTo(r) : event[<<m, n>>] = "none"
        /\ event' = [e \in Events |-> IF e[1] \in LinksTo(r) /\ e[2] = n THEN "pending" ELSE event[e]]
        /\ late' = late \ UNION {Rows(m) : m \in LinksTo(r)}
  BY DEF Deletes
<1>4. \A k \in 1..MaxDeletions : <<l, k>> \in Events
  BY DEF Events
<1>5. CASE l.ref = r
  <2>1. l \in LinksTo(r)
    BY <1>5 DEF LinksTo
  <2>2. event[<<l, n>>] = "none" /\ event'[<<l, n>>] = "pending"
    BY <1>3, <1>4, <2>1
  <2>3. ASSUME NEW u \in Processes, At(u, {"applied"})', job'[u].item = <<l, n>> PROVE FALSE
    <3>1. u # w
      BY <1>2, <2>3 DEF Quiet, At, Handling
    <3>2. job'[u] = job[u]
      BY <1>2, <3>1 DEF Quiet, Alone
    <3>3. At(u, Handling) /\ job[u].item = <<l, n>>
      BY <2>3, <3>2 DEF At, Handling
    <3>4. QED
      BY <1>1, <2>2, <3>3 DEF EventsKnown, EventKnown
  <2>4. Owes(l, n)'
    BY <2>2, <2>3 DEF Owes
  <2>5. QED
    BY <2>4 DEF Owed
<1>6. CASE l.ref # r
  <2>1. Rows(l)' = Rows(l) /\ (Exists(l.ref)' <=> Exists(l.ref))
    BY <1>6 DEF Rows
  <2>2. Orphaned(l)' => Orphaned(l)
    <3> SUFFICES ASSUME Orphaned(l)' PROVE Orphaned(l)
      OBVIOUS
    <3>1. ~Exists(l.ref)
      BY <2>1 DEF Orphaned
    <3>2. PICK x : x \in Rows(l) /\ x \notin late'
      BY <2>1 DEF Orphaned
    <3>3. ASSUME NEW m \in LinksTo(r), x \in Rows(m) PROVE FALSE
      <4>1. m \in Links /\ m.ref = r
        BY DEF LinksTo
      <4>2. l.ref \in Bought
        BY <1>1, <1>6, <3>2, <3>3, <4>1, SharedRow
      <4>3. Exists(l.ref)
        BY <1>1, <4>2, DataAssumption DEF ProductTypes, Exists
      <4>4. QED
        BY <3>1, <4>3
    <3>4. x \notin late
      BY <1>3, <3>2, <3>3
    <3>5. QED
      BY <3>1, <3>2, <3>4 DEF Orphaned
  <2>3. \A k \in 1..MaxDeletions : Owes(l, k) => event'[<<l, k>>] = "pending"
    BY <1>3, <1>4 DEF Owes
  <2>4. Alone(w) /\ ~At(w, {"applied"})'
    BY <1>2 DEF Quiet, At, Handling
  <2>5. QED
    BY <1>1, <1>2, <2>2, <2>3, <2>4, OwedStays
<1>7. QED
  BY <1>5, <1>6

\* A cleanup leaves nothing behind of its own rows, and forgets no other's.
LEMMA CleanupOwes ==
  ASSUME CleanupInv, NEW w \in Processes, ApplyCleanup(w),
         UNCHANGED <<account, products, event>>, NEW l \in Links
  PROVE  Owed(l)'
<1>1. JobTypes /\ ReferringTypes /\ JobFilled(w) /\ Owed(l)
  BY TypesSplit DEF CleanupInv, TypesInv, CleanupOwed, JobsFilled, Processes
<1> DEFINE e == job[w].item
           cleared == Rows(e[1])
<1>2. /\ job[w].at = "apply" /\ e \in Events
      /\ Becomes(w, "applied", e)
  BY <1>1, HandlesFill DEF ApplyCleanup, JobFilled, At, Handling, Handles
<1>3. e[1] \in Links
  BY <1>2 DEF Events
<1>4. /\ wishlist' = {cp \in wishlist : <<"wish", cp>> \notin cleared}
      /\ review' = [cp \in DOMAIN review |-> IF <<"review", cp>> \in cleared THEN "none" ELSE review[cp]]
      /\ phone' = [d \in Phones |-> IF <<"token", d>> \in cleared THEN "none" ELSE phone[d]]
      /\ notice' = [o \in Orders |-> IF <<"notice", o>> \in cleared THEN "none" ELSE notice[o]]
      /\ buyer' = [o \in Orders |-> IF <<"order", o>> \in cleared THEN "guest" ELSE buyer[o]]
      /\ late' = late \ cleared
  BY DEF ApplyCleanup
<1>5. l.ref \notin {"none", "guest"}  \/ l.table \in {"review.product", "wish.product"}
  BY LinkNames, DataAssumption
<1> HIDE DEF cleared
<1>6. \A x : x \in Rows(l)' => x \in Rows(l) /\ x \notin cleared
  <2>1. /\ \A x : x \in Rows(l) <=> Refers(x, l, wishlist, buyer, review, phone, notice)
        /\ \A x : x \in Rows(l)' <=> Refers(x, l, wishlist', buyer', review', phone', notice')
    BY RowsRefer
  <2>2. ASSUME NEW x, Refers(x, l, wishlist', buyer', review', phone', notice')
        PROVE  Refers(x, l, wishlist, buyer, review, phone, notice) /\ x \notin cleared
    <3>1. CASE l.table = "review.customer"
      BY <1>4, <2>2, <3>1 DEF Refers
    <3>2. CASE l.table = "review.product"
      BY <1>4, <2>2, <3>2 DEF Refers
    <3>3. CASE l.table = "wish.product"
      BY <1>4, <2>2, <3>3 DEF Refers
    <3>4. CASE l.table = "token.customer"
      BY <1>4, <1>5, <2>2, <3>4 DEF Refers
    <3>5. CASE l.table = "notice.customer"
      BY <1>4, <1>5, <2>2, <3>5 DEF Refers
    <3>6. CASE l.table = "order.customer"
      BY <1>4, <1>5, <2>2, <3>6 DEF Refers
    <3>7. QED
      BY <3>1, <3>2, <3>3, <3>4, <3>5, <3>6, <2>2 DEF Refers
  <2>3. QED
    BY <2>1, <2>2
<1>7. Orphaned(l)' => Orphaned(l)
  BY <1>4, <1>6 DEF Orphaned, Exists
<1>8. CASE l = e[1]
  <2>1. Rows(l)' = {}
    BY <1>6, <1>8 DEF cleared
  <2>2. QED
    BY <2>1 DEF Owed, Orphaned
<1>9. CASE l # e[1]
  <2>1. \A n \in 1..MaxDeletions : <<l, n>> # e
    BY <1>9
  <2>2. Alone(w) /\ job'[w].item = e
    BY <1>2 DEF Becomes
  <2>3. \A n \in 1..MaxDeletions : Owes(l, n) => event'[<<l, n>>] = "pending"
    BY DEF Owes
  <2> HIDE DEF e
  <2>4. QED
    BY <1>1, <1>7, <2>1, <2>2, <2>3, OwedStays
<1>10. QED
  BY <1>8, <1>9

\* An event that is closed was carried out, so it is not what is owed.
LEMMA MarksOwe ==
  ASSUME CleanupInv, NEW w \in Processes, MarkEvent(w), UNCHANGED <<account, products, rows>>,
         NEW l \in Links
  PROVE  Owed(l)'
<1>1. JobTypes /\ EventTypes /\ Owed(l)
  BY TypesSplit DEF CleanupInv, TypesInv, CleanupOwed
<1>2. Quiet(w)
  BY <1>1, SkipsFills DEF MarkEvent
<1>3. Alone(w) /\ ~At(w, {"applied"})'
  BY <1>2 DEF Quiet, At, Handling
<1>4. Orphaned(l)' => Orphaned(l)
  BY DEF Orphaned, Exists, Rows, rows
<1>5. ASSUME NEW n \in 1..MaxDeletions, Owes(l, n) PROVE event'[<<l, n>>] = "pending"
  <2>1. <<l, n>> \in Events
    BY DEF Events
  <2>2. job[w].at = "applied" => job[w].item # <<l, n>>
    BY <1>5 DEF Owes, At
  <2>3. job[w].at # "applied" => Outcome(job[w].at) = "pending"
    BY DEF Outcome
  <2>4. QED
    BY <1>1, <1>5, <2>1, <2>2, <2>3 DEF MarkEvent, Owes, EventTypes
<1>6. QED
  BY <1>1, <1>3, <1>4, <1>5, OwedStays

\* The other steps of a job leave the rows and events alone, and nobody goes.
LEMMA QuietOwes ==
  ASSUME CleanupInv, UNCHANGED <<rows, event>>, \A r : Exists(r) => Exists(r)',
         UNCHANGED job \/ (\E w \in Processes : Alone(w) /\ ~At(w, {"applied"})'),
         NEW l \in Links
  PROVE  Owed(l)'
<1>1. JobTypes /\ Owed(l)
  BY TypesSplit DEF CleanupInv, TypesInv, CleanupOwed
<1>2. Orphaned(l)' => Orphaned(l)
  BY DEF Orphaned, Rows, rows
<1>3. \A n \in 1..MaxDeletions : Owes(l, n) => event'[<<l, n>>] = "pending"
  BY DEF Owes
<1>4. QED
  BY <1>1, <1>2, <1>3, OwedStays

LEMMA CleanupInductive == CleanupInv /\ [DataNext]_dataVars => CleanupInv'
<1> SUFFICES ASSUME CleanupInv, [DataNext]_dataVars PROVE CleanupInv'
  OBVIOUS
<1>1. TypesInv' /\ EventsKnown'
  BY TypesInductive, EventsKnownInductive DEF CleanupInv
<1> SUFFICES ASSUME NEW l \in Links PROVE Owed(l)'
  BY <1>1 DEF CleanupInv, CleanupOwed
<1>2. /\ JobTypes /\ AccountTypes /\ ReferringTypes /\ ProductTypes /\ DataTypeOK /\ JobsFilled
      /\ DOMAIN job = Processes /\ Workers \subseteq Processes
      /\ DOMAIN review = Customers \X Bought /\ Owed(l)
      /\ \A w \in Processes : JobFilled(w)
      /\ account \in [Customers -> Row \cup {Gone}] /\ products \subseteq Products
  BY TypesSplit DEF CleanupInv, TypesInv, CleanupOwed, JobTypes, JobsFilled, ReferringTypes, Processes,
     AccountTypes, ProductTypes
<1>3. UNCHANGED <<account, products>> => \A r : Exists(r) => Exists(r)'
  BY DEF Exists
<1>4. ASSUME UNCHANGED <<rows, event>>, \A r : Exists(r) => Exists(r)', NEW w \in Processes, Quiet(w)
      PROVE  Owed(l)'
  BY <1>4, QuietOwes DEF Quiet, At, Handling
<1>5. ASSUME UNCHANGED <<account, products, rows, event>>, NEW w \in Workers,
             \/ \E c \in Customers : LoadsAccount(w, c)
             \/ \E o \in Orders : NotifyReads(w, o)
      PROVE  Owed(l)'
  BY <1>2, <1>3, <1>4, <1>5, LoadsFill, NotifyFills
<1>6. ASSUME UNCHANGED <<account, products, rows, event, bounds>>, NEW w \in Workers, PostForm(w)
      PROVE  Owed(l)'
  BY <1>2, <1>3, <1>4, <1>6, PostFills
<1>7. ASSUME UNCHANGED <<products, rows, event, bounds>>, NEW w \in Workers, SaveAccount(w)
      PROVE  Owed(l)'
  <2>1. SavesRow(w)
    BY <1>2, <1>7, SaveWrites
  <2>2. \A r : Exists(r) => Exists(r)'
    BY <1>7, <2>1 DEF SavesRow, Exists
  <2>3. Quiet(w)
    BY <1>2, <1>7, EndingFills DEF SaveAccount
  <2>4. QED
    BY <1>2, <1>4, <1>7, <2>2, <2>3
<1>8. ASSUME UNCHANGED <<account, products, event, bounds>>, NEW w \in Workers, ShopSteps(w)
      PROVE  Owed(l)'
  <2>1. Quiet(w)
    BY <1>2, <1>8, ShopFills
  <2>2. Alone(w) /\ ~At(w, {"applied"})'
    BY <2>1 DEF Quiet, At, Handling
  <2>3. Orphaned(l)' => Orphaned(l)
    BY <1>8, ShopLeavesNone DEF CleanupInv
  <2>4. \A n \in 1..MaxDeletions : Owes(l, n) => event'[<<l, n>>] = "pending"
    BY <1>8 DEF Owes
  <2>5. QED
    BY <1>2, <2>2, <2>3, <2>4, OwedStays
<1>9. ASSUME UNCHANGED <<wishlist, buyer, review, phone, notice, bounds>>, NEW w \in Workers,
             NEW c \in Customers, DeleteAccount(w, c)
      PROVE  Owed(l)'
  <2>1. c \notin Bought
    BY DataAssumption
  <2>2. \A s : s # c => (Exists(s) <=> Exists(s)')
    BY <1>2, <1>9 DEF DeleteAccount, Exists
  <2>3. QED
    BY <1>9, <2>1, <2>2, DeletesOwe DEF DeleteAccount
<1>10. ASSUME UNCHANGED <<wishlist, buyer, review, phone, notice, bounds>>, NEW w \in Workers,
              NEW p \in Products, DeleteProduct(w, p)
       PROVE  Owed(l)'
  <2>1. p \notin Bought
    BY <1>10 DEF DeleteProduct
  <2>2. \A s : s # p => (Exists(s) <=> Exists(s)')
    BY <1>10 DEF DeleteProduct, Exists
  <2>3. QED
    BY <1>10, <2>1, <2>2, DeletesOwe DEF DeleteProduct
<1>11. ASSUME UNCHANGED <<account, products, event, bounds>>, NEW cp \in DOMAIN review,
              ModerateReview(cp)
       PROVE  Owed(l)'
  <2>1. \A x \in DOMAIN review : review[x] # "none" <=> review'[x] # "none"
    BY <1>11 DEF ModerateReview
  <2>2. DOMAIN review' = DOMAIN review
    BY <1>11 DEF ModerateReview
  <2>3. Rows(l)' = Rows(l)
    <3>1. \A x : x \in Rows(l) <=> Refers(x, l, wishlist, buyer, review, phone, notice)
      BY RowsRefer
    <3>2. \A x : x \in Rows(l)' <=> Refers(x, l, wishlist', buyer', review', phone', notice')
      BY RowsRefer
    <3>3. UNCHANGED <<wishlist, buyer, phone, notice>>
      BY <1>11 DEF ModerateReview
    <3>4. \A x : Refers(x, l, wishlist', buyer', review', phone', notice')
                   <=> Refers(x, l, wishlist, buyer, review, phone, notice)
      BY <2>1, <2>2, <3>3 DEF Refers
    <3>5. QED
      BY <3>1, <3>2, <3>4
  <2>4. Orphaned(l)' => Orphaned(l)
    BY <1>11, <2>3 DEF ModerateReview, Orphaned, Exists
  <2>5. \A n \in 1..MaxDeletions : Owes(l, n) => event'[<<l, n>>] = "pending"
    BY <1>11 DEF Owes
  <2>6. QED
    BY <1>2, <1>11, <2>4, <2>5, OwedStays DEF ModerateReview
<1>12. ASSUME UNCHANGED <<account, products, rows, event, bounds>>, NEW w \in Processes, Lists(w)
       PROVE  Owed(l)'
  BY <1>3, <1>12, QuietOwes DEF Lists, At
<1>13. ASSUME UNCHANGED <<account, products, rows, event, bounds>>, NEW w \in Workers, ListEvents(w)
       PROVE  Owed(l)'
  BY <1>2, <1>12, <1>13, ListsPending DEF ListEvents, Schema
<1>14. ASSUME UNCHANGED <<account, products, rows, event, bounds>>,
              NEW schema \in {"identity", "catalog"}, SchedulerDrains(schema)
       PROVE  Owed(l)'
  BY <1>2, <1>12, <1>14, ListsPending DEF SchedulerDrains, Processes
<1>15. ASSUME UNCHANGED <<account, products, rows, event, bounds>>, NEW w \in Processes, LockEvent(w)
       PROVE  Owed(l)'
  <2>1. CASE Quiet(w)
    BY <1>3, <1>4, <1>15, <2>1
  <2>2. CASE Locks(w)
    BY <1>3, <1>15, <2>2, QuietOwes DEF Locks, Becomes, At
  <2>3. QED
    BY <1>2, <1>15, <2>1, <2>2, LocksFill
<1>16. ASSUME UNCHANGED <<account, products, event, bounds>>, NEW w \in Processes, ApplyCleanup(w)
       PROVE  Owed(l)'
  BY <1>16, CleanupOwes
<1>17. ASSUME UNCHANGED <<account, products, rows, bounds>>, NEW w \in Processes, MarkEvent(w)
       PROVE  Owed(l)'
  BY <1>17, MarksOwe
<1>18. ASSUME UNCHANGED <<account, products, rows, event>>, NEW w \in Processes, CleanupFails(w)
       PROVE  Owed(l)'
  <2>1. Handles(w, "failed")
    BY <1>2, <1>18, HandlesFill DEF CleanupFails
  <2>2. QED
    BY <1>3, <1>18, <2>1, QuietOwes DEF Handles, Becomes, At
<1>19. ASSUME UNCHANGED <<account, products, rows, event>>, NEW w \in Processes, Crash(w)
       PROVE  Owed(l)'
  BY <1>2, <1>3, <1>4, <1>19, EndingFills DEF Crash
<1>20. CASE UNCHANGED dataVars
  BY <1>3, <1>20, QuietOwes DEF dataVars
<1>21. QED
  BY <1>2, <1>5, <1>6, <1>7, <1>8, <1>9, <1>10, <1>11, <1>13, <1>14, <1>15, <1>16, <1>17, <1>18,
     <1>19, <1>20 DEF DataNext

LEMMA CleanupAtStart == DataInit => CleanupInv
<1> SUFFICES ASSUME DataInit PROVE TypesInv /\ EventsKnown /\ CleanupOwed
  BY DEF CleanupInv
<1>1. TypesInv
  BY TypesAtStart
<1>2. Idle.at = "idle" /\ Idle.todo = {}
  BY DEF Idle
<1>3. EventsKnown
  BY <1>2 DEF DataInit, EventsKnown, EventKnown, At, Handling, Processes
<1>4. ASSUME NEW l \in Links PROVE Exists(l.ref)
  <2>1. l.ref \in Customers \cup Products
    BY LinkNames
  <2>2. Shopper # Gone
    BY JobRecords, DataAssumption
  <2>3. QED
    BY <2>1, <2>2 DEF DataInit, Exists
<1>5. CleanupOwed
  BY <1>4 DEF CleanupOwed, Owed, Orphaned
<1>6. QED
  BY <1>1, <1>3, <1>5

\* Whichever drains fail, die, are repeated or meet another drain of the same event,
\* a row that was there when its account or product was deleted is gone, or its
\* cleanup is still pending.
THEOREM OrphansAreCleanedUp == DataSpec => []NoOrphanForgotten
<1>1. CleanupInv => NoOrphanForgotten
  BY DEF CleanupInv, CleanupOwed, Owed, Orphaned, Owes, NoOrphanForgotten
<1>2. QED
  BY <1>1, CleanupAtStart, CleanupInductive, PTL DEF DataSpec

=============================================================================
