----------------------------- MODULE AccountData -----------------------------
(***************************************************************************)
(* The row of an account and the rows of other schemas that refer to it:     *)
(* every request that saves the row (apps/accounts, apps/mobile_api), the     *)
(* writers of wishlists, reviews, device tokens, notifications and orders,   *)
(* and the deletion of an account or a product, whose cleanup travels as     *)
(* ServiceEvents (apps/core/lifecycle.py) that a request or the scheduler    *)
(* drains.                                                                  *)
(*                                                                         *)
(* Each schema is a database of its own (config/database_layout.py): a step   *)
(* is one transaction, or one read, of one schema, and no reference between   *)
(* schemas is enforced.                                                      *)
(***************************************************************************)
EXTENDS Integers, Sequences, Functions

CONSTANTS
  Customers, Products, Phones, Orders,
  Bought,        \* products with order lines
  Workers,       \* requests, staff and commands
  Scheduler,     \* the process that runs the jobs
  Gone,          \* what the row of a deleted account reads as
  MaxRequests,   \* bound: requests begun
  MaxDeletions,  \* bound: deletions of one object
  MaxFaults      \* bound: cleanups that fail and processes that die

\* The columns told apart; TRUE is the edited name (or role) and the active
\* account. Whoever saves the password alone writes neither.
Columns == {"name", "active"}
Row == [Columns -> BOOLEAN]

ASSUME DataAssumption ==
  /\ Bought \subseteq Products /\ Customers \cap Products = {} /\ Scheduler \notin Workers
  /\ Gone \notin Row /\ Customers \cap {"none", "guest"} = {}
  /\ MaxRequests \in Nat /\ MaxDeletions \in Nat /\ MaxFaults \in Nat

VARIABLES
  account,   \* identity: account[c], a row or Gone
  wishlist,  \* identity: WishlistItem rows
  products,  \* catalog: the products that exist
  buyer,     \* orders: Order.customer ("none": no such order, "guest": NULL)
  review,    \* orders: Review.status, or "none"
  phone,     \* fulfillment: DeviceToken.customer, or "none"
  notice,    \* fulfillment: the customer of the Notification of an order, or "none"
  event,     \* the ServiceEvent rows
  job,       \* job[w]: what a process is doing
  requests, faults,
  late       \* history: rows written when what they refer to was deleted

rows == <<wishlist, buyer, review, phone, notice, late>>
bounds == <<requests, faults>>
dataVars == <<account, products, rows, event, job, bounds>>

\* A new account
Shopper == [k \in Columns |-> k = "active"]

\* The relations declared service_cascade or service_set_null, one link for
\* each object referred to.
OfCustomer == <<"review.customer", "token.customer", "notice.customer", "order.customer">>
OfProduct == <<"review.product", "wish.product">>
Links == [table : Range(OfCustomer), ref : Customers] \cup [table : Range(OfProduct), ref : Products]
Events == Links \X (1..MaxDeletions)
Exists(r) == IF r \in Customers THEN account[r] # Gone ELSE r \in products

Idle == [at |-> "idle", who |-> Gone, copy |-> Shopper, sets |-> {}, fields |-> {},
         item |-> "none", todo |-> {}]
Job == [at : {"idle", "user", "toggle", "found", "review", "notify", "form", "save",
              "list", "lock", "apply", "applied", "failed"},
        who : Customers \cup {Gone}, copy : Row, sets : SUBSET Columns, fields : SUBSET Columns,
        item : Products \cup Orders \cup Events \cup {"none"}, todo : SUBSET Events]

DataTypeOK ==
  /\ account \in [Customers -> Row \cup {Gone}]
  /\ wishlist \subseteq {c \in Customers : account[c] # Gone} \X Products  \* a foreign key
  /\ products \subseteq Products /\ Bought \subseteq products
  /\ buyer \in [Orders -> Customers \cup {"none", "guest"}]
  /\ review \in [Customers \X Bought -> {"none", "pending", "approved", "rejected"}]
  /\ phone \in [Phones -> Customers \cup {"none"}]
  /\ notice \in [Orders -> Customers \cup {"none"}]
  /\ event \in [Events -> {"none", "pending", "completed"}]
  /\ job \in [Workers \cup {Scheduler} -> Job]
  /\ requests \in 0..MaxRequests /\ faults \in 0..MaxFaults

DataInit ==
  /\ account = [c \in Customers |-> Shopper]
  /\ wishlist = {} /\ products = Products
  /\ buyer \in [Orders -> Customers \cup {"none"}]
  /\ review = [cp \in Customers \X Bought |-> "none"]
  /\ phone \in [Phones -> Customers \cup {"none"}] /\ notice = [o \in Orders |-> "none"]
  /\ event = [e \in Events |-> "none"]
  /\ job = [w \in Workers \cup {Scheduler} |-> Idle]
  /\ requests = 0 /\ faults = 0 /\ late = {}

-----------------------------------------------------------------------------
(* Requests that save the account's row. An instance is loaded, changed in    *)
(* memory and saved: with update_fields its other columns are left alone and  *)
(* a missing row is an error; without, the whole row is written, and inserted *)
(* when it is missing.                                                       *)

Finished(w) == job' = [job EXCEPT ![w] = Idle]
Goes(w, at) == job' = [job EXCEPT ![w].at = at]
Starts(w, j) ==
  /\ job[w] = Idle /\ requests < MaxRequests
  /\ requests' = requests + 1
  /\ job' = [job EXCEPT ![w] = j]
  /\ UNCHANGED faults

\* The instance of c a request holds once the columns of set have got value.
Loaded(c, set, value, fields) ==
  [Idle EXCEPT !.at = "save", !.who = c, !.sets = set, !.fields = fields,
               !.copy = [k \in Columns |-> IF k \in set THEN value ELSE account[c][k]]]

SignedIn(c) == account[c] # Gone /\ account[c].active

ProfileFields == {"name"}
ProfileView(w, c) == SignedIn(c) /\ Starts(w, Loaded(c, {"name"}, TRUE, ProfileFields))

ProfilePatch(w, c) == SignedIn(c) /\ Starts(w, Loaded(c, {"name"}, TRUE, Columns))

PasswordReset(w, c) ==
  account[c] # Gone /\ Starts(w, Loaded(c, {}, TRUE, {}))

SuspendOrActivate(w, c) ==
  /\ account[c] # Gone
  /\ IF account[c].active THEN Starts(w, Loaded(c, {"active"}, FALSE, {"active"}))
                          ELSE Starts(w, Loaded(c, {"active"}, TRUE, {"active"}))

\* The consoles' own two forms: staff change theirs, or set somebody else's.
ConsolePasswordChange(w, c) ==
  account[c] # Gone /\ Starts(w, Loaded(c, {}, TRUE, Columns))

CreateConsoleAccount(w, c) ==
  account[c] # Gone /\ Starts(w, Loaded(c, {"name", "active"}, TRUE, Columns))

\* The page shows c's row.
OpenForm(w, c) ==
  account[c] # Gone /\ Starts(w, [Loaded(c, {}, TRUE, Columns) EXCEPT !.at = "form"])

\* Staff change one of its columns, and every one of them is posted onto the
\* row as it is now.
PostForm(w) ==
  LET j == job[w]
  IN  /\ j.at = "form"
      /\ IF account[j.who] = Gone THEN Finished(w)
         ELSE \E edit \in Columns :
                job' = [job EXCEPT ![w] =
                  [j EXCEPT !.at = "save", !.sets = {edit}, !.copy[edit] = ~@]]

SaveAccount(w) ==
  LET j == job[w]
      old == account[j.who]
  IN  /\ j.at = "save"
      /\ account' =
           IF old = Gone
           THEN IF j.fields = Columns THEN [account EXCEPT ![j.who] = j.copy] ELSE account
           ELSE [account EXCEPT ![j.who] = [k \in Columns |-> IF k \in j.fields THEN j.copy[k] ELSE old[k]]]
      /\ Finished(w)

-----------------------------------------------------------------------------
(* Requests that write rows which refer to an account or a product.           *)

\* Rows are named by their table and key; Rows(l) are the ones that refer,
\* through link l, to its object.
Rows(l) ==
  CASE l.table = "review.customer" -> {<<"review", cp>> : cp \in {x \in DOMAIN review : review[x] # "none" /\ x[1] = l.ref}}
    [] l.table = "review.product" -> {<<"review", cp>> : cp \in {x \in DOMAIN review : review[x] # "none" /\ x[2] = l.ref}}
    [] l.table = "wish.product" -> {<<"wish", cp>> : cp \in {x \in wishlist : x[2] = l.ref}}
    [] l.table = "token.customer" -> {<<"token", d>> : d \in {x \in Phones : phone[x] = l.ref}}
    [] l.table = "notice.customer" -> {<<"notice", o>> : o \in {x \in Orders : notice[x] = l.ref}}
    [] l.table = "order.customer" -> {<<"order", o>> : o \in {x \in Orders : buyer[x] = l.ref}}

Writes(row, refs) ==
  late' = IF \A r \in refs : Exists(r) THEN late \ {row} ELSE late \cup {row}

Shop(w, c) == SignedIn(c) /\ Starts(w, [Idle EXCEPT !.at = "user", !.who = c])

PlaceOrder(w, o) ==
  /\ job[w].at = "user" /\ buyer[o] = "none"
  /\ buyer' = [buyer EXCEPT ![o] = job[w].who]
  /\ Writes(<<"order", o>>, {job[w].who})
  /\ Finished(w) /\ UNCHANGED <<wishlist, review, phone, notice>>

\* A token follows whoever is signed in on the device.
RegisterDevice(w, d) ==
  /\ job[w].at = "user"
  /\ phone' = [phone EXCEPT ![d] = job[w].who]
  /\ Writes(<<"token", d>>, {job[w].who})
  /\ Finished(w) /\ UNCHANGED <<wishlist, buyer, review, notice>>

ReadProduct(w) ==
  /\ job[w].at = "user"
  /\ \E p \in products : job' = [job EXCEPT ![w].at = "toggle", ![w].item = p]
  /\ UNCHANGED rows

\* Mutant of Inserts: the customer is referred to without a foreign key.
InsertsUnchecked(c) == TRUE
\* The wishlist's foreign key: WishlistItem is in the schema of its customer.
Inserts(c) == account[c] # Gone

\* get_or_create, then the deletion of what it found.
ToggleWishlist(w) ==
  LET row == <<job[w].who, job[w].item>>
  IN  /\ job[w].at = "toggle"
      /\ IF row \in wishlist THEN Goes(w, "found") /\ UNCHANGED <<wishlist, late>>
         ELSE /\ Finished(w)
              /\ IF Inserts(job[w].who)
                 THEN wishlist' = wishlist \cup {row} /\ Writes(<<"wish", row>>, {job[w].item})
                 ELSE UNCHANGED <<wishlist, late>>
      /\ UNCHANGED <<buyer, review, phone, notice>>

RemoveWish(w) ==
  /\ job[w].at = "found"
  /\ wishlist' = wishlist \ {<<job[w].who, job[w].item>>}
  /\ late' = late \ {<<"wish", <<job[w].who, job[w].item>>>>}
  /\ Finished(w) /\ UNCHANGED <<buyer, review, phone, notice>>

\* The order is the customer's, delivered, and contains the product.
ReadPurchase(w) ==
  /\ job[w].at = "user"
  /\ \E o \in Orders : buyer[o] = job[w].who
  /\ \E p \in Bought : job' = [job EXCEPT ![w].at = "review", ![w].item = p]
  /\ UNCHANGED rows

\* update_or_create: an edit goes back to moderation.
SubmitReview(w) ==
  LET cp == <<job[w].who, job[w].item>>
  IN  /\ job[w].at = "review"
      /\ review' = [review EXCEPT ![cp] = "pending"]
      /\ Writes(<<"review", cp>>, {job[w].who, job[w].item})
      /\ Finished(w) /\ UNCHANGED <<wishlist, buyer, phone, notice>>

Refused(w) == job[w].at = "user" /\ Finished(w) /\ UNCHANGED rows

ModerateReview(cp) ==
  /\ review[cp] = "pending"
  /\ \E verdict \in {"approved", "rejected"} : review' = [review EXCEPT ![cp] = verdict]
  /\ UNCHANGED <<job, wishlist, buyer, phone, notice, late>>

\* After a transition of o has committed, its customer is fetched and told.
NotifyReads(w, o) ==
  /\ buyer[o] \in Customers /\ account[buyer[o]] # Gone
  /\ Starts(w, [Idle EXCEPT !.at = "notify", !.who = buyer[o], !.item = o])

NotifyCustomer(w) ==
  /\ job[w].at = "notify"
  /\ notice' = [notice EXCEPT ![job[w].item] = job[w].who]
  /\ Writes(<<"notice", job[w].item>>, {job[w].who})
  /\ Finished(w) /\ UNCHANGED <<wishlist, buyer, review, phone>>

-----------------------------------------------------------------------------
(* Deletion and its cleanup.                                                 *)

LinksTo(r) == {l \in Links : l.ref = r}
Schema(e) == IF e[1].ref \in Customers THEN "identity" ELSE "catalog"
Pending(schema) == {e \in Events : event[e] = "pending" /\ Schema(e) = schema}

\* The n-th deletion of r and the record of its cleanup are one transaction,
\* which drains its schema's events once it has committed.
Deletes(w, r) ==
  \E n \in 1..MaxDeletions :
    /\ \A l \in LinksTo(r) : event[<<l, n>>] = "none" /\ (n > 1 => event[<<l, n - 1>>] # "none")
    /\ event' = [e \in Events |-> IF e[1] \in LinksTo(r) /\ e[2] = n THEN "pending" ELSE event[e]]
    /\ late' = late \ UNION {Rows(l) : l \in LinksTo(r)}
    /\ job[w] = Idle
    /\ job' = [job EXCEPT ![w] = [Idle EXCEPT !.at = "list", !.item = <<CHOOSE l \in LinksTo(r) : TRUE, n>>]]

\* The console refuses it while the account has wishlist rows: nobody has the
\* permission to delete those.
DeleteAccount(w, c) ==
  /\ account[c] # Gone /\ \A p \in Products : <<c, p>> \notin wishlist
  /\ account' = [account EXCEPT ![c] = Gone]
  /\ Deletes(w, c) /\ UNCHANGED products

\* service_protect: order lines keep their product.
DeleteProduct(w, p) ==
  /\ p \in products \ Bought
  /\ products' = products \ {p}
  /\ Deletes(w, p) /\ UNCHANGED account

Listed(schema) == [Idle EXCEPT !.at = "lock", !.todo = Pending(schema)]

ListEvents(w) ==
  /\ job[w].at = "list"
  /\ job' = [job EXCEPT ![w] = Listed(Schema(job[w].item))]

SchedulerDrains(schema) ==
  /\ job[Scheduler] = Idle /\ Pending(schema) # {}
  /\ job' = [job EXCEPT ![Scheduler] = Listed(schema)]

\* The list is in the order of its index: a deletion's events in the order of
\* its relations, an earlier deletion's first.
Rank(e) == 6 * e[2] + CHOOSE i \in 1..6 : e[1].table = (OfCustomer \o OfProduct)[i]
Oldest(todo) == {e \in todo : \A f \in todo : Rank(e) <= Rank(f)}
Handling == {"apply", "applied", "failed"}
Skips(w, e) ==
  LET todo == job[w].todo \ {e}
  IN  job' = [job EXCEPT ![w] = IF todo = {} THEN Idle
                                ELSE [Idle EXCEPT !.at = "lock", !.todo = todo]]

\* SELECT ... FOR UPDATE of one listed event; one that another drain has
\* completed meanwhile is passed over.
LockEvent(w) ==
  /\ job[w].at = "lock"
  /\ \E e \in Oldest(job[w].todo) :
       /\ \A v \in DOMAIN job : ~(job[v].at \in Handling /\ job[v].item = e)
       /\ IF event[e] = "completed" THEN Skips(w, e)
          ELSE job' = [job EXCEPT ![w].at = "apply", ![w].item = e]

\* The target schema commits the deletion, or the NULL of an order, by itself.
ApplyCleanup(w) ==
  LET cleared == Rows(job[w].item[1])
  IN  /\ job[w].at = "apply"
      /\ wishlist' = {cp \in wishlist : <<"wish", cp>> \notin cleared}
      /\ review' = [cp \in DOMAIN review |-> IF <<"review", cp>> \in cleared THEN "none" ELSE review[cp]]
      /\ phone' = [d \in Phones |-> IF <<"token", d>> \in cleared THEN "none" ELSE phone[d]]
      /\ notice' = [o \in Orders |-> IF <<"notice", o>> \in cleared THEN "none" ELSE notice[o]]
      /\ buyer' = [o \in Orders |-> IF <<"order", o>> \in cleared THEN "guest" ELSE buyer[o]]
      /\ late' = late \ cleared
      /\ Goes(w, "applied")

CleanupFails(w) ==
  /\ job[w].at = "apply" /\ faults < MaxFaults
  /\ faults' = faults + 1
  /\ Goes(w, "failed") /\ UNCHANGED requests

\* Mutant of Outcome: the failure is logged, the event closed.
OutcomeSwallowed(at) == "completed"
Outcome(at) == IF at = "applied" THEN "completed" ELSE "pending"

MarkEvent(w) ==
  /\ job[w].at \in {"applied", "failed"}
  /\ event' = [event EXCEPT ![job[w].item] = Outcome(job[w].at)]
  /\ Skips(w, job[w].item)

\* The process dies: what its open transaction wrote and its locks are gone.
Crash(w) ==
  /\ job[w] # Idle /\ faults < MaxFaults
  /\ faults' = faults + 1
  /\ Finished(w) /\ UNCHANGED requests

-----------------------------------------------------------------------------
LoadsAccount(w, c) ==
  \/ ProfileView(w, c) \/ ProfilePatch(w, c) \/ PasswordReset(w, c) \/ SuspendOrActivate(w, c)
  \/ ConsolePasswordChange(w, c) \/ CreateConsoleAccount(w, c) \/ OpenForm(w, c) \/ Shop(w, c)

ShopSteps(w) ==
  \/ \E o \in Orders : PlaceOrder(w, o)
  \/ \E d \in Phones : RegisterDevice(w, d)
  \/ ReadProduct(w) \/ ToggleWishlist(w) \/ RemoveWish(w)
  \/ ReadPurchase(w) \/ SubmitReview(w) \/ Refused(w) \/ NotifyCustomer(w)

DataNext ==
  \/ \E w \in Workers :
       \/ /\ \/ \E c \in Customers : LoadsAccount(w, c)
             \/ \E o \in Orders : NotifyReads(w, o)
          /\ UNCHANGED <<account, products, rows, event>>
       \/ PostForm(w) /\ UNCHANGED <<account, products, rows, event, bounds>>
       \/ SaveAccount(w) /\ UNCHANGED <<products, rows, event, bounds>>
       \/ ShopSteps(w) /\ UNCHANGED <<account, products, event, bounds>>
       \/ /\ \/ \E c \in Customers : DeleteAccount(w, c)
             \/ \E p \in Products : DeleteProduct(w, p)
          /\ UNCHANGED <<wishlist, buyer, review, phone, notice, bounds>>
  \/ \E cp \in DOMAIN review : ModerateReview(cp) /\ UNCHANGED <<account, products, event, bounds>>
  \/ /\ \/ \E w \in Workers : ListEvents(w)
        \/ \E schema \in {"identity", "catalog"} : SchedulerDrains(schema)
        \/ \E w \in DOMAIN job : LockEvent(w)
     /\ UNCHANGED <<account, products, rows, event, bounds>>
  \/ \E w \in DOMAIN job :
       \/ ApplyCleanup(w) /\ UNCHANGED <<account, products, event, bounds>>
       \/ MarkEvent(w) /\ UNCHANGED <<account, products, rows, bounds>>
       \/ (CleanupFails(w) \/ Crash(w)) /\ UNCHANGED <<account, products, rows, event>>

DataSpec == DataInit /\ [][DataNext]_dataVars

-----------------------------------------------------------------------------
\* A row that refers to a deleted account or product either has a cleanup
\* pending for it or was written, after the deletion, by a request that had
\* read the object before it: whichever drains fail, die, are repeated or meet
\* another drain of the same event, nothing that was there at the deletion is
\* left behind by a completed one (apps/core/lifecycle.py).
NoOrphanForgotten ==
  \A l \in Links :
    ~Exists(l.ref) /\ ~(Rows(l) \subseteq late)
      => \E n \in 1..MaxDeletions : event[<<l, n>>] = "pending"

\* What the suspension says of itself: it takes effect on the next request, and
\* every live session of the account stops working. So an account that is
\* suspended stays so until somebody means to activate it: the requests that
\* write a whole row back write the flag as it was when they read the row.
Activates(w, c) == job[w].who = c /\ "active" \in job[w].sets /\ job'[w] = Idle
Reactivated(c) ==
  /\ account[c] # Gone /\ account'[c] # Gone
  /\ ~account[c].active /\ account'[c].active
SuspensionStands ==
  [][\A c \in Customers : Reactivated(c) => \E w \in Workers : Activates(w, c)]_account
=============================================================================
