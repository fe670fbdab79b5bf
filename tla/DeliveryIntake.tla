--------------------------- MODULE DeliveryIntake ---------------------------
(***************************************************************************)
(* Orders of a delivery platform, from its webhook to the kitchen.         *)
(*                                                                         *)
(* The webhook logs an event, opens a delivery order and queues a job, and *)
(* commits only after the job is queued.  The job locks the delivery       *)
(* order, fetches its details, books a sale and tells the platform that it *)
(* is accepted; a refusal is told as well.  Staff confirm or deny what the *)
(* job left open, a watchdog denies what nobody answered in time, and a    *)
(* manager may upload the platform's daily report, which lists the same    *)
(* orders.  Once sold, an order is on the staff's dashboard as well, whose *)
(* status handler knows nothing of delivery orders and locks nothing.      *)
(*                                                                         *)
(* The platform is external: it posts events at least once and in any      *)
(* order, its customers cancel, and its answers may be lost.               *)
(***************************************************************************)
EXTENDS Naturals, FiniteSets

CONSTANTS
  Requests,   \* webhook requests that run at once
  Workers,    \* jobs and denials by staff that run at once
  Orders,     \* external_order_id
  Events,     \* event_id
  Order,      \* event -> its order
  Cancels,    \* the orders.cancel and orders.failure events
  MaxPosts,   \* bound: events the platform posts
  MaxTries,   \* WorkerSettings.max_tries
  MaxEdits,   \* bound: settings changed, orders confirmed, denied or read by the dashboard, reports
  MaxFaults   \* bound: kills, errors and lost answers together

ASSUME DeliveryAssumption ==
  /\ Order \in [Events -> Orders] /\ Cancels \subseteq Events
  /\ MaxPosts \in Nat /\ MaxTries \in Nat \ {0} /\ MaxEdits \in Nat /\ MaxFaults \in Nat

VARIABLES
  platform,   \* order -> what the platform believes of it
  posts,
  answered,   \* events answered 200
  logged,     \* committed delivery_webhook_events
  queued,     \* events whose job was put on the queue
  intake,     \* request -> the event its open transaction has inserted
  row,        \* order -> status of its committed delivery_orders row
  sale,       \* order -> whether its Order in the books is there, and not CANCELLED
  sales,      \* order -> sales booked for it
  dashboard,  \* orders that an update_order_status still open has read as live
  overruled,  \* orders whose sale the dashboard was the last to change
  report,     \* order -> not in an upload, resolved as new by one, or imported
  jobs,       \* the queue, a bag of jobs
  at,         \* worker -> the transaction it has open
  shop,       \* the connection's status and switches, and the menu mappings
  everAuto,   \* auto_accept_enabled was on at some time
  confirmed,  \* orders staff have confirmed at READY_TO_ACCEPT
  due,        \* orders whose accept_deadline_at has passed
  claimed,    \* denials the watchdog has yet to tell the platform
  edits, faults

vars == <<platform, posts, answered, logged, queued, intake, row, sale, sales, dashboard,
          overruled, report, jobs, at, shop, everAuto, confirmed, due, claimed, edits, faults>>

Kinds == {"order", "forced", "cancel"}

Jobs == [order : Orders, kind : Kinds, tries : 1 .. MaxTries]

\* _OPEN_ORDER_STATUSES.
Open == {"RECEIVED", "FETCHING", "NEEDS_MAPPING", "READY_TO_ACCEPT"}

Terminal == {"CANCELLED", "DENIED", "FAILED"}

Statuses == {"NONE", "ACCEPTED"} \cup Open \cup Terminal

Idle == [op |-> "idle"]

Hands ==
  {Idle} \cup [op : {"busy"}, job : [order : Orders, kind : Kinds \cup {"staff"}, tries : 1 .. MaxTries],
               step : {"fetching", "denying", "accepting", "done"},
               auto : BOOLEAN, books : BOOLEAN, row : Statuses]

\* Every row, job and open transaction has its type.
TypeOK ==
  /\ platform \in [Orders -> {"offered", "accepted", "denied", "cancelled"}]
  /\ posts \in 0 .. MaxPosts
  /\ answered \subseteq Events /\ logged \subseteq Events /\ queued \subseteq Events
  /\ intake \in [Requests -> {"idle"} \cup Events]
  /\ row \in [Orders -> Statuses]
  /\ sale \in [Orders -> {"none", "live", "cancelled"}]
  /\ sales \in [Orders -> Nat]
  /\ dashboard \subseteq Orders /\ overruled \subseteq Orders
  /\ report \in [Orders -> {"none", "read", "imported"}]
  /\ jobs \in [Jobs -> Nat]
  /\ at \in [Workers -> Hands]
  /\ shop \in [live : BOOLEAN, auto : BOOLEAN, mapped : BOOLEAN]
  /\ everAuto \in BOOLEAN
  /\ confirmed \subseteq Orders /\ due \subseteq Orders /\ claimed \subseteq Orders
  /\ edits \in 0 .. MaxEdits /\ faults \in 0 .. MaxFaults

Init ==
  /\ platform = [o \in Orders |-> "offered"]
  /\ posts = 0 /\ answered = {} /\ logged = {} /\ queued = {}
  /\ intake = [r \in Requests |-> "idle"]
  /\ row = [o \in Orders |-> "NONE"]
  /\ sale = [o \in Orders |-> "none"]
  /\ sales = [o \in Orders |-> 0]
  /\ dashboard = {} /\ overruled = {}
  /\ report = [o \in Orders |-> "none"]
  /\ jobs = [j \in Jobs |-> 0]
  /\ at = [w \in Workers |-> Idle]
  /\ shop \in [live : {TRUE}, auto : {FALSE}, mapped : BOOLEAN]
  /\ everAuto = FALSE /\ confirmed = {} /\ due = {} /\ claimed = {}
  /\ edits = 0 /\ faults = 0

-----------------------------------------------------------------------------
web == <<posts, answered, logged, queued, intake>>
people == <<shop, everAuto, confirmed, edits>>
clock == <<due, claimed>>
kitchen == <<sale, dashboard, overruled>>
booked == <<sales, report, kitchen>>

Fault == faults < MaxFaults /\ faults' = faults + 1
Edit == edits < MaxEdits /\ edits' = edits + 1

Enqueue(o, kind) == [jobs EXCEPT ![[order |-> o, kind |-> kind, tries |-> 1]] = @ + 1]

Holds(w, o) == at[w].op = "busy" /\ at[w].job.order = o

\* No transaction holds the row's FOR UPDATE.
RowFree(o) == \A w \in Workers : ~Holds(w, o)

-----------------------------------------------------------------------------
(* The platform. *)

CustomerCancels(o) ==
  /\ platform[o] \in {"offered", "accepted"}
  /\ platform' = [platform EXCEPT ![o] = "cancelled"]
  /\ UNCHANGED <<web, row, booked, jobs, at, people, clock, faults>>

Posts(e) ==
  /\ posts < MaxPosts
  /\ posts' = posts + 1
  /\ e \in Cancels => platform[Order[e]] \in {"cancelled", "denied"}

-----------------------------------------------------------------------------
(* The webhook: ingest_delivery_webhook. *)

\* An INSERT ... ON CONFLICT waits for the transaction that has inserted its key.
KeysFree(e) ==
  \A r \in Requests :
    /\ intake[r] # e
    /\ intake[r] \in Events /\ row[Order[e]] = "NONE" => Order[intake[r]] # Order[e]

IntakeKnows(e) ==
  /\ Posts(e)
  /\ e \in logged
  /\ answered' = answered \cup {e}
  /\ UNCHANGED <<platform, logged, queued, intake, row, booked, jobs, at, people, clock, faults>>

\* The flush or the enqueue fails: all is rolled back and the answer is 503.
IntakeRefuses(e) ==
  /\ Posts(e) /\ KeysFree(e)
  /\ e \notin logged
  /\ Fault
  /\ UNCHANGED <<platform, answered, logged, queued, intake, row, booked, jobs, at, people, clock>>

\* The job is on the queue before anything is committed.
IntakeQueues(r, e) ==
  /\ Posts(e) /\ KeysFree(e)
  /\ e \notin logged
  /\ intake[r] = "idle"
  /\ intake' = [intake EXCEPT ![r] = e]
  /\ queued' = queued \cup {e}
  /\ jobs' = Enqueue(Order[e], IF e \in Cancels THEN "cancel" ELSE "order")
  /\ UNCHANGED <<platform, answered, logged, row, booked, at, people, clock, faults>>

IntakeCommits(r) ==
  LET e == intake[r]
      o == Order[e]
  IN  /\ e # "idle"
      /\ logged' = logged \cup {e}
      /\ answered' = answered \cup {e}
      /\ row' = IF row[o] = "NONE"
                THEN [row EXCEPT ![o] = "RECEIVED"] ELSE row
      /\ intake' = [intake EXCEPT ![r] = "idle"]
      /\ UNCHANGED <<platform, posts, queued, booked, jobs, at, people, clock, faults>>

\* Mutant: the event stays in the log although its order was rolled back.
KeptWithEvent(e) == {e}

\* What a rolled-back request leaves in the log.
Kept(e) == {}

\* The commit fails, 503; the job stays queued and the event may come again.
IntakeLost(r) ==
  /\ intake[r] # "idle"
  /\ Fault
  /\ logged' = logged \cup Kept(intake[r])
  /\ intake' = [intake EXCEPT ![r] = "idle"]
  /\ UNCHANGED <<platform, posts, answered, queued, row, booked, jobs, at, people, clock>>

-----------------------------------------------------------------------------
(* The jobs: process_delivery_order and process_delivery_cancellation. *)

\* Mutant: a job is taken off the queue twice.
DequeueTwice(j) == [jobs EXCEPT ![j] = @ - 2]

Dequeue(j) == [jobs EXCEPT ![j] = @ - 1]

\* Mutants: the status is not read again under the lock; nothing is locked.
ActionableUnlessFinal(o) == row[o] \notin Terminal \cup {"NONE"}
LockableAlways(o) == TRUE

Actionable(o) == row[o] = "RECEIVED"

\* _load_locked_row waits for whoever holds the row.
Lockable(o) == RowFree(o)

\* The job overtook the commit of its own row, or came second.
JobFindsNothing(j) ==
  /\ jobs[j] > 0 /\ Lockable(j.order)
  /\ IF j.kind = "cancel" THEN row[j.order] \in Terminal \cup {"NONE"}
                          ELSE ~Actionable(j.order)
  /\ jobs' = Dequeue(j)
  /\ UNCHANGED <<platform, web, row, booked, at, people, clock, faults>>

\* The connection is read here: a job knows its switches as they are now.
JobLoads(w, j) ==
  /\ at[w] = Idle /\ jobs[j] > 0 /\ j.kind # "cancel"
  /\ Lockable(j.order) /\ Actionable(j.order)
  /\ jobs' = Dequeue(j)
  /\ at' = [at EXCEPT ![w] = [op |-> "busy", job |-> j, auto |-> shop.auto, books |-> FALSE,
                              step |-> IF shop.live THEN "fetching" ELSE "denying",
                              row |-> row[j.order]]]
  /\ UNCHANGED <<platform, web, row, booked, people, clock, faults>>

\* max_tries: the queue runs the job again.
Requeue(j) ==
  IF j.kind = "staff" \/ j.tries = MaxTries THEN jobs
  ELSE [jobs EXCEPT ![[j EXCEPT !.tries = @ + 1]] = @ + 1]

\* The fetch times out: committed as RECEIVED and raised, for the queue to retry.
FetchTimesOut(w) ==
  /\ at[w].op = "busy" /\ at[w].step = "fetching"
  /\ Fault
  /\ jobs' \in {jobs, Requeue(at[w].job)}
  /\ at' = [at EXCEPT ![w] = Idle]
  /\ UNCHANGED <<platform, web, row, booked, people, clock>>

\* An error, or a total that cannot be read: an active denial, never silence.
FetchUnusable(w) ==
  /\ at[w].op = "busy" /\ at[w].step = "fetching"
  /\ Fault
  /\ at' = [at EXCEPT ![w].step = "denying"]
  /\ UNCHANGED <<platform, web, row, booked, jobs, people, clock>>

\* The order waits: for a mapping, or for staff to confirm it.
Parks(w, status) ==
  /\ row' = [row EXCEPT ![at[w].job.order] = status]
  /\ at' = [at EXCEPT ![w] = Idle]

\* Mutant: the row says ACCEPTED before the platform was told.
BookedAccepted == "ACCEPTED"

\* The status beside a sale that _create_order_from_canonical has made, not yet committed.
Booked == "FETCHING"

Fetches(w) ==
  /\ at[w].op = "busy" /\ at[w].step = "fetching"
  /\ \/ ~shop.mapped /\ Parks(w, "NEEDS_MAPPING")
     \/ shop.mapped /\ at[w].job.kind # "forced" /\ ~at[w].auto /\ Parks(w, "READY_TO_ACCEPT")
     \/ /\ shop.mapped /\ (at[w].job.kind = "forced" \/ at[w].auto)
        /\ report[at[w].job.order] # "imported"
        /\ at' = [at EXCEPT ![w].step = "accepting", ![w].books = TRUE, ![w].row = Booked]
        /\ UNCHANGED row
  /\ UNCHANGED <<platform, web, booked, jobs, people, clock, faults>>

\* The unique index over the external id refuses a sale that was imported: the
\* exception is swallowed and the row stays as it was.
BookingRefused(w) ==
  /\ at[w].op = "busy" /\ at[w].step = "fetching"
  /\ shop.mapped /\ (at[w].job.kind = "forced" \/ at[w].auto)
  /\ report[at[w].job.order] = "imported"
  /\ at' = [at EXCEPT ![w] = Idle]
  /\ UNCHANGED <<platform, web, row, booked, jobs, people, clock, faults>>

\* The platform takes a decision on what is on offer, and may repeat its own.
Takes(o, decision) == platform[o] \in {"offered", decision}

Tells(o, decision, outcome) ==
  \/ outcome = "ok" /\ Takes(o, decision)
     /\ platform' = [platform EXCEPT ![o] = decision] /\ UNCHANGED faults
  \/ outcome = "failed" /\ UNCHANGED platform
     /\ IF Takes(o, decision) THEN Fault ELSE UNCHANGED faults
  \/ outcome = "unanswered" /\ Takes(o, decision)
     /\ platform' = [platform EXCEPT ![o] = decision] /\ Fault

\* accept_order: the sale stands whatever the platform answers.
Accepts(w, outcome) ==
  /\ at[w].op = "busy" /\ at[w].step = "accepting"
  /\ Tells(at[w].job.order, "accepted", outcome)
  /\ at' = [at EXCEPT ![w].step = "done",
                      ![w].row = IF outcome = "ok" THEN "ACCEPTED" ELSE @]
  /\ UNCHANGED <<web, row, booked, jobs, people, clock>>

\* _issue_deny, under the row's lock: DENIED whatever the platform answers.
Denies(w, outcome) ==
  /\ at[w].op = "busy" /\ at[w].step = "denying"
  /\ Tells(at[w].job.order, "denied", outcome)
  /\ at' = [at EXCEPT ![w].step = "done", ![w].row = "DENIED"]
  /\ UNCHANGED <<web, row, booked, jobs, people, clock>>

Commits(w) ==
  LET o == at[w].job.order
  IN  /\ at[w].op = "busy" /\ at[w].step = "done"
      /\ row' = [row EXCEPT ![o] = at[w].row]
      /\ sale' = [sale EXCEPT ![o] = IF at[w].books THEN "live" ELSE @]
      /\ sales' = [sales EXCEPT ![o] = IF at[w].books THEN @ + 1 ELSE @]
      /\ at' = [at EXCEPT ![w] = Idle]
      /\ UNCHANGED <<platform, web, dashboard, overruled, report, jobs, people, clock, faults>>

\* An unexpected exception is rolled back and swallowed; a killed job runs again.
Fails(w) ==
  /\ at[w].op = "busy"
  /\ Fault
  /\ jobs' \in {jobs, Requeue(at[w].job)}
  /\ at' = [at EXCEPT ![w] = Idle]
  /\ UNCHANGED <<platform, web, row, booked, people, clock>>

\* _handle_cancellation: one transaction without a call in it.  It reads the Order
\* without a lock, and whatever the dashboard commits before it writes might have
\* come before it read (its write is CANCELLED) or after it (it had nothing to write).
JobCancels(j) ==
  LET o == j.order
  IN  /\ jobs[j] > 0 /\ j.kind = "cancel"
      /\ Lockable(o) /\ row[o] \notin Terminal \cup {"NONE"}
      /\ jobs' = Dequeue(j)
      /\ row' = [row EXCEPT ![o] = "CANCELLED"]
      /\ sale' = [sale EXCEPT ![o] = IF @ = "live" THEN "cancelled" ELSE @]
      /\ overruled' = IF sale[o] = "live" THEN overruled \ {o} ELSE overruled
      /\ UNCHANGED <<platform, web, sales, dashboard, report, at, people, clock, faults>>

-----------------------------------------------------------------------------
(* Staff, in routes_delivery.py. *)

\* Mutant: solving a mapping confirms the order as well.
ForcedAlways(o) == TRUE

\* Only an order that was ready is confirmed; a solved mapping confirms nothing.
Forced(o) == row[o] = "READY_TO_ACCEPT"

\* accept_order: committed as RECEIVED, then queued again, unless the queue is down.
StaffAccepts(o, reachable) ==
  /\ Edit /\ RowFree(o)
  /\ row[o] \in {"NEEDS_MAPPING", "READY_TO_ACCEPT"}
  /\ confirmed' = IF row[o] = "READY_TO_ACCEPT" THEN confirmed \cup {o} ELSE confirmed
  /\ row' = [row EXCEPT ![o] = "RECEIVED"]
  /\ IF reachable THEN jobs' = Enqueue(o, IF Forced(o) THEN "forced" ELSE "order") /\ UNCHANGED faults
                  ELSE Fault /\ UNCHANGED jobs
  /\ UNCHANGED <<platform, web, booked, at, shop, everAuto, clock>>

\* deny_order: the row stays locked while the platform is told.
StaffDenies(w, o) ==
  /\ Edit /\ at[w] = Idle /\ RowFree(o)
  /\ row[o] \in Open
  /\ at' = [at EXCEPT ![w] = [op |-> "busy", step |-> "denying", auto |-> FALSE, books |-> FALSE,
                              row |-> row[o],
                              job |-> [order |-> o, kind |-> "staff", tries |-> 1]]]
  /\ UNCHANGED <<platform, web, row, booked, jobs, shop, everAuto, confirmed, clock, faults>>

\* disable_connection, set_auto_accept and upsert_menu_mapping.  Nothing in the
\* code makes a disabled connection CONNECTED again.
ChangeShop ==
  /\ Edit
  /\ shop' \in {[shop EXCEPT !.live = FALSE], [shop EXCEPT !.auto = ~@], [shop EXCEPT !.mapped = TRUE]}
  /\ shop' # shop
  /\ everAuto' = (everAuto \/ shop'.auto)
  /\ UNCHANGED <<platform, web, row, booked, jobs, at, confirmed, clock, faults>>

-----------------------------------------------------------------------------
(* The dashboard: update_order_status, with no lock and no look at the delivery order. *)

\* CANCELLED has no successor in ORDER_STATUS_TRANSITIONS.
DashboardReads(o) ==
  /\ Edit
  /\ sale[o] = "live"
  /\ dashboard' = dashboard \cup {o}
  /\ UNCHANGED <<platform, web, row, sale, sales, overruled, report, jobs, at, shop, everAuto,
                 confirmed, clock, faults>>

\* The status chosen on the read, whatever was committed since; others may have read too.
DashboardWrites(o, status) ==
  /\ o \in dashboard
  /\ sale' = [sale EXCEPT ![o] = status]
  /\ overruled' = IF sale[o] = status THEN overruled ELSE overruled \cup {o}
  /\ dashboard' \in {dashboard, dashboard \ {o}}
  /\ UNCHANGED <<platform, web, row, sales, report, jobs, at, people, clock, faults>>

-----------------------------------------------------------------------------
(* The daily report, in external_orders. *)

\* resolve_orders: an order the platform has dealt with and nothing is booked for.
ReportReads(o) ==
  /\ Edit
  /\ platform[o] # "offered"
  /\ report[o] = "none" /\ sales[o] = 0
  /\ report' = [report EXCEPT ![o] = "read"]
  /\ UNCHANGED <<platform, web, row, sales, kitchen, jobs, at, shop, everAuto, confirmed, clock, faults>>

\* import_resolved_orders: its insert waits for a sale not yet committed, and the
\* unique index undoes the upload if there is one.
ReportCommits(o) ==
  /\ report[o] = "read"
  /\ \A w \in Workers : ~(Holds(w, o) /\ at[w].books)
  /\ report' = [report EXCEPT ![o] = IF sales[o] = 0 THEN "imported" ELSE "none"]
  /\ UNCHANGED <<platform, web, row, sales, kitchen, jobs, at, people, clock, faults>>

-----------------------------------------------------------------------------
(* The deadline. *)

DeadlinePasses(o) ==
  /\ row[o] # "NONE" /\ o \notin due
  /\ due' = due \cup {o}
  /\ UNCHANGED <<platform, web, row, booked, jobs, at, people, claimed, faults>>

\* Mutant: the watchdog forgets the orders that wait for a mapping.
WatchedButMapping == {"RECEIVED", "FETCHING", "READY_TO_ACCEPT"}

Watched == {"RECEIVED", "FETCHING", "NEEDS_MAPPING", "READY_TO_ACCEPT"}

\* FOR UPDATE SKIP LOCKED.
Overdue == {o \in due : row[o] \in Watched /\ RowFree(o)}

\* delivery_accept_deadline_watchdog, first phase: one commit, no call.
WatchdogClaims ==
  /\ Overdue # {}
  /\ row' = [o \in Orders |-> IF o \in Overdue THEN "DENIED" ELSE row[o]]
  /\ claimed' = claimed \cup Overdue
  /\ UNCHANGED <<platform, web, booked, jobs, at, people, due, faults>>

\* Second phase, with nothing locked; a killed worker tells nobody.
WatchdogTells(o, outcome) ==
  /\ o \in claimed
  /\ Tells(o, "denied", outcome)
  /\ claimed' = claimed \ {o}
  /\ UNCHANGED <<web, row, booked, jobs, at, people, due>>

-----------------------------------------------------------------------------
Outcomes == {"ok", "failed", "unanswered"}

Runs(w) ==
  \/ FetchTimesOut(w) \/ FetchUnusable(w) \/ Fetches(w) \/ BookingRefused(w) \/ Commits(w)
  \/ \E outcome \in Outcomes : Accepts(w, outcome) \/ Denies(w, outcome)

Next ==
  \/ \E o \in Orders :
       \/ CustomerCancels(o) \/ DeadlinePasses(o) \/ ReportReads(o) \/ ReportCommits(o)
       \/ \E reachable \in BOOLEAN : StaffAccepts(o, reachable)
       \/ \E w \in Workers : StaffDenies(w, o)
       \/ DashboardReads(o) \/ \E status \in {"live", "cancelled"} : DashboardWrites(o, status)
       \/ \E outcome \in Outcomes : WatchdogTells(o, outcome)
  \/ \E e \in Events :
       IntakeKnows(e) \/ IntakeRefuses(e) \/ \E r \in Requests : IntakeQueues(r, e)
  \/ \E r \in Requests : IntakeCommits(r) \/ IntakeLost(r)
  \/ \E j \in Jobs :
       JobFindsNothing(j) \/ JobCancels(j) \/ \E w \in Workers : JobLoads(w, j)
  \/ \E w \in Workers : Runs(w) \/ Fails(w)
  \/ ChangeShop
  \/ WatchdogClaims

\* A transaction once open ends, time passes, and the watchdog runs every
\* thirty seconds; nothing is assumed of the queue, of staff or of the platform.
Fairness ==
  /\ \A w \in Workers : WF_vars(Runs(w))
  /\ \A o \in Orders : WF_vars(DeadlinePasses(o)) /\ SF_vars(o \in Overdue /\ WatchdogClaims)

Spec == Init /\ [][Next]_vars

FairSpec == Spec /\ Fairness

-----------------------------------------------------------------------------
\* An event that was answered 200 has its order open and had its job queued: an
\* enqueue that fails leaves nothing behind that would swallow the retry
\* (intake.py on holding the transaction open across the enqueue).
AnsweredIsQueued ==
  \A e \in answered : e \in queued /\ row[Order[e]] # "NONE"

\* However often an order is notified, re-queued or confirmed, whatever is lost
\* in between, and whether the platform's report lists it as well, it is sold once.
SoldOnce ==
  \A o \in Orders : sales[o] + (IF report[o] = "imported" THEN 1 ELSE 0) <= 1

\* Nothing reaches the kitchen that staff did not confirm, unless the business
\* had switched auto-accept on (order_service.py on auto_accept_enabled).
KitchenConsents == \A o \in Orders : sales[o] > 0 => o \in confirmed \/ everAuto

\* An order is ACCEPTED here only if the platform knows and it was sold.  Nothing
\* but the dashboard's own status parts the sale from the delivery order: unless its
\* was the last word, the sale of an ACCEPTED order stands and that of a CANCELLED one is
\* cancelled (order_service.py:363-413 against routes_orders.py:541-629).
AcceptedIsTold ==
  \A o \in Orders :
    /\ row[o] = "ACCEPTED" => sales[o] = 1 /\ platform[o] \in {"accepted", "cancelled"}
    /\ row[o] = "ACCEPTED" /\ sale[o] # "live" => o \in overruled
    /\ row[o] = "CANCELLED" /\ sale[o] = "live" => o \in overruled

\* A denied or cancelled order stays so, and is not sold afterwards, although
\* jobs, staff and the watchdog all still hold references to it; only a dashboard
\* that had read its sale as live may still write that.
FinalIsFinal ==
  [][\A o \in Orders : row[o] \in Terminal =>
       /\ row'[o] = row[o] /\ sales'[o] = sales[o]
       /\ sale'[o] = sale[o] \/ o \in dashboard]_vars

\* "Never silence": whatever becomes of its job, an order the webhook took is
\* accepted, denied or cancelled in the end.
OffersAreSettled ==
  \A o \in Orders : row[o] \in Open ~> row[o] \in {"ACCEPTED"} \cup Terminal

\* "Honest to both the customer and the books (no phantom sale)"
\* (delivery_accept_deadline_watchdog): what was denied was not sold.
NoPhantomSale == \A o \in Orders : row[o] = "DENIED" => sale[o] # "live"
=============================================================================
