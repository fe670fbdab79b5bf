------------------------ MODULE DeliveryIntakeProofs ------------------------
(***************************************************************************)
(* Delivery orders for any number of orders, events, requests and workers. *)
(*                                                                         *)
(* A worker that has the row of an order locked is the only one who        *)
(* writes it, so what it loaded is still what the table has (HandsOK).     *)
(* What the rows then say of sales, consent and the platform (RowsOK)      *)
(* survives whatever a worker commits.                                     *)
(***************************************************************************)
EXTENDS DeliveryIntake, TLAPS

\* What was logged has its order open and its job queued, as has what an open
\* request has inserted, but for the commit.
IntakeOK ==
  /\ answered \subseteq logged
  /\ \A e \in logged : e \in queued /\ row[Order[e]] # "NONE"
  /\ \A r \in Requests : intake[r] # "idle" => intake[r] \in queued

\* Nothing is sold before the platform is about to be told.
Unsold == {"NONE", "RECEIVED", "NEEDS_MAPPING", "READY_TO_ACCEPT"}

Consented(o) == o \in confirmed \/ everAuto

Told(o) == platform[o] \in {"accepted", "cancelled"}

RowOK(o) ==
  /\ row[o] \in Unsold => sale[o] = "none"
  /\ sales[o] = IF sale[o] = "none" THEN 0 ELSE 1
  /\ report[o] = "imported" => sales[o] = 0
  /\ sales[o] > 0 => Consented(o)
  /\ row[o] = "ACCEPTED" => sale[o] # "none" /\ Told(o)
  /\ row[o] = "ACCEPTED" /\ sale[o] # "live" => o \in overruled
  /\ row[o] = "CANCELLED" /\ sale[o] = "live" => o \in overruled
  /\ o \in dashboard => sale[o] # "none"

RowsOK == \A o \in Orders : RowOK(o)

\* What worker w knows of the order it has locked.
HandOK(w) ==
  LET o == at[w].job.order
      new == at[w].row
  IN  /\ row[o] \in Open
      /\ at[w].auto => everAuto
      /\ at[w].job.kind = "forced" => o \in confirmed
      /\ at[w].step \in {"fetching", "accepting"} => row[o] = "RECEIVED"
      /\ at[w].step \in {"fetching", "denying"} => new = row[o] /\ ~at[w].books
      /\ at[w].step = "accepting" => at[w].books /\ new = "FETCHING"
      /\ at[w].books =>
           /\ row[o] = "RECEIVED" /\ report[o] # "imported" /\ Consented(o)
           /\ new \in {"FETCHING", "ACCEPTED"}
           /\ new = "ACCEPTED" => Told(o)
      /\ at[w].step = "done" /\ ~at[w].books => new = "DENIED"

HandsOK == \A w \in Workers : at[w].op = "busy" => HandOK(w)

\* FOR UPDATE: one transaction at a time has an order's row.
LocksOK == \A v, w \in Workers, o \in Orders : Holds(v, o) /\ Holds(w, o) => v = w

\* A job is forced only for an order that staff confirmed.
JobsOK == \A j \in Jobs : jobs[j] > 0 /\ j.kind = "forced" => j.order \in confirmed

\* everAuto remembers that auto-accept is on.
AutoOK == shop.auto => everAuto

IInv == TypeOK /\ IntakeOK /\ RowsOK /\ HandsOK /\ LocksOK /\ JobsOK /\ AutoOK

-----------------------------------------------------------------------------
(* Types.                                                                   *)

Steps == {"fetching", "denying", "accepting", "done"}

Busy == [op : {"busy"}, job : [order : Orders, kind : Kinds \cup {"staff"}, tries : 1 .. MaxTries],
         step : Steps, auto : BOOLEAN, books : BOOLEAN, row : Statuses]

\* A worker that is not idle has a transaction open on an order.
LEMMA HandShape ==
  ASSUME TypeOK, NEW w \in Workers, at[w].op = "busy"
  PROVE  at[w] \in Busy
<1>1. at[w] \in Hands
  BY DEF TypeOK
<1>2. at[w] # Idle
  BY DEF Idle
<1> QED
  BY <1>1, <1>2 DEF Hands, Busy, Steps

LEMMA HandsBusy == Hands = {Idle} \cup Busy
BY DEF Hands, Busy, Steps

\* Only a job that is on the queue comes off it, and a queue of jobs is left.
LEMMA QueueTypes ==
  ASSUME TypeOK
  PROVE  /\ \A j \in Jobs : jobs[j] > 0 => Dequeue(j) \in [Jobs -> Nat]
         /\ \A o \in Orders, kind \in Kinds : Enqueue(o, kind) \in [Jobs -> Nat]
         /\ \A w \in Workers : at[w].op = "busy" => Requeue(at[w].job) \in [Jobs -> Nat]
<1>1. jobs \in [Jobs -> Nat]
  BY DEF TypeOK
<1>2. ASSUME NEW j \in Jobs, jobs[j] > 0 PROVE Dequeue(j) \in [Jobs -> Nat]
  BY <1>1, <1>2 DEF Dequeue
<1>3. ASSUME NEW o \in Orders, NEW kind \in Kinds PROVE Enqueue(o, kind) \in [Jobs -> Nat]
  <2>1. [order |-> o, kind |-> kind, tries |-> 1] \in Jobs
    BY DeliveryAssumption DEF Jobs
  <2> QED
    BY <1>1, <2>1 DEF Enqueue
<1>4. ASSUME NEW w \in Workers, at[w].op = "busy" PROVE Requeue(at[w].job) \in [Jobs -> Nat]
  <2> DEFINE j == at[w].job
             again == [j EXCEPT !.tries = j.tries + 1]
  <2>1. j \in [order : Orders, kind : Kinds \cup {"staff"}, tries : 1 .. MaxTries]
    BY <1>4, HandShape DEF Busy
  <2>2. CASE j.kind = "staff" \/ j.tries = MaxTries
    BY <1>1, <2>2 DEF Requeue
  <2>3. CASE ~(j.kind = "staff" \/ j.tries = MaxTries)
    <3>1. again \in Jobs
      BY <2>1, <2>3, DeliveryAssumption DEF Jobs
    <3>2. Requeue(j) = [jobs EXCEPT ![again] = jobs[again] + 1]
      BY <2>3 DEF Requeue
    <3> QED
      BY <1>1, <3>1, <3>2
  <2> QED
    BY <2>2, <2>3
<1> QED
  BY <1>2, <1>3, <1>4

\* A transaction k, but for its step, the sale it has booked and the status it will commit.
Hand(k, step, books, new) ==
  [op |-> "busy", job |-> k.job, step |-> step, auto |-> k.auto, books |-> books, row |-> new]

\* The provers update a record one field at a time.
LEMMA HandMoves ==
  ASSUME NEW k \in Busy, NEW step \in Steps
  PROVE  [k EXCEPT !.step = step] = Hand(k, step, k.books, k.row)
BY DEF Busy, Steps, Hand

LEMMA HandTurns ==
  ASSUME NEW k \in Busy, NEW step \in Steps, NEW new
  PROVE  [[k EXCEPT !.step = step] EXCEPT !.row = new] = Hand(k, step, k.books, new)
<1> DEFINE h == [k EXCEPT !.step = step]
<1>1. h = Hand(k, step, k.books, k.row)
  BY HandMoves
<1>2. [Hand(k, step, k.books, k.row) EXCEPT !.row = new] = Hand(k, step, k.books, new)
  BY DEF Hand
<1> HIDE DEF h
<1>3. [h EXCEPT !.row = new] = Hand(k, step, k.books, new)
  BY <1>1, <1>2
<1> QED
  BY <1>3 DEF h

LEMMA HandBooks ==
  ASSUME NEW k \in Busy, NEW step \in Steps, NEW new \in Statuses
  PROVE  [k EXCEPT !.step = step, !.books = TRUE, !.row = new] = Hand(k, step, TRUE, new)
<1> DEFINE g == [k EXCEPT !.step = step, !.books = TRUE, !.row = new]
<1>1. g \in Busy
  BY DEF Busy
<1>2. g.op = "busy" /\ g.job = k.job /\ g.step = step /\ g.auto = k.auto /\ g.books = TRUE /\ g.row = new
  BY DEF Busy
<1> HIDE DEF g
<1>3. g = [op |-> g.op, job |-> g.job, step |-> g.step, auto |-> g.auto, books |-> g.books, row |-> g.row]
  BY <1>1 DEF Busy
<1>4. g = Hand(k, step, TRUE, new)
  BY <1>2, <1>3 DEF Hand
<1> QED
  BY <1>4 DEF g

LEMMA BookedType == Booked \in Statuses
BY DEF Booked, Statuses, Open

LEMMA HandTypes ==
  ASSUME NEW k \in Busy, NEW books \in BOOLEAN, NEW new \in Statuses, NEW step \in Steps
  PROVE  Hand(k, step, books, new) \in Busy
BY DEF Hand, Busy

\* The four steps that keep a transaction open change nothing else of it.
LEMMA HandSteps ==
  ASSUME TypeOK, NEW w \in Workers, at[w].op = "busy"
  PROVE  /\ FetchUnusable(w) => at' = [at EXCEPT ![w] = Hand(at[w], "denying", at[w].books, at[w].row)]
         /\ Fetches(w) =>
              \/ at' = [at EXCEPT ![w] = Idle]
              \/ at' = [at EXCEPT ![w] = Hand(at[w], "accepting", TRUE, Booked)]
         /\ \A outcome : Accepts(w, outcome) =>
              at' = [at EXCEPT ![w] = Hand(at[w], "done", at[w].books,
                       IF outcome = "ok" THEN "ACCEPTED" ELSE at[w].row)]
         /\ \A outcome : Denies(w, outcome) =>
              at' = [at EXCEPT ![w] = Hand(at[w], "done", at[w].books, "DENIED")]
<1> DEFINE h == at[w]
<1>1. h \in Busy
  BY HandShape
<1>2. \A status : [h EXCEPT !.step = "done", !.row = status] = Hand(h, "done", h.books, status)
  <2>1. \A status : [h EXCEPT !.step = "done", !.row = status] = [[h EXCEPT !.step = "done"] EXCEPT !.row = status]
    BY Zenon
  <2>2. "done" \in Steps
    BY DEF Steps
  <2> QED
    BY <1>1, <2>1, <2>2, HandTurns, Zenon
<1>3. ASSUME FetchUnusable(w)
      PROVE  at' = [at EXCEPT ![w] = Hand(h, "denying", h.books, h.row)]
  <2>1. at' = [at EXCEPT ![w] = [h EXCEPT !.step = "denying"]]
    BY <1>3, Zenon DEF FetchUnusable
  <2>2. "denying" \in Steps
    BY DEF Steps
  <2> QED
    BY <1>1, <2>1, <2>2, HandMoves, Zenon
<1>4. ASSUME Fetches(w)
      PROVE  \/ at' = [at EXCEPT ![w] = Idle]
             \/ at' = [at EXCEPT ![w] = Hand(h, "accepting", TRUE, Booked)]
  <2>1. \/ at' = [at EXCEPT ![w] = Idle]
        \/ at' = [at EXCEPT ![w] = [h EXCEPT !.step = "accepting", !.books = TRUE, !.row = Booked]]
    BY <1>4, Zenon DEF Fetches, Parks
  <2>2. "accepting" \in Steps
    BY DEF Steps
  <2>3. [h EXCEPT !.step = "accepting", !.books = TRUE, !.row = Booked]
          = Hand(h, "accepting", TRUE, Booked)
    BY <1>1, <2>2, HandBooks, BookedType, Zenon
  <2> QED
    BY <2>1, <2>3, Zenon
<1>5. ASSUME NEW outcome, Accepts(w, outcome)
      PROVE  at' = [at EXCEPT ![w] = Hand(h, "done", h.books, IF outcome = "ok" THEN "ACCEPTED" ELSE h.row)]
  <2> DEFINE status == IF outcome = "ok" THEN "ACCEPTED" ELSE h.row
  <2>1. at' = [at EXCEPT ![w] = [h EXCEPT !.step = "done", !.row = status]]
    BY <1>5, Zenon DEF Accepts
  <2> QED
    BY <1>2, <2>1, Zenon
<1>6. ASSUME NEW outcome, Denies(w, outcome)
      PROVE  at' = [at EXCEPT ![w] = Hand(h, "done", h.books, "DENIED")]
  <2>1. at' = [at EXCEPT ![w] = [h EXCEPT !.step = "done", !.row = "DENIED"]]
    BY <1>6, Zenon DEF Denies
  <2> QED
    BY <1>2, <2>1, Zenon
<1> QED
  BY <1>3, <1>4, <1>5, <1>6

\* The types survive every step.
LEMMA StepTypes ==
  ASSUME TypeOK, Next
  PROVE  TypeOK'
<1> USE DeliveryAssumption
<1>1. ASSUME NEW o \in Orders, CustomerCancels(o) PROVE TypeOK'
  BY <1>1 DEF TypeOK, CustomerCancels, web, booked, kitchen, people, clock
<1>2. ASSUME NEW o \in Orders, DeadlinePasses(o) PROVE TypeOK'
  BY <1>2 DEF TypeOK, DeadlinePasses, web, booked, kitchen, people
<1>3. ASSUME NEW o \in Orders, ReportReads(o) \/ ReportCommits(o) PROVE TypeOK'
  BY <1>3 DEF TypeOK, ReportReads, ReportCommits, Edit, kitchen, web, people, clock
<1>4. ASSUME NEW o \in Orders, NEW reachable \in BOOLEAN, StaffAccepts(o, reachable)
      PROVE  TypeOK'
  <2>1. jobs' \in [Jobs -> Nat]
    BY <1>4, QueueTypes DEF StaffAccepts, TypeOK, Kinds
  <2>2. row' \in [Orders -> Statuses]
    BY <1>4 DEF StaffAccepts, TypeOK, Statuses, Open
  <2> QED
    BY <1>4, <2>1, <2>2 DEF TypeOK, StaffAccepts, Edit, Fault, web, booked, kitchen, clock
<1>5. ASSUME NEW o \in Orders, NEW w \in Workers, StaffDenies(w, o) PROVE TypeOK'
  <2>1. at' \in [Workers -> Hands]
    BY <1>5 DEF StaffDenies, TypeOK, Hands
  <2> QED
    BY <1>5, <2>1 DEF TypeOK, StaffDenies, Edit, web, booked, kitchen, clock
<1>6. ASSUME NEW o \in Orders, NEW outcome \in Outcomes, WatchdogTells(o, outcome) PROVE TypeOK'
  BY <1>6 DEF TypeOK, WatchdogTells, Tells, Fault, web, booked, kitchen, people
<1>7. ASSUME NEW e \in Events, IntakeKnows(e) \/ IntakeRefuses(e) PROVE TypeOK'
  BY <1>7 DEF TypeOK, IntakeKnows, IntakeRefuses, Posts, Fault, booked, kitchen, people, clock
<1>8. ASSUME NEW e \in Events, NEW r \in Requests, IntakeQueues(r, e) PROVE TypeOK'
  <2>1. jobs' \in [Jobs -> Nat]
    BY <1>8, QueueTypes DEF IntakeQueues, Kinds
  <2> QED
    BY <1>8, <2>1 DEF TypeOK, IntakeQueues, Posts, booked, kitchen, people, clock
<1>9. ASSUME NEW r \in Requests, IntakeCommits(r) PROVE TypeOK'
  <2>1. row' \in [Orders -> Statuses]
    BY <1>9 DEF IntakeCommits, TypeOK, Statuses, Open
  <2> QED
    BY <1>9, <2>1 DEF TypeOK, IntakeCommits, booked, kitchen, people, clock
<1>10. ASSUME NEW r \in Requests, IntakeLost(r) PROVE TypeOK'
  BY <1>10 DEF TypeOK, IntakeLost, Kept, Fault, booked, kitchen, people, clock
<1>11. ASSUME NEW j \in Jobs, JobFindsNothing(j) PROVE TypeOK'
  <2>1. jobs' \in [Jobs -> Nat]
    BY <1>11, QueueTypes DEF JobFindsNothing
  <2> QED
    BY <1>11, <2>1 DEF TypeOK, JobFindsNothing, web, booked, kitchen, people, clock
<1>12. ASSUME NEW j \in Jobs, JobCancels(j) PROVE TypeOK'
  <2>1. jobs' \in [Jobs -> Nat]
    BY <1>12, QueueTypes DEF JobCancels
  <2>2. row' \in [Orders -> Statuses]
    BY <1>12 DEF JobCancels, TypeOK, Statuses, Terminal, Jobs
  <2>3. sale' \in [Orders -> {"none", "live", "cancelled"}]
    BY <1>12 DEF JobCancels, TypeOK, Jobs
  <2> QED
    BY <1>12, <2>1, <2>2, <2>3 DEF TypeOK, JobCancels, web, booked, kitchen, people, clock
<1>13. ASSUME NEW j \in Jobs, NEW w \in Workers, JobLoads(w, j) PROVE TypeOK'
  <2>1. jobs' \in [Jobs -> Nat]
    BY <1>13, QueueTypes DEF JobLoads
  <2>2. at' \in [Workers -> Hands]
    BY <1>13 DEF JobLoads, TypeOK, Hands, Jobs
  <2> QED
    BY <1>13, <2>1, <2>2 DEF TypeOK, JobLoads, web, booked, kitchen, people, clock
<1>14. ASSUME NEW w \in Workers, FetchTimesOut(w) \/ Fails(w) PROVE TypeOK'
  <2>1. jobs' \in [Jobs -> Nat]
    BY <1>14, QueueTypes DEF FetchTimesOut, Fails, TypeOK
  <2>2. at' \in [Workers -> Hands]
    BY <1>14 DEF FetchTimesOut, Fails, TypeOK, Hands
  <2> QED
    BY <1>14, <2>1, <2>2 DEF TypeOK, FetchTimesOut, Fails, Fault, web, booked, kitchen, people, clock
<1>15. ASSUME NEW w \in Workers, FetchUnusable(w) PROVE TypeOK'
  <2>1. at[w].op = "busy" /\ at \in [Workers -> Hands]
    BY <1>15 DEF FetchUnusable, TypeOK
  <2>2. Hand(at[w], "denying", at[w].books, at[w].row) \in Hands
    BY <2>1, HandShape, HandTypes, HandsBusy DEF Busy, Steps
  <2>3. at' = [at EXCEPT ![w] = Hand(at[w], "denying", at[w].books, at[w].row)]
    BY <1>15, <2>1, HandSteps, Zenon
  <2>4. at' \in [Workers -> Hands]
    BY <2>1, <2>2, <2>3
  <2> QED
    BY <1>15, <2>4 DEF TypeOK, FetchUnusable, Fault, web, booked, kitchen, people, clock
<1>16. ASSUME NEW w \in Workers, Fetches(w) PROVE TypeOK'
  <2>1. at[w].op = "busy" /\ at \in [Workers -> Hands] /\ row \in [Orders -> Statuses]
    BY <1>16 DEF Fetches, TypeOK
  <2>2. Booked \in Statuses
    BY BookedType
  <2>3. at' \in [Workers -> Hands]
    <3>1. Idle \in Hands /\ Hand(at[w], "accepting", TRUE, Booked) \in Hands
      BY <2>1, <2>2, HandShape, HandTypes, HandsBusy DEF Steps
    <3>2. \/ at' = [at EXCEPT ![w] = Idle]
          \/ at' = [at EXCEPT ![w] = Hand(at[w], "accepting", TRUE, Booked)]
      BY <1>16, <2>1, HandSteps, Zenon
    <3> QED
      BY <2>1, <3>1, <3>2
  <2>4. row' = row \/ Parks(w, "NEEDS_MAPPING") \/ Parks(w, "READY_TO_ACCEPT")
    BY <1>16, Zenon DEF Fetches
  <2>5. row' \in [Orders -> Statuses]
    <3>1. ASSUME NEW status \in {"NEEDS_MAPPING", "READY_TO_ACCEPT"}, Parks(w, status)
          PROVE  row' \in [Orders -> Statuses]
      <4>1. row' = [row EXCEPT ![at[w].job.order] = status] /\ status \in Statuses
        BY <3>1 DEF Parks, Statuses, Open
      <4> QED
        BY <2>1, <4>1
    <3> QED
      BY <2>1, <2>4, <3>1
  <2>6. UNCHANGED <<platform, web, booked, jobs, people, clock, faults>>
    BY <1>16, Zenon DEF Fetches
  <2> QED
    BY <2>3, <2>5, <2>6 DEF TypeOK, web, booked, kitchen, people, clock
<1>17. ASSUME NEW w \in Workers, BookingRefused(w) PROVE TypeOK'
  <2>1. at' \in [Workers -> Hands]
    BY <1>17 DEF BookingRefused, TypeOK, Hands
  <2> QED
    BY <1>17, <2>1 DEF TypeOK, BookingRefused, web, booked, kitchen, people, clock
<1>18. ASSUME NEW w \in Workers, NEW outcome \in Outcomes, Accepts(w, outcome) \/ Denies(w, outcome)
       PROVE  TypeOK'
  <2> DEFINE told == IF outcome = "ok" THEN "ACCEPTED" ELSE at[w].row
             denied == "DENIED"
  <2>1. at[w].op = "busy" /\ at \in [Workers -> Hands]
    BY <1>18 DEF Accepts, Denies, TypeOK
  <2>2. at[w] \in Busy
    BY <2>1, HandShape
  <2>3. told \in Statuses /\ denied \in Statuses
    BY <2>2 DEF Busy, Statuses, Terminal
  <2> HIDE DEF told, denied
  <2>4. /\ Hand(at[w], "done", at[w].books, told) \in Hands
        /\ Hand(at[w], "done", at[w].books, denied) \in Hands
    BY <2>2, <2>3, HandTypes, HandsBusy DEF Busy, Steps
  <2>5. \/ at' = [at EXCEPT ![w] = Hand(at[w], "done", at[w].books, told)]
        \/ at' = [at EXCEPT ![w] = Hand(at[w], "done", at[w].books, denied)]
    BY <1>18, <2>1, HandSteps, Zenon DEF told, denied
  <2>6. at' \in [Workers -> Hands]
    BY <2>1, <2>4, <2>5
  <2>7. platform' \in [Orders -> {"offered", "accepted", "denied", "cancelled"}] /\ faults' \in 0 .. MaxFaults
    BY <1>18 DEF Accepts, Denies, Tells, Fault, TypeOK
  <2> QED
    BY <1>18, <2>6, <2>7 DEF TypeOK, Accepts, Denies, web, booked, kitchen, people, clock
<1>19. ASSUME NEW w \in Workers, Commits(w) PROVE TypeOK'
  <2> DEFINE o == at[w].job.order
  <2>1. at[w].op = "busy" /\ o \in Orders /\ at[w].row \in Statuses
    BY <1>19, HandShape DEF Commits, Busy
  <2>2. row' = [row EXCEPT ![o] = at[w].row]
        /\ sales' = [sales EXCEPT ![o] = IF at[w].books THEN @ + 1 ELSE @]
        /\ sale' = [sale EXCEPT ![o] = IF at[w].books THEN "live" ELSE @]
    BY <1>19 DEF Commits
  <2>3. /\ row' \in [Orders -> Statuses] /\ sales' \in [Orders -> Nat]
        /\ sale' \in [Orders -> {"none", "live", "cancelled"}]
    BY <2>1, <2>2 DEF TypeOK
  <2>4. at' \in [Workers -> Hands]
    BY <1>19 DEF Commits, TypeOK, Hands
  <2> QED
    BY <1>19, <2>3, <2>4 DEF TypeOK, Commits, web, people, clock
<1>20. ASSUME NEW w \in Workers, Runs(w) \/ Fails(w) PROVE TypeOK'
  BY <1>14, <1>15, <1>16, <1>17, <1>18, <1>19, <1>20 DEF Runs
<1>21. CASE ChangeShop
  <2> DEFINE Shops == [live : BOOLEAN, auto : BOOLEAN, mapped : BOOLEAN]
  <2>1. shop' \in Shops
    <3>1. ASSUME NEW s \in Shops
          PROVE  {[s EXCEPT !.live = FALSE], [s EXCEPT !.auto = ~s.auto], [s EXCEPT !.mapped = TRUE]}
                   \subseteq Shops
      OBVIOUS
    <3>2. shop \in Shops
      BY DEF TypeOK
    <3>3. shop' \in {[shop EXCEPT !.live = FALSE], [shop EXCEPT !.auto = ~shop.auto], [shop EXCEPT !.mapped = TRUE]}
      BY <1>21 DEF ChangeShop
    <3> HIDE DEF Shops
    <3> QED
      BY <3>1, <3>2, <3>3
  <2>2. everAuto' \in BOOLEAN
    BY <1>21 DEF ChangeShop
  <2> QED
  BY <1>21, <2>1, <2>2 DEF TypeOK, ChangeShop, Edit, web, booked, kitchen, clock
<1>22. CASE WatchdogClaims
  <2>1. row' \in [Orders -> Statuses]
    BY <1>22 DEF WatchdogClaims, TypeOK, Statuses, Terminal
  <2> QED
    BY <1>22, <2>1 DEF TypeOK, WatchdogClaims, Overdue, web, booked, kitchen, people
<1>23. ASSUME NEW o \in Orders, DashboardReads(o) PROVE TypeOK'
  BY <1>23 DEF TypeOK, DashboardReads, Edit, web, clock
<1>24. ASSUME NEW o \in Orders, NEW status \in {"live", "cancelled"}, DashboardWrites(o, status)
       PROVE  TypeOK'
  BY <1>24 DEF TypeOK, DashboardWrites, web, people, clock
<1>25. ASSUME NEW e \in Events,
              IntakeKnows(e) \/ IntakeRefuses(e) \/ \E r \in Requests : IntakeQueues(r, e)
       PROVE  TypeOK'
  BY <1>7, <1>8, <1>25
<1>26. ASSUME NEW o \in Orders,
              \/ CustomerCancels(o) \/ DeadlinePasses(o) \/ ReportReads(o) \/ ReportCommits(o)
              \/ \E reachable \in BOOLEAN : StaffAccepts(o, reachable)
              \/ \E w \in Workers : StaffDenies(w, o)
              \/ DashboardReads(o) \/ \E status \in {"live", "cancelled"} : DashboardWrites(o, status)
              \/ \E outcome \in Outcomes : WatchdogTells(o, outcome)
       PROVE  TypeOK'
  BY <1>1, <1>2, <1>3, <1>4, <1>5, <1>6, <1>23, <1>24, <1>26
<1>27. ASSUME NEW j \in Jobs,
              JobFindsNothing(j) \/ JobCancels(j) \/ \E w \in Workers : JobLoads(w, j)
       PROVE  TypeOK'
  BY <1>11, <1>12, <1>13, <1>27
<1> QED
  BY <1>9, <1>10, <1>20, <1>21, <1>22, <1>25, <1>26, <1>27 DEF Next

-----------------------------------------------------------------------------
(* What only grows: consent, and what the platform was told.                *)

Grows ==
  /\ everAuto => everAuto'
  /\ confirmed \subseteq confirmed'
  /\ \A o \in Orders : Told(o) => Told(o)'

\* Nothing takes a consent back, and no denial reaches an order that the
\* platform has accepted or cancelled.
LEMMA StepGrows ==
  ASSUME TypeOK, Next
  PROVE  Grows
<1> USE DEF Grows
<1>1. ASSUME NEW o \in Orders, NEW decision \in {"accepted", "denied"}, NEW outcome,
             Tells(o, decision, outcome)
      PROVE  \A p \in Orders : Told(p) => Told(p)'
  BY <1>1 DEF Tells, Takes, Told, TypeOK
<1>2. ASSUME UNCHANGED platform
      PROVE  \A p \in Orders : Told(p) => Told(p)'
  BY <1>2 DEF Told
<1>3. ASSUME NEW o \in Orders,
             \/ CustomerCancels(o) \/ DeadlinePasses(o) \/ ReportReads(o) \/ ReportCommits(o)
             \/ \E reachable \in BOOLEAN : StaffAccepts(o, reachable)
             \/ \E w \in Workers : StaffDenies(w, o)
             \/ DashboardReads(o) \/ \E status \in {"live", "cancelled"} : DashboardWrites(o, status)
             \/ \E outcome \in Outcomes : WatchdogTells(o, outcome)
      PROVE  Grows
  <2>1. CASE CustomerCancels(o)
    BY <2>1 DEF CustomerCancels, people, Told, TypeOK
  <2>2. CASE DeadlinePasses(o) \/ ReportReads(o) \/ ReportCommits(o)
    BY <1>2, <2>2 DEF DeadlinePasses, ReportReads, ReportCommits, people
  <2>3. ASSUME NEW reachable \in BOOLEAN, StaffAccepts(o, reachable) PROVE Grows
    BY <1>2, <2>3 DEF StaffAccepts
  <2>4. ASSUME NEW w \in Workers, StaffDenies(w, o) PROVE Grows
    BY <1>2, <2>4 DEF StaffDenies
  <2>5. ASSUME NEW outcome \in Outcomes, WatchdogTells(o, outcome) PROVE Grows
    BY <1>1, <2>5 DEF WatchdogTells, people
  <2>6. ASSUME NEW status, DashboardReads(o) \/ DashboardWrites(o, status) PROVE Grows
    BY <1>2, <2>6 DEF DashboardReads, DashboardWrites, people
  <2> QED
    BY <1>3, <2>1, <2>2, <2>3, <2>4, <2>5, <2>6
<1>4. ASSUME NEW e \in Events,
             IntakeKnows(e) \/ IntakeRefuses(e) \/ \E r \in Requests : IntakeQueues(r, e)
      PROVE  Grows
  BY <1>2, <1>4 DEF IntakeKnows, IntakeRefuses, IntakeQueues, people
<1>5. ASSUME NEW r \in Requests, IntakeCommits(r) \/ IntakeLost(r) PROVE Grows
  BY <1>2, <1>5 DEF IntakeCommits, IntakeLost, people
<1>6. ASSUME NEW j \in Jobs,
             JobFindsNothing(j) \/ JobCancels(j) \/ \E w \in Workers : JobLoads(w, j)
      PROVE  Grows
  BY <1>2, <1>6 DEF JobFindsNothing, JobCancels, JobLoads, people
<1>7. ASSUME NEW w \in Workers, Runs(w) \/ Fails(w) PROVE Grows
  <2>1. CASE FetchTimesOut(w) \/ FetchUnusable(w) \/ Fetches(w) \/ BookingRefused(w) \/ Commits(w) \/ Fails(w)
    <3>1. UNCHANGED platform /\ UNCHANGED people
      BY <2>1, SMT DEF FetchTimesOut, FetchUnusable, Fetches, BookingRefused, Commits, Fails
    <3> QED
      BY <1>2, <3>1 DEF people
  <2>2. ASSUME NEW outcome \in Outcomes, Accepts(w, outcome) \/ Denies(w, outcome) PROVE Grows
    <3>1. at[w].job.order \in Orders /\ UNCHANGED people
      BY <2>2, HandShape DEF Accepts, Denies, Busy
    <3> QED
      BY <1>1, <2>2, <3>1 DEF Accepts, Denies, people
  <2> QED
    BY <1>7, <2>1, <2>2 DEF Runs
<1>8. CASE ChangeShop
  BY <1>2, <1>8 DEF ChangeShop
<1>9. CASE WatchdogClaims
  BY <1>2, <1>9 DEF WatchdogClaims, people
<1> QED
  BY <1>3, <1>4, <1>5, <1>6, <1>7, <1>8, <1>9 DEF Next

-----------------------------------------------------------------------------
(* What the rows say.                                                       *)

\* The sale of o and what the dashboard has to do with it stay as they are.
SaleStays(o) ==
  /\ sales'[o] = sales[o] /\ sale'[o] = sale[o]
  /\ o \in overruled' <=> o \in overruled
  /\ o \in dashboard' => o \in dashboard

\* A row that a step leaves alone says what it said.
LEMMA RowStays ==
  ASSUME Grows, NEW o \in Orders, RowOK(o), row'[o] = row[o], SaleStays(o),
         report'[o] = "imported" => sales[o] = 0
  PROVE  RowOK(o)'
BY DEF Grows, RowOK, Consented, Told, SaleStays

\* A row that moves without its sale, to neither ACCEPTED nor CANCELLED.
LEMMA RowMoves ==
  ASSUME Grows, NEW o \in Orders, RowOK(o), SaleStays(o), report'[o] = report[o],
         row'[o] \notin {"ACCEPTED", "CANCELLED"},
         row'[o] \in Unsold => row[o] \in Unsold
  PROVE  RowOK(o)'
BY DEF Grows, RowOK, Consented, Told, SaleStays

LEMMA StepRows ==
  ASSUME IInv, Next
  PROVE  RowsOK'
<1> TypeOK /\ RowsOK /\ HandsOK /\ Grows
  BY StepGrows DEF IInv
<1>1. ASSUME UNCHANGED <<row, booked>> PROVE RowsOK'
  BY <1>1, RowStays DEF RowsOK, RowOK, SaleStays, booked, kitchen
<1>2. ASSUME NEW o \in Orders,
             \/ CustomerCancels(o) \/ DeadlinePasses(o)
             \/ \E w \in Workers : StaffDenies(w, o)
             \/ \E outcome \in Outcomes : WatchdogTells(o, outcome)
      PROVE  RowsOK'
  BY <1>1, <1>2 DEF CustomerCancels, DeadlinePasses, StaffDenies, WatchdogTells
<1>3. ASSUME NEW o \in Orders, ReportReads(o) \/ ReportCommits(o) PROVE RowsOK'
  <2> SUFFICES ASSUME NEW p \in Orders PROVE RowOK(p)'
    BY DEF RowsOK
  <2>1. row' = row /\ SaleStays(p) /\ report \in [Orders -> {"none", "read", "imported"}]
    BY <1>3 DEF ReportReads, ReportCommits, TypeOK, SaleStays, kitchen
  <2>2. RowOK(p) /\ (report[p] = "imported" => sales[p] = 0)
    BY DEF RowsOK, RowOK
  <2>3. report'[p] = "imported" => sales[p] = 0
    BY <1>3, <2>1, <2>2 DEF ReportReads, ReportCommits
  <2> QED
    BY <2>1, <2>2, <2>3, RowStays
<1>4. ASSUME NEW o \in Orders, NEW status, UNCHANGED booked, row' = [row EXCEPT ![o] = status],
             status \notin {"ACCEPTED", "CANCELLED"},
             status \in Unsold => row[o] \in Unsold
      PROVE  RowsOK'
  <2> SUFFICES ASSUME NEW p \in Orders PROVE RowOK(p)'
    BY DEF RowsOK
  <2>1. RowOK(p) /\ row \in [Orders -> Statuses] /\ SaleStays(p) /\ report' = report
    BY <1>4 DEF RowsOK, TypeOK, SaleStays, booked, kitchen
  <2>2. CASE p = o
    BY <1>4, <2>1, <2>2, RowMoves
  <2>3. CASE p # o
    BY <1>4, <2>1, <2>3, RowStays DEF RowOK
  <2> QED
    BY <2>2, <2>3
<1>5. ASSUME NEW o \in Orders, NEW reachable \in BOOLEAN, StaffAccepts(o, reachable) PROVE RowsOK'
  BY <1>4, <1>5 DEF StaffAccepts, Unsold
<1>6. ASSUME NEW e \in Events,
             IntakeKnows(e) \/ IntakeRefuses(e) \/ \E r \in Requests : IntakeQueues(r, e)
      PROVE  RowsOK'
  BY <1>1, <1>6 DEF IntakeKnows, IntakeRefuses, IntakeQueues
<1>7. ASSUME NEW r \in Requests, IntakeCommits(r) PROVE RowsOK'
  <2> DEFINE o == Order[intake[r]]
  <2>1. o \in Orders /\ UNCHANGED booked
    BY <1>7, DeliveryAssumption DEF IntakeCommits, TypeOK
  <2>2. CASE row[o] = "NONE"
    <3>1. row' = [row EXCEPT ![o] = "RECEIVED"] /\ row[o] \in Unsold
      BY <1>7, <2>2 DEF IntakeCommits, Unsold
    <3>2. "RECEIVED" \notin {"ACCEPTED", "CANCELLED"}
      OBVIOUS
    <3> QED
      BY <1>4, <2>1, <3>1, <3>2, Zenon
  <2>3. CASE row[o] # "NONE"
    BY <1>1, <1>7, <2>3 DEF IntakeCommits
  <2> QED
    BY <2>2, <2>3
<1>8. ASSUME NEW r \in Requests, IntakeLost(r) PROVE RowsOK'
  BY <1>1, <1>8 DEF IntakeLost
<1>9. ASSUME NEW j \in Jobs, JobFindsNothing(j) \/ \E w \in Workers : JobLoads(w, j) PROVE RowsOK'
  BY <1>1, <1>9 DEF JobFindsNothing, JobLoads
<1>10. ASSUME NEW j \in Jobs, JobCancels(j) PROVE RowsOK'
  <2> SUFFICES ASSUME NEW p \in Orders PROVE RowOK(p)'
    BY DEF RowsOK
  <2> DEFINE o == j.order
  <2>1. /\ RowOK(p) /\ row \in [Orders -> Statuses] /\ sale \in [Orders -> {"none", "live", "cancelled"}]
        /\ sales' = sales /\ report' = report /\ dashboard' = dashboard /\ o \in Orders
        /\ row[o] # "NONE"
    BY <1>10 DEF JobCancels, RowsOK, TypeOK, Jobs
  <2>2. /\ row' = [row EXCEPT ![o] = "CANCELLED"]
        /\ sale' = [sale EXCEPT ![o] = IF @ = "live" THEN "cancelled" ELSE @]
        /\ overruled' = IF sale[o] = "live" THEN overruled \ {o} ELSE overruled
    BY <1>10 DEF JobCancels
  <2>3. CASE p = o
    <3>1. /\ row'[p] = "CANCELLED" /\ sale'[p] # "live"
          /\ sale'[p] = "none" <=> sale[p] = "none"
      BY <2>1, <2>2, <2>3
    <3> QED
      BY <2>1, <2>3, <3>1 DEF Grows, RowOK, Consented, Unsold
  <2>4. CASE p # o
    <3>1. row'[p] = row[p] /\ SaleStays(p)
      BY <2>1, <2>2, <2>4 DEF SaleStays
    <3> QED
      BY <2>1, <3>1, RowStays DEF RowOK
  <2> QED
    BY <2>3, <2>4
<1>11. ASSUME NEW w \in Workers, Commits(w) PROVE RowsOK'
  <2> SUFFICES ASSUME NEW p \in Orders PROVE RowOK(p)'
    BY DEF RowsOK
  <2> DEFINE o == at[w].job.order
  <2>1. at[w].op = "busy" /\ at[w].step = "done" /\ at[w] \in Busy /\ HandOK(w) /\ o \in Orders
    BY <1>11, HandShape DEF Commits, HandsOK, Busy
  <2>2. /\ row \in [Orders -> Statuses] /\ sales \in [Orders -> Nat] /\ RowOK(p)
        /\ sale \in [Orders -> {"none", "live", "cancelled"}]
        /\ row' = [row EXCEPT ![o] = at[w].row] /\ UNCHANGED <<report, dashboard, overruled>>
        /\ sales' = [sales EXCEPT ![o] = IF at[w].books THEN @ + 1 ELSE @]
        /\ sale' = [sale EXCEPT ![o] = IF at[w].books THEN "live" ELSE @]
    BY <1>11 DEF Commits, TypeOK, RowsOK
  <2>3. CASE p # o
    <3>1. row'[p] = row[p] /\ SaleStays(p)
      BY <2>1, <2>2, <2>3 DEF SaleStays
    <3> QED
      BY <2>2, <3>1, RowStays DEF RowOK
  <2>4. CASE p = o /\ at[w].books
    <3>1. /\ row[p] = "RECEIVED" /\ report[p] # "imported" /\ Consented(p)
          /\ row'[p] \in {"FETCHING", "ACCEPTED"} /\ sale'[p] = "live"
          /\ row'[p] = "ACCEPTED" => Told(p)
      BY <2>1, <2>2, <2>4 DEF HandOK
    <3>2. sales'[p] = 1
      BY <2>1, <2>2, <2>4, <3>1 DEF RowOK, Unsold
    <3> QED
      BY <2>2, <3>1, <3>2 DEF RowOK, Grows, Consented, Unsold
  <2>5. CASE p = o /\ ~at[w].books
    <3>1. row'[p] = "DENIED" /\ SaleStays(p)
      BY <2>1, <2>2, <2>5 DEF HandOK, SaleStays
    <3> QED
      BY <2>2, <3>1, RowMoves DEF Unsold
  <2> QED
    BY <2>3, <2>4, <2>5
<1>12. ASSUME NEW w \in Workers, Fetches(w) PROVE RowsOK'
  <2> DEFINE o == at[w].job.order
  <2>1. at[w].op = "busy" /\ row[o] = "RECEIVED" /\ UNCHANGED booked
    BY <1>12, SMT DEF Fetches, HandsOK, HandOK
  <2>2. row' = row \/ Parks(w, "NEEDS_MAPPING") \/ Parks(w, "READY_TO_ACCEPT")
    BY <1>12, Zenon DEF Fetches
  <2>3. ASSUME NEW status \in {"NEEDS_MAPPING", "READY_TO_ACCEPT"}, Parks(w, status) PROVE RowsOK'
    <3>1. o \in Orders /\ row' = [row EXCEPT ![o] = status]
      BY <2>1, <2>3, HandShape DEF Parks, Busy
    <3> QED
      BY <1>4, <2>1, <3>1 DEF Unsold
  <2> QED
    BY <1>1, <2>1, <2>2, <2>3
<1>13. ASSUME NEW w \in Workers, Runs(w) \/ Fails(w) PROVE RowsOK'
  <2>1. CASE FetchTimesOut(w) \/ FetchUnusable(w) \/ BookingRefused(w) \/ Fails(w)
    <3>1. UNCHANGED <<row, booked>>
      BY <2>1, SMT DEF FetchTimesOut, FetchUnusable, BookingRefused, Fails
    <3> QED
      BY <1>1, <3>1
  <2>2. ASSUME NEW outcome \in Outcomes, Accepts(w, outcome) \/ Denies(w, outcome) PROVE RowsOK'
    BY <1>1, <2>2 DEF Accepts, Denies
  <2> QED
    BY <1>11, <1>12, <1>13, <2>1, <2>2 DEF Runs
<1>14. CASE ChangeShop
  BY <1>1, <1>14 DEF ChangeShop
<1>15. CASE WatchdogClaims
  <2> SUFFICES ASSUME NEW p \in Orders PROVE RowOK(p)'
    BY DEF RowsOK
  <2>1. RowOK(p) /\ SaleStays(p) /\ report' = report
    BY <1>15 DEF WatchdogClaims, booked, kitchen, SaleStays, RowsOK
  <2>2. row'[p] = IF p \in Overdue THEN "DENIED" ELSE row[p]
    BY <1>15 DEF WatchdogClaims
  <2>3. CASE p \in Overdue
    BY <2>1, <2>2, <2>3, RowMoves DEF Unsold
  <2>4. CASE p \notin Overdue
    BY <2>1, <2>2, <2>4, RowStays DEF RowOK
  <2> QED
    BY <2>3, <2>4
<1>16. ASSUME NEW o \in Orders, DashboardReads(o) PROVE RowsOK'
  <2> SUFFICES ASSUME NEW p \in Orders PROVE RowOK(p)'
    BY DEF RowsOK
  <2>1. /\ RowOK(p) /\ sale[o] = "live" /\ dashboard' = dashboard \cup {o}
        /\ UNCHANGED <<row, sale, sales, overruled, report>>
    BY <1>16 DEF DashboardReads, RowsOK
  <2> QED
    BY <2>1 DEF RowOK, Grows, Consented, Told
<1>17. ASSUME NEW o \in Orders, NEW status \in {"live", "cancelled"}, DashboardWrites(o, status)
       PROVE  RowsOK'
  <2> SUFFICES ASSUME NEW p \in Orders PROVE RowOK(p)'
    BY DEF RowsOK
  <2>1. /\ RowOK(p) /\ RowOK(o) /\ o \in dashboard /\ dashboard' \subseteq dashboard
        /\ sale \in [Orders -> {"none", "live", "cancelled"}]
        /\ sale' = [sale EXCEPT ![o] = status]
        /\ overruled' = IF sale[o] = status THEN overruled ELSE overruled \cup {o}
        /\ UNCHANGED <<row, sales, report>>
    BY <1>17 DEF DashboardWrites, RowsOK, TypeOK
  <2>2. CASE p = o
    <3>1. sale'[p] = status /\ sale[p] # "none" /\ (sale'[p] = sale[p] \/ p \in overruled')
      BY <2>1, <2>2 DEF RowOK
    <3> QED
      BY <2>1, <2>2, <3>1 DEF RowOK, Grows, Consented, Told
  <2>3. CASE p # o
    <3>1. SaleStays(p)
      BY <2>1, <2>3 DEF SaleStays
    <3> QED
      BY <2>1, <3>1, RowStays DEF RowOK
  <2> QED
    BY <2>2, <2>3
<1> QED
  <2>1. ASSUME NEW o \in Orders,
               \/ CustomerCancels(o) \/ DeadlinePasses(o) \/ ReportReads(o) \/ ReportCommits(o)
               \/ \E reachable \in BOOLEAN : StaffAccepts(o, reachable)
               \/ \E w \in Workers : StaffDenies(w, o)
               \/ DashboardReads(o) \/ \E status \in {"live", "cancelled"} : DashboardWrites(o, status)
               \/ \E outcome \in Outcomes : WatchdogTells(o, outcome)
        PROVE  RowsOK'
    BY <1>2, <1>3, <1>5, <1>16, <1>17, <2>1
  <2>2. ASSUME NEW j \in Jobs,
               JobFindsNothing(j) \/ JobCancels(j) \/ \E w \in Workers : JobLoads(w, j)
        PROVE  RowsOK'
    BY <1>9, <1>10, <2>2
  <2> QED
    BY <1>6, <1>7, <1>8, <1>13, <1>14, <1>15, <2>1, <2>2 DEF Next

-----------------------------------------------------------------------------
(* What the workers know.                                                   *)

\* A transaction whose row nobody else writes still knows it.
LEMMA HandStays ==
  ASSUME Grows, NEW w \in Workers, at[w].job.order \in Orders, HandOK(w), at'[w] = at[w],
         row'[at[w].job.order] = row[at[w].job.order],
         at[w].books => (report'[at[w].job.order] = "imported" => report[at[w].job.order] = "imported")
  PROVE  HandOK(w)'
BY DEF Grows, HandOK, Consented, Told

\* All transactions but w's own stay, for w writes the row it has locked, or none.
LEMMA OthersStay ==
  ASSUME IInv, Grows, NEW w \in Workers, at[w].op = "busy", report' = report,
         \A v \in Workers \ {w} : at'[v] = at[v],
         \A o \in Orders \ {at[w].job.order} : row'[o] = row[o],
         at'[w] = Idle \/ HandOK(w)'
  PROVE  HandsOK'
<1> SUFFICES ASSUME NEW v \in Workers, at'[v].op = "busy" PROVE HandOK(v)'
  BY DEF HandsOK
<1>1. CASE v = w
  BY <1>1 DEF Idle
<1>2. CASE v # w
  <2>1. at'[v] = at[v] /\ at[v].op = "busy" /\ HandOK(v)
    BY <1>2 DEF IInv, HandsOK
  <2>2. at[v].job.order \in Orders /\ at[w].job.order \in Orders
    BY <2>1, HandShape DEF IInv, Busy
  <2>3. at[v].job.order # at[w].job.order
    BY <1>2, <2>1, <2>2 DEF IInv, LocksOK, Holds
  <2> QED
    BY <2>1, <2>2, <2>3, HandStays
<1> QED
  BY <1>1, <1>2

\* A row nobody has locked may be written.
LEMMA NobodyKnows ==
  ASSUME IInv, Grows, at' = at, report' = report,
         \A o \in Orders : RowFree(o) \/ row'[o] = row[o]
  PROVE  HandsOK'
<1> SUFFICES ASSUME NEW v \in Workers, at'[v].op = "busy" PROVE HandOK(v)'
  BY DEF HandsOK
<1>1. at'[v] = at[v] /\ at[v].op = "busy" /\ HandOK(v) /\ at[v].job.order \in Orders
  BY HandShape DEF IInv, HandsOK, Busy
<1>2. row'[at[v].job.order] = row[at[v].job.order]
  BY <1>1 DEF RowFree, Holds
<1> QED
  BY <1>1, <1>2, HandStays

\* A transaction begins on a row that is free, which no other one has locked.
LEMMA OneBegins ==
  ASSUME IInv, Grows, NEW w \in Workers, at[w] = Idle, row' = row, report' = report,
         \A v \in Workers \ {w} : at'[v] = at[v],
         HandOK(w)'
  PROVE  HandsOK'
<1> SUFFICES ASSUME NEW v \in Workers, at'[v].op = "busy" PROVE HandOK(v)'
  BY DEF HandsOK
<1>1. CASE v = w
  BY <1>1
<1>2. CASE v # w
  <2>1. at'[v] = at[v] /\ at[v].op = "busy" /\ HandOK(v) /\ at[v].job.order \in Orders
    BY <1>2, HandShape DEF IInv, HandsOK, Busy
  <2> QED
    BY <2>1, HandStays
<1> QED
  BY <1>1, <1>2

LEMMA StepHands ==
  ASSUME IInv, Next, TypeOK'
  PROVE  HandsOK'
<1> TypeOK /\ RowsOK /\ HandsOK /\ JobsOK /\ Grows
  BY StepGrows DEF IInv
<1>1. ASSUME UNCHANGED <<row, at, report>> PROVE HandsOK'
  BY <1>1, NobodyKnows
<1>2. ASSUME NEW o \in Orders,
             \/ CustomerCancels(o) \/ DeadlinePasses(o)
             \/ DashboardReads(o) \/ \E status \in {"live", "cancelled"} : DashboardWrites(o, status)
             \/ \E outcome \in Outcomes : WatchdogTells(o, outcome)
      PROVE  HandsOK'
  BY <1>1, <1>2 DEF CustomerCancels, DeadlinePasses, DashboardReads, DashboardWrites, WatchdogTells, booked, kitchen
<1>3. ASSUME NEW o \in Orders, ReportReads(o) \/ ReportCommits(o) PROVE HandsOK'
  <2> SUFFICES ASSUME NEW v \in Workers, at'[v].op = "busy" PROVE HandOK(v)'
    BY DEF HandsOK
  <2>1. /\ row' = row /\ at' = at /\ at[v].op = "busy" /\ HandOK(v) /\ at[v].job.order \in Orders
        /\ report \in [Orders -> {"none", "read", "imported"}]
    BY <1>3, HandShape DEF ReportReads, ReportCommits, TypeOK, HandsOK, Busy
  <2>2. at[v].books => (report'[at[v].job.order] = "imported" => report[at[v].job.order] = "imported")
    BY <1>3, <2>1 DEF ReportReads, ReportCommits, Holds
  <2> QED
    BY <2>1, <2>2, HandStays
<1>4. ASSUME NEW o \in Orders, NEW reachable \in BOOLEAN, StaffAccepts(o, reachable) PROVE HandsOK'
  <2>1. at' = at /\ report' = report /\ \A p \in Orders \ {o} : row'[p] = row[p]
    BY <1>4 DEF StaffAccepts, booked, kitchen, TypeOK
  <2> QED
    BY <1>4, <2>1, NobodyKnows DEF StaffAccepts
<1>5. ASSUME NEW o \in Orders, NEW w \in Workers, StaffDenies(w, o) PROVE HandsOK'
  <2>1. at[w] = Idle /\ row' = row /\ report' = report /\ \A v \in Workers \ {w} : at'[v] = at[v]
    BY <1>5 DEF StaffDenies, booked, kitchen, TypeOK
  <2>2. at'[w] = [op |-> "busy", step |-> "denying", auto |-> FALSE, books |-> FALSE, row |-> row[o],
                  job |-> [order |-> o, kind |-> "staff", tries |-> 1]]
    BY <1>5 DEF StaffDenies, TypeOK
  <2>3. HandOK(w)'
    BY <1>5, <2>1, <2>2 DEF HandOK, StaffDenies
  <2> QED
    BY <2>1, <2>3, OneBegins
<1>6. ASSUME NEW e \in Events,
             IntakeKnows(e) \/ IntakeRefuses(e) \/ \E r \in Requests : IntakeQueues(r, e)
      PROVE  HandsOK'
  BY <1>1, <1>6 DEF IntakeKnows, IntakeRefuses, IntakeQueues, booked, kitchen
<1>7. ASSUME NEW r \in Requests, IntakeCommits(r) PROVE HandsOK'
  <2> DEFINE o == Order[intake[r]]
  <2>1. o \in Orders /\ at' = at /\ report' = report
    BY <1>7, DeliveryAssumption DEF IntakeCommits, TypeOK, booked, kitchen
  <2>2. CASE row[o] = "NONE"
    <3>1. RowFree(o)
      BY <2>1, <2>2 DEF RowFree, Holds, HandsOK, HandOK, Open
    <3>2. \A p \in Orders \ {o} : row'[p] = row[p]
      BY <1>7, <2>1, <2>2 DEF IntakeCommits, TypeOK
    <3> QED
      BY <2>1, <3>1, <3>2, NobodyKnows
  <2>3. CASE row[o] # "NONE"
    BY <1>1, <1>7, <2>1, <2>3 DEF IntakeCommits
  <2> QED
    BY <2>2, <2>3
<1>8. ASSUME NEW r \in Requests, IntakeLost(r) PROVE HandsOK'
  BY <1>1, <1>8 DEF IntakeLost, booked, kitchen
<1>9. ASSUME NEW j \in Jobs, JobFindsNothing(j) PROVE HandsOK'
  BY <1>1, <1>9 DEF JobFindsNothing, booked, kitchen
<1>10. ASSUME NEW j \in Jobs, JobCancels(j) PROVE HandsOK'
  <2>1. at' = at /\ report' = report /\ \A p \in Orders \ {j.order} : row'[p] = row[p]
    BY <1>10 DEF JobCancels, booked, kitchen, TypeOK
  <2> QED
    BY <1>10, <2>1, NobodyKnows DEF JobCancels, Lockable
<1>11. ASSUME NEW j \in Jobs, NEW w \in Workers, JobLoads(w, j) PROVE HandsOK'
  <2>1. at[w] = Idle /\ row' = row /\ report' = report /\ \A v \in Workers \ {w} : at'[v] = at[v]
    BY <1>11 DEF JobLoads, booked, kitchen, TypeOK
  <2>2. /\ at'[w].job = j /\ at'[w].auto = shop.auto /\ ~at'[w].books /\ at'[w].row = row[j.order]
        /\ at'[w].step \in {"fetching", "denying"}
    BY <1>11 DEF JobLoads, TypeOK
  <2>3. row[j.order] = "RECEIVED" /\ (j.kind = "forced" => j.order \in confirmed)
    BY <1>11 DEF JobLoads, Actionable, JobsOK
  <2>4. (shop.auto => everAuto) /\ everAuto' = everAuto /\ confirmed' = confirmed
    BY <1>11 DEF JobLoads, people, IInv, AutoOK
  <2>5. HandOK(w)'
    BY <2>1, <2>2, <2>3, <2>4 DEF HandOK, Open
  <2> QED
    BY <2>1, <2>5, OneBegins
<1>12. ASSUME NEW w \in Workers,
              FetchTimesOut(w) \/ BookingRefused(w) \/ Fails(w) \/ Commits(w)
       PROVE  HandsOK'
  <2>1. /\ at[w].op = "busy" /\ report' = report /\ at'[w] = Idle
        /\ \A v \in Workers \ {w} : at'[v] = at[v]
    BY <1>12, SMT DEF FetchTimesOut, BookingRefused, Fails, Commits, booked, kitchen, TypeOK
  <2>2. \A o \in Orders \ {at[w].job.order} : row'[o] = row[o]
    BY <1>12, SMT DEF FetchTimesOut, BookingRefused, Fails, Commits, TypeOK
  <2> QED
    BY <2>1, <2>2, OthersStay
<1>13. ASSUME NEW w \in Workers, FetchUnusable(w) PROVE HandsOK'
  <2>1. at[w].op = "busy" /\ at[w].step = "fetching" /\ at \in [Workers -> Hands] /\ HandOK(w)
    BY <1>13 DEF FetchUnusable, TypeOK, HandsOK
  <2>2. at' = [at EXCEPT ![w] = Hand(at[w], "denying", at[w].books, at[w].row)]
    BY <1>13, <2>1, HandSteps, Zenon
  <2>3. row' = row /\ report' = report
    BY <1>13 DEF FetchUnusable, booked, kitchen
  <2>4. HandOK(w)'
    BY <2>1, <2>2, <2>3 DEF HandOK, Hand, Grows
  <2> QED
    BY <2>1, <2>2, <2>3, <2>4, OthersStay
<1>14. ASSUME NEW w \in Workers, Fetches(w) PROVE HandsOK'
  <2> DEFINE o == at[w].job.order
  <2>1. /\ at[w].op = "busy" /\ at[w].step = "fetching" /\ at \in [Workers -> Hands] /\ HandOK(w)
        /\ row \in [Orders -> Statuses]
    BY <1>14, SMT DEF Fetches, TypeOK, HandsOK
  <2>2. report' = report
    BY <1>14, SMT DEF Fetches, booked, kitchen
  <2>3. row' = row \/ Parks(w, "NEEDS_MAPPING") \/ Parks(w, "READY_TO_ACCEPT")
    BY <1>14, Zenon DEF Fetches
  <2>4. ASSUME NEW status, Parks(w, status) PROVE HandsOK'
    <3>1. o \in Orders /\ row' = [row EXCEPT ![o] = status]
      BY <2>1, <2>4, HandShape DEF Parks, Busy
    <3>2. at' = [at EXCEPT ![w] = Idle]
      BY <2>4 DEF Parks
    <3> QED
      BY <2>1, <2>2, <3>1, <3>2, OthersStay
  <2>5. ASSUME ~Parks(w, "NEEDS_MAPPING"), ~Parks(w, "READY_TO_ACCEPT") PROVE HandsOK'
    <3>1. row' = row /\ report[o] # "imported" /\ (at[w].job.kind = "forced" \/ at[w].auto)
      BY <1>14, <2>5, SMT DEF Fetches
    <3>2. at' = [at EXCEPT ![w] = Idle] \/ at' = [at EXCEPT ![w] = Hand(at[w], "accepting", TRUE, Booked)]
      BY <1>14, <2>1, HandSteps, Zenon
    <3>3. ASSUME at' = [at EXCEPT ![w] = Hand(at[w], "accepting", TRUE, Booked)] PROVE HandOK(w)'
      <4>1. at'[w] = Hand(at[w], "accepting", TRUE, Booked)
        BY <2>1, <3>3
      <4>2. o \in confirmed' \/ everAuto'
        <5>1. o \in confirmed \/ everAuto
          BY <2>1, <3>1, Zenon DEF HandOK
        <5> QED
          BY <5>1 DEF Grows
      <4> QED
        BY <2>1, <2>2, <3>1, <4>1, <4>2 DEF HandOK, Hand, Booked, Grows, Consented
    <3> QED
      BY <2>1, <2>2, <3>1, <3>2, <3>3, OthersStay
  <2> QED
    BY <2>4, <2>5
<1>15. ASSUME NEW w \in Workers, NEW outcome \in Outcomes, Accepts(w, outcome) PROVE HandsOK'
  <2> DEFINE o == at[w].job.order
  <2>1. /\ at[w].op = "busy" /\ at[w].step = "accepting" /\ at \in [Workers -> Hands] /\ HandOK(w)
        /\ o \in Orders
    BY <1>15, HandShape DEF Accepts, TypeOK, HandsOK, Busy
  <2>2. row' = row /\ report' = report
    BY <1>15 DEF Accepts, booked, kitchen
  <2>3. at'[w] = Hand(at[w], "done", at[w].books,
                   IF outcome = "ok" THEN "ACCEPTED" ELSE at[w].row)
        /\ \A v \in Workers \ {w} : at'[v] = at[v]
    <3>1. at' = [at EXCEPT ![w] = Hand(at[w], "done", at[w].books,
                   IF outcome = "ok" THEN "ACCEPTED" ELSE at[w].row)]
      BY <1>15, <2>1, HandSteps, Zenon
    <3> QED
      BY <2>1, <3>1
  <2>4. outcome = "ok" => Told(o)'
    BY <1>15, <2>1 DEF Accepts, Tells, Told, TypeOK
  <2>5. HandOK(w)'
    BY <2>1, <2>2, <2>3, <2>4 DEF HandOK, Hand, Grows, Consented
  <2> QED
    BY <2>1, <2>2, <2>3, <2>5, OthersStay
<1>16. ASSUME NEW w \in Workers, NEW outcome \in Outcomes, Denies(w, outcome) PROVE HandsOK'
  <2> DEFINE o == at[w].job.order
  <2>1. at[w].op = "busy" /\ at[w].step = "denying" /\ at \in [Workers -> Hands] /\ HandOK(w)
    BY <1>16 DEF Denies, TypeOK, HandsOK
  <2>2. row' = row /\ report' = report
    BY <1>16 DEF Denies, booked, kitchen
  <2>3. at'[w] = Hand(at[w], "done", at[w].books, "DENIED")
        /\ \A v \in Workers \ {w} : at'[v] = at[v]
    <3>1. at' = [at EXCEPT ![w] = Hand(at[w], "done", at[w].books, "DENIED")]
      BY <1>16, <2>1, HandSteps, Zenon
    <3> QED
      BY <2>1, <3>1
  <2>4. HandOK(w)'
    BY <2>1, <2>2, <2>3 DEF HandOK, Hand, Grows
  <2> QED
    BY <2>1, <2>2, <2>3, <2>4, OthersStay
<1>17. CASE ChangeShop
  BY <1>1, <1>17 DEF ChangeShop, booked, kitchen
<1>18. CASE WatchdogClaims
  <2>1. at' = at /\ report' = report
    BY <1>18 DEF WatchdogClaims, booked, kitchen
  <2>2. \A o \in Orders : RowFree(o) \/ row'[o] = row[o]
    BY <1>18 DEF WatchdogClaims, Overdue
  <2> QED
    BY <2>1, <2>2, NobodyKnows
<1> QED
  <2>1. ASSUME NEW o \in Orders,
               \/ CustomerCancels(o) \/ DeadlinePasses(o) \/ ReportReads(o) \/ ReportCommits(o)
               \/ \E reachable \in BOOLEAN : StaffAccepts(o, reachable)
               \/ \E w \in Workers : StaffDenies(w, o)
               \/ DashboardReads(o) \/ \E status \in {"live", "cancelled"} : DashboardWrites(o, status)
               \/ \E outcome \in Outcomes : WatchdogTells(o, outcome)
        PROVE  HandsOK'
    BY <1>2, <1>3, <1>4, <1>5, <2>1
  <2>2. ASSUME NEW j \in Jobs,
               JobFindsNothing(j) \/ JobCancels(j) \/ \E w \in Workers : JobLoads(w, j)
        PROVE  HandsOK'
    BY <1>9, <1>10, <1>11, <2>2
  <2>3. ASSUME NEW w \in Workers, Runs(w) \/ Fails(w) PROVE HandsOK'
    BY <1>12, <1>13, <1>14, <1>15, <1>16, <2>3 DEF Runs
  <2> QED
    BY <1>6, <1>7, <1>8, <1>17, <1>18, <2>1, <2>2, <2>3 DEF Next

-----------------------------------------------------------------------------
(* Locks, jobs and the intake.                                              *)

\* The only steps that lock a row find it free.
LEMMA StepLocks ==
  ASSUME IInv, Next
  PROVE  LocksOK'
<1> TypeOK /\ LocksOK /\ at \in [Workers -> Hands]
  BY DEF IInv, TypeOK
<1>1. ASSUME UNCHANGED at PROVE LocksOK'
  BY <1>1 DEF LocksOK, Holds
<1>2. ASSUME NEW w \in Workers, \A v \in Workers \ {w} : at'[v] = at[v],
             \A o \in Orders : Holds(w, o)' => Holds(w, o) \/ RowFree(o)
      PROVE  LocksOK'
  BY <1>2 DEF LocksOK, Holds, RowFree
<1>3. ASSUME NEW o \in Orders,
             \/ CustomerCancels(o) \/ DeadlinePasses(o) \/ ReportReads(o) \/ ReportCommits(o)
             \/ \E reachable \in BOOLEAN : StaffAccepts(o, reachable)
             \/ DashboardReads(o) \/ \E status \in {"live", "cancelled"} : DashboardWrites(o, status)
             \/ \E outcome \in Outcomes : WatchdogTells(o, outcome)
      PROVE  LocksOK'
  BY <1>1, <1>3 DEF CustomerCancels, DeadlinePasses, DashboardReads, DashboardWrites, ReportReads, ReportCommits, StaffAccepts, WatchdogTells
<1>4. ASSUME NEW o \in Orders, NEW w \in Workers, StaffDenies(w, o) PROVE LocksOK'
  BY <1>2, <1>4 DEF StaffDenies, Holds
<1>5. ASSUME NEW e \in Events,
             IntakeKnows(e) \/ IntakeRefuses(e) \/ \E r \in Requests : IntakeQueues(r, e)
      PROVE  LocksOK'
  BY <1>1, <1>5 DEF IntakeKnows, IntakeRefuses, IntakeQueues
<1>6. ASSUME NEW r \in Requests, IntakeCommits(r) \/ IntakeLost(r) PROVE LocksOK'
  BY <1>1, <1>6 DEF IntakeCommits, IntakeLost
<1>7. ASSUME NEW j \in Jobs, JobFindsNothing(j) \/ JobCancels(j) PROVE LocksOK'
  BY <1>1, <1>7 DEF JobFindsNothing, JobCancels
<1>8. ASSUME NEW j \in Jobs, NEW w \in Workers, JobLoads(w, j) PROVE LocksOK'
  <2>1. at'[w].job = j /\ RowFree(j.order) /\ \A v \in Workers \ {w} : at'[v] = at[v]
    BY <1>8 DEF JobLoads, Lockable
  <2> QED
    BY <1>2, <2>1 DEF Holds
<1>9. ASSUME NEW w \in Workers, Runs(w) \/ Fails(w) PROVE LocksOK'
  <2>1. at[w].op = "busy"
    BY <1>9, SMT DEF Runs, Fails, FetchTimesOut, FetchUnusable, Fetches, BookingRefused, Commits, Accepts, Denies
  <2>2. ASSUME at' = [at EXCEPT ![w] = Idle] PROVE LocksOK'
    BY <1>2, <2>2 DEF Holds, Idle
  <2>3. ASSUME NEW step, NEW books, NEW new, at' = [at EXCEPT ![w] = Hand(at[w], step, books, new)]
        PROVE  LocksOK'
    <3>1. at'[w].job = at[w].job /\ \A v \in Workers \ {w} : at'[v] = at[v]
      BY <2>3 DEF Hand
    <3> QED
      BY <1>2, <2>1, <3>1 DEF Holds
  <2>4. CASE FetchTimesOut(w) \/ BookingRefused(w) \/ Commits(w) \/ Fails(w)
    <3>1. at' = [at EXCEPT ![w] = Idle]
      BY <2>4, SMT DEF FetchTimesOut, BookingRefused, Commits, Fails
    <3> QED
      BY <2>2, <3>1
  <2>5. CASE FetchUnusable(w) \/ Fetches(w)
    <3>1. \/ at' = [at EXCEPT ![w] = Idle]
          \/ at' = [at EXCEPT ![w] = Hand(at[w], "accepting", TRUE, Booked)]
          \/ at' = [at EXCEPT ![w] = Hand(at[w], "denying", at[w].books, at[w].row)]
      BY <2>1, <2>5, HandSteps, Zenon
    <3> QED
      BY <2>2, <2>3, <3>1
  <2>6. ASSUME NEW outcome \in Outcomes, Accepts(w, outcome) \/ Denies(w, outcome) PROVE LocksOK'
    <3> DEFINE told == IF outcome = "ok" THEN "ACCEPTED" ELSE at[w].row
    <3>1. \/ at' = [at EXCEPT ![w] = Hand(at[w], "done", at[w].books, told)]
          \/ at' = [at EXCEPT ![w] = Hand(at[w], "done", at[w].books, "DENIED")]
      BY <2>1, <2>6, HandSteps, Zenon
    <3> HIDE DEF told
    <3> QED
      BY <2>3, <3>1
  <2> QED
    BY <1>9, <2>4, <2>5, <2>6 DEF Runs
<1>10. CASE ChangeShop \/ WatchdogClaims
  BY <1>1, <1>10 DEF ChangeShop, WatchdogClaims
<1> QED
  BY <1>3, <1>4, <1>5, <1>6, <1>7, <1>8, <1>9, <1>10 DEF Next

\* A job is forced only by the confirmation of its order, and stays so when it runs again.
LEMMA StepJobs ==
  ASSUME IInv, Next
  PROVE  JobsOK'
<1> TypeOK /\ JobsOK /\ HandsOK /\ Grows /\ jobs \in [Jobs -> Nat]
  BY StepGrows DEF IInv, TypeOK
<1> confirmed \subseteq confirmed'
  BY DEF Grows
<1>1. ASSUME UNCHANGED jobs PROVE JobsOK'
  BY <1>1 DEF JobsOK
<1>2. ASSUME NEW j \in Jobs, jobs' = Dequeue(j) PROVE JobsOK'
  BY <1>2 DEF JobsOK, Dequeue
<1>3. ASSUME NEW o \in Orders, NEW kind \in Kinds, jobs' = Enqueue(o, kind),
             kind = "forced" => o \in confirmed'
      PROVE  JobsOK'
  <2>1. [order |-> o, kind |-> kind, tries |-> 1] \in Jobs
    BY DeliveryAssumption DEF Jobs
  <2> QED
    BY <1>3, <2>1 DEF JobsOK, Enqueue
<1>4. ASSUME NEW w \in Workers, at[w].op = "busy", jobs' \in {jobs, Requeue(at[w].job)} PROVE JobsOK'
  <2> DEFINE j == at[w].job
             again == [j EXCEPT !.tries = j.tries + 1]
  <2>1. j \in [order : Orders, kind : Kinds \cup {"staff"}, tries : 1 .. MaxTries]
    BY <1>4, HandShape DEF Busy
  <2>2. CASE j.kind = "staff" \/ j.tries = MaxTries
    BY <1>1, <1>4, <2>2 DEF Requeue
  <2>3. CASE ~(j.kind = "staff" \/ j.tries = MaxTries)
    <3>1. again \in Jobs /\ again.order = j.order /\ again.kind = j.kind
      BY <2>1, <2>3, DeliveryAssumption DEF Jobs
    <3>2. jobs' = jobs \/ jobs' = [jobs EXCEPT ![again] = jobs[again] + 1]
      BY <1>4, <2>3 DEF Requeue
    <3>3. j.kind = "forced" => j.order \in confirmed
      BY <1>4 DEF HandsOK, HandOK
    <3> HIDE DEF again, j
    <3> QED
      BY <1>1, <3>1, <3>2, <3>3 DEF JobsOK
  <2> QED
    BY <2>2, <2>3
<1>5. ASSUME NEW o \in Orders,
             \/ CustomerCancels(o) \/ DeadlinePasses(o) \/ ReportReads(o) \/ ReportCommits(o)
             \/ \E w \in Workers : StaffDenies(w, o)
             \/ DashboardReads(o) \/ \E status \in {"live", "cancelled"} : DashboardWrites(o, status)
             \/ \E outcome \in Outcomes : WatchdogTells(o, outcome)
      PROVE  JobsOK'
  BY <1>1, <1>5 DEF CustomerCancels, DeadlinePasses, DashboardReads, DashboardWrites, ReportReads, ReportCommits, StaffDenies, WatchdogTells
<1>6. ASSUME NEW o \in Orders, NEW reachable \in BOOLEAN, StaffAccepts(o, reachable) PROVE JobsOK'
  <2>1. jobs' = jobs \/ jobs' = Enqueue(o, IF Forced(o) THEN "forced" ELSE "order")
    BY <1>6 DEF StaffAccepts
  <2>2. Forced(o) => o \in confirmed'
    BY <1>6 DEF StaffAccepts, Forced
  <2> QED
    BY <1>1, <1>3, <2>1, <2>2 DEF Kinds
<1>7. ASSUME NEW e \in Events,
             IntakeKnows(e) \/ IntakeRefuses(e) \/ \E r \in Requests : IntakeQueues(r, e)
      PROVE  JobsOK'
  <2>1. CASE IntakeKnows(e) \/ IntakeRefuses(e)
    BY <1>1, <2>1 DEF IntakeKnows, IntakeRefuses
  <2>2. ASSUME NEW r \in Requests, IntakeQueues(r, e) PROVE JobsOK'
    <3>1. Order[e] \in Orders /\ jobs' = Enqueue(Order[e], IF e \in Cancels THEN "cancel" ELSE "order")
      BY <2>2, DeliveryAssumption DEF IntakeQueues
    <3> QED
      BY <1>3, <3>1 DEF Kinds
  <2> QED
    BY <1>7, <2>1, <2>2
<1>8. ASSUME NEW r \in Requests, IntakeCommits(r) \/ IntakeLost(r) PROVE JobsOK'
  BY <1>1, <1>8 DEF IntakeCommits, IntakeLost
<1>9. ASSUME NEW j \in Jobs,
             JobFindsNothing(j) \/ JobCancels(j) \/ \E w \in Workers : JobLoads(w, j)
      PROVE  JobsOK'
  BY <1>2, <1>9 DEF JobFindsNothing, JobCancels, JobLoads
<1>10. ASSUME NEW w \in Workers, Runs(w) \/ Fails(w) PROVE JobsOK'
  <2>1. CASE FetchTimesOut(w) \/ Fails(w)
    BY <1>4, <2>1 DEF FetchTimesOut, Fails
  <2>2. CASE FetchUnusable(w) \/ Fetches(w) \/ BookingRefused(w) \/ Commits(w)
    <3>1. UNCHANGED jobs
      BY <2>2, SMT DEF FetchUnusable, Fetches, BookingRefused, Commits
    <3> QED
      BY <1>1, <3>1
  <2>3. ASSUME NEW outcome \in Outcomes, Accepts(w, outcome) \/ Denies(w, outcome) PROVE JobsOK'
    BY <1>1, <2>3 DEF Accepts, Denies
  <2> QED
    BY <1>10, <2>1, <2>2, <2>3 DEF Runs
<1>11. CASE ChangeShop \/ WatchdogClaims
  BY <1>1, <1>11 DEF ChangeShop, WatchdogClaims
<1> QED
  BY <1>5, <1>6, <1>7, <1>8, <1>9, <1>10, <1>11 DEF Next

\* A row that is there stays there, whatever is written over it.
LEMMA RowsRemain ==
  ASSUME IInv, Next, NEW o \in Orders, row[o] # "NONE"
  PROVE  row'[o] # "NONE"
<1> TypeOK /\ HandsOK /\ row \in [Orders -> Statuses]
  BY DEF IInv, TypeOK
<1>1. ASSUME NEW p \in Orders,
             \/ CustomerCancels(p) \/ DeadlinePasses(p) \/ ReportReads(p) \/ ReportCommits(p)
             \/ \E w \in Workers : StaffDenies(w, p)
             \/ DashboardReads(p) \/ \E status \in {"live", "cancelled"} : DashboardWrites(p, status)
             \/ \E outcome \in Outcomes : WatchdogTells(p, outcome)
      PROVE  row' = row
  BY <1>1 DEF CustomerCancels, DeadlinePasses, DashboardReads, DashboardWrites, ReportReads, ReportCommits, StaffDenies, WatchdogTells
<1>2. ASSUME NEW p \in Orders, NEW reachable \in BOOLEAN, StaffAccepts(p, reachable)
      PROVE  row'[o] # "NONE"
  BY <1>2 DEF StaffAccepts
<1>3. ASSUME NEW e \in Events,
             IntakeKnows(e) \/ IntakeRefuses(e) \/ \E r \in Requests : IntakeQueues(r, e)
      PROVE  row' = row
  BY <1>3 DEF IntakeKnows, IntakeRefuses, IntakeQueues
<1>4. ASSUME NEW r \in Requests, IntakeCommits(r) \/ IntakeLost(r) PROVE row'[o] # "NONE"
  BY <1>4 DEF IntakeCommits, IntakeLost
<1>5. ASSUME NEW j \in Jobs,
             JobFindsNothing(j) \/ JobCancels(j) \/ \E w \in Workers : JobLoads(w, j)
      PROVE  row'[o] # "NONE"
  BY <1>5 DEF JobFindsNothing, JobCancels, JobLoads
<1>6. ASSUME NEW w \in Workers, Runs(w) \/ Fails(w) PROVE row'[o] # "NONE"
  <2>1. CASE FetchTimesOut(w) \/ FetchUnusable(w) \/ BookingRefused(w) \/ Fails(w)
    <3>1. UNCHANGED row
      BY <2>1, SMT DEF FetchTimesOut, FetchUnusable, BookingRefused, Fails
    <3> QED
      BY <3>1
  <2>2. ASSUME NEW outcome \in Outcomes, Accepts(w, outcome) \/ Denies(w, outcome) PROVE row' = row
    BY <2>2 DEF Accepts, Denies
  <2>3. CASE Fetches(w)
    <3>1. at[w].op = "busy" /\ (row' = row \/ Parks(w, "NEEDS_MAPPING") \/ Parks(w, "READY_TO_ACCEPT"))
      BY <2>3, Zenon DEF Fetches
    <3>2. ASSUME NEW status \in {"NEEDS_MAPPING", "READY_TO_ACCEPT"}, Parks(w, status)
          PROVE  row'[o] # "NONE"
      BY <3>2 DEF Parks
    <3> QED
      BY <3>1, <3>2
  <2>4. CASE Commits(w)
    <3>1. at[w].row # "NONE"
      <4>1. HandOK(w) /\ at[w].step = "done"
        BY <2>4 DEF Commits, HandsOK
      <4> QED
        BY <4>1 DEF HandOK
    <3> QED
      BY <2>4, <3>1 DEF Commits
  <2> QED
    BY <1>6, <2>1, <2>2, <2>3, <2>4 DEF Runs
<1>7. CASE ChangeShop \/ WatchdogClaims
  BY <1>7 DEF ChangeShop, WatchdogClaims
<1> QED
  BY <1>1, <1>2, <1>3, <1>4, <1>5, <1>6, <1>7 DEF Next

\* An event is logged with its order's row, and only after its job was queued.
LEMMA StepIntake ==
  ASSUME IInv, Next
  PROVE  IntakeOK'
<1> TypeOK /\ IntakeOK
  BY DEF IInv
<1>1. \A o \in Orders : row[o] # "NONE" => row'[o] # "NONE"
  BY RowsRemain
<1>2. \A e \in logged : Order[e] \in Orders
  BY DeliveryAssumption DEF TypeOK
<1>3. ASSUME UNCHANGED <<answered, logged, queued, intake>> PROVE IntakeOK'
  BY <1>1, <1>2, <1>3 DEF IntakeOK
<1>4. ASSUME NEW o \in Orders,
             \/ CustomerCancels(o) \/ DeadlinePasses(o) \/ ReportReads(o) \/ ReportCommits(o)
             \/ \E reachable \in BOOLEAN : StaffAccepts(o, reachable)
             \/ \E w \in Workers : StaffDenies(w, o)
             \/ DashboardReads(o) \/ \E status \in {"live", "cancelled"} : DashboardWrites(o, status)
             \/ \E outcome \in Outcomes : WatchdogTells(o, outcome)
      PROVE  IntakeOK'
  BY <1>3, <1>4 DEF CustomerCancels, DeadlinePasses, DashboardReads, DashboardWrites, ReportReads, ReportCommits, StaffAccepts,
                    StaffDenies, WatchdogTells, web
<1>5. ASSUME NEW e \in Events, IntakeKnows(e) \/ IntakeRefuses(e) PROVE IntakeOK'
  BY <1>1, <1>2, <1>5 DEF IntakeKnows, IntakeRefuses, IntakeOK
<1>6. ASSUME NEW e \in Events, NEW r \in Requests, IntakeQueues(r, e) PROVE IntakeOK'
  BY <1>1, <1>2, <1>6 DEF IntakeQueues, IntakeOK, TypeOK
<1>7. ASSUME NEW r \in Requests, IntakeCommits(r) PROVE IntakeOK'
  <2> DEFINE e == intake[r]
  <2>1. e \in queued /\ Order[e] \in Orders
    BY <1>7, DeliveryAssumption DEF IntakeCommits, IntakeOK, TypeOK
  <2>2. row'[Order[e]] # "NONE"
    BY <1>7, <2>1 DEF IntakeCommits, TypeOK
  <2>3. /\ logged' = logged \cup {e} /\ answered' = answered \cup {e} /\ queued' = queued
        /\ \A s \in Requests : intake'[s] # "idle" => intake'[s] = intake[s]
    BY <1>7 DEF IntakeCommits, TypeOK
  <2> HIDE DEF e
  <2> QED
    BY <1>1, <1>2, <2>1, <2>2, <2>3 DEF IntakeOK
<1>8. ASSUME NEW r \in Requests, IntakeLost(r) PROVE IntakeOK'
  BY <1>1, <1>2, <1>8 DEF IntakeLost, Kept, IntakeOK, TypeOK
<1>9. ASSUME NEW j \in Jobs,
             JobFindsNothing(j) \/ JobCancels(j) \/ \E w \in Workers : JobLoads(w, j)
      PROVE  IntakeOK'
  BY <1>3, <1>9 DEF JobFindsNothing, JobCancels, JobLoads, web
<1>10. ASSUME NEW w \in Workers, Runs(w) \/ Fails(w) PROVE IntakeOK'
  <2>1. UNCHANGED web
    BY <1>10, SMT DEF Runs, FetchTimesOut, FetchUnusable, Fetches, BookingRefused, Commits, Fails, Accepts, Denies
  <2> QED
    BY <1>3, <2>1 DEF web
<1>11. CASE ChangeShop \/ WatchdogClaims
  BY <1>3, <1>11 DEF ChangeShop, WatchdogClaims, web
<1> QED
  BY <1>4, <1>5, <1>6, <1>7, <1>8, <1>9, <1>10, <1>11 DEF Next

\* Auto-accept is remembered when it is switched on.
LEMMA StepAuto ==
  ASSUME IInv, Next
  PROVE  AutoOK'
<1> AutoOK /\ TypeOK
  BY DEF IInv
<1>1. ASSUME UNCHANGED <<shop, everAuto>> PROVE AutoOK'
  BY <1>1 DEF AutoOK
<1>2. ASSUME NEW o \in Orders,
             \/ CustomerCancels(o) \/ DeadlinePasses(o) \/ ReportReads(o) \/ ReportCommits(o)
             \/ \E reachable \in BOOLEAN : StaffAccepts(o, reachable)
             \/ \E w \in Workers : StaffDenies(w, o)
             \/ DashboardReads(o) \/ \E status \in {"live", "cancelled"} : DashboardWrites(o, status)
             \/ \E outcome \in Outcomes : WatchdogTells(o, outcome)
      PROVE  AutoOK'
  BY <1>1, <1>2 DEF CustomerCancels, DeadlinePasses, DashboardReads, DashboardWrites, ReportReads, ReportCommits, StaffAccepts,
                    StaffDenies, WatchdogTells, people
<1>3. ASSUME NEW e \in Events,
             IntakeKnows(e) \/ IntakeRefuses(e) \/ \E r \in Requests : IntakeQueues(r, e)
      PROVE  AutoOK'
  BY <1>1, <1>3 DEF IntakeKnows, IntakeRefuses, IntakeQueues, people
<1>4. ASSUME NEW r \in Requests, IntakeCommits(r) \/ IntakeLost(r) PROVE AutoOK'
  BY <1>1, <1>4 DEF IntakeCommits, IntakeLost, people
<1>5. ASSUME NEW j \in Jobs,
             JobFindsNothing(j) \/ JobCancels(j) \/ \E w \in Workers : JobLoads(w, j)
      PROVE  AutoOK'
  BY <1>1, <1>5 DEF JobFindsNothing, JobCancels, JobLoads, people
<1>6. ASSUME NEW w \in Workers, Runs(w) \/ Fails(w) PROVE AutoOK'
  <2>1. UNCHANGED people
    BY <1>6, SMT DEF Runs, FetchTimesOut, FetchUnusable, Fetches, BookingRefused, Commits, Fails, Accepts, Denies
  <2> QED
    BY <1>1, <2>1 DEF people
<1>7. CASE ChangeShop
  BY <1>7 DEF ChangeShop, AutoOK
<1>8. CASE WatchdogClaims
  BY <1>1, <1>8 DEF WatchdogClaims, people
<1> QED
  BY <1>2, <1>3, <1>4, <1>5, <1>6, <1>7, <1>8 DEF Next

-----------------------------------------------------------------------------
(* The theorems.                                                            *)

\* The service starts with nothing logged, sold or locked.
LEMMA InitInv ==
  ASSUME Init
  PROVE  IInv
<1>1. TypeOK
  <2>1. jobs \in [Jobs -> Nat] /\ at \in [Workers -> Hands] /\ row \in [Orders -> Statuses]
    BY DEF Init, Hands, Statuses
  <2>2. shop \in [live : BOOLEAN, auto : BOOLEAN, mapped : BOOLEAN]
    BY DEF Init
  <2>3. posts \in 0 .. MaxPosts /\ edits \in 0 .. MaxEdits /\ faults \in 0 .. MaxFaults
    BY DeliveryAssumption DEF Init
  <2> QED
    BY <2>1, <2>2, <2>3 DEF Init, TypeOK
<1>2. IntakeOK
  BY DEF Init, IntakeOK
<1>3. RowsOK
  BY DEF Init, RowsOK, RowOK
<1>4. HandsOK /\ LocksOK
  BY DEF Init, HandsOK, LocksOK, Holds, Idle
<1>5. JobsOK
  BY DEF Init, JobsOK
<1>6. AutoOK
  <2>1. shop \in [live : {TRUE}, auto : {FALSE}, mapped : BOOLEAN]
    BY DEF Init
  <2> QED
    BY <2>1 DEF AutoOK
<1> QED
  BY <1>1, <1>2, <1>3, <1>4, <1>5, <1>6 DEF IInv

\* Every step keeps the invariant.
LEMMA StepInv ==
  ASSUME IInv, [Next]_vars
  PROVE  IInv'
<1>1. CASE Next
  <2>1. TypeOK'
    BY <1>1, StepTypes DEF IInv
  <2> QED
    BY <1>1, <2>1, StepRows, StepHands, StepLocks, StepJobs, StepIntake, StepAuto DEF IInv
<1>2. CASE UNCHANGED vars
  BY <1>2 DEF vars, IInv, TypeOK, IntakeOK, RowsOK, RowOK, Consented, Told, HandsOK, HandOK,
              LocksOK, Holds, JobsOK, AutoOK
<1> QED
  BY <1>1, <1>2

\* In every behaviour of the service the rows, the queue and the open
\* transactions have their types, and the inductive invariant above holds.
THEOREM DeliveryInvariant == Spec => []IInv
<1>1. Init => IInv
  BY InitInv
<1>2. IInv /\ [Next]_vars => IInv'
  BY StepInv
<1> QED
  BY <1>1, <1>2, PTL DEF Spec

\* Every delivery order, job and open transaction has its type.
THEOREM TypeCorrect == Spec => []TypeOK
<1>1. IInv => TypeOK
  BY DEF IInv
<1> QED
  BY <1>1, DeliveryInvariant, PTL

\* An event answered 200 had its job queued and has its order open, whatever
\* requests ran beside it and whichever commits were lost (intake.py).
THEOREM AnsweredEventsAreQueued == Spec => []AnsweredIsQueued
<1>1. IInv => AnsweredIsQueued
  BY DEF IInv, IntakeOK, AnsweredIsQueued
<1> QED
  BY <1>1, DeliveryInvariant, PTL

\* However many workers run, and however often an order is notified, retried or
\* reported, it is sold at most once (order_service.py and external_orders.py).
THEOREM OrdersAreSoldOnce == Spec => []SoldOnce
<1>1. IInv => SoldOnce
  BY DEF IInv, RowsOK, RowOK, SoldOnce
<1> QED
  BY <1>1, DeliveryInvariant, PTL

\* The kitchen cooks nothing that nobody consented to.
THEOREM TheKitchenConsents == Spec => []KitchenConsents
<1>1. IInv => KitchenConsents
  BY DEF IInv, RowsOK, RowOK, KitchenConsents, Consented
<1> QED
  BY <1>1, DeliveryInvariant, PTL

\* ACCEPTED means sold here and known to the platform; an ACCEPTED order without its
\* sale, and a CANCELLED one with it, are the dashboard's doing (routes_orders.py).
THEOREM AcceptedOrdersAreTold == Spec => []AcceptedIsTold
<1>1. IInv => AcceptedIsTold
  BY DEF IInv, RowsOK, RowOK, AcceptedIsTold, Told
<1> QED
  BY <1>1, DeliveryInvariant, PTL

\* Staff, jobs and the watchdog read the status under the lock, and what a worker
\* commits was open when it locked it: no step writes a row that is final.
LEMMA StepFinal ==
  ASSUME IInv, Next, NEW o \in Orders, row[o] \in Terminal
  PROVE  row'[o] = row[o]
<1> TypeOK /\ HandsOK /\ row \in [Orders -> Statuses] /\ row[o] \notin Open \cup {"NONE"}
  BY DEF IInv, TypeOK, Open, Terminal
<1>1. ASSUME NEW p \in Orders,
             \/ CustomerCancels(p) \/ DeadlinePasses(p) \/ ReportReads(p) \/ ReportCommits(p)
             \/ \E w \in Workers : StaffDenies(w, p)
             \/ DashboardReads(p) \/ \E status \in {"live", "cancelled"} : DashboardWrites(p, status)
             \/ \E outcome \in Outcomes : WatchdogTells(p, outcome)
      PROVE  row' = row
  BY <1>1 DEF CustomerCancels, DeadlinePasses, DashboardReads, DashboardWrites, ReportReads, ReportCommits, StaffDenies, WatchdogTells
<1>2. ASSUME NEW p \in Orders, NEW reachable \in BOOLEAN, StaffAccepts(p, reachable)
      PROVE  row'[o] = row[o]
  BY <1>2 DEF StaffAccepts, Open
<1>3. ASSUME NEW e \in Events,
             IntakeKnows(e) \/ IntakeRefuses(e) \/ \E r \in Requests : IntakeQueues(r, e)
      PROVE  row' = row
  BY <1>3 DEF IntakeKnows, IntakeRefuses, IntakeQueues
<1>4. ASSUME NEW r \in Requests, IntakeCommits(r) \/ IntakeLost(r) PROVE row'[o] = row[o]
  BY <1>4 DEF IntakeCommits, IntakeLost
<1>5. ASSUME NEW j \in Jobs,
             JobFindsNothing(j) \/ JobCancels(j) \/ \E w \in Workers : JobLoads(w, j)
      PROVE  row'[o] = row[o]
  BY <1>5 DEF JobFindsNothing, JobCancels, JobLoads
<1>6. ASSUME NEW w \in Workers, Runs(w) \/ Fails(w) PROVE row'[o] = row[o]
  <2>1. at[w].op = "busy"
    BY <1>6, SMT DEF Runs, Fails, FetchTimesOut, FetchUnusable, Fetches, BookingRefused, Commits, Accepts, Denies
  <2>2. at[w].job.order \in Orders /\ at[w].job.order # o
    BY <2>1, HandShape DEF HandsOK, HandOK, Busy
  <2>3. CASE FetchTimesOut(w) \/ FetchUnusable(w) \/ BookingRefused(w) \/ Fails(w)
    <3>1. UNCHANGED row
      BY <2>3, SMT DEF FetchTimesOut, FetchUnusable, BookingRefused, Fails
    <3> QED
      BY <3>1
  <2>4. ASSUME NEW outcome \in Outcomes, Accepts(w, outcome) \/ Denies(w, outcome) PROVE row' = row
    BY <2>4 DEF Accepts, Denies
  <2>5. CASE Fetches(w)
    <3>1. row' = row \/ Parks(w, "NEEDS_MAPPING") \/ Parks(w, "READY_TO_ACCEPT")
      BY <2>5, Zenon DEF Fetches
    <3>2. ASSUME NEW status, Parks(w, status) PROVE row'[o] = row[o]
      BY <2>2, <3>2 DEF Parks
    <3> QED
      BY <3>1, <3>2
  <2>6. CASE Commits(w)
    BY <2>2, <2>6 DEF Commits
  <2> QED
    BY <1>6, <2>3, <2>4, <2>5, <2>6 DEF Runs
<1>7. CASE ChangeShop
  BY <1>7 DEF ChangeShop
<1>8. CASE WatchdogClaims
  BY <1>8 DEF WatchdogClaims, Overdue, Watched, Terminal
<1> QED
  BY <1>1, <1>2, <1>3, <1>4, <1>5, <1>6, <1>7, <1>8 DEF Next

\* Nor is it sold, and its sale is written only from the dashboard.
LEMMA StepUnsold ==
  ASSUME IInv, Next, NEW o \in Orders, row[o] \in Terminal
  PROVE  sales'[o] = sales[o] /\ (sale'[o] = sale[o] \/ o \in dashboard)
<1> TypeOK /\ HandsOK /\ row[o] \notin Open /\ sale \in [Orders -> {"none", "live", "cancelled"}]
  BY DEF IInv, TypeOK, Open, Terminal
<1>1. ASSUME UNCHANGED booked
      PROVE  sales'[o] = sales[o] /\ sale'[o] = sale[o]
  BY <1>1 DEF booked, kitchen
<1>2. ASSUME NEW p \in Orders, ReportReads(p) \/ ReportCommits(p) \/ DashboardReads(p)
      PROVE  sales'[o] = sales[o] /\ sale'[o] = sale[o]
  BY <1>2 DEF ReportReads, ReportCommits, DashboardReads, kitchen
<1>3. ASSUME NEW p \in Orders, NEW status, DashboardWrites(p, status)
      PROVE  sales'[o] = sales[o] /\ (sale'[o] = sale[o] \/ o \in dashboard)
  BY <1>3 DEF DashboardWrites
<1>4. ASSUME NEW p \in Orders,
             \/ CustomerCancels(p) \/ DeadlinePasses(p)
             \/ \E reachable \in BOOLEAN : StaffAccepts(p, reachable)
             \/ \E w \in Workers : StaffDenies(w, p)
             \/ \E outcome \in Outcomes : WatchdogTells(p, outcome)
      PROVE  UNCHANGED booked
  BY <1>4 DEF CustomerCancels, DeadlinePasses, StaffAccepts, StaffDenies, WatchdogTells
<1>5. ASSUME NEW e \in Events,
             IntakeKnows(e) \/ IntakeRefuses(e) \/ \E r \in Requests : IntakeQueues(r, e)
      PROVE  UNCHANGED booked
  BY <1>5 DEF IntakeKnows, IntakeRefuses, IntakeQueues
<1>6. ASSUME NEW r \in Requests, IntakeCommits(r) \/ IntakeLost(r) PROVE UNCHANGED booked
  BY <1>6 DEF IntakeCommits, IntakeLost
<1>7. ASSUME NEW j \in Jobs, JobFindsNothing(j) \/ \E w \in Workers : JobLoads(w, j)
      PROVE  UNCHANGED booked
  BY <1>7 DEF JobFindsNothing, JobLoads
<1>8. ASSUME NEW j \in Jobs, JobCancels(j)
      PROVE  sales'[o] = sales[o] /\ sale'[o] = sale[o]
  BY <1>8 DEF JobCancels
<1>9. ASSUME NEW w \in Workers, Commits(w)
      PROVE  sales'[o] = sales[o] /\ sale'[o] = sale[o]
  <2>1. at[w].job.order # o
    BY <1>9 DEF Commits, HandsOK, HandOK
  <2> QED
    BY <1>9, <2>1 DEF Commits
<1>10. ASSUME NEW w \in Workers,
              \/ FetchTimesOut(w) \/ FetchUnusable(w) \/ Fetches(w) \/ BookingRefused(w) \/ Fails(w)
              \/ \E outcome \in Outcomes : Accepts(w, outcome) \/ Denies(w, outcome)
       PROVE  UNCHANGED booked
  BY <1>10, SMT DEF FetchTimesOut, FetchUnusable, Fetches, BookingRefused, Fails, Accepts, Denies
<1>11. CASE ChangeShop \/ WatchdogClaims
  BY <1>1, <1>11 DEF ChangeShop, WatchdogClaims
<1> QED
  BY <1>1, <1>2, <1>3, <1>4, <1>5, <1>6, <1>7, <1>8, <1>9, <1>10, <1>11 DEF Next, Runs

\* A denied, cancelled or failed order is never written again, whoever still
\* holds a reference to it: a late job, staff, the watchdog or a retry.  Its sale
\* changes only if an update_order_status had read it as live.
THEOREM FinalOrdersStay == Spec => FinalIsFinal
<1>1. IInv /\ [Next]_vars => [\A o \in Orders : row[o] \in Terminal =>
                                /\ row'[o] = row[o] /\ sales'[o] = sales[o]
                                /\ sale'[o] = sale[o] \/ o \in dashboard]_vars
  BY StepFinal, StepUnsold
<1> QED
  BY <1>1, DeliveryInvariant, PTL DEF Spec, FinalIsFinal

=============================================================================
