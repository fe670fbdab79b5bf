--------------------------- MODULE MessagingProofs ---------------------------
(***************************************************************************)
(* Messages and replies for any number of messages, shops and workers.     *)
(*                                                                         *)
(* Two locks order the work.  Reserving a message's id makes its job the   *)
(* only one that can record it (RecordOK, JobLocksOK).  The lock on an     *)
(* outbox row makes its batch the only one that writes it (RowLocksOK).    *)
(* A rejected token breaks both in mid-transaction: what it leaves behind  *)
(* is in JobOK, SendingOK and Overtaken.                                   *)
(***************************************************************************)
EXTENDS Messaging, FiniteSetTheorems, TLAPS

-----------------------------------------------------------------------------
(* The inductive invariant.                                                 *)

Past(w) == at[w].op = "job" /\ at[w].step # "arrived"

Batch(w) == at[w].op = "batch"

\* Messages whose row worker w has changed, but not yet written.
Dirty(w) == IF Batch(w) THEN at[w].dirty ELSE {}

\* What was accepted has a job, and a queued job has a try left.
QueueOK ==
  /\ AcceptedIsQueued
  /\ \A j \in Jobs : jobs[j].state = "queued" => jobs[j].tries < MaxTries

\* One commit records the message, moves the conversation and opens the reply's row.
RecordOK ==
  \A m \in Messages :
    /\ acted[m] = IF m \in recorded THEN 1 ELSE 0
    /\ m \notin recorded => outbox[m] = NoRow

\* A row that waits has an attempt left.
Waits(r) == r.status = "PENDING" => r.attempts < MaxAttempts

RowsWait == \A m \in Messages : Waits(outbox[m])

\* A job in hand: its reply is not sent before it replies; while it holds its
\* locks nothing of it is recorded; without them its row is SENDING.
JobOK(w) ==
  /\ at[w].step # "done" => at[w].row = NoRow /\ at[w].held
  /\ Past(w) /\ at[w].held => Subject(w) \notin recorded
  /\ ~at[w].held => /\ Subject(w) \in recorded /\ outbox[Subject(w)].status = "SENDING"
                    /\ at[w].row = Row("FAILED", 1)
  /\ at[w].row.status # "SENDING" /\ Waits(at[w].row)
  /\ at[w].row.status = "NONE" => at[w].row = NoRow

JobsOK == \A w \in Workers : at[w].op = "job" => JobOK(w)

\* One job at a time has a message or, until a commit, the conversation of a shop.
JobLocksOK ==
  \A v, w \in Workers :
    Past(v) /\ Past(w) /\ \/ Subject(v) = Subject(w)
                          \/ at[v].held /\ at[w].held /\ Shop[Subject(v)] = Shop[Subject(w)]
    => v = w

\* Under a date not yet remembered a notice was given once for every time the
\* conversation lost its memory; a job that has the conversation gives one only
\* under a date later than what it found.
MemoryOK ==
  /\ \A s \in Shops, d \in Days :
       /\ given[<<s, d>>] <= 1 + forgot[s]
       /\ told[s] < d => given[<<s, d>>] <= forgot[s]
  /\ \A s \in Shops : told[s] <= today /\ \A date \in copied[s] : date <= today
  /\ \A w \in Workers :
       Past(w) /\ at[w].held =>
         LET remembered == IF at[w].fresh THEN Never ELSE told[Shop[Subject(w)]]
         IN  /\ at[w].told <= today
             /\ IF at[w].gives THEN remembered < at[w].told ELSE at[w].told = remembered

\* A batch in hand: all it has is recorded and nobody's job; what it has yet to
\* send waits, in the table as well for as long as it holds its locks.
BatchOK(w) ==
  /\ at[w].todo \cap at[w].dirty = {}
  /\ at[w].held => at[w].todo \cup at[w].dirty = DOMAIN at[w].row
  /\ \A m \in DOMAIN at[w].row :
       /\ m \in recorded /\ \A v \in Workers : ~(Past(v) /\ Subject(v) = m)
       /\ at[w].row[m].status # "SENDING" /\ Waits(at[w].row[m])
  /\ \A m \in at[w].todo :
       /\ at[w].row[m].status = "PENDING"
       /\ at[w].held => outbox[m].status = "PENDING"

BatchesOK == \A w \in Workers : Batch(w) => BatchOK(w)

\* SKIP LOCKED, and the lock of an UPDATE: no row has two owners.
RowLocksOK == \A v, w \in Workers : v # w => Locks(v) \cap Locks(w) = {}

\* A row committed in the middle of its send is in the hands of who sent it.
SendingOK ==
  \A m \in Messages :
    outbox[m].status = "SENDING" /\ faults = 0 =>
      \E w \in Workers : (InHand(w, m) /\ ~at[w].held) \/ m \in Dirty(w)

\* Batches that lost their locks before they came to m.
Overtaken(m) == {w \in Workers : Batch(w) /\ ~at[w].held /\ m \in at[w].todo}

\* The reply may yet be sent without an accident.
MayGo(m) ==
  IF m \in recorded
  THEN \/ \E w \in Workers : m \in Dirty(w) /\ at[w].row[m].status = "PENDING"
       \/ outbox[m].status = "PENDING" /\ \A w \in Workers : m \notin Dirty(w)
  ELSE \A w \in Workers : Past(w) /\ Subject(w) = m /\ at[w].row # NoRow => at[w].row.status = "PENDING"

Copies(m) == reached[m] + Cardinality(Overtaken(m)) + (IF MayGo(m) THEN 1 ELSE 0)

\* Every copy but one, sent or to come, has its accident.
CopiesOK == \A m \in Messages : Copies(m) <= 1 + excuse[m]

IInv ==
  /\ TypeOK /\ QueueOK /\ RecordOK /\ RowsWait /\ JobsOK /\ JobLocksOK /\ MemoryOK
  /\ BatchesOK /\ RowLocksOK /\ SendingOK /\ CopiesOK
-----------------------------------------------------------------------------
(* Hands.                                                                   *)

JobHands ==
  [op : {"job"}, job : Jobs, step : {"arrived", "replying", "done"},
   told : Dates, gives : BOOLEAN, fresh : BOOLEAN, row : Rows, held : BOOLEAN]

BatchHands(S) ==
  [op : {"batch"}, todo : SUBSET S, row : [S -> Rows], dirty : SUBSET S,
   knows : [Shops -> {"unread"} \cup Senders], held : BOOLEAN]

LEMMA HandsSplit ==
  /\ Idle \in Hands /\ JobHands \subseteq Hands
  /\ \A S \in SUBSET Messages : BatchHands(S) \subseteq Hands
  /\ \A h \in Hands : h = Idle \/ h \in JobHands \/ \E S \in SUBSET Messages : h \in BatchHands(S)
BY DEF Hands, JobHands, BatchHands

LEMMA JobShape ==
  ASSUME TypeOK, NEW w \in Workers, at[w].op = "job"
  PROVE  at[w] \in JobHands /\ at[w].job \in Jobs /\ Subject(w) \in Messages
<1>1. at[w] \in Hands
  BY DEF TypeOK
<1>2. at[w] \in JobHands
  BY <1>1, HandsSplit DEF Idle, BatchHands
<1> QED
  BY <1>2 DEF JobHands, Jobs, Subject

\* The rows of a batch are the domain of its copy of them.
LEMMA BatchShape ==
  ASSUME TypeOK, NEW w \in Workers, Batch(w)
  PROVE  /\ DOMAIN at[w].row \subseteq Messages
         /\ at[w] \in BatchHands(DOMAIN at[w].row)
         /\ at[w].row \in [DOMAIN at[w].row -> Rows]
         /\ at[w].todo \subseteq DOMAIN at[w].row /\ at[w].dirty \subseteq DOMAIN at[w].row
         /\ at[w].knows \in [Shops -> {"unread"} \cup Senders] /\ at[w].held \in BOOLEAN
<1>1. at[w] \in Hands
  BY DEF TypeOK
<1>2. PICK S \in SUBSET Messages : at[w] \in BatchHands(S)
  BY <1>1, HandsSplit DEF Idle, JobHands, Batch
<1>3. DOMAIN at[w].row = S
  BY <1>2 DEF BatchHands
<1> QED
  BY <1>2, <1>3 DEF BatchHands

\* A job that moves on, field by field.
JobHand(k, step, told_, gives, fresh, row, held) ==
  [op |-> "job", job |-> k.job, step |-> step, told |-> told_, gives |-> gives,
   fresh |-> fresh, row |-> row, held |-> held]

BatchHand(todo, row, dirty, knows, held) ==
  [op |-> "batch", todo |-> todo, row |-> row, dirty |-> dirty, knows |-> knows, held |-> held]

LEMMA JobMoves ==
  ASSUME NEW k \in JobHands, NEW step \in {"arrived", "replying", "done"}, NEW r \in Rows
  PROVE  /\ [k EXCEPT !.step = step, !.row = r]
              = JobHand(k, step, k.told, k.gives, k.fresh, r, k.held)
         /\ [k EXCEPT !.step = step, !.row = r, !.held = FALSE]
              = JobHand(k, step, k.told, k.gives, k.fresh, r, FALSE)
<1> DEFINE b == [k EXCEPT !.step = step, !.row = r]
           c == [k EXCEPT !.step = step, !.row = r, !.held = FALSE]
<1>0. ASSUME NEW x \in JobHands
      PROVE  x = [op |-> "job", job |-> x.job, step |-> x.step, told |-> x.told, gives |-> x.gives,
                  fresh |-> x.fresh, row |-> x.row, held |-> x.held]
  BY <1>0 DEF JobHands
<1>1. b \in JobHands /\ c \in JobHands
  BY DEF JobHands
<1>2. /\ b.job = k.job /\ b.step = step /\ b.told = k.told /\ b.gives = k.gives /\ b.fresh = k.fresh
      /\ b.row = r /\ b.held = k.held
  BY DEF JobHands
<1>3. /\ c.job = k.job /\ c.step = step /\ c.told = k.told /\ c.gives = k.gives /\ c.fresh = k.fresh
      /\ c.row = r /\ c.held = FALSE
  BY DEF JobHands
<1> HIDE DEF b, c
<1>4. b = JobHand(k, step, k.told, k.gives, k.fresh, r, k.held)
  BY <1>0, <1>1, <1>2 DEF JobHand
<1>5. c = JobHand(k, step, k.told, k.gives, k.fresh, r, FALSE)
  BY <1>0, <1>1, <1>3 DEF JobHand
<1> QED
  BY <1>4, <1>5 DEF b, c

\* The same of a job that decides on its reply.
LEMMA JobDecides ==
  ASSUME NEW k \in JobHands, NEW step, NEW t, NEW g, NEW f
  PROVE  [k EXCEPT !.step = step, !.told = t, !.gives = g, !.fresh = f]
           = JobHand(k, step, t, g, f, k.row, k.held)
<1> DEFINE a == [k EXCEPT !.step = step, !.told = t, !.gives = g, !.fresh = f]
           J == [op : {"job"}, job : {k.job}, step : {step}, told : {t}, gives : {g},
                 fresh : {f}, row : {k.row}, held : {k.held}]
<1>1. a \in J
  BY DEF JobHands
<1>2. JobHand(k, step, t, g, f, k.row, k.held) \in J
  BY DEF JobHand
<1>3. ASSUME NEW x \in J, NEW y \in J
      PROVE  x = y
  OBVIOUS
<1> QED
  BY <1>1, <1>2, <1>3

\* A batch that moves on, field by field.
LEMMA BatchSent ==
  ASSUME NEW S, NEW k \in BatchHands(S), NEW todo, NEW dirty, NEW row, NEW knows
  PROVE  [k EXCEPT !.todo = todo, !.dirty = dirty, !.knows = knows, !.row = row]
           = BatchHand(todo, row, dirty, knows, k.held)
<1> DEFINE x == [k EXCEPT !.todo = todo, !.dirty = dirty, !.knows = knows, !.row = row]
           y == BatchHand(todo, row, dirty, knows, k.held)
           Shape == [op : {"batch"}, todo : {todo}, row : {row}, dirty : {dirty},
                     knows : {knows}, held : {k.held}]
<1>1. x \in Shape
  BY DEF BatchHands
<1>2. y \in Shape
  BY DEF BatchHand
<1>3. ASSUME NEW g \in Shape, NEW h \in Shape
      PROVE  g = h
  OBVIOUS
<1> HIDE DEF x, y, Shape
<1>4. x = y
  BY <1>1, <1>2, <1>3
<1> QED
  BY <1>4 DEF x, y

\* The same of a batch that gives a message up.
LEMMA BatchGaveUp ==
  ASSUME NEW S, NEW k \in BatchHands(S), NEW todo, NEW dirty, NEW row
  PROVE  [k EXCEPT !.todo = todo, !.dirty = dirty, !.row = row]
           = BatchHand(todo, row, dirty, k.knows, k.held)
<1> DEFINE x == [k EXCEPT !.todo = todo, !.dirty = dirty, !.row = row]
           y == BatchHand(todo, row, dirty, k.knows, k.held)
           Shape == [op : {"batch"}, todo : {todo}, row : {row}, dirty : {dirty},
                     knows : {k.knows}, held : {k.held}]
<1>1. x \in Shape
  BY DEF BatchHands
<1>2. y \in Shape
  BY DEF BatchHand
<1>3. ASSUME NEW g \in Shape, NEW h \in Shape
      PROVE  g = h
  OBVIOUS
<1> HIDE DEF x, y, Shape
<1>4. x = y
  BY <1>1, <1>2, <1>3
<1> QED
  BY <1>4 DEF x, y

-----------------------------------------------------------------------------
(* What each action does to the hand it moves.                              *)

\* One hand changes, to h.
Moves(w, h) == at' = [at EXCEPT ![w] = h]

\* The other hands, and what is said of them, stay.
LEMMA MovesOne ==
  ASSUME TypeOK, NEW w \in Workers, NEW h, Moves(w, h)
  PROVE  /\ at'[w] = h
         /\ \A v \in Workers \ {w} : at'[v] = at[v]
         /\ h \in Hands => at' \in [Workers -> Hands]
BY DEF TypeOK, Moves

LEMMA StartMoves ==
  ASSUME TypeOK, NEW w \in Workers, NEW j \in Jobs, StartJob(w, j)
  PROVE  \E h \in JobHands : /\ Moves(w, h) /\ h.job = j /\ h.step = "arrived"
                             /\ h.row = NoRow /\ h.held = TRUE
<1> DEFINE h == [op |-> "job", job |-> j, step |-> "arrived", told |-> Never,
                 gives |-> FALSE, fresh |-> FALSE, row |-> NoRow, held |-> TRUE]
<1>0. NoRow \in Rows
  BY MessagingAssumption DEF NoRow, Row, Rows
<1>1. h \in JobHands
  BY <1>0 DEF JobHands, Dates, Never
<1>2. Moves(w, h)
  BY DEF StartJob, Moves
<1> QED
  BY <1>1, <1>2

\* The two fields of a row.
LEMMA RowIs ==
  ASSUME NEW s, NEW n
  PROVE  Row(s, n).status = s /\ Row(s, n).attempts = n
BY DEF Row

LEMMA RowTypes ==
  /\ NoRow \in Rows /\ Row("SENDING", 0) \in Rows /\ Row("FAILED", 1) \in Rows
  /\ \A n \in 0 .. MaxAttempts : Row("FAILED", n) \in Rows /\ Row("SENDING", n) \in Rows
BY MessagingAssumption DEF NoRow, Row, Rows

\* The row after an attempt: sent, given up, or waiting with an attempt left.
LEMMA AfterRow ==
  ASSUME NEW outcome, NEW n \in 1 .. MaxAttempts
  PROVE  /\ After(outcome, n) \in Rows /\ FirstRow(outcome) \in Rows
         /\ After(outcome, n).status \in {"SENT", "FAILED", "PENDING"}
         /\ FirstRow(outcome).status \in {"SENT", "FAILED", "PENDING"}
         /\ Waits(After(outcome, n)) /\ Waits(FirstRow(outcome))
         /\ outcome = "delivered" => /\ After(outcome, n).status = "SENT"
                                     /\ FirstRow(outcome).status = "SENT"
<1>1. MaxAttempts \in Nat /\ 1 < MaxAttempts
  BY MessagingAssumption
<1>2. ASSUME NEW k \in 1 .. MaxAttempts
      PROVE  /\ After(outcome, k) \in Rows
             /\ After(outcome, k).status \in {"SENT", "FAILED", "PENDING"}
             /\ Waits(After(outcome, k))
             /\ outcome = "delivered" => After(outcome, k).status = "SENT"
  <2>1. CASE outcome = "delivered"
    BY <1>1, <2>1 DEF After, Row, Rows, Waits
  <2>2. CASE outcome # "delivered" /\ (outcome = "refused" \/ k >= MaxAttempts)
    BY <1>1, <2>2 DEF After, Row, Rows, Waits
  <2>3. CASE outcome # "delivered" /\ ~(outcome = "refused" \/ k >= MaxAttempts)
    BY <1>1, <2>3 DEF After, Row, Rows, Waits
  <2> QED
    BY <2>1, <2>2, <2>3
<1>3. After(outcome, n) \in Rows /\ After(outcome, 1) \in Rows
  BY <1>1, <1>2
<1>4. Row("SENT", 0) \in Rows /\ Row("SENT", 0).status = "SENT" /\ Waits(Row("SENT", 0))
  BY <1>1 DEF Row, Rows, Waits
<1>5. 1 \in 1 .. MaxAttempts
  BY <1>1
<1> QED
  BY <1>2, <1>3, <1>4, <1>5 DEF FirstRow

LEMMA HandleMoves ==
  ASSUME TypeOK, MemoryOK, NEW w \in Workers, NEW quiet \in BOOLEAN, NEW fresh \in BOOLEAN,
         NEW closed \in BOOLEAN, Handle(w, quiet, fresh, closed)
  PROVE  \E h \in JobHands :
           /\ Moves(w, h) /\ h.job = at[w].job /\ h.step \in {"replying", "done"}
           /\ h.row = at[w].row /\ h.held = at[w].held /\ h.fresh = fresh
           /\ LET remembered == IF fresh THEN Never ELSE told[Shop[Subject(w)]]
              IN  h.told <= today /\ IF h.gives THEN remembered < h.told ELSE h.told = remembered
<1> DEFINE s == Shop[Subject(w)]
           remembered == IF fresh THEN Never ELSE told[s]
           gives == ~quiet /\ Notice(closed, remembered)
           replies == ~quiet /\ (gives \/ ~closed)
           step == IF replies THEN "replying" ELSE "done"
           date == IF gives THEN today ELSE remembered
           k == at[w]
           h == JobHand(k, step, date, gives, fresh, k.row, k.held)
<1>1. at[w].op = "job" /\ at[w].step = "arrived"
  BY DEF Handle
<1>2. k \in JobHands /\ Subject(w) \in Messages
  BY <1>1, JobShape
<1>3. s \in Shops /\ told[s] \in Dates /\ told[s] <= today /\ today \in Days
  BY <1>2, MessagingAssumption DEF TypeOK, MemoryOK
<1>4. remembered \in Dates /\ remembered <= today /\ date \in Dates /\ gives \in BOOLEAN
  BY <1>3, MessagingAssumption DEF Dates, Days, Never, Notice
<1>5. step \in {"replying", "done"}
  OBVIOUS
<1>6. date <= today /\ IF gives THEN remembered < date ELSE date = remembered
  BY <1>3, <1>4, MessagingAssumption DEF Dates, Days, Never, Notice
<1>7. at' = [at EXCEPT ![w] = [k EXCEPT !.step = step, !.told = date,
                                        !.gives = gives, !.fresh = fresh]]
  BY Zenon DEF Handle
<1> HIDE DEF remembered, gives, step, date, k
<1>10. [k EXCEPT !.step = step, !.told = date, !.gives = gives, !.fresh = fresh] = h
  BY <1>2, JobDecides, Zenon
<1>8. Moves(w, h)
  BY <1>7, <1>10, Zenon DEF Moves
<1>9. h \in JobHands /\ h.job = k.job /\ h.step = step /\ h.row = k.row /\ h.held = k.held
      /\ h.fresh = fresh /\ h.told = date /\ h.gives = gives
  BY <1>2, <1>4, <1>5 DEF JobHand, JobHands
<1> QED
  BY <1>5, <1>6, <1>8, <1>9 DEF k, remembered, s

LEMMA ReplyMoves ==
  ASSUME TypeOK, NEW w \in Workers, NEW outcome, Reply(w, outcome)
  PROVE  \E h \in JobHands :
           /\ Moves(w, h) /\ h.job = at[w].job /\ h.step = "done" /\ h.row = FirstRow(outcome)
           /\ h.held = at[w].held /\ h.told = at[w].told /\ h.gives = at[w].gives
           /\ h.fresh = at[w].fresh
<1> DEFINE k == at[w]
           r == FirstRow(outcome)
           h == JobHand(k, "done", k.told, k.gives, k.fresh, r, k.held)
<1>1. k \in JobHands
  BY JobShape DEF Reply
<1>2. r \in Rows
  BY AfterRow, MessagingAssumption
<1>3. at' = [at EXCEPT ![w] = [k EXCEPT !.step = "done", !.row = r]]
  BY Zenon DEF Reply
<1> HIDE DEF k, r
<1>4. k.told \in Dates /\ k.gives \in BOOLEAN /\ k.fresh \in BOOLEAN
  BY <1>1 DEF JobHands
<1>5. [k EXCEPT !.step = "done", !.row = r] = h
  BY <1>1, <1>2, <1>4, JobMoves
<1>7. Moves(w, h)
  BY <1>3, <1>5, Zenon DEF Moves
<1>6. h \in JobHands /\ h.job = k.job /\ h.step = "done" /\ h.row = r /\ h.held = k.held
      /\ h.told = k.told /\ h.gives = k.gives /\ h.fresh = k.fresh
  BY <1>1, <1>2 DEF JobHand, JobHands
<1> QED
  BY <1>6, <1>7 DEF k, r

LEMMA ReplyRejectedMoves ==
  ASSUME TypeOK, NEW w \in Workers, ReplyRejected(w)
  PROVE  \E h \in JobHands :
           /\ Moves(w, h) /\ h.job = at[w].job /\ h.step = "done" /\ h.row = Row("FAILED", 1)
           /\ h.held = FALSE
<1> DEFINE k == at[w]
           r == Row("FAILED", 1)
           h == JobHand(k, "done", k.told, k.gives, k.fresh, r, FALSE)
<1>1. k \in JobHands
  BY JobShape DEF ReplyRejected
<1>2. r \in Rows
  BY RowTypes
<1>3. at' = [at EXCEPT ![w] = [k EXCEPT !.step = "done", !.row = r, !.held = FALSE]]
  BY Zenon DEF ReplyRejected
<1> HIDE DEF k, r
<1>4. k.told \in Dates /\ k.gives \in BOOLEAN /\ k.fresh \in BOOLEAN
  BY <1>1 DEF JobHands
<1>5. [k EXCEPT !.step = "done", !.row = r, !.held = FALSE] = h
  BY <1>1, <1>2, <1>4, JobMoves
<1>7. Moves(w, h)
  BY <1>3, <1>5, Zenon DEF Moves
<1>6. h \in JobHands /\ h.job = k.job /\ h.step = "done" /\ h.row = r /\ h.held = FALSE
  BY <1>1, <1>2 DEF JobHand, JobHands
<1> QED
  BY <1>6, <1>7 DEF k, r

LEMMA TakeMoves ==
  ASSUME TypeOK, NEW w \in Workers, NEW S \in SUBSET Messages, BatchTakes(w, S)
  PROVE  \E h \in BatchHands(S) :
           /\ Moves(w, h) /\ h.op = "batch" /\ h.todo = S /\ h.row = [m \in S |-> outbox[m]]
           /\ h.dirty = {} /\ h.held = TRUE
<1> DEFINE row == [m \in S |-> outbox[m]]
           h == [op |-> "batch", todo |-> S, row |-> row, dirty |-> {},
                 knows |-> [s \in Shops |-> "unread"], held |-> TRUE]
<1>1. row \in [S -> Rows]
  BY DEF TypeOK
<1>2. [s \in Shops |-> "unread"] \in [Shops -> {"unread"} \cup Senders]
  OBVIOUS
<1>3. h \in BatchHands(S)
  BY <1>1, <1>2 DEF BatchHands
<1>4. Moves(w, h)
  BY DEF BatchTakes, Moves
<1> QED
  BY <1>3, <1>4

\* The row a batch is about to send has an attempt left.
LEMMA SendShape ==
  ASSUME TypeOK, BatchesOK, NEW w \in Workers, NEW m \in Messages, CanSend(w, m)
  PROVE  /\ Batch(w) /\ m \in DOMAIN at[w].row /\ m \in at[w].todo /\ m \notin at[w].dirty
         /\ at[w].row[m] \in Rows /\ at[w].row[m].attempts + 1 \in 1 .. MaxAttempts
         /\ at[w].row[m].attempts \in 0 .. MaxAttempts
         /\ Shop[m] \in Shops /\ Sender(w, Shop[m]) \in Senders
<1>1. Batch(w) /\ m \in at[w].todo
  BY DEF CanSend, Batch
<1>2. m \in DOMAIN at[w].row /\ at[w].row \in [DOMAIN at[w].row -> Rows]
      /\ at[w].knows \in [Shops -> {"unread"} \cup Senders]
  BY <1>1, BatchShape
<1>3. at[w].row[m] \in Rows /\ at[w].row[m].attempts \in 0 .. MaxAttempts
  BY <1>2 DEF Rows
<1>4. at[w].row[m].attempts < MaxAttempts /\ m \notin at[w].dirty
  BY <1>1, <1>2 DEF BatchesOK, BatchOK, Waits
<1>5. at[w].row[m].attempts + 1 \in 1 .. MaxAttempts
  BY <1>3, <1>4, MessagingAssumption
<1>6. Shop[m] \in Shops
  BY MessagingAssumption
<1>7. Sender(w, Shop[m]) \in Senders
  BY <1>2, <1>6 DEF Sender, TypeOK
<1> QED
  BY <1>1, <1>2, <1>3, <1>4, <1>5, <1>6, <1>7

\* A send takes the row from what is to do; the batch holds what it held.
SentHand(w, m, r, h) ==
  /\ Moves(w, h) /\ h \in BatchHands(DOMAIN at[w].row) /\ h.op = "batch"
  /\ h.todo = at[w].todo \ {m} /\ h.dirty = at[w].dirty \cup {m}
  /\ h.row = [at[w].row EXCEPT ![m] = r] /\ h.held = at[w].held

LEMMA SendMoves ==
  ASSUME TypeOK, BatchesOK, NEW w \in Workers, NEW m \in Messages, NEW outcome,
         BatchSends(w, m, outcome)
  PROVE  \E h : SentHand(w, m, After(outcome, at[w].row[m].attempts + 1), h)
<1> DEFINE k == at[w]
           S == DOMAIN k.row
           r == After(outcome, k.row[m].attempts + 1)
           c == Sender(w, Shop[m])
           t == k.todo \ {m}
           d == k.dirty \cup {m}
           q == [k.row EXCEPT ![m] = r]
           n == [k.knows EXCEPT ![Shop[m]] = c]
           h == BatchHand(t, q, d, n, k.held)
<1>1. CanSend(w, m)
  BY DEF BatchSends
<1>2. /\ S \in SUBSET Messages /\ k \in BatchHands(S) /\ m \in S /\ Shop[m] \in Shops
      /\ c \in Senders /\ k.row[m].attempts + 1 \in 1 .. MaxAttempts
  BY <1>1, SendShape, BatchShape
<1>3. r \in Rows
  BY <1>2, AfterRow
<1>4. t \in SUBSET S /\ d \in SUBSET S /\ q \in [S -> Rows]
  BY <1>2, <1>3 DEF BatchHands
<1>9. n \in [Shops -> {"unread"} \cup Senders]
  BY <1>2, <1>3 DEF BatchHands
<1>5. at' = [at EXCEPT ![w] = [k EXCEPT !.todo = t, !.dirty = d, !.knows = n, !.row = q]]
  BY Zenon DEF BatchSends
<1> HIDE DEF k, S, r, c, t, d, q, n
<1>6. [k EXCEPT !.todo = t, !.dirty = d, !.knows = n, !.row = q] = h
  BY <1>2, BatchSent, Zenon
<1>7. Moves(w, h)
  BY <1>5, <1>6, Zenon DEF Moves
<1>8. h \in BatchHands(S) /\ h.op = "batch" /\ h.todo = t /\ h.dirty = d
      /\ h.row = q /\ h.held = k.held
  BY <1>2, <1>4, <1>9 DEF BatchHand, BatchHands
<1> QED
  BY <1>7, <1>8 DEF k, S, r, t, d, q, SentHand

LEMMA GiveUpMoves ==
  ASSUME TypeOK, BatchesOK, NEW w \in Workers, NEW m \in Messages, BatchGivesUp(w, m)
  PROVE  \E h : SentHand(w, m, Row("FAILED", at[w].row[m].attempts), h)
<1> DEFINE k == at[w]
           S == DOMAIN k.row
           r == Row("FAILED", k.row[m].attempts)
           t == k.todo \ {m}
           d == k.dirty \cup {m}
           q == [k.row EXCEPT ![m] = r]
           h == BatchHand(t, q, d, k.knows, k.held)
<1>1. CanSend(w, m)
  BY DEF BatchGivesUp
<1>2. /\ S \in SUBSET Messages /\ k \in BatchHands(S) /\ m \in S /\ Shop[m] \in Shops
      /\ k.row[m].attempts \in 0 .. MaxAttempts
  BY <1>1, SendShape, BatchShape
<1>3. r \in Rows /\ "PLATFORM" \in Senders
  BY <1>2, RowTypes DEF Senders
<1>4. t \in SUBSET S /\ d \in SUBSET S /\ q \in [S -> Rows]
  BY <1>2, <1>3 DEF BatchHands
<1>9. k.knows \in [Shops -> {"unread"} \cup Senders]
  BY <1>2 DEF BatchHands
<1>5. at' = [at EXCEPT ![w] = [k EXCEPT !.todo = t, !.dirty = d, !.row = q]]
  BY Zenon DEF BatchGivesUp
<1> HIDE DEF k, S, r, t, d, q
<1>6. [k EXCEPT !.todo = t, !.dirty = d, !.row = q] = h
  BY <1>2, BatchGaveUp, Zenon
<1>7. Moves(w, h)
  BY <1>5, <1>6, Zenon DEF Moves
<1>8. h \in BatchHands(S) /\ h.op = "batch" /\ h.todo = t /\ h.dirty = d
      /\ h.row = q /\ h.held = k.held
  BY <1>2, <1>4, <1>9 DEF BatchHand, BatchHands
<1> QED
  BY <1>7, <1>8 DEF k, S, r, t, d, q, SentHand

LEMMA BatchRejectedMoves ==
  ASSUME TypeOK, BatchesOK, NEW w \in Workers, NEW m \in Messages, BatchRejected(w, m)
  PROVE  \E h \in BatchHands(DOMAIN at[w].row) :
           /\ Moves(w, h) /\ h.op = "batch" /\ h.todo = at[w].todo \ {m} /\ h.dirty = {m}
           /\ h.row = [at[w].row EXCEPT ![m] = Row("FAILED", at[w].row[m].attempts + 1)]
           /\ h.held = FALSE
<1> DEFINE k == at[w]
           S == DOMAIN k.row
           r == Row("FAILED", k.row[m].attempts + 1)
           c == "NEEDS_ATTENTION"
           t == k.todo \ {m}
           d == {m}
           q == [k.row EXCEPT ![m] = r]
           n == [k.knows EXCEPT ![Shop[m]] = c]
           f == FALSE
           h == BatchHand(t, q, d, n, f)
<1>1. CanSend(w, m)
  BY DEF BatchRejected
<1>2. /\ S \in SUBSET Messages /\ k \in BatchHands(S) /\ m \in S /\ Shop[m] \in Shops
      /\ k.row[m].attempts + 1 \in 1 .. MaxAttempts
  BY <1>1, SendShape, BatchShape
<1>3. r \in Rows /\ c \in Senders
  BY <1>2, RowTypes DEF Senders
<1>4. t \in SUBSET S /\ d \in SUBSET S /\ q \in [S -> Rows]
  BY <1>2, <1>3 DEF BatchHands
<1>10. f \in BOOLEAN
  OBVIOUS
<1>9. n \in [Shops -> {"unread"} \cup Senders]
  BY <1>2, <1>3 DEF BatchHands
<1>5. at' = [at EXCEPT ![w] = [k EXCEPT !.todo = t, !.dirty = d, !.held = f,
                                        !.knows = n, !.row = q]]
  BY DEF BatchRejected
<1> HIDE DEF k, S, r, c, t, d, q, n, f
<1>11. k \in BatchHands(S)
  BY <1>2
<1>6. [k EXCEPT !.todo = t, !.dirty = d, !.held = f, !.knows = n, !.row = q] = h
  <2> DEFINE x == [k EXCEPT !.todo = t, !.dirty = d, !.held = f, !.knows = n, !.row = q]
             Shape == [op : {"batch"}, todo : {t}, row : {q}, dirty : {d}, knows : {n}, held : {f}]
  <2> HIDE DEF h
  <2>1. x \in Shape
    BY <1>11 DEF BatchHands
  <2>2. h \in Shape
    BY DEF BatchHand, h
  <2>3. ASSUME NEW y \in Shape, NEW z \in Shape
        PROVE  y = z
    OBVIOUS
  <2> HIDE DEF x, Shape
  <2>4. x = h
    BY <2>1, <2>2, <2>3
  <2> QED
    BY <2>4 DEF x
<1>7. Moves(w, h)
  BY <1>5, <1>6, Zenon DEF Moves
<1>8. h \in BatchHands(S) /\ h.op = "batch" /\ h.todo = t /\ h.dirty = d
      /\ h.row = q /\ h.held = f
  BY <1>2, <1>4, <1>9, <1>10 DEF BatchHand, BatchHands
<1> QED
  BY <1>7, <1>8 DEF k, S, r, t, d, q, f

-----------------------------------------------------------------------------
(* What a step of one worker leaves of the others.                          *)

\* The other hands stay.
Alone(w) == \A v \in Workers \ {w} : at'[v] = at[v]

\* A worker has the message of a job that reserved it, and the rows of its batch.
Owns(w, m) ==
  \/ Past(w) /\ Subject(w) = m
  \/ Batch(w) /\ m \in DOMAIN at[w].row /\ m \notin LockedByOthers(w)

\* A row SENDING in the table is in this worker's hands.
Sends(w, m) == (InHand(w, m) /\ ~at[w].held) \/ m \in Dirty(w)

\* Who holds the locks of the others.
LEMMA OtherLocks ==
  ASSUME NEW w, NEW m
  PROVE  m \in LockedByOthers(w) <=> \E q \in Workers \ {w} : m \in Locks(q)
BY DEF LockedByOthers

\* A worker writes and records only what it owns, and reserves nothing that is
\* recorded: the jobs and batches of the others are as they were.
LEMMA OthersStay ==
  ASSUME TypeOK, JobsOK, JobLocksOK, BatchesOK, NEW w \in Workers, Alone(w),
         recorded \subseteq recorded',
         \A m \in Messages :
           outbox'[m] # outbox[m] \/ m \in recorded' \ recorded => Owns(w, m),
         Past(w)' => (Past(w) /\ Subject(w)' = Subject(w)) \/ Subject(w)' \notin recorded
  PROVE  \A v \in Workers \ {w} :
           (at[v].op = "job" => JobOK(v)') /\ (Batch(v) => BatchOK(v)')
<1> SUFFICES ASSUME NEW v \in Workers, v # w
             PROVE  (at[v].op = "job" => JobOK(v)') /\ (Batch(v) => BatchOK(v)')
  OBVIOUS
<1>1. at'[v] = at[v]
  BY DEF Alone
<1>2. ASSUME at[v].op = "job"
      PROVE  JobOK(v)'
  <2>1. JobOK(v) /\ Subject(v) \in Messages
    BY <1>2, JobShape DEF JobsOK
  <2>2. ASSUME Past(v)
        PROVE  ~Owns(w, Subject(v))
    <3>1. ASSUME Past(w), Subject(w) = Subject(v)
          PROVE  FALSE
      BY <2>2, <3>1 DEF JobLocksOK
    <3>2. ASSUME Batch(w), Subject(v) \in DOMAIN at[w].row
          PROVE  FALSE
      BY <2>2, <3>2 DEF BatchesOK, BatchOK
    <3> QED
      BY <3>1, <3>2 DEF Owns
  <2>3. Past(v) => outbox'[Subject(v)] = outbox[Subject(v)]
                   /\ (Subject(v) \in recorded' <=> Subject(v) \in recorded)
    BY <2>1, <2>2
  <2>4. ~at[v].held => Past(v)
    BY <2>1, <1>2 DEF JobOK, Past
  <2>5. Subject(v)' = Subject(v) /\ (Past(v)' <=> Past(v))
    BY <1>1 DEF Subject, Past
  <2> HIDE DEF Subject
  <2> QED
    BY <1>1, <2>1, <2>3, <2>4, <2>5 DEF JobOK
<1>3. ASSUME Batch(v)
      PROVE  BatchOK(v)'
  <2>1. BatchOK(v) /\ DOMAIN at[v].row \subseteq Messages /\ at[v].todo \subseteq DOMAIN at[v].row
    BY <1>3, BatchShape DEF BatchesOK
  <2>2. ASSUME NEW m \in at[v].todo, at[v].held
        PROVE  outbox'[m] = outbox[m]
    <3>1. m \in Locks(v)
      BY <1>3, <2>1, <2>2 DEF Locks, Batch
    <3>2. m \in LockedByOthers(w)
      BY <3>1, OtherLocks
    <3>3. ~(Past(w) /\ Subject(w) = m)
      BY <2>1 DEF BatchOK
    <3> QED
      BY <2>1, <3>2, <3>3 DEF Owns
  <2>3. ASSUME NEW m \in DOMAIN at[v].row, NEW u \in Workers, Past(u)', Subject(u)' = m
        PROVE  FALSE
    <3>1. m \in recorded /\ \A x \in Workers : ~(Past(x) /\ Subject(x) = m)
      BY <2>1 DEF BatchOK
    <3>2. CASE u = w
      BY <2>3, <3>1, <3>2
    <3>3. CASE u # w
      <4>1. at'[u] = at[u]
        BY <3>3 DEF Alone
      <4> QED
        BY <2>3, <3>1, <4>1 DEF Past, Subject
    <3> QED
      BY <3>2, <3>3
  <2> HIDE DEF Past, Subject
  <2>4. \A m \in DOMAIN at'[v].row : m \in recorded'
    BY <1>1, <2>1 DEF BatchOK
  <2>5. \A m \in at'[v].todo : at'[v].held => outbox'[m].status = "PENDING"
    BY <1>1, <2>1, <2>2 DEF BatchOK
  <2>6. \A m \in DOMAIN at'[v].row : \A u \in Workers : ~(Past(u)' /\ Subject(u)' = m)
    BY <1>1, <2>3
  <2> QED
    BY <1>1, <2>1, <2>4, <2>5, <2>6 DEF BatchOK
<1> QED
  BY <1>2, <1>3

\* A job keeps what it has locked, or takes what no other job has.
LEMMA JobLocksStay ==
  ASSUME JobLocksOK, NEW w \in Workers, Alone(w),
         Past(w)' => \/ Past(w) /\ Subject(w)' = Subject(w) /\ (at'[w].held => at[w].held)
                     \/ \A v \in Workers \ {w} : Past(v) =>
                          /\ Subject(v) # Subject(w)'
                          /\ ~(at[v].held /\ Shop[Subject(v)] = Shop[Subject(w)'])
  PROVE  JobLocksOK'
<1>1. ASSUME NEW v \in Workers, v # w
      PROVE  at'[v] = at[v] /\ Subject(v)' = Subject(v) /\ (Past(v)' <=> Past(v))
  BY <1>1 DEF Alone, Subject, Past
<1>2. ASSUME NEW v \in Workers, v # w, Past(v), Past(w)'
      PROVE  Subject(v) # Subject(w)'
             /\ ~(at[v].held /\ at'[w].held /\ Shop[Subject(v)] = Shop[Subject(w)'])
  <2> HIDE DEF Past, Subject
  <2> QED
    BY <1>2 DEF JobLocksOK
<1> SUFFICES ASSUME NEW u \in Workers, NEW v \in Workers, Past(u)', Past(v)',
                    \/ Subject(u)' = Subject(v)'
                    \/ at'[u].held /\ at'[v].held /\ Shop[Subject(u)'] = Shop[Subject(v)'],
                    u # v
             PROVE  FALSE
  BY DEF JobLocksOK
<1> HIDE DEF Past, Subject
<1>3. CASE u = w
  BY <1>1, <1>2, <1>3
<1>4. CASE v = w
  BY <1>1, <1>2, <1>4
<1>5. CASE u # w /\ v # w
  BY <1>1, <1>5 DEF JobLocksOK
<1> QED
  BY <1>3, <1>4, <1>5

\* A batch locks only what no other batch has.
LEMMA RowLocksStay ==
  ASSUME RowLocksOK, NEW w \in Workers, Alone(w),
         \A m \in Locks(w)' : m \notin LockedByOthers(w)
  PROVE  RowLocksOK'
<1>1. ASSUME NEW v \in Workers, v # w
      PROVE  Locks(v)' = Locks(v) /\ Locks(v) \cap Locks(w)' = {}
  <2>1. at'[v] = at[v]
    BY <1>1 DEF Alone
  <2>2. Locks(v)' = Locks(v)
    BY <2>1 DEF Locks
  <2> QED
    BY <1>1, <2>2, OtherLocks
<1> QED
  BY <1>1 DEF RowLocksOK

\* A row SENDING stays in the hands of who sent it.
LEMMA SendingStay ==
  ASSUME TypeOK, SendingOK, NEW w \in Workers, Alone(w),
         \A m \in Messages : outbox'[m].status = "SENDING" /\ faults' = 0 =>
           \/ Sends(w, m)'
           \/ outbox[m].status = "SENDING" /\ faults = 0 /\ ~Sends(w, m)
  PROVE  SendingOK'
<1> SUFFICES ASSUME NEW m \in Messages, outbox'[m].status = "SENDING", faults' = 0
             PROVE  \E v \in Workers : Sends(v, m)'
  BY DEF SendingOK, Sends
<1>1. CASE Sends(w, m)'
  BY <1>1
<1>2. CASE outbox[m].status = "SENDING" /\ faults = 0 /\ ~Sends(w, m)
  <2>1. PICK v \in Workers : Sends(v, m)
    BY <1>2 DEF SendingOK, Sends
  <2>2. at'[v] = at[v]
    BY <1>2, <2>1 DEF Alone
  <2>3. Sends(v, m)'
    BY <2>1, <2>2 DEF Sends, InHand, Dirty, Batch
  <2> QED
    BY <2>3
<1> QED
  BY <1>1, <1>2

\* Until a job commits nothing of the memory moves, and a job that decides
\* does so from what the conversation remembers.
LEMMA MemoryStays ==
  ASSUME MemoryOK, NEW w \in Workers, Alone(w), UNCHANGED <<told, given, forgot, today, copied>>,
         Past(w)' /\ at'[w].held =>
           LET remembered == IF at'[w].fresh THEN Never ELSE told[Shop[Subject(w)']]
           IN  at'[w].told <= today' /\ IF at'[w].gives THEN remembered < at'[w].told ELSE at'[w].told = remembered
  PROVE  MemoryOK'
<1>1. /\ \A s \in Shops, d \in Days :
           /\ given'[<<s, d>>] <= 1 + forgot'[s]
           /\ told'[s] < d => given'[<<s, d>>] <= forgot'[s]
      /\ \A s \in Shops : told'[s] <= today' /\ \A date \in copied'[s] : date <= today'
  BY DEF MemoryOK
<1>2. ASSUME NEW v \in Workers, Past(v)', at'[v].held
      PROVE  LET remembered == IF at'[v].fresh THEN Never ELSE told'[Shop[Subject(v)']]
             IN  at'[v].told <= today' /\ IF at'[v].gives THEN remembered < at'[v].told ELSE at'[v].told = remembered
  <2>1. CASE v = w
    BY <1>2, <2>1
  <2>2. CASE v # w
    <3>1. at'[v] = at[v] /\ Subject(v)' = Subject(v) /\ Past(v)
      BY <1>2, <2>2 DEF Alone, Subject, Past
    <3> HIDE DEF Past, Subject
    <3> QED
      BY <1>2, <3>1 DEF MemoryOK
  <2> QED
    BY <2>1, <2>2
<1> QED
  BY <1>1, <1>2 DEF MemoryOK

\* The one job that has the conversation publishes what it remembers and gives.
LEMMA MemoryPublished ==
  ASSUME TypeOK, MemoryOK, JobLocksOK, NEW w \in Workers, Alone(w), Past(w), at[w].held,
         Publish(w), UNCHANGED <<today, copied>>, ~(Past(w)' /\ at'[w].held)
  PROVE  MemoryOK'
<1> DEFINE s == Shop[Subject(w)]
           date == at[w].told
           remembered == IF at[w].fresh THEN Never ELSE told[s]
<1>1. Subject(w) \in Messages /\ s \in Shops /\ date \in Dates /\ at[w].gives \in BOOLEAN
      /\ at[w].fresh \in BOOLEAN
  BY JobShape, MessagingAssumption DEF Past, JobHands
<1>2. date <= today /\ IF at[w].gives THEN remembered < date ELSE date = remembered
  BY DEF MemoryOK
<1>3. /\ told' = [told EXCEPT ![s] = date]
      /\ forgot' = [forgot EXCEPT ![s] = IF at[w].fresh THEN forgot[s] + 1 ELSE forgot[s]]
      /\ given' = [p \in DOMAIN given |->
                     IF at[w].gives /\ p = <<s, date>> THEN given[p] + 1 ELSE given[p]]
  BY DEF Publish
<1> HIDE DEF s, date
<1>4. ASSUME NEW x \in Shops, NEW d \in Days
      PROVE  given'[<<x, d>>] <= 1 + forgot'[x]
             /\ (told'[x] < d => given'[<<x, d>>] <= forgot'[x])
  <2>1. <<x, d>> \in Shops \X Days /\ DOMAIN given = Shops \X Days
        /\ given[<<x, d>>] \in Nat /\ forgot[x] \in Nat /\ told[x] \in Nat /\ d \in Nat /\ date \in Nat
    BY <1>1, MessagingAssumption DEF TypeOK, Dates, Days, Never
  <2>2. given'[<<x, d>>] = IF at[w].gives /\ x = s /\ d = date
                           THEN given[<<x, d>>] + 1 ELSE given[<<x, d>>]
    BY <1>3, <2>1
  <2>3. told'[x] = (IF x = s THEN date ELSE told[x])
        /\ forgot'[x] = IF x = s /\ at[w].fresh THEN forgot[x] + 1 ELSE forgot[x]
    BY <1>3 DEF TypeOK
  <2>4. given[<<x, d>>] <= 1 + forgot[x] /\ (told[x] < d => given[<<x, d>>] <= forgot[x])
    BY DEF MemoryOK
  <2>5. CASE x # s
    BY <2>2, <2>3, <2>4, <2>5
  <2>6. CASE x = s /\ at[w].fresh
    <3>1. forgot'[x] = forgot[x] + 1 /\ told'[x] = date
      BY <2>3, <2>6
    <3> QED
      BY <2>1, <2>2, <2>4, <3>1
  <2>7. CASE x = s /\ ~at[w].fresh
    <3>1. forgot'[x] = forgot[x] /\ told'[x] = date /\ told[x] <= date
          /\ (at[w].gives => told[x] < date)
      BY <1>2, <2>1, <2>3, <2>7
    <3> QED
      BY <2>1, <2>2, <2>4, <3>1
  <2> QED
    BY <2>5, <2>6, <2>7
<1>5. ASSUME NEW v \in Workers, Past(v)', at'[v].held
      PROVE  LET rem == IF at'[v].fresh THEN Never ELSE told'[Shop[Subject(v)']]
             IN  at'[v].told <= today' /\ IF at'[v].gives THEN rem < at'[v].told ELSE at'[v].told = rem
  <2>1. v # w
    BY <1>5
  <2>2. at'[v] = at[v] /\ Subject(v)' = Subject(v) /\ Past(v)
    BY <1>5, <2>1 DEF Alone, Subject, Past
  <2>3. Subject(v) \in Messages /\ Shop[Subject(v)] \in Shops
    BY <2>2, JobShape, MessagingAssumption DEF Past
  <2> HIDE DEF Past, Subject
  <2>4. Shop[Subject(v)] # s
    BY <1>5, <2>1, <2>2 DEF JobLocksOK, s
  <2>5. told'[Shop[Subject(v)]] = told[Shop[Subject(v)]]
    BY <1>3, <2>3, <2>4 DEF TypeOK
  <2> QED
    BY <1>5, <2>2, <2>5 DEF MemoryOK
<1>6. ASSUME NEW x \in Shops
      PROVE  told'[x] <= today' /\ \A d \in copied'[x] : d <= today'
  BY <1>2, <1>3 DEF MemoryOK, TypeOK
<1> QED
  BY <1>4, <1>5, <1>6 DEF MemoryOK

-----------------------------------------------------------------------------
(* Copies of a reply.                                                       *)

\* The batches that lost their locks before m are finitely many; how their
\* number moves with the set.
LEMMA OvertakenCount ==
  ASSUME NEW A \in SUBSET Workers, NEW B \in SUBSET Workers
  PROVE  /\ Cardinality(A) \in Nat
         /\ B \subseteq A => Cardinality(B) <= Cardinality(A)
         /\ \A w \in A : B \subseteq A \ {w} => Cardinality(B) + 1 <= Cardinality(A)
         /\ \A w \in Workers : B \subseteq A \cup {w} => Cardinality(B) <= Cardinality(A) + 1
<1>1. IsFiniteSet(A) /\ IsFiniteSet(B)
  BY MessagingAssumption, FS_Subset
<1>2. Cardinality(A) \in Nat /\ Cardinality(B) \in Nat
  BY <1>1, FS_CardinalityType
<1>3. B \subseteq A => Cardinality(B) <= Cardinality(A)
  BY <1>1, FS_Subset
<1>4. ASSUME NEW w \in A, B \subseteq A \ {w}
      PROVE  Cardinality(B) + 1 <= Cardinality(A)
  <2>1. IsFiniteSet(A \ {w}) /\ Cardinality(A \ {w}) = Cardinality(A) - 1
    BY <1>1, FS_RemoveElement
  <2>2. Cardinality(B) <= Cardinality(A \ {w})
    BY <1>4, <2>1, FS_Subset
  <2> QED
    BY <1>2, <2>1, <2>2
<1>5. ASSUME NEW w \in Workers, B \subseteq A \cup {w}
      PROVE  Cardinality(B) <= Cardinality(A) + 1
  <2>1. IsFiniteSet(A \cup {w})
        /\ Cardinality(A \cup {w}) = IF w \in A THEN Cardinality(A) ELSE Cardinality(A) + 1
    BY <1>1, FS_AddElement
  <2>2. Cardinality(B) <= Cardinality(A \cup {w})
    BY <1>5, <2>1, FS_Subset
  <2> QED
    BY <1>2, <2>1, <2>2
<1> QED
  BY <1>2, <1>3, <1>4, <1>5

\* A copy that is sent was one that could come, and one that can come anew has
\* its accident.
LEMMA CopiesStep ==
  ASSUME TypeOK, TypeOK', CopiesOK, NEW m \in Messages,
         \/ /\ Overtaken(m)' \subseteq Overtaken(m) /\ reached'[m] = reached[m]
            /\ \/ (MayGo(m)' => MayGo(m)) /\ excuse'[m] >= excuse[m]
               \/ excuse'[m] >= excuse[m] + 1
         \/ /\ \E w \in Workers : Overtaken(m)' \subseteq Overtaken(m) \cup {w}
            /\ MayGo(m)' => MayGo(m)
            /\ reached'[m] = reached[m] /\ excuse'[m] = excuse[m] + 1
         \/ /\ \/ Overtaken(m)' \subseteq Overtaken(m) /\ MayGo(m)
               \/ \E w \in Overtaken(m) : Overtaken(m)' \subseteq Overtaken(m) \ {w}
            /\ \/ reached'[m] = reached[m] /\ excuse'[m] = excuse[m]
               \/ reached'[m] = reached[m] + 1 /\ excuse'[m] = excuse[m] /\ ~MayGo(m)'
               \/ reached'[m] = reached[m] + 1 /\ excuse'[m] = excuse[m] + 1
  PROVE  Copies(m)' <= 1 + excuse'[m]
<1> DEFINE a == Cardinality(Overtaken(m))
           b == Cardinality(Overtaken(m)')
           x == IF MayGo(m) THEN 1 ELSE 0
           y == IF MayGo(m)' THEN 1 ELSE 0
<1>1. Overtaken(m) \in SUBSET Workers /\ Overtaken(m)' \in SUBSET Workers
  BY DEF Overtaken
<1>2. a \in Nat /\ b \in Nat
      /\ (Overtaken(m)' \subseteq Overtaken(m) => b <= a)
      /\ (\A w \in Overtaken(m) : Overtaken(m)' \subseteq Overtaken(m) \ {w} => b + 1 <= a)
      /\ (\A w \in Workers : Overtaken(m)' \subseteq Overtaken(m) \cup {w} => b <= a + 1)
  BY <1>1, OvertakenCount
<1>3. reached[m] \in Nat /\ reached'[m] \in Nat /\ excuse[m] \in Nat /\ excuse'[m] \in Nat
  BY DEF TypeOK
<1>4. reached[m] + a + x <= 1 + excuse[m]
  BY DEF CopiesOK, Copies
<1>5. Copies(m)' = reached'[m] + b + y
  BY DEF Copies
<1>6. x \in {0, 1} /\ y \in {0, 1} /\ (MayGo(m) => x = 1) /\ (~MayGo(m)' => y = 0)
      /\ ((MayGo(m)' => MayGo(m)) => y <= x)
  OBVIOUS
<1> HIDE DEF a, b, x, y
<1>7. CASE /\ Overtaken(m)' \subseteq Overtaken(m) /\ reached'[m] = reached[m]
           /\ \/ (MayGo(m)' => MayGo(m)) /\ excuse'[m] >= excuse[m]
              \/ excuse'[m] >= excuse[m] + 1
  <2>1. b <= a /\ ((y <= x /\ excuse'[m] >= excuse[m]) \/ excuse'[m] >= excuse[m] + 1)
    BY <1>2, <1>6, <1>7
  <2>2. reached'[m] + b + y <= 1 + excuse'[m]
    BY <1>2, <1>3, <1>4, <1>6, <1>7, <2>1
  <2> QED
    BY <1>5, <2>2
<1>8. CASE /\ \E w \in Workers : Overtaken(m)' \subseteq Overtaken(m) \cup {w}
           /\ MayGo(m)' => MayGo(m)
           /\ reached'[m] = reached[m] /\ excuse'[m] = excuse[m] + 1
  <2>1. b <= a + 1 /\ y <= x
    BY <1>2, <1>6, <1>8
  <2>2. reached'[m] + b + y <= 1 + excuse'[m]
    BY <1>2, <1>3, <1>4, <1>6, <1>8, <2>1
  <2> QED
    BY <1>5, <2>2
<1>9. CASE /\ \/ Overtaken(m)' \subseteq Overtaken(m) /\ MayGo(m)
              \/ \E w \in Overtaken(m) : Overtaken(m)' \subseteq Overtaken(m) \ {w}
           /\ \/ reached'[m] = reached[m] /\ excuse'[m] = excuse[m]
              \/ reached'[m] = reached[m] + 1 /\ excuse'[m] = excuse[m] /\ ~MayGo(m)'
              \/ reached'[m] = reached[m] + 1 /\ excuse'[m] = excuse[m] + 1
  <2>1. b + 1 <= a + x
    BY <1>2, <1>6, <1>9
  <2>2. reached'[m] + b + y <= 1 + excuse'[m]
    BY <1>2, <1>3, <1>4, <1>6, <1>9, <2>1
  <2> QED
    BY <1>5, <2>2
<1> QED
  BY <1>7, <1>8, <1>9

\* Only the worker that moves can join or leave the batches that were overtaken.
LEMMA OvertakenMoves ==
  ASSUME NEW w \in Workers, Alone(w), NEW m \in Messages
  PROVE  /\ Overtaken(m)' \subseteq Overtaken(m) \cup {w}
         /\ (w \in Overtaken(m)' => w \in Overtaken(m)) => Overtaken(m)' \subseteq Overtaken(m)
         /\ w \notin Overtaken(m)' => Overtaken(m)' \subseteq Overtaken(m) \ {w}
<1>1. ASSUME NEW v \in Workers, v # w
      PROVE  v \in Overtaken(m)' <=> v \in Overtaken(m)
  BY <1>1 DEF Alone, Overtaken, Batch
<1>2. Overtaken(m)' \subseteq Workers
  BY DEF Overtaken
<1> QED
  BY <1>1, <1>2

\* A reply that could not be sent without an accident still cannot, when the
\* worker that moves does not touch it.
LEMMA MayGoStays ==
  ASSUME NEW w \in Workers, Alone(w), NEW m \in Messages,
         m \in recorded' <=> m \in recorded, outbox'[m] = outbox[m],
         m \in Dirty(w)' <=> m \in Dirty(w),
         m \in Dirty(w) => at'[w].row[m] = at[w].row[m],
         Past(w) /\ Subject(w) = m /\ at[w].row # NoRow =>
           Past(w)' /\ Subject(w)' = m /\ at'[w].row = at[w].row
  PROVE  MayGo(m)' => MayGo(m)
<1>1. ASSUME NEW v \in Workers, v # w
      PROVE  at'[v] = at[v] /\ Dirty(v)' = Dirty(v) /\ Subject(v)' = Subject(v)
             /\ (Past(v)' <=> Past(v))
  BY <1>1 DEF Alone, Dirty, Batch, Subject, Past
<1> HIDE DEF Past, Subject, Dirty
<1>2. CASE m \in recorded
  <2>1. MayGo(m)' <=> \/ \E v \in Workers : m \in Dirty(v)' /\ at'[v].row[m].status = "PENDING"
                      \/ outbox'[m].status = "PENDING" /\ \A v \in Workers : m \notin Dirty(v)'
    BY <1>2 DEF MayGo
  <2>2. MayGo(m) <=> \/ \E v \in Workers : m \in Dirty(v) /\ at[v].row[m].status = "PENDING"
                     \/ outbox[m].status = "PENDING" /\ \A v \in Workers : m \notin Dirty(v)
    BY <1>2 DEF MayGo
  <2>3. ASSUME NEW v \in Workers
        PROVE  (m \in Dirty(v)' <=> m \in Dirty(v)) /\ (m \in Dirty(v) => at'[v].row[m] = at[v].row[m])
    BY <1>1
  <2> QED
    BY <2>1, <2>2, <2>3
<1>3. CASE m \notin recorded
  <2>1. MayGo(m)' <=> \A v \in Workers : Past(v)' /\ Subject(v)' = m /\ at'[v].row # NoRow
                                           => at'[v].row.status = "PENDING"
    BY <1>3 DEF MayGo
  <2>2. MayGo(m) <=> \A v \in Workers : Past(v) /\ Subject(v) = m /\ at[v].row # NoRow
                                          => at[v].row.status = "PENDING"
    BY <1>3 DEF MayGo
  <2>3. ASSUME NEW v \in Workers, Past(v), Subject(v) = m, at[v].row # NoRow
        PROVE  Past(v)' /\ Subject(v)' = m /\ at'[v].row = at[v].row
    BY <1>1, <2>3
  <2> QED
    BY <2>1, <2>2, <2>3
<1> QED
  BY <1>2, <1>3

\* What a batch has changed it has locked.
LEMMA DirtyLocked ==
  ASSUME TypeOK, NEW w \in Workers
  PROVE  Dirty(w) \subseteq Locks(w)
<1>1. CASE Batch(w)
  BY <1>1, BatchShape DEF Dirty, Locks, Batch
<1>2. CASE ~Batch(w)
  BY <1>2 DEF Dirty
<1> QED
  BY <1>1, <1>2

\* A batch that writes what it has changed leaves each row as it had it.
LEMMA MayGoWritten ==
  ASSUME TypeOK, RowLocksOK, NEW w \in Workers, Alone(w), NEW m \in Messages,
         m \in recorded, m \in recorded', m \in Dirty(w), outbox'[m] = at[w].row[m],
         m \notin Dirty(w)'
  PROVE  MayGo(m)' => MayGo(m)
<1>1. ASSUME NEW v \in Workers, v # w
      PROVE  m \notin Dirty(v)'
  <2>1. m \notin Dirty(v)
    BY <1>1, DirtyLocked DEF RowLocksOK
  <2>2. Dirty(v)' = Dirty(v)
    BY <1>1 DEF Alone, Dirty, Batch
  <2> QED
    BY <2>1, <2>2
<1>2. \A v \in Workers : m \notin Dirty(v)'
  BY <1>1
<1> HIDE DEF Dirty
<1>3. MayGo(m)' => outbox'[m].status = "PENDING"
  BY <1>2 DEF MayGo
<1>4. at[w].row[m].status = "PENDING" => MayGo(m)
  BY DEF MayGo
<1> QED
  BY <1>3, <1>4

\* What is not a batch locks nothing, and what is not a job has no message.
LEMMA HandKinds ==
  ASSUME NEW w \in Workers
  PROVE  /\ at[w].op # "batch" => /\ ~Batch(w) /\ Dirty(w) = {} /\ Locks(w) = {}
                                  /\ \A m \in Messages : w \notin Overtaken(m)
         /\ at[w].op # "job" => ~Past(w) /\ \A m \in Messages : ~InHand(w, m)
         /\ at'[w].op # "batch" => /\ ~Batch(w)' /\ Dirty(w)' = {} /\ Locks(w)' = {}
                                   /\ \A m \in Messages : w \notin Overtaken(m)'
         /\ at'[w].op # "job" => ~Past(w)' /\ \A m \in Messages : ~InHand(w, m)'
         /\ at[w] = Idle => at[w].op # "job" /\ at[w].op # "batch"
         /\ at'[w] = Idle => at'[w].op # "job" /\ at'[w].op # "batch"
BY DEF Batch, Dirty, Locks, Overtaken, Past, InHand, Idle

\* A worker writes and records only what it owns.
WritesOwn(w) ==
  /\ recorded \subseteq recorded'
  /\ \A m \in Messages : outbox'[m] # outbox[m] \/ m \in recorded' \ recorded => Owns(w, m)

\* A worker's job keeps what it had, or reserves what nobody has.
ReservesOwn(w) ==
  Past(w)' => \/ Past(w) /\ Subject(w)' = Subject(w) /\ (at'[w].held => at[w].held)
              \/ /\ Subject(w)' \notin recorded
                 /\ \A v \in Workers \ {w} : Past(v) =>
                      /\ Subject(v) # Subject(w)'
                      /\ ~(at[v].held /\ Shop[Subject(v)] = Shop[Subject(w)'])

\* A worker's batch locks what no other has.
LocksOwn(w) == \A m \in Locks(w)' : m \notin LockedByOthers(w)

\* A worker lets no row SENDING go, unless by accident.
SendsOwn(w) ==
  \A m \in Messages : outbox'[m].status = "SENDING" /\ faults' = 0 =>
    \/ Sends(w, m)'
    \/ outbox[m].status = "SENDING" /\ faults = 0 /\ ~Sends(w, m)

\* A step of one worker keeps the invariant when it keeps to what is its own.
LEMMA WorkerStep ==
  ASSUME IInv, NEW w \in Workers, Alone(w), TypeOK', QueueOK', RecordOK', RowsWait',
         WritesOwn(w), ReservesOwn(w), LocksOwn(w), SendsOwn(w),
         at'[w].op = "job" => JobOK(w)', Batch(w)' => BatchOK(w)', MemoryOK',
         \A m \in Messages : Copies(m)' <= 1 + excuse'[m]
  PROVE  IInv'
<1>1. \A v \in Workers \ {w} : (at[v].op = "job" => JobOK(v)') /\ (Batch(v) => BatchOK(v)')
  <2>1. Past(w)' => (Past(w) /\ Subject(w)' = Subject(w)) \/ Subject(w)' \notin recorded
    BY DEF ReservesOwn
  <2> QED
    BY <2>1, OthersStay DEF IInv, WritesOwn
<1>2. JobsOK' /\ BatchesOK'
  <2>1. \A v \in Workers \ {w} : at'[v] = at[v]
    BY DEF Alone
  <2>2. \A v \in Workers \ {w} : Batch(v)' <=> Batch(v)
    BY <2>1 DEF Batch
  <2> QED
    BY <1>1, <2>1, <2>2 DEF JobsOK, BatchesOK
<1>3. JobLocksOK'
  <2>1. Past(w)' => \/ Past(w) /\ Subject(w)' = Subject(w) /\ (at'[w].held => at[w].held)
                    \/ \A v \in Workers \ {w} : Past(v) =>
                         /\ Subject(v) # Subject(w)'
                         /\ ~(at[v].held /\ Shop[Subject(v)] = Shop[Subject(w)'])
    BY DEF ReservesOwn
  <2> QED
    BY <2>1, JobLocksStay DEF IInv
<1>4. RowLocksOK'
  BY RowLocksStay DEF IInv, LocksOwn
<1>5. SendingOK'
  BY SendingStay DEF IInv, SendsOwn
<1>6. CopiesOK'
  BY DEF CopiesOK
<1> QED
  BY <1>2, <1>3, <1>4, <1>5, <1>6 DEF IInv

\* A step that leaves the table and the records as they are.
LEMMA TableStays ==
  ASSUME IInv, UNCHANGED <<recorded, acted, outbox>>
  PROVE  /\ RecordOK' /\ RowsWait' /\ \A w \in Workers : WritesOwn(w)
         /\ \A w \in Workers : (\A m \in Messages : Sends(w, m)' <=> Sends(w, m)) /\ faults' >= faults
              => SendsOwn(w)
<1>1. RecordOK' /\ RowsWait' /\ \A w \in Workers : WritesOwn(w)
  BY DEF IInv, RecordOK, RowsWait, WritesOwn
<1>2. ASSUME NEW w \in Workers, \A m \in Messages : Sends(w, m)' <=> Sends(w, m), faults' >= faults
      PROVE  SendsOwn(w)
  <2>1. faults' = 0 => faults = 0
    BY <1>2 DEF IInv, TypeOK
  <2> HIDE DEF Sends
  <2> QED
    BY <1>2, <2>1 DEF SendsOwn
<1> QED
  BY <1>1, <1>2

-----------------------------------------------------------------------------
(* The steps.                                                               *)

\* Nothing of the memory, and no hand, moves.
LEMMA MemoryIdle ==
  ASSUME MemoryOK, UNCHANGED <<told, given, forgot, today, at>>,
         \A s \in Shops : \A date \in copied'[s] : date <= today'
  PROVE  MemoryOK'
BY DEF MemoryOK, Past, Subject

\* Meta, the clock, staff and the owner touch no hand and no row.
LEMMA OutsideKeeps ==
  ASSUME IInv, UNCHANGED <<recorded, acted, outbox, at, seen>>, TypeOK', QueueOK', MemoryOK',
         faults' = 0 => faults = 0
  PROVE  IInv'
<1>1. /\ recorded' = recorded /\ acted' = acted /\ outbox' = outbox /\ at' = at
      /\ reached' = reached /\ excuse' = excuse
  BY DEF chat, seen, around
<1>2. RecordOK' /\ RowsWait'
  BY <1>1 DEF IInv, RecordOK, RowsWait
<1>3. JobsOK'
  BY <1>1 DEF IInv, JobsOK, JobOK, Past, Subject
<1>4. JobLocksOK'
  BY <1>1 DEF IInv, JobLocksOK, Past, Subject
<1>6. BatchesOK'
  BY <1>1 DEF IInv, BatchesOK, BatchOK, Batch, Past, Subject
<1>7. RowLocksOK'
  BY <1>1 DEF IInv, RowLocksOK, Locks
<1>8. SendingOK'
  BY <1>1 DEF IInv, SendingOK, InHand, Dirty, Batch
<1>9. CopiesOK'
  BY <1>1 DEF IInv, CopiesOK, Copies, Overtaken, MayGo, Batch, Dirty, Past, Subject
<1> QED
  BY <1>2, <1>3, <1>4, <1>6, <1>7, <1>8, <1>9 DEF IInv

LEMMA WebhookKeeps ==
  ASSUME IInv, NEW S \in SUBSET Messages, NEW dropped \in SUBSET S, Webhook(S, dropped)
  PROVE  IInv'
<1>1. TypeOK /\ QueueOK /\ MaxPosts \in Nat /\ MaxFaults \in Nat /\ MaxTries \in Nat \ {0}
  BY MessagingAssumption DEF IInv
<1>2. posts \in Nat /\ posts' = posts + 1 /\ posts' \in 1 .. MaxPosts
  BY <1>1 DEF Webhook, TypeOK
<1>3. jobs' = [j \in Jobs |-> IF j[1] \in S \ dropped /\ j[2] = posts'
                              THEN [state |-> "queued", tries |-> 0] ELSE jobs[j]]
  BY DEF Webhook
<1>4. jobs' \in [Jobs -> [state : JobStates, tries : 0 .. MaxTries]]
  <2>1. [state |-> "queued", tries |-> 0] \in [state : JobStates, tries : 0 .. MaxTries]
    BY <1>1 DEF JobStates
  <2> QED
    BY <1>1, <1>3, <2>1 DEF TypeOK
<1>5. accepted' = accepted \cup Answered200(S, dropped)
  BY DEF Webhook
<1>6. faults' \in 0 .. MaxFaults /\ (faults' = 0 => faults = 0)
  BY <1>1 DEF Webhook, Fault, TypeOK
<1>7. TypeOK'
  <2>1. accepted' \subseteq Messages
    BY <1>1, <1>5 DEF TypeOK, Answered200
  <2>2. posts' \in 0 .. MaxPosts
    BY <1>2
  <2>3. UNCHANGED <<chat, around, outbox, conn, at, seen>>
    BY DEF Webhook
  <2> QED
    BY <1>1, <1>4, <1>6, <2>1, <2>2, <2>3 DEF TypeOK, chat, seen, around
<1>8. QueueOK'
  <2>1. ASSUME NEW m \in accepted'
        PROVE  \E n \in 1 .. MaxPosts : jobs'[<<m, n>>].state # "none"
    <3>0. m \in Messages
      BY <1>7 DEF TypeOK
    <3>1. CASE m \in accepted
      <4>1. PICK n \in 1 .. MaxPosts : jobs[<<m, n>>].state # "none"
        BY <1>1, <3>1 DEF QueueOK, AcceptedIsQueued
      <4>2. <<m, n>> \in Jobs
        BY <3>0 DEF Jobs
      <4>3. jobs'[<<m, n>>].state # "none"
        BY <1>3, <4>1, <4>2
      <4> QED
        BY <4>3
    <3>2. CASE m \notin accepted
      <4>1. m \in S \ dropped
        BY <1>5, <2>1, <3>2 DEF Answered200
      <4>2. <<m, posts'>> \in Jobs
        BY <1>2, <3>0 DEF Jobs
      <4>3. jobs'[<<m, posts'>>].state # "none"
        BY <1>3, <4>1, <4>2
      <4> QED
        BY <1>2, <4>3
    <3> QED
      BY <3>1, <3>2
  <2>2. ASSUME NEW j \in Jobs, jobs'[j].state = "queued"
        PROVE  jobs'[j].tries < MaxTries
    BY <1>1, <1>3, <2>2 DEF QueueOK
  <2> QED
    BY <2>1, <2>2 DEF QueueOK, AcceptedIsQueued
<1>9. UNCHANGED <<chat, today, outbox, at, seen>>
  BY DEF Webhook, around
<1>10. MemoryOK'
  <2>1. UNCHANGED copied
    BY DEF Webhook, around
  <2> QED
    BY <1>9, <2>1, MemoryIdle DEF IInv, chat, MemoryOK
<1> QED
  BY <1>6, <1>7, <1>8, <1>9, <1>10, OutsideKeeps DEF chat

LEMMA ReconnectKeeps ==
  ASSUME IInv, NEW s \in Shops, Reconnect(s)
  PROVE  IInv'
<1>1. UNCHANGED <<chat, outbox, at, seen>> /\ UNCHANGED <<meta, jobs, around, faults>>
  BY DEF Reconnect
<1>2. conn' \in [Shops -> Senders]
  BY DEF IInv, TypeOK, Reconnect, Senders
<1>3. TypeOK'
  BY <1>1, <1>2 DEF IInv, TypeOK, chat, seen, meta, around
<1>4. QueueOK'
  BY <1>1 DEF IInv, QueueOK, AcceptedIsQueued, meta
<1>5. MemoryOK'
  BY <1>1, MemoryIdle DEF IInv, chat, around, MemoryOK
<1> QED
  BY <1>1, <1>3, <1>4, <1>5, OutsideKeeps DEF chat

\* A new date: what was remembered, or is in hand, is of an earlier one.
LEMMA MidnightKeeps ==
  ASSUME IInv, Midnight
  PROVE  IInv'
<1>1. /\ UNCHANGED <<chat, outbox, at, seen>> /\ UNCHANGED <<meta, jobs, copied, conn, faults>>
      /\ today' = today + 1 /\ today' \in Days /\ today \in Nat
  BY MessagingAssumption DEF Midnight, IInv, TypeOK, Days
<1>2. TypeOK'
  BY <1>1 DEF IInv, TypeOK, chat, seen, meta
<1>3. QueueOK'
  BY <1>1 DEF IInv, QueueOK, AcceptedIsQueued, meta
<1>4. MemoryOK'
  <2>1. /\ UNCHANGED <<told, given, forgot>>
        /\ \A w \in Workers : Past(w)' = Past(w) /\ Subject(w)' = Subject(w)
    BY <1>1 DEF chat, Past, Subject
  <2>2. \A s \in Shops : told[s] \in Nat /\ told[s] <= today
    BY MessagingAssumption DEF IInv, TypeOK, MemoryOK, Dates, Days, Never
  <2>3. ASSUME NEW w \in Workers, Past(w)
        PROVE  at[w].told \in Nat
    BY <2>3, JobShape, MessagingAssumption DEF IInv, Past, JobHands, Dates, Days, Never
  <2>4. \A s \in Shops : told'[s] <= today' /\ \A date \in copied'[s] : date <= today'
    <3>1. \A s \in Shops : \A date \in copied[s] : date \in Nat /\ date <= today
      <4>1. copied \in [Shops -> SUBSET Dates] /\ MemoryOK
        BY DEF IInv, TypeOK
      <4>2. \A date \in Dates : date \in Nat
        BY MessagingAssumption DEF Dates, Days, Never
      <4> QED
        BY <4>1, <4>2 DEF MemoryOK
    <3> QED
      BY <1>1, <2>1, <2>2, <3>1
  <2>5. ASSUME NEW w \in Workers, Past(w)', at'[w].held
        PROVE  LET remembered == IF at'[w].fresh THEN Never ELSE told'[Shop[Subject(w)']]
               IN  /\ at'[w].told <= today'
                   /\ IF at'[w].gives THEN remembered < at'[w].told ELSE at'[w].told = remembered
    <3>1. Past(w) /\ at'[w] = at[w] /\ at[w].told \in Nat
      BY <1>1, <2>1, <2>3, <2>5
    <3> HIDE DEF Past, Subject
    <3> QED
      BY <1>1, <2>1, <2>5, <3>1 DEF IInv, MemoryOK
  <2> QED
    BY <2>1, <2>4, <2>5 DEF IInv, MemoryOK
<1> QED
  BY <1>1, <1>2, <1>3, <1>4, OutsideKeeps DEF chat

\* Staff who set a fee read the memory: nothing of it moves.
LEMMA CopyKeeps ==
  ASSUME IInv, NEW s \in Shops, CopyMemory(s)
  PROVE  IInv'
<1>1. /\ UNCHANGED <<chat, outbox, at, seen>> /\ UNCHANGED <<meta, jobs, today, conn>> /\ Fault
      /\ copied' = [copied EXCEPT ![s] = {told[s]}]
  BY DEF CopyMemory
<1>2. faults' \in 0 .. MaxFaults /\ (faults' = 0 => faults = 0)
  BY <1>1, MessagingAssumption DEF Fault, IInv, TypeOK
<1>3. copied' \in [Shops -> SUBSET Dates]
  BY <1>1 DEF IInv, TypeOK
<1>4. TypeOK'
  BY <1>1, <1>2, <1>3 DEF IInv, TypeOK, chat, seen, meta
<1>5. QueueOK'
  BY <1>1 DEF IInv, QueueOK, AcceptedIsQueued, meta
<1>6. MemoryOK'
  <2>1. \A x \in Shops : \A date \in copied'[x] : date <= today'
    BY <1>1 DEF IInv, TypeOK, MemoryOK
  <2> QED
    BY <1>1, <2>1, MemoryIdle DEF IInv, chat
<1> QED
  BY <1>1, <1>2, <1>4, <1>5, <1>6, OutsideKeeps DEF chat

\* What they put back is an earlier memory, while no job has the conversation.
LEMMA PutBackKeeps ==
  ASSUME IInv, NEW s \in Shops, NEW date \in Dates, PutBack(s, date)
  PROVE  IInv'
<1>1. /\ UNCHANGED <<recorded, acted, given, outbox, at, seen>>
      /\ UNCHANGED <<meta, jobs, today, conn, faults>>
      /\ copied' = [copied EXCEPT ![s] = {}] /\ told' = [told EXCEPT ![s] = date]
      /\ forgot' = [forgot EXCEPT ![s] = IF date = told[s] THEN forgot[s] ELSE forgot[s] + 1]
      /\ date \in copied[s]
  BY DEF PutBack
<1>2. /\ told' \in [Shops -> Dates] /\ copied' \in [Shops -> SUBSET Dates]
      /\ forgot' \in [Shops -> Nat]
  BY <1>1 DEF IInv, TypeOK
<1>3. TypeOK'
  BY <1>1, <1>2 DEF IInv, TypeOK, seen, meta
<1>4. QueueOK'
  BY <1>1 DEF IInv, QueueOK, AcceptedIsQueued, meta
<1>5. MemoryOK'
  <2>1. ASSUME NEW x \in Shops, NEW d \in Days
        PROVE  given'[<<x, d>>] <= 1 + forgot'[x]
               /\ (told'[x] < d => given'[<<x, d>>] <= forgot'[x])
    <3>1. given[<<x, d>>] \in Nat /\ forgot[x] \in Nat
      BY DEF IInv, TypeOK
    <3>2. given[<<x, d>>] <= 1 + forgot[x] /\ (told[x] < d => given[<<x, d>>] <= forgot[x])
      BY DEF IInv, MemoryOK
    <3>3. /\ told'[x] = IF x = s THEN date ELSE told[x]
          /\ forgot'[x] = IF x # s \/ date = told[x] THEN forgot[x] ELSE forgot[x] + 1
      BY <1>1 DEF IInv, TypeOK
    <3> QED
      BY <1>1, <3>1, <3>2, <3>3
  <2>2. ASSUME NEW x \in Shops
        PROVE  told'[x] <= today' /\ \A d \in copied'[x] : d <= today'
    BY <1>1 DEF IInv, TypeOK, MemoryOK
  <2>3. ASSUME NEW w \in Workers, Past(w)', at'[w].held
        PROVE  LET remembered == IF at'[w].fresh THEN Never ELSE told'[Shop[Subject(w)']]
               IN  /\ at'[w].told <= today'
                   /\ IF at'[w].gives THEN remembered < at'[w].told ELSE at'[w].told = remembered
    <3>1. Past(w) /\ at'[w] = at[w] /\ Subject(w)' = Subject(w) /\ at[w].held
      BY <1>1, <2>3 DEF Past, Subject
    <3>2. Shop[Subject(w)] # s
      BY <3>1 DEF PutBack, Past
    <3>3. Shop[Subject(w)] \in Shops
      BY <3>1, JobShape, MessagingAssumption DEF IInv, Past
    <3> HIDE DEF Past, Subject
    <3>4. told'[Shop[Subject(w)]] = told[Shop[Subject(w)]]
      BY <1>1, <3>2, <3>3 DEF IInv, TypeOK
    <3> QED
      BY <1>1, <3>1, <3>4 DEF IInv, MemoryOK
  <2> QED
    BY <2>1, <2>2, <2>3 DEF MemoryOK
<1> QED
  BY <1>1, <1>3, <1>4, <1>5, OutsideKeeps

\* The copies of the messages a step does not touch.
LEMMA CopiesStay ==
  ASSUME IInv, TypeOK', NEW w \in Workers, Alone(w), NEW m \in Messages,
         m \in recorded' <=> m \in recorded, outbox'[m] = outbox[m],
         w \in Overtaken(m)' => w \in Overtaken(m),
         m \in Dirty(w)' <=> m \in Dirty(w),
         m \in Dirty(w) => at'[w].row[m] = at[w].row[m],
         Past(w) /\ Subject(w) = m /\ at[w].row # NoRow =>
           Past(w)' /\ Subject(w)' = m /\ at'[w].row = at[w].row,
         reached'[m] = reached[m], excuse'[m] >= excuse[m]
  PROVE  Copies(m)' <= 1 + excuse'[m]
<1>1. Overtaken(m)' \subseteq Overtaken(m)
  BY OvertakenMoves
<1>2. MayGo(m)' => MayGo(m)
  BY MayGoStays
<1> QED
  BY <1>1, <1>2, CopiesStep DEF IInv

LEMMA StartKeeps ==
  ASSUME IInv, NEW w \in Workers, NEW j \in Jobs, StartJob(w, j)
  PROVE  IInv'
<1>1. PICK h \in JobHands : /\ Moves(w, h) /\ h.job = j /\ h.step = "arrived"
                            /\ h.row = NoRow /\ h.held = TRUE
  BY StartMoves DEF IInv
<1>2. at'[w] = h /\ Alone(w) /\ at' \in [Workers -> Hands]
  BY <1>1, MovesOne, HandsSplit DEF IInv, Alone
<1>3. h.op = "job" /\ at[w] = Idle
  BY <1>1 DEF JobHands, StartJob
<1>4. UNCHANGED <<meta, chat, around, outbox, conn, seen, faults>>
  BY DEF StartJob
<1>5. jobs[j].tries < MaxTries /\ jobs[j] \in [state : JobStates, tries : 0 .. MaxTries]
  BY DEF IInv, QueueOK, StartJob, TypeOK
<1>6. jobs' = [jobs EXCEPT ![j] = [state |-> "running", tries |-> jobs[j].tries + 1]]
  BY DEF StartJob
<1>7. jobs' \in [Jobs -> [state : JobStates, tries : 0 .. MaxTries]]
  <2>1. [state |-> "running", tries |-> jobs[j].tries + 1] \in [state : JobStates, tries : 0 .. MaxTries]
    BY <1>5, MessagingAssumption DEF JobStates
  <2> QED
    BY <1>6, <2>1 DEF IInv, TypeOK
<1>8. TypeOK'
  BY <1>2, <1>4, <1>7 DEF IInv, TypeOK, meta, chat, seen, around
<1>9. QueueOK'
  <2>1. accepted' = accepted
    BY <1>4 DEF meta
  <2>2. ASSUME NEW i \in Jobs
        PROVE  jobs'[i].state = IF i = j THEN "running" ELSE jobs[i].state
    BY <1>6 DEF IInv, TypeOK
  <2>3. ASSUME NEW i \in Jobs, jobs'[i].state = "queued"
        PROVE  jobs'[i].tries < MaxTries
    BY <1>6, <2>2, <2>3 DEF IInv, TypeOK, QueueOK
  <2>4. AcceptedIsQueued'
    <3>1. \A m \in accepted : m \in Messages
      BY DEF IInv, TypeOK
    <3> QED
      BY <2>1, <2>2, <3>1 DEF IInv, QueueOK, AcceptedIsQueued, Jobs
  <2> QED
    BY <2>3, <2>4 DEF QueueOK
<1>10. UNCHANGED <<recorded, acted, outbox, told, given, forgot, today, copied, reached, excuse, faults>>
  BY <1>4 DEF chat, seen, around
<1>11. ~Past(w)' /\ ~Past(w) /\ ~Batch(w)' /\ Locks(w)' = {} /\ Dirty(w)' = {} /\ Dirty(w) = {}
       /\ \A m \in Messages : w \notin Overtaken(m)' /\ ~Sends(w, m)' /\ ~Sends(w, m)
  <2>1. /\ ~Batch(w)' /\ Dirty(w)' = {} /\ Locks(w)' = {} /\ \A m \in Messages : w \notin Overtaken(m)'
        /\ Dirty(w) = {} /\ ~Past(w) /\ \A m \in Messages : ~InHand(w, m)
    BY <1>2, <1>3, HandKinds
  <2>2. ~Past(w)'
    BY <1>1, <1>2 DEF Past
  <2> QED
    BY <1>1, <1>2, <2>1, <2>2 DEF Sends
<1>12. RecordOK' /\ RowsWait' /\ WritesOwn(w) /\ SendsOwn(w)
  <2>1. (\A m \in Messages : Sends(w, m)' <=> Sends(w, m)) /\ faults' >= faults
    BY <1>10, <1>11 DEF IInv, TypeOK
  <2> QED
    BY <1>10, <2>1, TableStays
<1>13. JobOK(w)'
  BY <1>1, <1>2, <1>11 DEF JobOK, Past, NoRow, Row, Waits
<1>14. MemoryOK'
  BY <1>2, <1>10, <1>11, MemoryStays DEF IInv
<1>15. ASSUME NEW m \in Messages
       PROVE  Copies(m)' <= 1 + excuse'[m]
  <2>1. excuse'[m] >= excuse[m] /\ reached'[m] = reached[m]
    BY <1>10, <1>8 DEF TypeOK
  <2> QED
    BY <1>2, <1>8, <1>10, <1>11, <2>1, CopiesStay
<1>16. ReservesOwn(w) /\ LocksOwn(w)
  BY <1>11 DEF ReservesOwn, LocksOwn
<1> QED
  BY <1>2, <1>8, <1>9, <1>11, <1>12, <1>13, <1>14, <1>15, <1>16, WorkerStep

\* A job ends and nothing of it is kept: what it sent has its accident.
LEMMA JobEnds ==
  ASSUME IInv, NEW w \in Workers, at[w].op = "job", Moves(w, Idle),
         UNCHANGED <<chat, around, outbox, reached>>, TypeOK', QueueOK',
         \/ at[w].step = "arrived" /\ excuse' = excuse /\ faults' = faults
         \/ Undone(w) /\ faults' = faults + 1
  PROVE  IInv'
<1>1. at'[w] = Idle /\ Alone(w)
  BY MovesOne DEF IInv, Alone
<1>2. /\ ~Batch(w)' /\ Dirty(w)' = {} /\ Locks(w)' = {} /\ ~Past(w)' /\ at'[w].op # "job"
      /\ Dirty(w) = {} /\ \A m \in Messages : w \notin Overtaken(m)'
  <2>1. at[w].op # "batch" /\ at'[w].op # "job" /\ at'[w].op # "batch"
    BY <1>1, HandKinds
  <2> QED
    BY <2>1, HandKinds
<1>3. JobOK(w) /\ Subject(w) \in Messages /\ faults \in Nat
      /\ excuse \in [Messages -> Nat] /\ excuse' \in [Messages -> Nat] /\ MaxFaults \in Nat
  BY JobShape, MessagingAssumption DEF IInv, JobsOK, TypeOK
<1>4. UNCHANGED <<recorded, acted, outbox, told, given, forgot, today, copied, reached>>
  BY DEF chat, around
<1>5. RecordOK' /\ RowsWait' /\ WritesOwn(w)
  BY <1>4, TableStays
<1>6. SendsOwn(w)
  <2> SUFFICES ASSUME NEW m \in Messages, outbox'[m].status = "SENDING", faults' = 0
               PROVE  outbox[m].status = "SENDING" /\ faults = 0 /\ ~Sends(w, m)
    BY DEF SendsOwn
  <2>1. at[w].step = "arrived" /\ faults = 0
    BY <1>3
  <2>2. at[w].held
    BY <1>3, <2>1 DEF JobOK
  <2> QED
    BY <1>2, <1>4, <2>1, <2>2 DEF Sends
<1>7. ASSUME NEW m \in Messages
      PROVE  Copies(m)' <= 1 + excuse'[m]
  <2>1. excuse'[m] >= excuse[m]
    BY <1>3 DEF Undone
  <2>2. CASE Past(w) /\ Subject(w) = m /\ at[w].row # NoRow
    <3>1. Undone(w)
      BY <2>2 DEF Past
    <3>2. excuse'[m] = excuse[m] + 1
      BY <1>3, <2>2, <3>1 DEF Undone
    <3>3. Overtaken(m)' \subseteq Overtaken(m) /\ excuse'[m] >= excuse[m] + 1
      BY <1>1, <1>2, <1>3, <3>2, OvertakenMoves
    <3> QED
      BY <1>4, <3>3, CopiesStep DEF IInv
  <2>3. CASE ~(Past(w) /\ Subject(w) = m /\ at[w].row # NoRow)
    BY <1>1, <1>2, <1>4, <2>1, <2>3, CopiesStay
  <2> QED
    BY <2>2, <2>3
<1>8. MemoryOK'
  BY <1>1, <1>2, <1>4, MemoryStays DEF IInv
<1>9. ReservesOwn(w) /\ LocksOwn(w)
  BY <1>2 DEF ReservesOwn, LocksOwn
<1> QED
  BY <1>1, <1>2, <1>5, <1>6, <1>7, <1>8, <1>9, WorkerStep

\* A job that ends leaves a queue as it was but for itself.
LEMMA QueueStays ==
  ASSUME IInv, NEW j \in Jobs, UNCHANGED accepted,
         NEW state \in JobStates \ {"none"}, NEW tries \in 0 .. MaxTries,
         state = "queued" => tries < MaxTries,
         jobs' = [jobs EXCEPT ![j] = [state |-> state, tries |-> tries]]
  PROVE  QueueOK' /\ jobs' \in [Jobs -> [state : JobStates, tries : 0 .. MaxTries]]
<1>1. [state |-> state, tries |-> tries] \in [state : JobStates, tries : 0 .. MaxTries]
  OBVIOUS
<1>2. jobs' \in [Jobs -> [state : JobStates, tries : 0 .. MaxTries]]
  BY <1>1 DEF IInv, TypeOK
<1>3. ASSUME NEW i \in Jobs
      PROVE  jobs'[i] = IF i = j THEN [state |-> state, tries |-> tries] ELSE jobs[i]
  BY DEF IInv, TypeOK
<1>4. AcceptedIsQueued'
  <2>1. \A m \in accepted : m \in Messages
    BY DEF IInv, TypeOK
  <2> QED
    BY <1>3, <2>1 DEF IInv, QueueOK, AcceptedIsQueued, Jobs
<1>5. \A i \in Jobs : jobs'[i].state = "queued" => jobs'[i].tries < MaxTries
  BY <1>3 DEF IInv, QueueOK
<1> QED
  BY <1>2, <1>4, <1>5 DEF QueueOK

\* The queue when a job is done.
LEMMA FinishQueue ==
  ASSUME IInv, NEW w \in Workers, at[w].op = "job", UNCHANGED accepted, FinishJob(w)
  PROVE  QueueOK' /\ jobs' \in [Jobs -> [state : JobStates, tries : 0 .. MaxTries]]
<1> DEFINE j == at[w].job
<1>1. j \in Jobs
  BY JobShape DEF IInv
<1>2. jobs[j] \in [state : JobStates, tries : 0 .. MaxTries]
  BY <1>1 DEF IInv, TypeOK
<1>3. jobs' = [jobs EXCEPT ![j].state = "done"]
  BY DEF FinishJob
<1> HIDE DEF j
<1>4. [jobs[j] EXCEPT !.state = "done"] = [state |-> "done", tries |-> jobs[j].tries]
  BY <1>2
<1>5. jobs' = [jobs EXCEPT ![j] = [state |-> "done", tries |-> jobs[j].tries]]
  BY <1>3, <1>4, Zenon
<1>6. "done" \in JobStates \ {"none"} /\ jobs[j].tries \in 0 .. MaxTries
  BY <1>2 DEF JobStates
<1> QED
  BY <1>1, <1>5, <1>6, QueueStays

\* An accident is counted, and so is what it undoes.
LEMMA FaultTypes ==
  ASSUME IInv, Fault
  PROVE  faults' \in 0 .. MaxFaults /\ faults' = faults + 1
<1>1. faults \in 0 .. MaxFaults /\ MaxFaults \in Nat
  BY MessagingAssumption DEF IInv, TypeOK
<1> QED
  BY <1>1 DEF Fault

LEMMA UndoneType ==
  ASSUME IInv, NEW w \in Workers, at[w].op = "job", Undone(w)
  PROVE  excuse' \in [Messages -> Nat]
<1>1. Subject(w) \in Messages /\ excuse \in [Messages -> Nat]
  BY JobShape DEF IInv, TypeOK
<1> QED
  BY <1>1 DEF Undone

LEMMA IgnoreKeeps ==
  ASSUME IInv, NEW w \in Workers, Ignore(w)
  PROVE  IInv'
<1>1. /\ at[w].op = "job" /\ at[w].step = "arrived" /\ FinishJob(w) /\ Moves(w, Idle)
      /\ UNCHANGED <<meta, chat, around, outbox, conn, seen, faults>>
  BY DEF Ignore, FinishJob, Moves
<1>2. QueueOK' /\ jobs' \in [Jobs -> [state : JobStates, tries : 0 .. MaxTries]]
  BY <1>1, FinishQueue DEF meta
<1>3. at' \in [Workers -> Hands]
  BY <1>1, MovesOne, HandsSplit DEF IInv
<1>4. TypeOK'
  BY <1>1, <1>2, <1>3 DEF IInv, TypeOK, meta, chat, seen, around
<1>5. UNCHANGED <<chat, around, outbox, reached>> /\ excuse' = excuse /\ faults' = faults
  BY <1>1 DEF seen
<1> QED
  BY <1>1, <1>2, <1>4, <1>5, JobEnds

LEMMA FailKeeps ==
  ASSUME IInv, NEW w \in Workers, FailJob(w)
  PROVE  IInv'
<1>1. /\ at[w].op = "job" /\ Fault /\ Undone(w) /\ FinishJob(w) /\ Moves(w, Idle)
      /\ UNCHANGED <<meta, chat, around, outbox, conn, reached>>
  BY DEF FailJob, FinishJob, Moves
<1>2. QueueOK' /\ jobs' \in [Jobs -> [state : JobStates, tries : 0 .. MaxTries]]
  BY <1>1, FinishQueue DEF meta
<1>3. at' \in [Workers -> Hands]
  BY <1>1, MovesOne, HandsSplit DEF IInv
<1>4. faults' \in 0 .. MaxFaults /\ excuse' \in [Messages -> Nat] /\ faults' = faults + 1
  BY <1>1, FaultTypes, UndoneType
<1>5. TypeOK'
  BY <1>1, <1>2, <1>3, <1>4 DEF IInv, TypeOK, meta, chat, around
<1> QED
  BY <1>1, <1>2, <1>4, <1>5, JobEnds

LEMMA KillKeeps ==
  ASSUME IInv, NEW w \in Workers, KillJob(w)
  PROVE  IInv'
<1> DEFINE j == at[w].job
           n == jobs[j].tries
           s == Requeue(n)
<1>1. /\ at[w].op = "job" /\ Fault /\ Undone(w) /\ Moves(w, Idle)
      /\ jobs' = [jobs EXCEPT ![j] = [state |-> s, tries |-> n]]
      /\ UNCHANGED <<meta, chat, around, outbox, conn, reached>>
  BY DEF KillJob, Moves
<1>2. j \in Jobs /\ n \in 0 .. MaxTries
  BY <1>1, JobShape DEF IInv, TypeOK
<1>3. s \in JobStates \ {"none"} /\ (s = "queued" => n < MaxTries)
  BY DEF Requeue, JobStates
<1>4. accepted' = accepted
  BY <1>1 DEF meta
<1> HIDE DEF j, n, s
<1>5. QueueOK' /\ jobs' \in [Jobs -> [state : JobStates, tries : 0 .. MaxTries]]
  BY <1>1, <1>2, <1>3, <1>4, QueueStays
<1>6. at' \in [Workers -> Hands]
  BY <1>1, MovesOne, HandsSplit DEF IInv
<1>7. faults' \in 0 .. MaxFaults /\ excuse' \in [Messages -> Nat] /\ faults' = faults + 1
  BY <1>1, FaultTypes, UndoneType
<1>8. TypeOK'
  BY <1>1, <1>5, <1>6, <1>7 DEF IInv, TypeOK, meta, chat, around
<1> QED
  BY <1>1, <1>5, <1>7, <1>8, JobEnds

LEMMA HandleKeeps ==
  ASSUME IInv, NEW w \in Workers, NEW quiet \in BOOLEAN, NEW fresh \in BOOLEAN,
         NEW closed \in BOOLEAN, Handle(w, quiet, fresh, closed)
  PROVE  IInv'
<1>1. PICK h \in JobHands :
         /\ Moves(w, h) /\ h.job = at[w].job /\ h.step \in {"replying", "done"}
         /\ h.row = at[w].row /\ h.held = at[w].held /\ h.fresh = fresh
         /\ LET remembered == IF fresh THEN Never ELSE told[Shop[Subject(w)]]
            IN  h.told <= today /\ IF h.gives THEN remembered < h.told ELSE h.told = remembered
  BY HandleMoves DEF IInv
<1>2. at'[w] = h /\ Alone(w) /\ at' \in [Workers -> Hands] /\ Subject(w)' = Subject(w) /\ h.op = "job"
  BY <1>1, MovesOne, HandsSplit DEF IInv, Alone, Subject, JobHands
<1>3. /\ at[w].op = "job" /\ at[w].step = "arrived" /\ Reserves(w) /\ Unlocked(w)
      /\ UNCHANGED <<meta, jobs, chat, around, outbox, conn, seen>>
      /\ IF fresh THEN Fault ELSE UNCHANGED faults
  BY DEF Handle
<1>4. JobOK(w) /\ Subject(w) \in Messages /\ at[w].row = NoRow /\ at[w].held
  BY <1>3, JobShape DEF IInv, JobsOK, JobOK
<1>5. /\ UNCHANGED <<recorded, acted, outbox, told, given, forgot, reached, excuse, accepted, jobs>>
      /\ UNCHANGED <<posts, today, copied, conn>>
  BY <1>3 DEF chat, seen, meta, around
<1>6. faults' \in 0 .. MaxFaults /\ faults' >= faults
  BY <1>3, FaultTypes DEF IInv, TypeOK
<1>7. TypeOK'
  BY <1>2, <1>5, <1>6 DEF IInv, TypeOK
<1>8. QueueOK'
  BY <1>5 DEF IInv, QueueOK, AcceptedIsQueued
<1>9. /\ ~Batch(w)' /\ Locks(w)' = {} /\ Dirty(w)' = {} /\ Dirty(w) = {}
      /\ \A m \in Messages : w \notin Overtaken(m)' /\ (Sends(w, m)' <=> Sends(w, m))
  <2>1. at[w].op # "batch" /\ at'[w].op # "batch"
    BY <1>2, <1>3
  <2>2. /\ ~Batch(w)' /\ Locks(w)' = {} /\ Dirty(w)' = {} /\ Dirty(w) = {}
        /\ \A m \in Messages : w \notin Overtaken(m)'
    BY <2>1, HandKinds
  <2>3. at'[w].held
    BY <1>1, <1>2, <1>4
  <2> QED
    BY <1>4, <2>2, <2>3 DEF Sends
<1>10. RecordOK' /\ RowsWait' /\ WritesOwn(w) /\ SendsOwn(w)
  BY <1>5, <1>6, <1>9, TableStays
<1>11. JobOK(w)'
  <2>1. Subject(w) \notin recorded
    BY <1>3 DEF Reserves
  <2>2. at'[w].row = NoRow /\ at'[w].held /\ Subject(w)' \notin recorded'
    BY <1>1, <1>2, <1>4, <1>5, <2>1
  <2>3. Waits(NoRow) /\ NoRow.status # "SENDING"
    BY DEF Waits, NoRow, Row
  <2> HIDE DEF NoRow
  <2> QED
    BY <2>2, <2>3 DEF JobOK
<1>12. MemoryOK'
  <2>1. Past(w)' /\ at'[w].held =>
           LET remembered == IF at'[w].fresh THEN Never ELSE told[Shop[Subject(w)']]
           IN  at'[w].told <= today' /\ IF at'[w].gives THEN remembered < at'[w].told ELSE at'[w].told = remembered
    BY <1>1, <1>2, <1>5
  <2> QED
    BY <1>2, <1>5, <2>1, MemoryStays DEF IInv
<1>13. ReservesOwn(w)
  <2>1. ASSUME NEW v \in Workers \ {w}, Past(v)
        PROVE  /\ Subject(v) # Subject(w)
               /\ ~(at[v].held /\ Shop[Subject(v)] = Shop[Subject(w)])
    <3>1. at[v].op = "job" /\ at[v].step # "arrived"
      BY <2>1 DEF Past
    <3>2. ~(at[v].held /\ Shop[Subject(v)] = Shop[Subject(w)])
      BY <1>3, <3>1 DEF Unlocked
    <3>3. at[v].held => Subject(v) # Subject(w)
      BY <3>2
    <3>4. ~at[v].held => Subject(v) \in recorded
      BY <3>1 DEF IInv, JobsOK, JobOK
    <3>5. Subject(w) \notin recorded
      BY <1>3 DEF Reserves
    <3> QED
      BY <3>2, <3>3, <3>4, <3>5
  <2>2. Subject(w)' \notin recorded
    BY <1>2, <1>3 DEF Reserves
  <2> QED
    BY <1>2, <2>1, <2>2 DEF ReservesOwn
<1>14. ASSUME NEW m \in Messages
       PROVE  Copies(m)' <= 1 + excuse'[m]
  <2>1. excuse'[m] >= excuse[m] /\ reached'[m] = reached[m]
    BY <1>5, <1>7 DEF TypeOK
  <2> QED
    BY <1>2, <1>4, <1>5, <1>7, <1>9, <2>1, CopiesStay
<1>15. LocksOwn(w)
  BY <1>9 DEF LocksOwn
<1> QED
  BY <1>2, <1>7, <1>8, <1>9, <1>10, <1>11, <1>12, <1>13, <1>14, <1>15, WorkerStep

\* One send is seen in what reached the customer and in its accident only.
LEMMA ObserveOne ==
  ASSUME IInv, NEW m \in Messages, NEW outcome, Observe(m, outcome)
  PROVE  /\ reached' \in [Messages -> Nat] /\ excuse' \in [Messages -> Nat]
         /\ faults' \in 0 .. MaxFaults /\ faults' >= faults
         /\ \/ reached'[m] = reached[m] /\ excuse'[m] = excuse[m]
            \/ reached'[m] = reached[m] + 1 /\ excuse'[m] = excuse[m] /\ outcome = "delivered"
            \/ reached'[m] = reached[m] + 1 /\ excuse'[m] = excuse[m] + 1
         /\ \A x \in Messages \ {m} : reached'[x] = reached[x] /\ excuse'[x] = excuse[x]
<1>1. reached \in [Messages -> Nat] /\ excuse \in [Messages -> Nat] /\ faults \in 0 .. MaxFaults
  BY DEF IInv, TypeOK
<1>2. CASE outcome = "unanswered"
  <2>1. /\ Fault /\ reached' = [reached EXCEPT ![m] = reached[m] + 1]
        /\ excuse' = [excuse EXCEPT ![m] = excuse[m] + 1]
    BY <1>2 DEF Observe, Delivers
  <2>2. faults' \in 0 .. MaxFaults /\ faults' >= faults
    BY <1>1, <2>1, FaultTypes
  <2> QED
    BY <1>1, <2>1, <2>2
<1>3. CASE outcome = "delivered"
  <2>1. reached' = [reached EXCEPT ![m] = reached[m] + 1] /\ UNCHANGED <<faults, excuse>>
    BY <1>3 DEF Observe, Delivers
  <2> QED
    BY <1>1, <1>3, <2>1
<1>4. CASE outcome # "unanswered" /\ outcome # "delivered"
  <2>1. UNCHANGED <<reached, faults, excuse>>
    BY <1>4 DEF Observe, Delivers
  <2> QED
    BY <1>1, <2>1
<1> QED
  BY <1>2, <1>3, <1>4

LEMMA ReplyKeeps ==
  ASSUME IInv, NEW w \in Workers, NEW outcome, Reply(w, outcome)
  PROVE  IInv'
<1>1. PICK h \in JobHands :
         /\ Moves(w, h) /\ h.job = at[w].job /\ h.step = "done" /\ h.row = FirstRow(outcome)
         /\ h.held = at[w].held /\ h.told = at[w].told /\ h.gives = at[w].gives
         /\ h.fresh = at[w].fresh
  BY ReplyMoves DEF IInv
<1>2. at'[w] = h /\ Alone(w) /\ at' \in [Workers -> Hands] /\ Subject(w)' = Subject(w) /\ h.op = "job"
  BY <1>1, MovesOne, HandsSplit DEF IInv, Alone, Subject, JobHands
<1>3. /\ at[w].op = "job" /\ at[w].step = "replying" /\ Observe(Subject(w), outcome)
      /\ UNCHANGED <<meta, jobs, chat, around, outbox, conn>>
  BY DEF Reply
<1>4. JobOK(w) /\ Subject(w) \in Messages /\ at[w].row = NoRow /\ at[w].held /\ Past(w)
      /\ Subject(w) \notin recorded
  BY <1>3, JobShape DEF IInv, JobsOK, JobOK, Past
<1>5. /\ UNCHANGED <<recorded, acted, outbox, told, given, forgot, accepted, jobs>>
      /\ UNCHANGED <<posts, today, copied, conn>>
  BY <1>3 DEF chat, meta, around
<1>6. /\ reached' \in [Messages -> Nat] /\ excuse' \in [Messages -> Nat]
      /\ faults' \in 0 .. MaxFaults /\ faults' >= faults
  BY <1>3, <1>4, ObserveOne
<1>7. TypeOK'
  BY <1>2, <1>5, <1>6 DEF IInv, TypeOK
<1>8. QueueOK'
  BY <1>5 DEF IInv, QueueOK, AcceptedIsQueued
<1>9. /\ ~Batch(w)' /\ Locks(w)' = {} /\ Dirty(w)' = {} /\ Dirty(w) = {} /\ Past(w)' /\ at'[w].held
      /\ \A m \in Messages : w \notin Overtaken(m)' /\ (Sends(w, m)' <=> Sends(w, m))
  <2>1. at[w].op # "batch" /\ at'[w].op # "batch"
    BY <1>2, <1>3
  <2>2. /\ ~Batch(w)' /\ Locks(w)' = {} /\ Dirty(w)' = {} /\ Dirty(w) = {}
        /\ \A m \in Messages : w \notin Overtaken(m)'
    BY <2>1, HandKinds
  <2>3. at'[w].held /\ Past(w)'
    BY <1>1, <1>2, <1>4 DEF Past
  <2> QED
    BY <1>4, <2>2, <2>3 DEF Sends
<1>10. RecordOK' /\ RowsWait' /\ WritesOwn(w) /\ SendsOwn(w)
  BY <1>5, <1>6, <1>9, TableStays
<1>11. 1 \in 1 .. MaxAttempts
  BY MessagingAssumption
<1>12. /\ FirstRow(outcome).status \in {"SENT", "FAILED", "PENDING"} /\ Waits(FirstRow(outcome))
       /\ outcome = "delivered" => FirstRow(outcome).status = "SENT"
  BY <1>11, AfterRow
<1> HIDE DEF FirstRow
<1>13. JobOK(w)'
  BY <1>1, <1>2, <1>4, <1>5, <1>9, <1>12 DEF JobOK
<1>14. MemoryOK'
  <2>1. LET remembered == IF at'[w].fresh THEN Never ELSE told[Shop[Subject(w)']]
        IN  at'[w].told <= today' /\ IF at'[w].gives THEN remembered < at'[w].told ELSE at'[w].told = remembered
    BY <1>1, <1>2, <1>4, <1>5 DEF IInv, MemoryOK
  <2> QED
    BY <1>2, <1>5, <2>1, MemoryStays DEF IInv
<1>15. ReservesOwn(w) /\ LocksOwn(w)
  BY <1>2, <1>4, <1>9 DEF ReservesOwn, LocksOwn
<1>16. ASSUME NEW m \in Messages
       PROVE  Copies(m)' <= 1 + excuse'[m]
  <2>1. CASE m # Subject(w)
    <3>1. excuse'[m] >= excuse[m] /\ reached'[m] = reached[m]
      BY <1>3, <1>4, <1>7, <2>1, ObserveOne DEF TypeOK
    <3> QED
      BY <1>2, <1>4, <1>5, <1>7, <1>9, <2>1, <3>1, CopiesStay
  <2>2. CASE m = Subject(w)
    <3>1. Overtaken(m)' \subseteq Overtaken(m)
      BY <1>2, <1>9, OvertakenMoves
    <3>2. MayGo(m)
      <4>1. \A v \in Workers : Past(v) /\ Subject(v) = m => v = w
        BY <1>4, <2>2 DEF IInv, JobLocksOK
      <4> QED
        BY <1>4, <2>2, <4>1 DEF MayGo
    <3>3. outcome = "delivered" => ~MayGo(m)'
      <4>1. m \notin recorded'
        BY <1>4, <1>5, <2>2
      <4>2. outcome = "delivered" => at'[w].row # NoRow /\ at'[w].row.status # "PENDING"
        BY <1>1, <1>2, <1>12 DEF NoRow, Row
      <4> QED
        BY <1>2, <1>9, <2>2, <4>1, <4>2 DEF MayGo
    <3>4. \/ reached'[m] = reached[m] /\ excuse'[m] = excuse[m]
          \/ reached'[m] = reached[m] + 1 /\ excuse'[m] = excuse[m] /\ outcome = "delivered"
          \/ reached'[m] = reached[m] + 1 /\ excuse'[m] = excuse[m] + 1
      BY <1>3, <1>4, <2>2, ObserveOne
    <3> QED
      BY <1>7, <3>1, <3>2, <3>3, <3>4, CopiesStep DEF IInv
  <2> QED
    BY <2>1, <2>2
<1> QED
  BY <1>2, <1>7, <1>8, <1>9, <1>10, <1>13, <1>14, <1>15, <1>16, WorkerStep

\* A commit records the message and moves the conversation, both for the first time.
LEMMA PublishOne ==
  ASSUME IInv, NEW w \in Workers, Past(w), at[w].held, Publish(w)
  PROVE  /\ recorded' = recorded \cup {Subject(w)} /\ Subject(w) \notin recorded
         /\ recorded' \subseteq Messages /\ acted' \in [Messages -> Nat]
         /\ told' \in [Shops -> Dates] /\ given' \in [Shops \X Days -> Nat]
         /\ forgot' \in [Shops -> Nat]
         /\ \A m \in Messages : acted'[m] = IF m \in recorded' THEN 1 ELSE 0
<1> DEFINE m == Subject(w)
           s == Shop[m]
<1>1. at[w] \in JobHands /\ m \in Messages /\ s \in Shops /\ m \notin recorded
  BY JobShape, MessagingAssumption DEF IInv, Past, JobsOK, JobOK
<1>2. /\ recorded' = recorded \cup {m} /\ acted' = [acted EXCEPT ![m] = acted[m] + 1]
      /\ told' = [told EXCEPT ![s] = at[w].told]
      /\ given' = [p \in DOMAIN given |->
                     IF at[w].gives /\ p = <<s, at[w].told>> THEN given[p] + 1 ELSE given[p]]
      /\ forgot' = [forgot EXCEPT ![s] = IF at[w].fresh THEN forgot[s] + 1 ELSE forgot[s]]
  BY DEF Publish
<1>3. /\ recorded \subseteq Messages /\ acted \in [Messages -> Nat] /\ told \in [Shops -> Dates]
      /\ given \in [Shops \X Days -> Nat] /\ forgot \in [Shops -> Nat]
      /\ at[w].told \in Dates
  BY <1>1 DEF IInv, TypeOK, JobHands
<1> HIDE DEF m, s
<1>4. recorded' \subseteq Messages /\ acted' \in [Messages -> Nat]
  BY <1>1, <1>2, <1>3
<1>5. told' \in [Shops -> Dates] /\ forgot' \in [Shops -> Nat]
  BY <1>1, <1>2, <1>3
<1>6. given' \in [Shops \X Days -> Nat]
  BY <1>2, <1>3
<1>7. \A x \in Messages : acted'[x] = IF x \in recorded' THEN 1 ELSE 0
  BY <1>1, <1>2, <1>3 DEF IInv, RecordOK
<1> QED
  BY <1>1, <1>2, <1>4, <1>5, <1>6, <1>7 DEF m

\* Nobody's batch has changed the row of a message that a job has.
LEMMA JobsRowIsClean ==
  ASSUME IInv, NEW w \in Workers, Past(w)
  PROVE  \A v \in Workers : Subject(w) \notin Dirty(v)
BY BatchShape DEF IInv, BatchesOK, BatchOK, Dirty

LEMMA ReplyRejectedKeeps ==
  ASSUME IInv, NEW w \in Workers, ReplyRejected(w)
  PROVE  IInv'
<1>0. PICK m \in Messages : m = Subject(w)
  BY JobShape DEF IInv, ReplyRejected
<1> USE <1>0
<1>1. PICK h \in JobHands :
         /\ Moves(w, h) /\ h.job = at[w].job /\ h.step = "done" /\ h.row = Row("FAILED", 1)
         /\ h.held = FALSE
  BY ReplyRejectedMoves DEF IInv
<1>2. at'[w] = h /\ Alone(w) /\ at' \in [Workers -> Hands] /\ Subject(w)' = m /\ h.op = "job"
  BY <1>1, MovesOne, HandsSplit DEF IInv, Alone, Subject, JobHands
<1>3. /\ at[w].op = "job" /\ at[w].step = "replying" /\ Publish(w)
      /\ conn' = [conn EXCEPT ![Shop[m]] = "NEEDS_ATTENTION"]
      /\ outbox' = [outbox EXCEPT ![m] = Row("SENDING", 0)]
      /\ UNCHANGED <<meta, jobs, around, seen, faults>>
  BY DEF ReplyRejected
<1>4. JobOK(w) /\ m \in Messages /\ at[w].row = NoRow /\ at[w].held /\ Past(w)
  BY <1>3, JobShape DEF IInv, JobsOK, JobOK, Past
<1>5. /\ recorded' = recorded \cup {m} /\ m \notin recorded
      /\ recorded' \subseteq Messages /\ acted' \in [Messages -> Nat]
      /\ told' \in [Shops -> Dates] /\ given' \in [Shops \X Days -> Nat]
      /\ forgot' \in [Shops -> Nat]
      /\ \A x \in Messages : acted'[x] = IF x \in recorded' THEN 1 ELSE 0
  BY <1>3, <1>4, PublishOne
<1>6. UNCHANGED <<accepted, jobs, posts, today, copied, faults, reached, excuse>>
  BY <1>3 DEF meta, seen, around
<1>7. outbox' \in [Messages -> Rows] /\ outbox'[m] = Row("SENDING", 0)
      /\ \A x \in Messages \ {m} : outbox'[x] = outbox[x]
  BY <1>3, <1>4, RowTypes DEF IInv, TypeOK
<1>8. conn' \in [Shops -> Senders]
  BY <1>3 DEF IInv, TypeOK, Senders
<1>9. TypeOK'
  BY <1>2, <1>5, <1>6, <1>7, <1>8 DEF IInv, TypeOK
<1>10. QueueOK'
  BY <1>6 DEF IInv, QueueOK, AcceptedIsQueued
<1>11. RecordOK' /\ RowsWait'
  <2>1. Waits(Row("SENDING", 0))
    BY DEF Waits, Row
  <2> QED
    BY <1>5, <1>7, <2>1 DEF IInv, RecordOK, RowsWait
<1>12. /\ ~Batch(w)' /\ Locks(w)' = {} /\ Dirty(w)' = {} /\ Dirty(w) = {} /\ Past(w)' /\ ~at'[w].held
       /\ \A x \in Messages : w \notin Overtaken(x)'
  <2>1. at[w].op # "batch" /\ at'[w].op # "batch"
    BY <1>2, <1>3
  <2>2. ~at'[w].held /\ Past(w)'
    BY <1>1, <1>2 DEF Past
  <2> QED
    BY <2>1, <2>2, HandKinds
<1>13. WritesOwn(w) /\ ReservesOwn(w) /\ LocksOwn(w)
  BY <1>2, <1>4, <1>5, <1>7, <1>12 DEF WritesOwn, ReservesOwn, LocksOwn, Owns
<1>14. SendsOwn(w)
  <2>1. Sends(w, m)'
    BY <1>2, <1>12 DEF Sends, InHand, Subject
  <2>2. \A x \in Messages : ~Sends(w, x)
    BY <1>4, <1>12 DEF Sends
  <2> HIDE DEF Sends
  <2> QED
    BY <1>6, <1>7, <2>1, <2>2 DEF SendsOwn
<1>15. JobOK(w)'
  <2>1. at'[w].row = Row("FAILED", 1) /\ at'[w].step = "done" /\ m \in recorded'
        /\ outbox'[m].status = "SENDING"
    BY <1>1, <1>2, <1>5, <1>7 DEF Row
  <2>2. Row("FAILED", 1).status = "FAILED" /\ Waits(Row("FAILED", 1))
    BY DEF Row, Waits
  <2> HIDE DEF Row
  <2> QED
    BY <1>2, <1>12, <2>1, <2>2 DEF JobOK
<1>16. MemoryOK'
  BY <1>2, <1>3, <1>4, <1>6, <1>12, MemoryPublished DEF IInv
<1>17. ASSUME NEW x \in Messages
       PROVE  Copies(x)' <= 1 + excuse'[x]
  <2>0. reached'[x] = reached[x] /\ excuse'[x] >= excuse[x]
    BY <1>6, <1>9 DEF TypeOK
  <2>1. CASE x # m
    BY <1>2, <1>5, <1>7, <1>9, <1>12, <2>0, <2>1, CopiesStay
  <2>2. CASE x = m
    <3>1. \A v \in Workers : m \notin Dirty(v)'
      <4>1. \A v \in Workers \ {w} : Dirty(v)' = Dirty(v)
        BY <1>2 DEF Alone, Dirty, Batch
      <4> QED
        BY <1>4, <1>12, <4>1, JobsRowIsClean
    <3>2. ~MayGo(m)'
      BY <1>5, <1>7, <3>1 DEF MayGo, Row
    <3>3. Overtaken(m)' \subseteq Overtaken(m)
      BY <1>2, <1>4, <1>12, OvertakenMoves
    <3> QED
      BY <1>9, <2>0, <2>2, <3>2, <3>3, CopiesStep DEF IInv
  <2> QED
    BY <2>1, <2>2
<1> QED
  BY <1>2, <1>9, <1>10, <1>11, <1>12, <1>13, <1>14, <1>15, <1>16, <1>17, WorkerStep

LEMMA CommitKeeps ==
  ASSUME IInv, NEW w \in Workers, CommitJob(w)
  PROVE  IInv'
<1>0. PICK m \in Messages : m = Subject(w)
  BY JobShape DEF IInv, CommitJob
<1> USE <1>0
<1>1. /\ at[w].op = "job" /\ at[w].step = "done" /\ FinishJob(w) /\ Moves(w, Idle)
      /\ IF at[w].held THEN Publish(w) ELSE UNCHANGED chat
      /\ outbox' = IF at[w].row = NoRow THEN outbox ELSE [outbox EXCEPT ![m] = at[w].row]
      /\ UNCHANGED <<meta, around, conn, seen, faults>>
  BY DEF CommitJob, FinishJob, Moves
<1>2. at'[w] = Idle /\ Alone(w) /\ at' \in [Workers -> Hands]
  BY <1>1, MovesOne, HandsSplit DEF IInv, Alone
<1>3. JobOK(w) /\ m \in Messages /\ Past(w) /\ at[w].row \in Rows
  BY <1>1, JobShape DEF IInv, JobsOK, Past, JobHands
<1>4. UNCHANGED <<accepted, posts, today, copied, conn, faults, reached, excuse>>
  BY <1>1 DEF meta, seen, around
<1>5. /\ recorded' = recorded \cup {m} /\ recorded' \subseteq Messages /\ acted' \in [Messages -> Nat]
      /\ told' \in [Shops -> Dates] /\ given' \in [Shops \X Days -> Nat]
      /\ forgot' \in [Shops -> Nat]
      /\ \A x \in Messages : acted'[x] = IF x \in recorded' THEN 1 ELSE 0
  <2>1. CASE at[w].held
    BY <1>1, <1>3, <2>1, PublishOne
  <2>2. CASE ~at[w].held
    <3>1. m \in recorded /\ UNCHANGED <<recorded, acted, told, given, forgot>>
      BY <1>1, <1>3, <2>2 DEF JobOK, chat
    <3> QED
      BY <3>1 DEF IInv, TypeOK, RecordOK
  <2> QED
    BY <2>1, <2>2
<1>6. outbox' \in [Messages -> Rows] /\ \A x \in Messages \ {m} : outbox'[x] = outbox[x]
  BY <1>1, <1>3 DEF IInv, TypeOK
<1>7. outbox'[m] = IF at[w].row = NoRow THEN outbox[m] ELSE at[w].row
  BY <1>1, <1>3 DEF IInv, TypeOK
<1>8. outbox'[m].status # "SENDING" /\ Waits(outbox'[m])
      /\ (outbox'[m].status = "PENDING" => at[w].row.status = "PENDING" /\ at[w].held)
  <2>1. CASE at[w].row # NoRow
    <3>1. at[w].row.status # "SENDING" /\ Waits(at[w].row)
          /\ (~at[w].held => at[w].row = Row("FAILED", 1))
      BY <1>3 DEF JobOK
    <3>2. Row("FAILED", 1).status # "PENDING"
      BY DEF Row
    <3> HIDE DEF Row, Waits
    <3> QED
      BY <1>7, <2>1, <3>1, <3>2
  <2>2. CASE at[w].row = NoRow
    <3>1. at[w].held
      BY <1>3, <2>2 DEF JobOK, NoRow, Row
    <3>2. outbox[m] = NoRow
      BY <1>3, <3>1 DEF IInv, RecordOK, JobOK
    <3> QED
      BY <1>7, <2>2, <3>2 DEF NoRow, Row, Waits
  <2> QED
    BY <2>1, <2>2
<1>9. QueueOK' /\ jobs' \in [Jobs -> [state : JobStates, tries : 0 .. MaxTries]]
  BY <1>1, <1>4, FinishQueue
<1>10. TypeOK'
  BY <1>2, <1>4, <1>5, <1>6, <1>9 DEF IInv, TypeOK
<1>11. RecordOK' /\ RowsWait'
  BY <1>5, <1>6, <1>8 DEF IInv, RecordOK, RowsWait
<1>12. /\ ~Batch(w)' /\ Locks(w)' = {} /\ Dirty(w)' = {} /\ Dirty(w) = {} /\ ~Past(w)'
       /\ at'[w].op # "job" /\ \A x \in Messages : w \notin Overtaken(x)'
  <2>1. at[w].op # "batch" /\ at'[w].op # "batch" /\ at'[w].op # "job"
    BY <1>1, <1>2, HandKinds
  <2> QED
    BY <2>1, HandKinds
<1>13. WritesOwn(w) /\ ReservesOwn(w) /\ LocksOwn(w)
  BY <1>3, <1>5, <1>6, <1>12 DEF WritesOwn, ReservesOwn, LocksOwn, Owns
<1>14. SendsOwn(w)
  <2>1. \A x \in Messages \ {m} : ~Sends(w, x)
    BY <1>12 DEF Sends, InHand, Subject
  <2> HIDE DEF Sends
  <2> QED
    BY <1>4, <1>6, <1>8, <2>1 DEF SendsOwn
<1>15. MemoryOK'
  <2>1. CASE at[w].held
    BY <1>1, <1>2, <1>3, <1>4, <1>12, <2>1, MemoryPublished DEF IInv
  <2>2. CASE ~at[w].held
    BY <1>1, <1>2, <1>4, <1>12, <2>2, MemoryStays DEF IInv, chat
  <2> QED
    BY <2>1, <2>2
<1>16. ASSUME NEW x \in Messages
       PROVE  Copies(x)' <= 1 + excuse'[x]
  <2>0. reached'[x] = reached[x] /\ excuse'[x] >= excuse[x]
    BY <1>4, <1>10 DEF TypeOK
  <2>1. CASE x # m
    BY <1>2, <1>5, <1>6, <1>10, <1>12, <2>0, <2>1, CopiesStay
  <2>2. CASE x = m
    <3>1. \A v \in Workers : m \notin Dirty(v)'
      <4>1. \A v \in Workers \ {w} : Dirty(v)' = Dirty(v)
        BY <1>2 DEF Alone, Dirty, Batch
      <4> QED
        BY <1>3, <1>12, <4>1, JobsRowIsClean
    <3>2. MayGo(m)' => outbox'[m].status = "PENDING"
      BY <1>5, <3>1 DEF MayGo
    <3>3. at[w].row.status = "PENDING" /\ at[w].held => MayGo(m)
      <4>1. \A v \in Workers : Past(v) /\ Subject(v) = m => v = w
        BY <1>3 DEF IInv, JobLocksOK
      <4>2. at[w].held => m \notin recorded
        BY <1>3 DEF JobOK
      <4> QED
        BY <4>1, <4>2 DEF MayGo
    <3>4. Overtaken(m)' \subseteq Overtaken(m)
      BY <1>2, <1>3, <1>12, OvertakenMoves
    <3> QED
      BY <1>8, <1>10, <2>0, <2>2, <3>2, <3>3, <3>4, CopiesStep DEF IInv
  <2> QED
    BY <2>1, <2>2
<1> QED
  BY <1>2, <1>9, <1>10, <1>11, <1>12, <1>13, <1>14, <1>15, <1>16, WorkerStep

LEMMA TakesKeeps ==
  ASSUME IInv, NEW w \in Workers, NEW S \in SUBSET Messages, BatchTakes(w, S)
  PROVE  IInv'
<1>1. PICK h \in BatchHands(S) :
         /\ Moves(w, h) /\ h.op = "batch" /\ h.todo = S /\ h.row = [m \in S |-> outbox[m]]
         /\ h.dirty = {} /\ h.held = TRUE
  BY TakeMoves DEF IInv
<1>2. at'[w] = h /\ Alone(w) /\ at' \in [Workers -> Hands]
  BY <1>1, MovesOne, HandsSplit DEF IInv, Alone
<1>3. /\ at[w] = Idle /\ S \subseteq Selectable(w)
      /\ UNCHANGED <<meta, jobs, chat, around, outbox, conn, seen, faults>>
  BY DEF BatchTakes
<1>4. /\ UNCHANGED <<recorded, acted, outbox, told, given, forgot, reached, excuse, accepted, jobs>>
      /\ UNCHANGED <<posts, today, copied, conn, faults>>
  BY <1>3 DEF chat, seen, meta, around
<1>5. TypeOK'
  BY <1>2, <1>4 DEF IInv, TypeOK
<1>6. QueueOK'
  BY <1>4 DEF IInv, QueueOK, AcceptedIsQueued
<1>7. /\ Dirty(w) = {} /\ ~Past(w) /\ ~Past(w)' /\ at'[w].op # "job"
      /\ \A m \in Messages : ~InHand(w, m) /\ ~InHand(w, m)'
  BY <1>1, <1>2, <1>3, HandKinds
<1>8. Dirty(w)' = {} /\ Locks(w)' = S /\ \A m \in Messages : w \notin Overtaken(m)'
  <2>1. DOMAIN h.row = S
    BY <1>1
  <2> QED
    BY <1>1, <1>2, <2>1 DEF Dirty, Batch, Locks, Overtaken
<1>9. \A m \in S : outbox[m].status = "PENDING" /\ outbox[m].attempts < MaxAttempts
                   /\ m \notin LockedByOthers(w)
  BY <1>3 DEF Selectable
<1>10. RecordOK' /\ RowsWait' /\ WritesOwn(w) /\ SendsOwn(w)
  <2>1. (\A m \in Messages : Sends(w, m)' <=> Sends(w, m)) /\ faults' >= faults
    BY <1>4, <1>5, <1>7, <1>8 DEF Sends, TypeOK
  <2> QED
    BY <1>4, <2>1, TableStays
<1>11. BatchOK(w)'
  <2>1. ASSUME NEW m \in S, NEW v \in Workers, Past(v)', Subject(v)' = m
        PROVE  FALSE
    <3>1. v # w
      BY <1>7, <2>1
    <3>2. at'[v] = at[v]
      BY <1>2, <3>1 DEF Alone
    <3>3. Past(v) /\ Subject(v) = m /\ at[v].op = "job"
      BY <2>1, <3>2 DEF Past, Subject
    <3>4. JobOK(v)
      BY <3>3 DEF IInv, JobsOK
    <3>5. m \notin recorded \/ outbox[m].status = "SENDING"
      BY <3>3, <3>4 DEF JobOK
    <3> QED
      BY <1>9, <3>5 DEF IInv, RecordOK, NoRow, Row
  <2>2. \A m \in S : m \in recorded'
    BY <1>4, <1>9 DEF IInv, RecordOK, NoRow, Row
  <2>3. at'[w].todo = S /\ at'[w].dirty = {} /\ DOMAIN at'[w].row = S
        /\ \A m \in S : at'[w].row[m] = outbox[m]
    BY <1>1, <1>2
  <2>4. \A m \in S : outbox[m].status # "SENDING" /\ Waits(outbox[m])
    BY <1>9 DEF Waits
  <2> HIDE DEF Past, Subject, Waits
  <2>5. \A m \in DOMAIN at'[w].row : \A v \in Workers : ~(Past(v)' /\ Subject(v)' = m)
    BY <2>1, <2>3
  <2> QED
    BY <1>4, <1>9, <2>2, <2>3, <2>4, <2>5 DEF BatchOK
<1>12. MemoryOK'
  BY <1>2, <1>4, <1>7, MemoryStays DEF IInv
<1>13. ReservesOwn(w) /\ LocksOwn(w)
  BY <1>7, <1>8, <1>9 DEF ReservesOwn, LocksOwn
<1>14. ASSUME NEW m \in Messages
       PROVE  Copies(m)' <= 1 + excuse'[m]
  <2>1. excuse'[m] >= excuse[m] /\ reached'[m] = reached[m]
    BY <1>4, <1>5 DEF TypeOK
  <2> QED
    BY <1>2, <1>4, <1>5, <1>7, <1>8, <2>1, CopiesStay
<1> QED
  BY <1>2, <1>5, <1>6, <1>7, <1>10, <1>11, <1>12, <1>13, <1>14, WorkerStep

\* What a batch may send nobody else has changed, and while the batch holds its
\* locks the row waits in the table.
LEMMA SendIsOwn ==
  ASSUME IInv, NEW w \in Workers, NEW m \in Messages, CanSend(w, m)
  PROVE  /\ Batch(w) /\ m \in at[w].todo /\ m \in DOMAIN at[w].row /\ m \in recorded
         /\ \A v \in Workers : m \notin Dirty(v)
         /\ at[w].held => MayGo(m)
         /\ ~at[w].held => w \in Overtaken(m)
<1>1. Batch(w) /\ m \in at[w].todo /\ m \in DOMAIN at[w].row /\ m \notin at[w].dirty
  BY SendShape DEF IInv
<1>2. BatchOK(w)
  BY <1>1 DEF IInv, BatchesOK
<1>3. m \in recorded /\ (at[w].held => outbox[m].status = "PENDING")
  BY <1>1, <1>2 DEF BatchOK
<1>4. ASSUME NEW v \in Workers
      PROVE  m \notin Dirty(v)
  <2>1. CASE v = w
    BY <1>1, <2>1 DEF Dirty
  <2>2. CASE v # w
    <3>1. m \notin LockedByOthers(w)
      BY DEF CanSend
    <3> QED
      BY <2>2, <3>1, OtherLocks, DirtyLocked DEF IInv
  <2> QED
    BY <2>1, <2>2
<1>5. at[w].held => MayGo(m)
  BY <1>3, <1>4 DEF MayGo
<1>6. ~at[w].held => w \in Overtaken(m)
  BY <1>1 DEF Overtaken
<1> QED
  BY <1>1, <1>3, <1>4, <1>5, <1>6

\* A batch owns what it has changed.
LEMMA OwnsDirty ==
  ASSUME IInv, NEW w \in Workers, NEW m \in Dirty(w)
  PROVE  Owns(w, m) /\ m \in Messages /\ m \in recorded /\ m \notin LockedByOthers(w)
<1>1. Batch(w) /\ m \in at[w].dirty
  BY DEF Dirty
<1>2. m \in DOMAIN at[w].row /\ m \in Messages
  BY <1>1, BatchShape DEF IInv
<1>3. m \in recorded
  BY <1>1, <1>2 DEF IInv, BatchesOK, BatchOK
<1>4. m \notin LockedByOthers(w)
  <2>1. m \in Locks(w)
    BY DirtyLocked DEF IInv
  <2> QED
    BY <2>1, OtherLocks DEF IInv, RowLocksOK
<1> QED
  BY <1>1, <1>2, <1>3, <1>4 DEF Owns

\* One row of a batch was sent or given up, and the batch goes on.
LEMMA SentKeeps ==
  ASSUME IInv, NEW w \in Workers, NEW m \in Messages, NEW r \in Rows, NEW h,
         CanSend(w, m), SentHand(w, m, r, h), r.status # "SENDING", Waits(r),
         UNCHANGED <<meta, jobs, chat, around, outbox, conn>>,
         reached' \in [Messages -> Nat], excuse' \in [Messages -> Nat],
         faults' \in 0 .. MaxFaults, faults' >= faults,
         \/ reached'[m] = reached[m] /\ excuse'[m] = excuse[m]
         \/ reached'[m] = reached[m] + 1 /\ excuse'[m] = excuse[m] /\ r.status = "SENT"
         \/ reached'[m] = reached[m] + 1 /\ excuse'[m] = excuse[m] + 1,
         \A x \in Messages \ {m} : reached'[x] = reached[x] /\ excuse'[x] = excuse[x]
  PROVE  IInv'
<1>1. /\ Moves(w, h) /\ h \in BatchHands(DOMAIN at[w].row) /\ h.op = "batch"
      /\ h.todo = at[w].todo \ {m} /\ h.dirty = at[w].dirty \cup {m}
      /\ h.row = [at[w].row EXCEPT ![m] = r] /\ h.held = at[w].held
  BY DEF SentHand
<1>2. /\ Batch(w) /\ m \in at[w].todo /\ m \in DOMAIN at[w].row /\ m \in recorded
      /\ \A v \in Workers : m \notin Dirty(v)
      /\ at[w].held => MayGo(m)
      /\ ~at[w].held => w \in Overtaken(m)
  BY SendIsOwn
<1>3. /\ DOMAIN at[w].row \in SUBSET Messages /\ at[w].row \in [DOMAIN at[w].row -> Rows]
      /\ at[w].dirty \subseteq DOMAIN at[w].row /\ at[w].todo \subseteq DOMAIN at[w].row
  BY <1>2, BatchShape DEF IInv
<1>4. at'[w] = h /\ Alone(w) /\ at' \in [Workers -> Hands]
  BY <1>1, <1>3, MovesOne, HandsSplit DEF IInv, Alone
<1>5. /\ UNCHANGED <<recorded, acted, outbox, told, given, forgot, accepted, jobs>>
      /\ UNCHANGED <<posts, today, copied, conn>>
  BY DEF chat, meta, around
<1>6. TypeOK'
  BY <1>4, <1>5 DEF IInv, TypeOK
<1>7. QueueOK'
  BY <1>5 DEF IInv, QueueOK, AcceptedIsQueued
<1>8. /\ at'[w].todo = at[w].todo \ {m} /\ at'[w].dirty = at[w].dirty \cup {m}
      /\ DOMAIN at'[w].row = DOMAIN at[w].row /\ at'[w].row[m] = r /\ at'[w].held = at[w].held
      /\ \A x \in DOMAIN at[w].row \ {m} : at'[w].row[x] = at[w].row[x]
  BY <1>1, <1>2, <1>4
<1>9. /\ Batch(w)' /\ at[w].op # "job" /\ at'[w].op # "job" /\ ~Past(w) /\ ~Past(w)'
      /\ \A x \in Messages : ~InHand(w, x) /\ ~InHand(w, x)'
  BY <1>1, <1>2, <1>4 DEF Batch, Past, InHand
<1>10. Dirty(w) = at[w].dirty /\ Dirty(w)' = at[w].dirty \cup {m}
  BY <1>2, <1>8, <1>9 DEF Dirty
<1>11. \A v \in Workers \ {w} : Dirty(v)' = Dirty(v)
  BY <1>4 DEF Alone, Dirty, Batch
<1>12. RecordOK' /\ RowsWait' /\ WritesOwn(w)
  BY <1>5, TableStays
<1>13. SendsOwn(w)
  <2>1. Sends(w, m)' /\ \A x \in Messages \ {m} : Sends(w, x)' <=> Sends(w, x)
    BY <1>9, <1>10 DEF Sends
  <2>2. faults' = 0 => faults = 0
    BY DEF IInv, TypeOK
  <2> HIDE DEF Sends
  <2> QED
    BY <1>5, <2>1, <2>2 DEF SendsOwn
<1>14. BatchOK(w)'
  <2>1. BatchOK(w)
    BY <1>2 DEF IInv, BatchesOK
  <2>2. ASSUME NEW x \in DOMAIN at[w].row, NEW v \in Workers, Past(v)', Subject(v)' = x
        PROVE  FALSE
    <3>1. v # w
      BY <1>9, <2>2
    <3>2. at'[v] = at[v]
      BY <1>4, <3>1 DEF Alone
    <3>3. Past(v) /\ Subject(v) = x
      BY <2>2, <3>2 DEF Past, Subject
    <3> QED
      BY <2>1, <3>3 DEF BatchOK
  <2>3. \A x \in DOMAIN at[w].row : at'[w].row[x].status # "SENDING" /\ Waits(at'[w].row[x])
        /\ x \in recorded
    <3> HIDE DEF Waits
    <3> QED
      BY <1>8, <2>1 DEF BatchOK
  <2>4. \A x \in at[w].todo \ {m} : at'[w].row[x].status = "PENDING"
          /\ (at[w].held => outbox[x].status = "PENDING")
    BY <1>3, <1>8, <2>1 DEF BatchOK
  <2>5. (at[w].todo \ {m}) \cap (at[w].dirty \cup {m}) = {}
        /\ (at[w].held => (at[w].todo \ {m}) \cup (at[w].dirty \cup {m}) = DOMAIN at[w].row)
    BY <1>2, <2>1 DEF BatchOK
  <2> HIDE DEF Past, Subject, Waits
  <2>6. \A x \in DOMAIN at'[w].row : \A v \in Workers : ~(Past(v)' /\ Subject(v)' = x)
    BY <1>8, <2>2
  <2> QED
    BY <1>5, <1>8, <2>3, <2>4, <2>5, <2>6 DEF BatchOK
<1>15. LocksOwn(w)
  <2>1. Locks(w)' \subseteq Locks(w) \cup {m}
    BY <1>2, <1>8, <1>9 DEF Locks, Batch
  <2>2. m \notin LockedByOthers(w)
    BY DEF CanSend
  <2>3. \A x \in Locks(w) : x \notin LockedByOthers(w)
    BY OtherLocks DEF IInv, RowLocksOK
  <2> QED
    BY <2>1, <2>2, <2>3 DEF LocksOwn
<1>16. MemoryOK'
  BY <1>4, <1>5, <1>9, MemoryStays DEF IInv
<1>17. ASSUME NEW x \in Messages
       PROVE  Copies(x)' <= 1 + excuse'[x]
  <2>1. CASE x # m
    <3>1. excuse'[x] >= excuse[x] /\ reached'[x] = reached[x]
      BY <1>6, <2>1 DEF TypeOK
    <3>2. w \in Overtaken(x)' => w \in Overtaken(x)
      BY <1>2, <1>8, <1>9, <2>1 DEF Overtaken
    <3>3. (x \in Dirty(w)' <=> x \in Dirty(w)) /\ (x \in Dirty(w) => at'[w].row[x] = at[w].row[x])
      BY <1>3, <1>8, <1>10, <2>1
    <3> QED
      BY <1>4, <1>5, <1>6, <1>9, <3>1, <3>2, <3>3, CopiesStay
  <2>2. CASE x = m
    <3>1. w \notin Overtaken(m)'
      BY <1>8 DEF Overtaken
    <3>2. Overtaken(m)' \subseteq Overtaken(m) \ {w}
      BY <1>4, <3>1, OvertakenMoves
    <3>3. r.status = "SENT" => ~MayGo(m)'
      <4>1. m \in recorded' /\ m \in Dirty(w)' /\ at'[w].row[m] = r
            /\ \A v \in Workers \ {w} : m \notin Dirty(v)'
        BY <1>2, <1>5, <1>8, <1>10, <1>11
      <4> HIDE DEF Dirty
      <4> QED
        BY <4>1 DEF MayGo
    <3> QED
      BY <1>2, <1>6, <2>2, <3>2, <3>3, CopiesStep DEF IInv
  <2> QED
    BY <2>1, <2>2
<1> QED
  BY <1>4, <1>6, <1>7, <1>9, <1>12, <1>13, <1>14, <1>15, <1>16, <1>17, WorkerStep DEF ReservesOwn

LEMMA SendsKeeps ==
  ASSUME IInv, NEW w \in Workers, NEW m \in Messages, NEW outcome, BatchSends(w, m, outcome)
  PROVE  IInv'
<1> DEFINE n == at[w].row[m].attempts + 1
           r == After(outcome, n)
<1>1. PICK h : SentHand(w, m, r, h)
  BY SendMoves DEF IInv
<1>2. CanSend(w, m) /\ Observe(m, outcome) /\ UNCHANGED <<meta, jobs, chat, around, outbox, conn>>
  BY DEF BatchSends
<1>3. n \in 1 .. MaxAttempts
  BY <1>2, SendShape DEF IInv
<1> HIDE DEF n
<1>4. r \in Rows /\ r.status # "SENDING" /\ Waits(r) /\ (outcome = "delivered" => r.status = "SENT")
  BY <1>3, AfterRow
<1>5. /\ reached' \in [Messages -> Nat] /\ excuse' \in [Messages -> Nat]
      /\ faults' \in 0 .. MaxFaults /\ faults' >= faults
      /\ \/ reached'[m] = reached[m] /\ excuse'[m] = excuse[m]
         \/ reached'[m] = reached[m] + 1 /\ excuse'[m] = excuse[m] /\ outcome = "delivered"
         \/ reached'[m] = reached[m] + 1 /\ excuse'[m] = excuse[m] + 1
      /\ \A x \in Messages \ {m} : reached'[x] = reached[x] /\ excuse'[x] = excuse[x]
  BY <1>2, ObserveOne
<1> HIDE DEF r
<1> QED
  BY <1>1, <1>2, <1>4, <1>5, SentKeeps

LEMMA GivesUpKeeps ==
  ASSUME IInv, NEW w \in Workers, NEW m \in Messages, BatchGivesUp(w, m)
  PROVE  IInv'
<1> DEFINE r == Row("FAILED", at[w].row[m].attempts)
<1>1. PICK h : SentHand(w, m, r, h)
  BY GiveUpMoves DEF IInv
<1>2. CanSend(w, m) /\ UNCHANGED <<meta, jobs, chat, around, outbox, conn, seen, faults>>
  BY DEF BatchGivesUp
<1>3. r \in Rows /\ r.status # "SENDING" /\ Waits(r)
  <2>1. at[w].row[m].attempts \in 0 .. MaxAttempts
    BY <1>2, SendShape DEF IInv
  <2> QED
    BY <2>1, RowTypes DEF Row, Waits
<1>4. /\ reached' = reached /\ excuse' = excuse /\ faults' = faults
      /\ reached \in [Messages -> Nat] /\ excuse \in [Messages -> Nat] /\ faults \in 0 .. MaxFaults
  BY <1>2 DEF seen, IInv, TypeOK
<1> HIDE DEF r
<1> QED
  BY <1>1, <1>2, <1>3, <1>4, SentKeeps

\* What a batch's commit writes: the rows it has changed, as it has them.
LEMMA WriteRows ==
  ASSUME IInv, NEW w \in Workers, Batch(w)
  PROVE  LET out == Write(w, at[w].row)
         IN  /\ out \in [Messages -> Rows]
             /\ \A x \in Messages : x \notin Dirty(w) => out[x] = outbox[x]
             /\ \A x \in Dirty(w) : out[x] = at[w].row[x] /\ out[x].status # "SENDING" /\ Waits(out[x])
<1> DEFINE out == Write(w, at[w].row)
<1>1. /\ at[w].row \in [DOMAIN at[w].row -> Rows] /\ at[w].dirty \subseteq DOMAIN at[w].row
      /\ DOMAIN at[w].row \subseteq Messages /\ outbox \in [Messages -> Rows] /\ Dirty(w) = at[w].dirty
  BY BatchShape DEF IInv, TypeOK, Dirty
<1>2. out = [x \in Messages |-> IF x \in at[w].dirty THEN at[w].row[x] ELSE outbox[x]]
  BY DEF Write
<1>3. \A x \in at[w].dirty : at[w].row[x].status # "SENDING" /\ Waits(at[w].row[x])
  BY <1>1 DEF IInv, BatchesOK, BatchOK
<1> HIDE DEF out, Waits
<1>4. out \in [Messages -> Rows]
  BY <1>1, <1>2
<1>5. \A x \in Messages : out[x] = IF x \in at[w].dirty THEN at[w].row[x] ELSE outbox[x]
  BY <1>2
<1> QED
  BY <1>1, <1>3, <1>4, <1>5 DEF out

LEMMA RejectedKeeps ==
  ASSUME IInv, NEW w \in Workers, NEW m \in Messages, BatchRejected(w, m)
  PROVE  IInv'
<1> DEFINE n == at[w].row[m].attempts + 1
           r == Row("FAILED", n)
           out == Write(w, at[w].row)
<1>1. PICK h \in BatchHands(DOMAIN at[w].row) :
         /\ Moves(w, h) /\ h.op = "batch" /\ h.todo = at[w].todo \ {m} /\ h.dirty = {m}
         /\ h.row = [at[w].row EXCEPT ![m] = r] /\ h.held = FALSE
  BY BatchRejectedMoves DEF IInv
<1>2. /\ CanSend(w, m) /\ conn' = [conn EXCEPT ![Shop[m]] = "NEEDS_ATTENTION"]
      /\ outbox' = [out EXCEPT ![m] = Row("SENDING", n)]
      /\ excuse' = [x \in Messages |-> IF x \in at[w].todo \ {m} THEN excuse[x] + 1 ELSE excuse[x]]
      /\ UNCHANGED <<meta, jobs, chat, around, reached, faults>>
  BY DEF BatchRejected
<1>3. /\ Batch(w) /\ m \in at[w].todo /\ m \in DOMAIN at[w].row /\ m \in recorded
      /\ \A v \in Workers : m \notin Dirty(v)
  BY <1>2, SendIsOwn
<1>4. /\ DOMAIN at[w].row \in SUBSET Messages /\ at[w].row \in [DOMAIN at[w].row -> Rows]
      /\ at[w].dirty \subseteq DOMAIN at[w].row /\ at[w].todo \subseteq DOMAIN at[w].row
      /\ n \in 1 .. MaxAttempts
  BY <1>2, <1>3, BatchShape, SendShape DEF IInv
<1>5. at'[w] = h /\ Alone(w) /\ at' \in [Workers -> Hands]
  BY <1>1, <1>4, MovesOne, HandsSplit DEF IInv, Alone
<1>6. UNCHANGED <<recorded, acted, told, given, forgot, accepted, jobs, posts, today, copied, reached, faults>>
  BY <1>2 DEF chat, meta, around
<1>7. /\ out \in [Messages -> Rows] /\ \A x \in Messages : x \notin Dirty(w) => out[x] = outbox[x]
      /\ \A x \in Dirty(w) : out[x] = at[w].row[x] /\ out[x].status # "SENDING" /\ Waits(out[x])
  BY <1>3, WriteRows
<1>8. Row("SENDING", n) \in Rows /\ r \in Rows /\ r.status = "FAILED" /\ Waits(r)
      /\ Row("SENDING", n).status = "SENDING" /\ Waits(Row("SENDING", n))
  <2>1. n \in 0 .. MaxAttempts
    BY <1>4
  <2> QED
    BY <2>1, RowTypes DEF Row, Waits
<1> HIDE DEF r, out, n
<1>9. /\ outbox' \in [Messages -> Rows] /\ outbox'[m] = Row("SENDING", n)
      /\ \A x \in Messages \ {m} : x \notin Dirty(w) => outbox'[x] = outbox[x]
      /\ \A x \in Dirty(w) : outbox'[x] = at[w].row[x] /\ outbox'[x].status # "SENDING"
                             /\ Waits(outbox'[x])
  <2>1. /\ outbox' \in [Messages -> Rows] /\ outbox'[m] = Row("SENDING", n)
        /\ \A x \in Messages \ {m} : outbox'[x] = out[x]
    BY <1>2, <1>7, <1>8
  <2>2. \A x \in Dirty(w) : x \in Messages \ {m}
    BY <1>3, OwnsDirty
  <2> HIDE DEF Waits
  <2> QED
    BY <1>7, <2>1, <2>2
<1>10. conn' \in [Shops -> Senders] /\ excuse' \in [Messages -> Nat]
  <2>1. conn' \in [Shops -> Senders]
    BY <1>2 DEF IInv, TypeOK, Senders
  <2>2. excuse \in [Messages -> Nat]
    BY DEF IInv, TypeOK
  <2>3. excuse' \in [Messages -> Nat]
    BY <1>2, <2>2
  <2> QED
    BY <2>1, <2>3
<1>11. TypeOK'
  BY <1>5, <1>6, <1>9, <1>10 DEF IInv, TypeOK
<1>12. QueueOK'
  BY <1>6 DEF IInv, QueueOK, AcceptedIsQueued
<1>13. /\ at'[w].todo = at[w].todo \ {m} /\ at'[w].dirty = {m} /\ ~at'[w].held
       /\ DOMAIN at'[w].row = DOMAIN at[w].row /\ at'[w].row[m] = r
       /\ \A x \in DOMAIN at[w].row \ {m} : at'[w].row[x] = at[w].row[x]
  BY <1>1, <1>3, <1>5
<1>14. /\ Batch(w)' /\ at[w].op # "job" /\ at'[w].op # "job" /\ ~Past(w) /\ ~Past(w)'
       /\ \A x \in Messages : ~InHand(w, x) /\ ~InHand(w, x)'
  BY <1>1, <1>3, <1>5 DEF Batch, Past, InHand
<1>15. Dirty(w)' = {m} /\ Locks(w)' = {m} /\ \A v \in Workers \ {w} : Dirty(v)' = Dirty(v)
  BY <1>5, <1>13, <1>14 DEF Alone, Dirty, Batch, Locks
<1>16. \A x \in Messages \ {m} : x \notin recorded => outbox'[x] = outbox[x]
  BY <1>9, OwnsDirty
<1>17. RecordOK' /\ RowsWait'
  <2>1. \A x \in Messages : Waits(outbox'[x])
    BY <1>8, <1>9 DEF IInv, RowsWait
  <2> QED
    BY <1>3, <1>6, <1>16, <2>1 DEF IInv, RecordOK, RowsWait
<1>18. WritesOwn(w)
  <2>1. Owns(w, m)
    BY <1>2, <1>3 DEF Owns, CanSend
  <2> HIDE DEF Owns
  <2> QED
    BY <1>6, <1>9, <2>1, OwnsDirty DEF WritesOwn
<1>19. SendsOwn(w)
  <2>1. Sends(w, m)'
    BY <1>15 DEF Sends
  <2>2. ASSUME NEW x \in Messages \ {m}, outbox'[x].status = "SENDING"
        PROVE  outbox[x].status = "SENDING" /\ ~Sends(w, x)
    <3>1. x \notin Dirty(w)
      BY <1>9, <2>2
    <3> QED
      BY <1>9, <1>14, <2>2, <3>1 DEF Sends
  <2> HIDE DEF Sends
  <2> QED
    BY <1>6, <2>1, <2>2 DEF SendsOwn
<1>20. BatchOK(w)'
  <2>1. BatchOK(w)
    BY <1>3 DEF IInv, BatchesOK
  <2>2. ASSUME NEW x \in DOMAIN at[w].row, NEW v \in Workers, Past(v)', Subject(v)' = x
        PROVE  FALSE
    <3>1. v # w
      BY <1>14, <2>2
    <3>2. at'[v] = at[v]
      BY <1>5, <3>1 DEF Alone
    <3>3. Past(v) /\ Subject(v) = x
      BY <2>2, <3>2 DEF Past, Subject
    <3> QED
      BY <2>1, <3>3 DEF BatchOK
  <2>3. \A x \in DOMAIN at[w].row : at'[w].row[x].status # "SENDING" /\ Waits(at'[w].row[x])
        /\ x \in recorded
    <3> HIDE DEF Waits
    <3> QED
      BY <1>8, <1>13, <2>1 DEF BatchOK
  <2>4. \A x \in at[w].todo \ {m} : at'[w].row[x].status = "PENDING"
    BY <1>4, <1>13, <2>1 DEF BatchOK
  <2> HIDE DEF Past, Subject, Waits
  <2>5. \A x \in DOMAIN at'[w].row : \A v \in Workers : ~(Past(v)' /\ Subject(v)' = x)
    BY <1>13, <2>2
  <2> QED
    BY <1>6, <1>13, <2>3, <2>4, <2>5 DEF BatchOK
<1>21. LocksOwn(w)
  BY <1>2, <1>15 DEF LocksOwn, CanSend
<1>22. MemoryOK'
  BY <1>5, <1>6, <1>14, MemoryStays DEF IInv
<1>23. ASSUME NEW x \in Messages
       PROVE  Copies(x)' <= 1 + excuse'[x]
  <2>0. reached'[x] = reached[x] /\ excuse[x] \in Nat /\ excuse'[x] \in Nat
        /\ excuse'[x] = IF x \in at[w].todo \ {m} THEN excuse[x] + 1 ELSE excuse[x]
    BY <1>2, <1>6, <1>11 DEF IInv, TypeOK
  <2>1. CASE x = m
    <3>1. w \notin Overtaken(m)'
      BY <1>13 DEF Overtaken
    <3>2. Overtaken(m)' \subseteq Overtaken(m)
      BY <1>5, <3>1, OvertakenMoves
    <3>3. ~MayGo(m)'
      <4>1. m \in recorded' /\ m \in Dirty(w)' /\ at'[w].row[m] = r
            /\ \A v \in Workers \ {w} : m \notin Dirty(v)'
        BY <1>3, <1>6, <1>13, <1>15
      <4> HIDE DEF Dirty
      <4> QED
        BY <1>8, <4>1 DEF MayGo
    <3>4. excuse'[x] >= excuse[x]
      BY <2>0
    <3> QED
      BY <1>11, <2>0, <2>1, <3>2, <3>3, <3>4, CopiesStep DEF IInv
  <2>2. CASE x # m /\ x \in at[w].todo
    <3>1. Overtaken(x)' \subseteq Overtaken(x) \cup {w}
      BY <1>5, OvertakenMoves
    <3>2. x \notin Dirty(w) /\ x \notin Dirty(w)' /\ outbox'[x] = outbox[x]
      <4>1. x \notin Dirty(w)
        BY <1>3, <2>2 DEF IInv, BatchesOK, BatchOK, Dirty
      <4> QED
        BY <1>9, <1>15, <2>2, <4>1
    <3>3. MayGo(x)' => MayGo(x)
      BY <1>5, <1>6, <1>14, <3>2, MayGoStays
    <3>4. excuse'[x] = excuse[x] + 1
      BY <2>0, <2>2
    <3> QED
      BY <1>11, <2>0, <3>1, <3>3, <3>4, CopiesStep DEF IInv
  <2>3. CASE x # m /\ x \notin at[w].todo
    <3>1. w \notin Overtaken(x)' /\ x \notin Dirty(w)' /\ excuse'[x] >= excuse[x]
      BY <1>13, <1>15, <2>0, <2>3 DEF Overtaken
    <3>2. CASE x \in Dirty(w)
      <4>1. x \in recorded /\ x \in recorded' /\ outbox'[x] = at[w].row[x]
        BY <1>6, <1>9, <3>2, OwnsDirty
      <4>2. MayGo(x)' => MayGo(x)
        BY <1>5, <3>1, <3>2, <4>1, MayGoWritten DEF IInv
      <4>3. Overtaken(x)' \subseteq Overtaken(x)
        BY <1>5, <3>1, OvertakenMoves
      <4> QED
        BY <1>11, <2>0, <3>1, <4>2, <4>3, CopiesStep DEF IInv
    <3>3. CASE x \notin Dirty(w)
      BY <1>5, <1>6, <1>9, <1>11, <1>14, <2>0, <2>3, <3>1, <3>3, CopiesStay
    <3> QED
      BY <3>2, <3>3
  <2> QED
    BY <2>1, <2>2, <2>3
<1> QED
  BY <1>5, <1>11, <1>12, <1>14, <1>17, <1>18, <1>19, <1>20, <1>21, <1>22, <1>23, WorkerStep
     DEF ReservesOwn

LEMMA BatchCommitsKeeps ==
  ASSUME IInv, NEW w \in Workers, BatchCommits(w)
  PROVE  IInv'
<1>1. /\ Batch(w) /\ at[w].todo = {} /\ outbox' = Write(w, at[w].row) /\ Moves(w, Idle)
      /\ UNCHANGED <<meta, jobs, chat, around, conn, seen, faults>>
  BY DEF BatchCommits, Moves, Batch
<1>2. at'[w] = Idle /\ Alone(w) /\ at' \in [Workers -> Hands]
  BY <1>1, MovesOne, HandsSplit DEF IInv, Alone
<1>3. /\ UNCHANGED <<recorded, acted, told, given, forgot, reached, excuse, accepted, jobs>>
      /\ UNCHANGED <<posts, today, copied, conn, faults>>
  BY <1>1 DEF chat, seen, meta, around
<1>4. /\ outbox' \in [Messages -> Rows] /\ \A x \in Messages : x \notin Dirty(w) => outbox'[x] = outbox[x]
      /\ \A x \in Dirty(w) : /\ outbox'[x] = at[w].row[x] /\ outbox'[x].status # "SENDING"
                             /\ Waits(outbox'[x])
  BY <1>1, WriteRows
<1>5. TypeOK'
  BY <1>2, <1>3, <1>4 DEF IInv, TypeOK
<1>6. QueueOK'
  BY <1>3 DEF IInv, QueueOK, AcceptedIsQueued
<1>7. /\ ~Batch(w)' /\ Dirty(w)' = {} /\ Locks(w)' = {} /\ ~Past(w)' /\ at'[w].op # "job" /\ ~Past(w)
      /\ \A m \in Messages : w \notin Overtaken(m)' /\ ~InHand(w, m)
  <2>1. at[w].op # "job" /\ at'[w].op # "batch" /\ at'[w].op # "job"
    BY <1>1, <1>2, HandKinds DEF Batch
  <2> QED
    BY <2>1, HandKinds
<1>8. RecordOK' /\ RowsWait' /\ WritesOwn(w)
  <2>1. \A x \in Messages : Waits(outbox'[x])
    BY <1>4 DEF IInv, RowsWait
  <2>2. \A x \in Messages : outbox'[x] # outbox[x] => x \in recorded /\ Owns(w, x)
    BY <1>4, OwnsDirty
  <2> HIDE DEF Owns, Waits
  <2> QED
    BY <1>3, <2>1, <2>2 DEF IInv, RecordOK, RowsWait, WritesOwn
<1>9. SendsOwn(w)
  BY <1>3, <1>4, <1>7 DEF SendsOwn, Sends
<1>10. MemoryOK'
  BY <1>2, <1>3, <1>7, MemoryStays DEF IInv
<1>11. ASSUME NEW x \in Messages
       PROVE  Copies(x)' <= 1 + excuse'[x]
  <2>0. reached'[x] = reached[x] /\ excuse'[x] >= excuse[x]
    BY <1>3, <1>5 DEF TypeOK
  <2>1. CASE x \in Dirty(w)
    <3>1. x \in recorded /\ x \in recorded' /\ outbox'[x] = at[w].row[x] /\ x \notin Dirty(w)'
      BY <1>3, <1>4, <1>7, <2>1, OwnsDirty
    <3>2. MayGo(x)' => MayGo(x)
      BY <1>2, <2>1, <3>1, MayGoWritten DEF IInv
    <3>3. Overtaken(x)' \subseteq Overtaken(x)
      BY <1>2, <1>7, OvertakenMoves
    <3> QED
      BY <1>5, <2>0, <3>2, <3>3, CopiesStep DEF IInv
  <2>2. CASE x \notin Dirty(w)
    BY <1>2, <1>3, <1>4, <1>5, <1>7, <2>0, <2>2, CopiesStay
  <2> QED
    BY <2>1, <2>2
<1> QED
  BY <1>2, <1>5, <1>6, <1>7, <1>8, <1>9, <1>10, <1>11, WorkerStep DEF ReservesOwn, LocksOwn

LEMMA BatchAbortsKeeps ==
  ASSUME IInv, NEW w \in Workers, BatchAborts(w)
  PROVE  IInv'
<1>1. /\ Batch(w) /\ Fault /\ Moves(w, Idle)
      /\ excuse' = [m \in Messages |-> IF m \in at[w].dirty THEN excuse[m] + 1 ELSE excuse[m]]
      /\ UNCHANGED <<meta, jobs, chat, around, outbox, conn, reached>>
  BY DEF BatchAborts, Moves, Batch
<1>2. at'[w] = Idle /\ Alone(w) /\ at' \in [Workers -> Hands]
  BY <1>1, MovesOne, HandsSplit DEF IInv, Alone
<1>3. /\ UNCHANGED <<recorded, acted, outbox, told, given, forgot, reached, accepted, jobs>>
      /\ UNCHANGED <<posts, today, copied, conn>>
  BY <1>1 DEF chat, meta, around
<1>4. faults' \in 0 .. MaxFaults /\ faults' = faults + 1 /\ faults \in Nat
  BY <1>1, FaultTypes DEF IInv, TypeOK
<1>5. TypeOK'
  BY <1>1, <1>2, <1>3, <1>4 DEF IInv, TypeOK
<1>6. QueueOK'
  BY <1>3 DEF IInv, QueueOK, AcceptedIsQueued
<1>7. /\ ~Batch(w)' /\ Dirty(w)' = {} /\ Locks(w)' = {} /\ ~Past(w)' /\ at'[w].op # "job" /\ ~Past(w)
      /\ \A m \in Messages : w \notin Overtaken(m)'
  <2>1. at[w].op # "job" /\ at'[w].op # "batch" /\ at'[w].op # "job"
    BY <1>1, <1>2, HandKinds DEF Batch
  <2> QED
    BY <2>1, HandKinds
<1>8. RecordOK' /\ RowsWait' /\ WritesOwn(w)
  BY <1>3, TableStays
<1>9. SendsOwn(w)
  BY <1>4 DEF SendsOwn
<1>10. MemoryOK'
  BY <1>2, <1>3, <1>7, MemoryStays DEF IInv
<1>11. ASSUME NEW x \in Messages
       PROVE  Copies(x)' <= 1 + excuse'[x]
  <2>0. reached'[x] = reached[x] /\ excuse[x] \in Nat
        /\ excuse'[x] = IF x \in Dirty(w) THEN excuse[x] + 1 ELSE excuse[x]
    BY <1>1, <1>3 DEF IInv, TypeOK, Dirty
  <2>1. CASE x \in Dirty(w)
    <3>1. excuse'[x] >= excuse[x] + 1 /\ Overtaken(x)' \subseteq Overtaken(x)
      BY <1>2, <1>7, <2>0, <2>1, OvertakenMoves
    <3> QED
      BY <1>5, <2>0, <3>1, CopiesStep DEF IInv
  <2>2. CASE x \notin Dirty(w)
    <3>1. excuse'[x] >= excuse[x]
      BY <2>0, <2>2
    <3> QED
      BY <1>2, <1>3, <1>5, <1>7, <2>0, <2>2, <3>1, CopiesStay
  <2> QED
    BY <2>1, <2>2
<1> QED
  BY <1>2, <1>5, <1>6, <1>7, <1>8, <1>9, <1>10, <1>11, WorkerStep DEF ReservesOwn, LocksOwn

LEMMA InitInv == Init => IInv
<1> SUFFICES ASSUME Init
             PROVE  IInv
  OBVIOUS
<1>1. MaxTries \in Nat \ {0} /\ MaxFaults \in Nat /\ MaxPosts \in Nat /\ MaxAttempts \in Nat
  BY MessagingAssumption
<1>2. \A w \in Workers : at[w] = Idle
  BY DEF Init
<1>3. \A w \in Workers : /\ ~Past(w) /\ at[w].op # "job" /\ ~Batch(w) /\ Dirty(w) = {} /\ Locks(w) = {}
                         /\ \A m \in Messages : ~InHand(w, m) /\ w \notin Overtaken(m)
  BY <1>2, HandKinds
<1>4. TypeOK
  <2>1. [state |-> "none", tries |-> 0] \in [state : JobStates, tries : 0 .. MaxTries]
    BY <1>1 DEF JobStates
  <2>2. jobs \in [Jobs -> [state : JobStates, tries : 0 .. MaxTries]]
    BY <2>1 DEF Init
  <2>3. at \in [Workers -> Hands] /\ outbox \in [Messages -> Rows]
    BY HandsSplit, RowTypes DEF Init
  <2>4. conn \in [Shops -> Senders]
    BY DEF Init, Senders
  <2>5. today \in Days /\ told \in [Shops -> Dates] /\ copied \in [Shops -> SUBSET Dates]
    BY MessagingAssumption DEF Init, Dates, Days, Never
  <2> HIDE DEF JobStates, Hands, Senders, Rows, Dates, Days
  <2> QED
    BY <1>1, <2>2, <2>3, <2>4, <2>5 DEF Init, TypeOK
<1>5. QueueOK
  BY DEF Init, QueueOK, AcceptedIsQueued
<1>6. RecordOK /\ RowsWait
  BY DEF Init, RecordOK, RowsWait, Waits, NoRow, Row
<1>7. JobsOK /\ JobLocksOK /\ BatchesOK /\ RowLocksOK
  BY <1>3 DEF JobsOK, JobLocksOK, BatchesOK, RowLocksOK
<1>8. MemoryOK
  <2>1. /\ \A s \in Shops, d \in Days : given[<<s, d>>] = 0 /\ forgot[s] = 0
        /\ \A s \in Shops : told[s] = 0 /\ copied[s] = {}
        /\ today = 1
    BY DEF Init, Never
  <2> QED
    BY <1>3, <2>1 DEF MemoryOK
<1>9. SendingOK
  BY DEF Init, SendingOK, NoRow, Row
<1>10. CopiesOK
  <2> SUFFICES ASSUME NEW m \in Messages
               PROVE  Copies(m) <= 1 + excuse[m]
    BY DEF CopiesOK
  <2>1. Overtaken(m) = {}
    BY <1>3 DEF Overtaken
  <2>2. Cardinality(Overtaken(m)) = 0
    BY <2>1, FS_EmptySet
  <2>3. reached[m] = 0 /\ excuse[m] = 0
    BY DEF Init
  <2> QED
    BY <2>2, <2>3 DEF Copies
<1> QED
  BY <1>4, <1>5, <1>6, <1>7, <1>8, <1>9, <1>10 DEF IInv

\* A step of one worker, whatever it has in hand.
LEMMA HandStep ==
  ASSUME IInv, NEW w \in Workers,
         \/ \E j \in Jobs : StartJob(w, j)
         \/ \E S \in SUBSET Messages : BatchTakes(w, S)
         \/ RunJob(w) \/ RunBatch(w)
         \/ FailJob(w) \/ KillJob(w) \/ BatchAborts(w)
  PROVE  IInv'
<1>1. CASE \E j \in Jobs : StartJob(w, j)
  BY <1>1, StartKeeps
<1>2. CASE \E S \in SUBSET Messages : BatchTakes(w, S)
  BY <1>2, TakesKeeps
<1>3. CASE RunJob(w)
  BY <1>3, IgnoreKeeps, ReplyRejectedKeeps, CommitKeeps, HandleKeeps, ReplyKeeps DEF RunJob
<1>4. CASE RunBatch(w)
  BY <1>4, BatchCommitsKeeps, GivesUpKeeps, RejectedKeeps, SendsKeeps DEF RunBatch
<1>5. CASE FailJob(w) \/ KillJob(w) \/ BatchAborts(w)
  BY <1>5, FailKeeps, KillKeeps, BatchAbortsKeeps
<1> QED
  BY <1>1, <1>2, <1>3, <1>4, <1>5

\* Nothing moves.
LEMMA StutterKeeps == IInv /\ UNCHANGED vars => IInv'
<1> SUFFICES ASSUME IInv, UNCHANGED vars
             PROVE  IInv'
  OBVIOUS
<1>1. UNCHANGED <<chat, outbox, at, seen>> /\ UNCHANGED <<meta, jobs, around, conn, faults>>
  BY DEF vars, chat, seen, meta, around
<1>2. TypeOK' /\ QueueOK'
  BY <1>1 DEF IInv, TypeOK, QueueOK, AcceptedIsQueued, chat, seen, meta, around
<1>3. MemoryOK'
  BY <1>1, MemoryIdle DEF IInv, chat, around, MemoryOK
<1> QED
  BY <1>1, <1>2, <1>3, OutsideKeeps DEF chat

LEMMA NextKeeps == IInv /\ [Next]_vars => IInv'
<1> SUFFICES ASSUME IInv, [Next]_vars
             PROVE  IInv'
  OBVIOUS
<1>1. CASE \E S \in SUBSET Messages \ {{}} : \E dropped \in SUBSET S : Webhook(S, dropped)
  BY <1>1, WebhookKeeps
<1>2. CASE \/ Midnight
             \/ \E s \in Shops : CopyMemory(s) \/ Reconnect(s) \/ \E date \in Dates : PutBack(s, date)
  BY <1>2, MidnightKeeps, CopyKeeps, ReconnectKeeps, PutBackKeeps
<1>3. CASE \E w \in Workers :
             \/ \E j \in Jobs : StartJob(w, j)
             \/ \E S \in SUBSET Messages : BatchTakes(w, S)
             \/ RunJob(w) \/ RunBatch(w)
             \/ FailJob(w) \/ KillJob(w) \/ BatchAborts(w)
  BY <1>3, HandStep
<1>4. CASE UNCHANGED vars
  BY <1>4, StutterKeeps
<1> QED
  BY <1>1, <1>2, <1>3, <1>4 DEF Next

-----------------------------------------------------------------------------
(* What the invariant says of the system.                                   *)

\* The inductive invariant holds in every behaviour: jobs and batches of any
\* number of workers, with crashes, lost answers and rejected tokens.
THEOREM MessagingInvariant == Spec => []IInv
BY InitInv, NextKeeps, PTL DEF Spec

\* Every row and every worker's memory of one has its type.
THEOREM TypeCorrect == Spec => []TypeOK
<1>1. IInv => TypeOK
  BY DEF IInv
<1> QED
  BY <1>1, MessagingInvariant, PTL

\* receive_webhook answers 200 only for messages it has queued.
THEOREM AcceptedMessagesAreQueued == Spec => []AcceptedIsQueued
<1>1. IInv => AcceptedIsQueued
  BY DEF IInv, QueueOK
<1> QED
  BY <1>1, MessagingInvariant, PTL

\* The reservation of the message's id: the conversation moves for a message at
\* most once, however often Meta posts it and the queue runs its job.
THEOREM MessagesAreHandledOnce == Spec => []HandledOnce
<1>1. IInv => HandledOnce
  BY DEF IInv, RecordOK, HandledOnce
<1> QED
  BY <1>1, MessagingInvariant, PTL

\* A second copy of a reply has its accident: a lost answer, a transaction
\* undone after its send, or a batch that a rejected token left without locks.
THEOREM EveryCopyIsExplained == Spec => []CopiesExplained
<1>1. IInv => CopiesExplained
  <2> SUFFICES ASSUME IInv, NEW m \in Messages
               PROVE  reached[m] <= 1 + excuse[m]
    BY DEF CopiesExplained
  <2>1. Overtaken(m) \in SUBSET Workers
    BY DEF Overtaken
  <2>2. Cardinality(Overtaken(m)) \in Nat
    BY <2>1, OvertakenCount
  <2>3. reached[m] \in Nat /\ excuse[m] \in Nat
    BY DEF IInv, TypeOK
  <2>4. Copies(m) <= 1 + excuse[m]
    BY DEF IInv, CopiesOK
  <2> QED
    BY <2>2, <2>3, <2>4 DEF Copies
<1> QED
  BY <1>1, MessagingInvariant, PTL

\* Under one UTC date a conversation is given the closed notice once, and once
\* more for each time it lost its memory: to its expiry, or to staff who wrote
\* back what they had read before.
THEOREM CustomersAreToldOncePerDay == Spec => []ToldOncePerDay
<1>1. IInv => ToldOncePerDay
  BY DEF IInv, MemoryOK, ToldOncePerDay
<1> QED
  BY <1>1, MessagingInvariant, PTL

\* Without an accident a reply is sent, given up, waiting with an attempt left
\* or in the hands of who sends it, also after a token's rejection committed it
\* in the middle of its send.
THEOREM NothingIsStuckOfItself == Spec => []StuckOnlyByAccident
<1>1. IInv => StuckOnlyByAccident
  <2> SUFFICES ASSUME IInv, NEW m \in Messages
               PROVE  /\ outbox[m].status = "PENDING" => outbox[m].attempts < MaxAttempts
                      /\ Stranded(m) => faults > 0
    BY DEF StuckOnlyByAccident
  <2>1. outbox[m].status = "PENDING" => outbox[m].attempts < MaxAttempts
    BY DEF IInv, RowsWait, Waits
  <2>2. ASSUME Stranded(m), faults = 0
        PROVE  FALSE
    <3>1. PICK w \in Workers : (InHand(w, m) /\ ~at[w].held) \/ m \in Dirty(w)
      BY <2>2 DEF IInv, SendingOK, Stranded
    <3>2. m \in Dirty(w)
      BY <2>2, <3>1 DEF Stranded
    <3>3. Batch(w) /\ m \in DOMAIN at[w].row
      BY <3>2, BatchShape DEF IInv, Dirty
    <3> QED
      BY <2>2, <3>3 DEF Stranded, Batch
  <2>3. faults \in Nat
    BY DEF IInv, TypeOK
  <2> QED
    BY <2>1, <2>2, <2>3
<1> QED
  BY <1>1, MessagingInvariant, PTL

=============================================================================
