------------------------------ MODULE Messaging ------------------------------
(***************************************************************************)
(* WhatsApp messages of a customer to a shop, and the reply to each.       *)
(*                                                                         *)
(* Meta posts a message to the webhook at least once; the webhook queues a *)
(* job for it.  A worker's job reserves the message's id and locks the     *)
(* conversation in one transaction, decides on a reply, sends it and only  *)
(* then commits.  A reply that could not be sent stays in the outbox,      *)
(* which a batch started every five seconds retries.  Workers run jobs and *)
(* batches at the same time, and any of them may be killed.                *)
(*                                                                         *)
(* A shop sends with the platform's token or through a connection of its   *)
(* own.  When Meta rejects the token of a connection the sender commits    *)
(* that at once, and with it whatever transaction it was called in.        *)
(*                                                                         *)
(* A closed shop says so once: its conversation remembers the UTC date of  *)
(* the notice.  Staff who set a delivery fee write the whole memory of the *)
(* conversation from a copy they read without its lock.                    *)
(***************************************************************************)
EXTENDS Naturals, FiniteSets

CONSTANTS
  Workers,      \* jobs and batches that run at once
  Messages,     \* wa_message_id
  Shops,        \* businesses, each with the one customer who writes
  Shop,         \* message -> its shop
  Connected,    \* shops with a connection of their own
  MaxPosts,     \* bound: deliveries Meta posts
  MaxDays,      \* bound: UTC dates that begin
  MaxTries,     \* WorkerSettings.max_tries
  MaxAttempts,  \* message_outbox.max_attempts
  MaxFaults     \* bound: kills, errors, lost answers, expiries and fees together

ASSUME MessagingAssumption ==
  /\ Shop \in [Messages -> Shops]
  /\ Connected \subseteq Shops
  /\ IsFiniteSet(Workers)
  /\ MaxPosts \in Nat /\ MaxDays \in Nat \ {0} /\ MaxTries \in Nat \ {0} /\ MaxFaults \in Nat
  /\ MaxAttempts \in Nat \ {0, 1}

VARIABLES
  posts,     \* deliveries Meta has posted
  accepted,  \* messages whose post was answered 200
  jobs,      \* <<message, post>> -> the job queued for it
  recorded,  \* messages with a committed inbound row
  acted,     \* message -> commits of what it did to the conversation
  today,     \* the UTC date
  copied,    \* shop -> what staff setting a fee read of its memory, if any do
  told,      \* shop -> the date its conversation remembers of a closed notice
  given,     \* <<shop, date>> -> closed notices given under that date
  forgot,    \* shop -> times its conversation lost what it remembered
  outbox,    \* message -> message_outbox row of its reply
  conn,      \* shop -> whose token sends, and whether Meta takes it
  at,        \* worker -> what it has in hand
  reached,   \* message -> copies of its reply that reached the customer
  excuse,    \* message -> accidents that may repeat its reply
  faults

vars == <<posts, accepted, jobs, recorded, acted, today, copied, told, given, forgot,
          outbox, conn, at, reached, excuse, faults>>

Jobs == Messages \X (1 .. MaxPosts)

Days == 1 .. MaxDays

\* No closed notice is remembered.
Never == 0

Dates == {Never} \cup Days

JobStates == {"none", "queued", "running", "done", "lost"}

Row(status, attempts) == [status |-> status, attempts |-> attempts]

NoRow == Row("NONE", 0)

Rows == [status : {"NONE", "PENDING", "SENDING", "SENT", "FAILED"},
         attempts : 0 .. MaxAttempts]

Senders == {"PLATFORM", "CONNECTED", "NEEDS_ATTENTION"}

Idle == [op |-> "idle"]

Hands ==
  {Idle}
  \cup [op : {"job"}, job : Jobs, step : {"arrived", "replying", "done"},
        told : Dates, gives : BOOLEAN, fresh : BOOLEAN,
        row : Rows, held : BOOLEAN]
  \cup UNION {[op : {"batch"}, todo : SUBSET S, row : [S -> Rows],
               dirty : SUBSET S, knows : [Shops -> {"unread"} \cup Senders],
               held : BOOLEAN] : S \in SUBSET Messages}

\* Every row and every worker's memory of one has its type.
TypeOK ==
  /\ posts \in 0 .. MaxPosts
  /\ accepted \subseteq Messages
  /\ jobs \in [Jobs -> [state : JobStates, tries : 0 .. MaxTries]]
  /\ recorded \subseteq Messages
  /\ acted \in [Messages -> Nat]
  /\ today \in Days
  /\ copied \in [Shops -> SUBSET Dates]
  /\ told \in [Shops -> Dates]
  /\ given \in [Shops \X Days -> Nat]
  /\ forgot \in [Shops -> Nat]
  /\ outbox \in [Messages -> Rows]
  /\ conn \in [Shops -> Senders]
  /\ at \in [Workers -> Hands]
  /\ reached \in [Messages -> Nat]
  /\ excuse \in [Messages -> Nat]
  /\ faults \in 0 .. MaxFaults

Init ==
  /\ posts = 0 /\ accepted = {}
  /\ jobs = [j \in Jobs |-> [state |-> "none", tries |-> 0]]
  /\ recorded = {} /\ acted = [m \in Messages |-> 0]
  /\ today = 1 /\ copied = [s \in Shops |-> {}] /\ told = [s \in Shops |-> Never]
  /\ given = [p \in Shops \X Days |-> 0] /\ forgot = [s \in Shops |-> 0]
  /\ outbox = [m \in Messages |-> NoRow]
  /\ conn = [s \in Shops |-> IF s \in Connected THEN "CONNECTED" ELSE "PLATFORM"]
  /\ at = [w \in Workers |-> Idle]
  /\ reached = [m \in Messages |-> 0] /\ excuse = [m \in Messages |-> 0]
  /\ faults = 0

-----------------------------------------------------------------------------
meta == <<posts, accepted>>
chat == <<recorded, acted, told, given, forgot>>
around == <<today, copied>>
seen == <<reached, excuse>>

Fault == faults < MaxFaults /\ faults' = faults + 1

InHand(w, m) == at[w].op = "job" /\ at[w].job[1] = m
Subject(w) == at[w].job[1]

-----------------------------------------------------------------------------
(* Meta and the webhook. *)

\* Mutant: the answer is 200 whatever happened to the queue.
Answered200Always(S, dropped) == S

\* One message that could not be queued and the whole delivery is refused.
Answered200(S, dropped) == IF dropped = {} THEN S ELSE {}

\* receive_webhook: one post may carry several messages, and Meta posts again
\* what was refused and, now and then, what was not.
Webhook(S, dropped) ==
  /\ posts < MaxPosts
  /\ posts' = posts + 1
  /\ accepted' = accepted \cup Answered200(S, dropped)
  /\ jobs' = [j \in Jobs |->
                IF j[1] \in S \ dropped /\ j[2] = posts'
                THEN [state |-> "queued", tries |-> 0] ELSE jobs[j]]
  /\ IF dropped = {} THEN UNCHANGED faults ELSE Fault
  /\ UNCHANGED <<chat, around, outbox, conn, at, seen>>

\* 00:00 UTC, whatever the hour is where the shop is.
Midnight ==
  /\ today < MaxDays
  /\ today' = today + 1
  /\ UNCHANGED <<meta, jobs, chat, copied, outbox, conn, at, seen, faults>>

\* set_delivery_fee loads the conversation without its lock ...
CopyMemory(s) ==
  /\ copied[s] = {} /\ Fault
  /\ copied' = [copied EXCEPT ![s] = {told[s]}]
  /\ UNCHANGED <<meta, jobs, chat, today, outbox, conn, at, seen>>

\* ... and its UPDATE, which waits for a job that holds the row, puts the whole
\* context back.
PutBack(s, date) ==
  /\ date \in copied[s]
  /\ \A w \in Workers :
       ~(at[w].op = "job" /\ at[w].step # "arrived" /\ at[w].held /\ Shop[Subject(w)] = s)
  /\ copied' = [copied EXCEPT ![s] = {}]
  /\ told' = [told EXCEPT ![s] = date]
  /\ forgot' = [forgot EXCEPT ![s] = IF date = told[s] THEN @ ELSE @ + 1]
  /\ UNCHANGED <<meta, jobs, recorded, acted, given, today, outbox, conn, at, seen, faults>>

\* The owner's health check finds the token good again.
Reconnect(s) ==
  /\ conn[s] = "NEEDS_ATTENTION"
  /\ conn' = [conn EXCEPT ![s] = "CONNECTED"]
  /\ UNCHANGED <<meta, jobs, chat, around, outbox, at, seen, faults>>

-----------------------------------------------------------------------------
(* A job. *)

StartJob(w, j) ==
  /\ at[w] = Idle
  /\ jobs[j].state = "queued"
  /\ jobs' = [jobs EXCEPT ![j] = [state |-> "running", tries |-> @.tries + 1]]
  /\ at' = [at EXCEPT ![w] =
              [op |-> "job", job |-> j, step |-> "arrived", told |-> Never,
               gives |-> FALSE, fresh |-> FALSE, row |-> NoRow, held |-> TRUE]]
  /\ UNCHANGED <<meta, chat, around, outbox, conn, seen, faults>>

FinishJob(w) ==
  /\ jobs' = [jobs EXCEPT ![at[w].job].state = "done"]
  /\ at' = [at EXCEPT ![w] = Idle]

\* The shop is unknown or inactive, or the message is a duplicate.
Ignore(w) ==
  /\ at[w].op = "job" /\ at[w].step = "arrived"
  /\ FinishJob(w)
  /\ UNCHANGED <<meta, chat, around, outbox, conn, seen, faults>>

\* Mutants: the message's id is not reserved; a session loaded without its lock.
ReservesAlways(w) == TRUE
UnlockedAlways(w) == TRUE

\* The INSERT ... ON CONFLICT waits for a transaction that holds the id.
Reserves(w) ==
  /\ Subject(w) \notin recorded
  /\ \A q \in Workers \ {w} :
       ~(InHand(q, Subject(w)) /\ at[q].step # "arrived" /\ at[q].held)

\* get_or_create_session waits for the transaction that holds the row.
Unlocked(w) ==
  \A q \in Workers \ {w} :
    ~(/\ at[q].op = "job" /\ at[q].step # "arrived" /\ at[q].held
      /\ Shop[Subject(q)] = Shop[Subject(w)])

\* The closed gate: the notice is given unless the conversation remembers today.
Notice(closed, remembered) == closed /\ remembered # today

\* _process up to the reply: nothing of it is committed yet.  A pause's notice
\* is a reply like any other, or silence.
Handle(w, quiet, fresh, closed) ==
  /\ at[w].op = "job" /\ at[w].step = "arrived"
  /\ Reserves(w) /\ Unlocked(w)
  /\ LET remembered == IF fresh THEN Never ELSE told[Shop[Subject(w)]]
         gives == ~quiet /\ Notice(closed, remembered)
         replies == ~quiet /\ (gives \/ ~closed)
     IN  at' = [at EXCEPT ![w].step = IF replies THEN "replying" ELSE "done",
                          ![w].told = IF gives THEN today ELSE remembered,
                          ![w].gives = gives, ![w].fresh = fresh]
  /\ IF fresh THEN Fault ELSE UNCHANGED faults
  /\ UNCHANGED <<meta, jobs, chat, around, outbox, conn, seen>>

\* What a job's commit makes visible, the outbox apart.
Publish(w) ==
  LET m == Subject(w)
      s == Shop[m]
  IN  /\ recorded' = recorded \cup {m}
      /\ acted' = [acted EXCEPT ![m] = @ + 1]
      /\ told' = [told EXCEPT ![s] = at[w].told]
      /\ given' = [p \in DOMAIN given |->
                     IF at[w].gives /\ p = <<s, at[w].told>> THEN given[p] + 1 ELSE given[p]]
      /\ forgot' = [forgot EXCEPT ![s] = IF at[w].fresh THEN @ + 1 ELSE @]

\* Meta's answers to a send: delivered; delivered but the answer was lost;
\* a rate limit or an outage; a refusal no retry can cure.
Outcomes(sender) ==
  IF sender = "NEEDS_ATTENTION" THEN {"refused"}
  ELSE {"delivered", "unanswered", "failed", "refused"}

Delivers(outcome) == outcome \in {"delivered", "unanswered"}

\* The row after its attempt.
After(outcome, attempts) ==
  IF outcome = "delivered" THEN Row("SENT", attempts)
  ELSE IF outcome = "refused" \/ attempts >= MaxAttempts THEN Row("FAILED", attempts)
  ELSE Row("PENDING", attempts)

\* The reply's row: only a failure counts as an attempt.
FirstRow(outcome) == IF outcome = "delivered" THEN Row("SENT", 0) ELSE After(outcome, 1)

Observe(m, outcome) ==
  /\ reached' = IF Delivers(outcome) THEN [reached EXCEPT ![m] = @ + 1] ELSE reached
  /\ IF outcome = "unanswered"
     THEN Fault /\ excuse' = [excuse EXCEPT ![m] = @ + 1]
     ELSE UNCHANGED <<faults, excuse>>

\* send_text_message inside the job's transaction.
Reply(w, outcome) ==
  /\ at[w].op = "job" /\ at[w].step = "replying"
  /\ outcome \in Outcomes(conn[Shop[Subject(w)]])
  /\ Observe(Subject(w), outcome)
  /\ at' = [at EXCEPT ![w].step = "done", ![w].row = FirstRow(outcome)]
  /\ UNCHANGED <<meta, jobs, chat, around, outbox, conn>>

\* Meta rejects the connection's token: mark_invalid_token commits the job's
\* work so far, with the reply's row still SENDING, and lets its locks go.
ReplyRejected(w) ==
  LET s == Shop[Subject(w)]
  IN  /\ at[w].op = "job" /\ at[w].step = "replying"
      /\ conn[s] = "CONNECTED"
      /\ conn' = [conn EXCEPT ![s] = "NEEDS_ATTENTION"]
      /\ Publish(w)
      /\ outbox' = [outbox EXCEPT ![Subject(w)] = Row("SENDING", 0)]
      /\ at' = [at EXCEPT ![w].step = "done", ![w].row = Row("FAILED", 1), ![w].held = FALSE]
      /\ UNCHANGED <<meta, jobs, around, seen, faults>>

CommitJob(w) ==
  /\ at[w].op = "job" /\ at[w].step = "done"
  /\ IF at[w].held THEN Publish(w) ELSE UNCHANGED chat
  /\ outbox' = IF at[w].row = NoRow THEN outbox
               ELSE [outbox EXCEPT ![Subject(w)] = at[w].row]
  /\ FinishJob(w)
  /\ UNCHANGED <<meta, around, conn, seen, faults>>

\* A reply was sent and nothing of it is kept.
Undone(w) ==
  excuse' = IF at[w].row # NoRow THEN [excuse EXCEPT ![Subject(w)] = @ + 1] ELSE excuse

\* An exception: process_inbound_message rolls back and the job counts as done.
FailJob(w) ==
  /\ at[w].op = "job" /\ Fault
  /\ Undone(w)
  /\ FinishJob(w)
  /\ UNCHANGED <<meta, chat, around, outbox, conn, reached>>

\* Mutant: one try too many.
RequeueOneMore(tries) == IF tries <= MaxTries THEN "queued" ELSE "lost"

\* WorkerSettings.max_tries.
Requeue(tries) == IF tries < MaxTries THEN "queued" ELSE "lost"

\* The worker is killed or its job times out: the queue runs the job again.
KillJob(w) ==
  /\ at[w].op = "job" /\ Fault
  /\ Undone(w)
  /\ jobs' = [jobs EXCEPT ![at[w].job] =
                [state |-> Requeue(@.tries), tries |-> @.tries]]
  /\ at' = [at EXCEPT ![w] = Idle]
  /\ UNCHANGED <<meta, chat, around, outbox, conn, reached>>

-----------------------------------------------------------------------------
(* A batch of the outbox. *)

\* Rows a batch has locked: all it selected, until a commit in its midst.
Locks(w) ==
  IF at[w].op # "batch" THEN {}
  ELSE IF at[w].held THEN DOMAIN at[w].row ELSE at[w].dirty

LockedByOthers(w) == UNION {Locks(q) : q \in Workers \ {w}}

\* Mutant: FOR UPDATE SKIP LOCKED dropped from the query.
SelectableAnyway(w) ==
  {m \in Messages : outbox[m].status = "PENDING" /\ outbox[m].attempts < MaxAttempts}

Selectable(w) ==
  {m \in Messages : /\ outbox[m].status = "PENDING" /\ outbox[m].attempts < MaxAttempts
                    /\ m \notin LockedByOthers(w)}

BatchTakes(w, S) ==
  /\ at[w] = Idle /\ S # {} /\ S \subseteq Selectable(w)
  /\ at' = [at EXCEPT ![w] = [op |-> "batch", todo |-> S, row |-> [m \in S |-> outbox[m]],
                              dirty |-> {}, knows |-> [s \in Shops |-> "unread"],
                              held |-> TRUE]]
  /\ UNCHANGED <<meta, jobs, chat, around, outbox, conn, seen, faults>>

\* _process_single; the UPDATE waits for another batch's lock on the row.
CanSend(w, m) == at[w].op = "batch" /\ m \in at[w].todo /\ m \notin LockedByOthers(w)

\* The batch's session keeps the connection it loaded for an earlier row.
Sender(w, s) == IF at[w].knows[s] = "unread" THEN conn[s] ELSE at[w].knows[s]

BatchSends(w, m, outcome) ==
  /\ CanSend(w, m)
  /\ outcome \in Outcomes(Sender(w, Shop[m]))
  /\ Observe(m, outcome)
  /\ at' = [at EXCEPT ![w].todo = @ \ {m}, ![w].dirty = @ \cup {m},
                      ![w].knows[Shop[m]] = Sender(w, Shop[m]),
                      ![w].row[m] = After(outcome, @.attempts + 1)]
  /\ UNCHANGED <<meta, jobs, chat, around, outbox, conn>>

\* The shop has no number, or WhatsApp is switched off for it.
BatchGivesUp(w, m) ==
  /\ CanSend(w, m)
  /\ at' = [at EXCEPT ![w].todo = @ \ {m}, ![w].dirty = @ \cup {m},
                      ![w].row[m] = Row("FAILED", @.attempts)]
  /\ UNCHANGED <<meta, jobs, chat, around, outbox, conn, seen, faults>>

\* Mutant: what the batch does after a commit in its midst is not written.
WriteUntilCommit(w, row) ==
  [m \in Messages |-> IF m \in at[w].dirty /\ at[w].held THEN row[m] ELSE outbox[m]]

Write(w, row) == [m \in Messages |-> IF m \in at[w].dirty THEN row[m] ELSE outbox[m]]

\* The commit of mark_invalid_token, in the middle of the batch.
BatchRejected(w, m) ==
  /\ CanSend(w, m)
  /\ Sender(w, Shop[m]) = "CONNECTED"
  /\ conn' = [conn EXCEPT ![Shop[m]] = "NEEDS_ATTENTION"]
  /\ outbox' = [Write(w, at[w].row) EXCEPT ![m] = Row("SENDING", at[w].row[m].attempts + 1)]
  /\ excuse' = [x \in Messages |->
                  IF x \in at[w].todo \ {m} THEN excuse[x] + 1 ELSE excuse[x]]
  /\ at' = [at EXCEPT ![w] =
       [at[w] EXCEPT !.todo = at[w].todo \ {m}, !.dirty = {m}, !.held = FALSE,
                     !.knows = [at[w].knows EXCEPT ![Shop[m]] = "NEEDS_ATTENTION"],
                     !.row = [at[w].row EXCEPT ![m] = Row("FAILED", at[w].row[m].attempts + 1)]]]
  /\ UNCHANGED <<meta, jobs, chat, around, reached, faults>>

BatchCommits(w) ==
  /\ at[w].op = "batch" /\ at[w].todo = {}
  /\ outbox' = Write(w, at[w].row)
  /\ at' = [at EXCEPT ![w] = Idle]
  /\ UNCHANGED <<meta, jobs, chat, around, conn, seen, faults>>

\* An error rolls the batch back, a kill loses it: what it sent is sent again.
BatchAborts(w) ==
  /\ at[w].op = "batch" /\ Fault
  /\ excuse' = [m \in Messages |->
                  IF m \in at[w].dirty THEN excuse[m] + 1 ELSE excuse[m]]
  /\ at' = [at EXCEPT ![w] = Idle]
  /\ UNCHANGED <<meta, jobs, chat, around, outbox, conn, reached>>

-----------------------------------------------------------------------------
RunJob(w) ==
  \/ Ignore(w) \/ ReplyRejected(w) \/ CommitJob(w)
  \/ \E quiet, fresh, closed \in BOOLEAN : Handle(w, quiet, fresh, closed)
  \/ \E outcome \in {"delivered", "unanswered", "failed", "refused"} : Reply(w, outcome)

RunBatch(w) ==
  \/ BatchCommits(w)
  \/ \E m \in Messages :
       \/ BatchGivesUp(w, m) \/ BatchRejected(w, m)
       \/ \E outcome \in {"delivered", "unanswered", "failed", "refused"} :
            BatchSends(w, m, outcome)

Next ==
  \/ \E S \in SUBSET Messages \ {{}} : \E dropped \in SUBSET S : Webhook(S, dropped)
  \/ Midnight
  \/ \E s \in Shops : CopyMemory(s) \/ Reconnect(s) \/ \E date \in Dates : PutBack(s, date)
  \/ \E w \in Workers :
       \/ \E j \in Jobs : StartJob(w, j)
       \/ \E S \in SUBSET Messages : BatchTakes(w, S)
       \/ RunJob(w) \/ RunBatch(w)
       \/ FailJob(w) \/ KillJob(w) \/ BatchAborts(w)

\* The queue runs what is queued, the cron starts a batch every five seconds
\* and a step once started ends; nothing is assumed of Meta, of the shop's
\* hours, of staff or of accidents.
Fairness ==
  /\ \A w \in Workers : WF_vars(RunJob(w)) /\ WF_vars(RunBatch(w))
  /\ \A j \in Jobs : SF_vars(\E w \in Workers : StartJob(w, j))
  /\ \A m \in Messages :
       SF_vars(\E w \in Workers, S \in SUBSET Messages : m \in S /\ BatchTakes(w, S))

Spec == Init /\ [][Next]_vars

FairSpec == Spec /\ Fairness

-----------------------------------------------------------------------------
\* "Returning 200 here (the old behaviour) silently dropped the customer's
\* message forever" (routes_webhook.py): what Meta will not post again is queued.
AcceptedIsQueued ==
  \A m \in accepted : \E n \in 1 .. MaxPosts : jobs[<<m, n>>].state # "none"

\* However often Meta posts a message and the queue runs its jobs, the
\* conversation moves for it at most once.
HandledOnce == \A m \in Messages : acted[m] <= 1

\* The customer reads a reply twice only after an answer was lost, a
\* transaction that had sent it was undone, or a batch lost its locks.
CopiesExplained == \A m \in Messages : reached[m] <= 1 + excuse[m]

\* "If the business is closed, send the closed message ONCE per customer per
\* day" (pipeline.py): under one date a conversation is told once, also when
\* messages arrive together, and once more for each time it lost its memory.
\* The date is UTC's: nothing keeps a customer from being told again when a
\* night passes 00:00 UTC.
ToldOncePerDay ==
  \A s \in Shops, d \in Days : given[<<s, d>>] <= 1 + forgot[s]

\* "Safe concurrent workers -- skip rows locked by another batch"
\* (outbox_worker.py): without an accident no reply arrives twice.
OneCopy == faults = 0 => \A m \in Messages : reached[m] <= 1

\* A reply left SENDING in the table, which no batch selects.
Stranded(m) ==
  /\ outbox[m].status = "SENDING"
  /\ \A w \in Workers : ~InHand(w, m) /\ ~(at[w].op = "batch" /\ m \in DOMAIN at[w].row)

\* A reply that was neither sent nor given up is where a batch finds it again:
\* a row is stuck only after an accident, although a token's rejection commits
\* rows in the middle of their batch, or of their job (whatsapp_sender.py).
StuckOnlyByAccident ==
  \A m \in Messages :
    /\ outbox[m].status = "PENDING" => outbox[m].attempts < MaxAttempts
    /\ Stranded(m) => faults > 0

\* A reply that waits in the outbox is sent or given up in the end, unless the
\* worker died between a token's rejection and its own commit.
OutboxDrains ==
  \A m \in Messages :
    outbox[m].status = "PENDING" ~> outbox[m].status \in {"SENT", "FAILED"} \/ Stranded(m)

\* "Prevents message loss" (models/audit.py, MessageOutbox).
NeverStranded == \A m \in Messages : ~Stranded(m)
=============================================================================
