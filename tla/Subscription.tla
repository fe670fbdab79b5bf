------------------------------ MODULE Subscription ------------------------------
(***************************************************************************)
(* What a restaurant owes the platform: the billing columns of one row of   *)
(* businesses, written by the Stripe webhook, the admin plane, the owner    *)
(* and two hourly jobs (backend/app/billing/, worker.py, admin_api/), and   *)
(* the numbered EFT/cash invoices of that business.                         *)
(*                                                                         *)
(* No handler locks the business: each loads it, computes, and writes back  *)
(* the columns it changed.  A request is therefore two steps, Begin (the    *)
(* SELECT) and the action that ends it (flush and commit).  An invoice is   *)
(* loaded FOR UPDATE by the admin routes, so those read and write it in     *)
(* their second step, but the hourly sweep reads it without a lock.         *)
(***************************************************************************)
EXTENDS Naturals

CONSTANTS
  Requests,      \* web requests in progress at a time
  Charges,       \* Stripe invoice ids: one per billing period, kept across retries
  Invoices,      \* commercial (EFT/cash) invoices
  Lines,         \* what an invoice may say
  NoLines,       \* an invoice without lines
  None,          \* no request, no trial end
  GracePeriod, TrialDays, TrialGrace, Extension, PaymentTerms,   \* in ticks
  MaxTime,       \* bound: the clock stops here
  MaxRequests    \* bound: web requests in a behaviour

ASSUME TimesAreNaturals ==
  {GracePeriod, TrialDays, TrialGrace, Extension, PaymentTerms, MaxTime} \subseteq Nat

VARIABLES
  now,
  biz,        \* the business row
  charge,     \* at Stripe: when an invoice was created, and what became of it
  rows,       \* billing_invoices: <<reference, "PAID" or "FAILED">>
  inv,        \* commercial_invoices
  lastNumber, \* the sequence commercial_invoice_number_seq
  req,        \* what each web request has loaded
  grace,      \* suspend_past_due_businesses: the row it loaded, or None
  sweep,      \* sweep_trial_and_invoice_expiry: what it loaded, or None
  asked

vars == <<now, biz, charge, rows, inv, lastNumber, req, grace, sweep, asked>>

Statuses == {"TRIAL", "ACTIVE", "PAST_DUE", "SUSPENDED", "CANCELLED"}
Reasons == {"", "MANUAL", "TRIAL_EXPIRED", "OVERDUE", "UNPAID", "CANCELLED"}
Unpaid == {"AWAITING_PAYMENT", "SENT", "OVERDUE"}
Time == 0 .. MaxTime
Ends == 0 .. (MaxTime + TrialDays + MaxRequests * Extension)

BusinessRow == [status : Statuses, active : BOOLEAN, reason : Reasons,
                period : Time, ends : Ends \cup {None}]
InvoiceRow == [status : {"NONE", "DRAFT", "PAID", "CANCELLED"} \cup Unpaid,
               lines : Lines \cup {NoLines}, number : Nat, due : Nat]

Init ==
  /\ now = 0
  /\ biz \in {[status |-> "TRIAL", active |-> TRUE, reason |-> "", period |-> 0, ends |-> TrialDays],
              [status |-> "ACTIVE", active |-> TRUE, reason |-> "", period |-> 0, ends |-> None]}
  /\ charge = [r \in Charges |-> [created |-> None, failed |-> FALSE, paid |-> FALSE]]
  /\ rows = {}
  /\ inv = [i \in Invoices |-> [status |-> "NONE", lines |-> NoLines, number |-> 0, due |-> 0]]
  /\ lastNumber = 0
  /\ req = [q \in Requests |-> None]
  /\ grace = None /\ sweep = None
  /\ asked = 0

-----------------------------------------------------------------------------
(* What each handler makes of the row it loaded.                            *)

Paid(b) ==
  [b EXCEPT !.status = "ACTIVE", !.active = TRUE, !.reason = "", !.period = now]

\* A failure older than the period it finds is ignored.
Stale(b, r) == charge[r].created < b.period
PaymentFailed(b) == [b EXCEPT !.status = "PAST_DUE"]

SubscriptionUpdated(b, s) ==
  CASE s = "unpaid" -> [b EXCEPT !.status = "SUSPENDED", !.active = FALSE, !.reason = "UNPAID"]
    [] s = "active" -> [b EXCEPT !.status = "ACTIVE", !.active = TRUE, !.reason = ""]
    [] s = "past_due" -> [b EXCEPT !.status = "PAST_DUE"]
    [] s = "canceled" -> [b EXCEPT !.status = "CANCELLED"]
    [] s = "trialing" -> [b EXCEPT !.status = "TRIAL"]

SubscriptionDeleted(b) ==
  [b EXCEPT !.status = "CANCELLED", !.active = FALSE, !.reason = "CANCELLED"]

\* Only the suspension of an expired trial is lifted with the trial.
UnsuspendIfTrialExpired(b) ==
  IF ~b.active /\ b.reason = "TRIAL_EXPIRED" THEN [b EXCEPT !.active = TRUE, !.reason = ""] ELSE b

TrialUntil(b, end) == UnsuspendIfTrialExpired([b EXCEPT !.status = "TRIAL", !.ends = end])

PastGrace(b) == b.status = "PAST_DUE" /\ now > b.period + GracePeriod
TrialOver(b) == b.status = "TRIAL" /\ b.ends # None /\ now > b.ends + TrialGrace

SuspendedForNonpayment(b) ==
  [b EXCEPT !.status = "SUSPENDED", !.active = FALSE, !.reason = "OVERDUE"]

\* The ORM writes the columns the handler changed, over whatever is there.
Flush(old, new) ==
  biz' = [c \in DOMAIN biz |-> IF new[c] = old[c] THEN biz[c] ELSE new[c]]
-----------------------------------------------------------------------------
(* Stripe, and time.                                                        *)

Tick ==
  /\ now < MaxTime
  /\ now' = now + 1
  /\ UNCHANGED <<biz, charge, rows, inv, lastNumber, req, grace, sweep, asked>>

\* Stripe tries to collect an invoice; a failed one is retried under its id.
Collect(r) ==
  /\ ~charge[r].paid
  /\ \E outcome \in {"failed", "paid"} :
       charge' = [charge EXCEPT
         ![r].created = IF @ = None THEN now ELSE @, ![r][outcome] = TRUE]
  /\ UNCHANGED <<now, biz, rows, inv, lastNumber, req, grace, sweep, asked>>

\* The deliveries and calls that may arrive, any number of times and late.
Calls ==
       [kind : {"invoice.paid"}, arg : {r \in Charges : charge[r].paid}]
  \cup [kind : {"invoice.payment_failed"}, arg : {r \in Charges : charge[r].failed}]
  \cup [kind : {"subscription.updated"},
        arg : {"active", "past_due", "canceled", "unpaid", "trialing"}]
  \cup [kind : {"subscription.deleted", "suspend", "unsuspend", "trial.start",
                "trial.extend", "cancel_subscription"}, arg : {None}]
  \cup [kind : {"update_business"}, arg : Statuses]
  \cup [kind : {"invoice.update"}, arg : {i \in Invoices : inv[i].status # "NONE"} \X (Lines \cup {NoLines})]
  \cup [kind : {"invoice.issue", "invoice.mark_sent", "invoice.mark_paid", "invoice.cancel"},
        arg : {i \in Invoices : inv[i].status # "NONE"}]

Recorded(r) == \E outcome \in {"PAID", "FAILED"} : <<r, outcome>> \in rows

\* The handler loads the business; a Stripe one looks the reference up too.
Begin(q) ==
  /\ req[q] = None /\ asked < MaxRequests
  /\ \E c \in Calls :
       req' = [req EXCEPT ![q] =
         [call |-> c, old |-> biz, known |-> c.arg \in Charges /\ Recorded(c.arg)]]
  /\ asked' = asked + 1
  /\ UNCHANGED <<now, biz, charge, rows, inv, lastNumber, grace, sweep>>

Is(q, kind) == req[q] # None /\ req[q].call.kind = kind
Old(q) == req[q].old
Arg(q) == req[q].call.arg
Answer(q) == req' = [req EXCEPT ![q] = None]
Elsewhere == UNCHANGED <<now, charge, lastNumber, grace, sweep, asked>>

InvoicePaid(q) ==
  /\ Is(q, "invoice.paid") /\ Answer(q)
  /\ IF req[q].known THEN UNCHANGED <<biz, rows>>
     ELSE Flush(Old(q), Paid(Old(q))) /\ rows' = rows \cup {<<Arg(q), "PAID">>}
  /\ UNCHANGED inv /\ Elsewhere

InvoicePaymentFailed(q) ==
  /\ Is(q, "invoice.payment_failed") /\ Answer(q)
  /\ IF req[q].known \/ Stale(Old(q), Arg(q)) THEN UNCHANGED <<biz, rows>>
     ELSE Flush(Old(q), PaymentFailed(Old(q))) /\ rows' = rows \cup {<<Arg(q), "FAILED">>}
  /\ UNCHANGED inv /\ Elsewhere

\* The handlers that only rewrite the business.
Rewritten(b, c) ==
  CASE c.kind = "subscription.updated" -> SubscriptionUpdated(b, c.arg)
    [] c.kind = "subscription.deleted" -> SubscriptionDeleted(b)
    [] c.kind = "suspend" -> [b EXCEPT !.active = FALSE, !.reason = "MANUAL"]
    [] c.kind = "unsuspend" -> [b EXCEPT !.active = TRUE, !.reason = ""]
    [] c.kind = "trial.start" -> TrialUntil(b, now + TrialDays)
    [] c.kind = "trial.extend" -> TrialUntil(b, (IF b.ends = None THEN now ELSE b.ends) + Extension)
    [] c.kind = "cancel_subscription" -> [b EXCEPT !.status = "CANCELLED"]
    [] c.kind = "update_business" -> [b EXCEPT !.status = c.arg]

Rewrite(q) ==
  /\ req[q] # None
  /\ req[q].call.kind \in {"subscription.updated", "subscription.deleted", "suspend", "unsuspend",
                           "trial.start", "trial.extend", "cancel_subscription", "update_business"}
  /\ Flush(Old(q), Rewritten(Old(q), req[q].call)) /\ Answer(q)
  /\ UNCHANGED <<rows, inv>> /\ Elsewhere
-----------------------------------------------------------------------------
(* Commercial invoices: the row is loaded FOR UPDATE.                       *)

CreateInvoiceDraft(i) ==
  /\ inv[i].status = "NONE"
  /\ \E l \in Lines \cup {NoLines} : inv' = [inv EXCEPT ![i].status = "DRAFT", ![i].lines = l]
  /\ UNCHANGED <<now, biz, charge, rows, lastNumber, req, grace, sweep, asked>>

UpdateInvoiceDraft(q) ==
  /\ Is(q, "invoice.update") /\ Answer(q)
  /\ LET i == Arg(q)[1] IN
       inv' = IF inv[i].status = "DRAFT" THEN [inv EXCEPT ![i].lines = Arg(q)[2]] ELSE inv
  /\ UNCHANGED <<biz, rows>> /\ Elsewhere

\* Mutant: whatever has lines may be issued.
IssuableAgain(i) == inv[i].lines # NoLines

Issuable(i) == inv[i].status = "DRAFT" /\ inv[i].lines # NoLines

IssueInvoice(q) ==
  /\ Is(q, "invoice.issue") /\ Answer(q)
  /\ LET i == Arg(q) IN
       IF Issuable(i)
       THEN /\ lastNumber' = lastNumber + 1
            /\ inv' = [inv EXCEPT ![i].status = "AWAITING_PAYMENT",
                                  ![i].number = lastNumber + 1, ![i].due = now + PaymentTerms]
       ELSE UNCHANGED <<inv, lastNumber>>
  /\ UNCHANGED <<now, biz, charge, rows, grace, sweep, asked>>

MarkSent(q) ==
  /\ Is(q, "invoice.mark_sent") /\ Answer(q)
  /\ inv' = IF inv[Arg(q)].status \in Unpaid THEN [inv EXCEPT ![Arg(q)].status = "SENT"] ELSE inv
  /\ UNCHANGED <<biz, rows>> /\ Elsewhere

MarkPaid(q) ==
  /\ Is(q, "invoice.mark_paid") /\ Answer(q)
  /\ IF inv[Arg(q)].status \in Unpaid
     THEN /\ inv' = [inv EXCEPT ![Arg(q)].status = "PAID"]
          /\ rows' = rows \cup {<<Arg(q), "PAID">>}
          /\ Flush(Old(q), Paid(Old(q)))
     ELSE UNCHANGED <<inv, rows, biz>>
  /\ Elsewhere

CancelInvoice(q) ==
  /\ Is(q, "invoice.cancel") /\ Answer(q)
  /\ inv' = IF inv[Arg(q)].status \in {"PAID", "CANCELLED"} THEN inv
            ELSE [inv EXCEPT ![Arg(q)].status = "CANCELLED"]
  /\ UNCHANGED <<biz, rows>> /\ Elsewhere
-----------------------------------------------------------------------------
(* The hourly jobs.  Each loads without a lock and commits later.           *)

\* Mutant: the grace period is one tick longer than the property's.
GraceOverLate(b) == b.active /\ b.status = "PAST_DUE" /\ now > b.period + GracePeriod + 1

GraceOver(b) == b.active /\ PastGrace(b)

GraceLoads ==
  /\ grace = None
  /\ GraceOver(biz)
  /\ grace' = biz
  /\ UNCHANGED <<now, biz, charge, rows, inv, lastNumber, req, sweep, asked>>

GraceCommits ==
  /\ grace # None
  /\ Flush(grace, SuspendedForNonpayment(grace))
  /\ grace' = None
  /\ UNCHANGED <<now, charge, rows, inv, lastNumber, req, sweep, asked>>

PastDue(i) == inv[i].status \in {"SENT", "AWAITING_PAYMENT"} /\ inv[i].due < now

\* Mutants: the job commits only for an invoice, or only for a trial.
SweepableInvoices == \E i \in Invoices : PastDue(i)
SweepableTrials == biz.active /\ TrialOver(biz)

\* What makes the sweep commit.
Sweepable == (biz.active /\ TrialOver(biz)) \/ \E i \in Invoices : PastDue(i)

SweepLoads ==
  /\ sweep = None
  /\ Sweepable
  /\ sweep' = [old |-> biz, late |-> {i \in Invoices : PastDue(i)},
               new |-> IF biz.active /\ TrialOver(biz)
                       THEN [biz EXCEPT !.active = FALSE, !.reason = "TRIAL_EXPIRED"] ELSE biz]
  /\ UNCHANGED <<now, biz, charge, rows, inv, lastNumber, req, grace, asked>>

SweepCommits ==
  /\ sweep # None
  /\ Flush(sweep.old, sweep.new)
  /\ inv' = [i \in Invoices |-> IF i \in sweep.late THEN [inv[i] EXCEPT !.status = "OVERDUE"]
                                ELSE inv[i]]
  /\ sweep' = None
  /\ UNCHANGED <<now, charge, rows, lastNumber, req, grace, asked>>

Finish(q) ==
  \/ InvoicePaid(q) \/ InvoicePaymentFailed(q) \/ Rewrite(q)
  \/ UpdateInvoiceDraft(q) \/ IssueInvoice(q) \/ MarkSent(q) \/ MarkPaid(q) \/ CancelInvoice(q)

Next ==
  \/ Tick
  \/ \E r \in Charges : Collect(r)
  \/ \E i \in Invoices : CreateInvoiceDraft(i)
  \/ \E q \in Requests : Begin(q) \/ Finish(q)
  \/ GraceLoads \/ GraceCommits \/ SweepLoads \/ SweepCommits

Spec == Init /\ [][Next]_vars

\* The jobs are scheduled every hour, and a loaded transaction commits.
FairSpec ==
  /\ Spec
  /\ WF_vars(GraceLoads) /\ WF_vars(GraceCommits)
  /\ WF_vars(SweepLoads) /\ WF_vars(SweepCommits)
  /\ \A q \in Requests : WF_vars(Finish(q))
-----------------------------------------------------------------------------
(* Every column holds a value the rest of the code knows: a status out of   *)
(* billing_status' vocabulary would be neither billed nor swept.            *)
TypeOK ==
  /\ now \in Time /\ biz \in BusinessRow /\ asked \in 0 .. MaxRequests
  /\ charge \in [Charges -> [created : Time \cup {None}, failed : BOOLEAN, paid : BOOLEAN]]
  /\ rows \subseteq (Charges \cup Invoices) \X {"PAID", "FAILED"}
  /\ inv \in [Invoices -> InvoiceRow] /\ lastNumber \in Nat
  /\ \A q \in Requests : req[q] # None => Old(q) \in BusinessRow
  /\ grace # None => grace \in BusinessRow
  /\ sweep # None => sweep.old \in BusinessRow /\ sweep.late \subseteq Invoices

(* An issued invoice is a numbered tax document: however edits, second      *)
(* issues, cancellations and the overdue sweep interleave, its number and   *)
(* its lines never change again (issue_invoice, update_invoice_draft).      *)
IssuedIsFrozen ==
  [][\A i \in Invoices : inv[i].number # 0 =>
       /\ inv'[i].number = inv[i].number
       /\ inv'[i].lines = inv[i].lines
       /\ inv'[i].status \notin {"NONE", "DRAFT"}]_vars

(* An unpaid subscription does not keep its access: a business served past  *)
(* its grace period is suspended, pays or leaves PAST_DUE, whatever else    *)
(* writes the row meanwhile (suspend_past_due_businesses).                  *)
GraceEnds ==
  (biz.active /\ PastGrace(biz)) ~> ~(biz.active /\ PastGrace(biz))

(* An expired trial does not run on: it is suspended, extended or converted *)
(* (sweep_trial_and_invoice_expiry).                                        *)
TrialEnds == (biz.active /\ TrialOver(biz)) ~> ~(biz.active /\ TrialOver(biz))

(* An issued invoice past its due date is marked OVERDUE, paid or           *)
(* cancelled, also after an admin marks an OVERDUE one sent again.          *)
OverdueIsNoticed == \A i \in Invoices : PastDue(i) ~> ~PastDue(i)

(* stripe_webhooks.py says of its events "invoice.paid -> reactivate if was *)
(* past_due": a paid invoice whose handler worked on the row as it still is *)
(* leaves the business ACTIVE.                                              *)
PaymentReactivates ==
  [][\A q \in Requests : (InvoicePaid(q) /\ Old(q) = biz) => biz'.status = "ACTIVE"]_vars
=============================================================================
