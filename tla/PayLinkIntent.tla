---------------------------- MODULE PayLinkIntent ----------------------------
(***************************************************************************)
(* What a Pay-by-Link request promises the till, as the payment model's    *)
(* own state machine: PENDING -> PAID -> CONSUMED | FAILED | EXPIRED |     *)
(* CANCELLED.  Money the provider confirmed (PAID) goes into exactly one   *)
(* sale, with the exception the code makes: a till's poll decides that a   *)
(* request has lapsed while it is PENDING and writes EXPIRED over whatever *)
(* it has become, for ever.  The handlers are in PosCheckout.              *)
(***************************************************************************)
CONSTANTS Intents, Sales, NoSale

VARIABLES
  intent,   \* intent id -> status; "ABSENT" before the request
  spentOn,  \* intent id -> the sale it was consumed into, or NoSale
  seen      \* intents some poll under way has read as PENDING

vars == <<intent, spentOn, seen>>

Init ==
  /\ intent = [i \in Intents |-> "ABSENT"]
  /\ spentOn = [i \in Intents |-> NoSale]
  /\ seen = {}

Becomes(i, from, to) ==
  /\ intent[i] = from
  /\ intent' = [intent EXCEPT ![i] = to]
  /\ UNCHANGED <<spentOn, seen>>

Request(i) == \E s \in {"PENDING", "FAILED"} : Becomes(i, "ABSENT", s)
Pay(i) == Becomes(i, "PENDING", "PAID")
GiveUp(i) == \E s \in {"EXPIRED", "CANCELLED"} : Becomes(i, "PENDING", s)

Consume(i, o) ==
  /\ intent[i] = "PAID"
  /\ \A j \in Intents : spentOn[j] # o
  /\ intent' = [intent EXCEPT ![i] = "CONSUMED"]
  /\ spentOn' = [spentOn EXCEPT ![i] = o]
  /\ UNCHANGED seen

\* A poll looks only at a PENDING request for its expiry, and answers later.
Look(i) ==
  /\ intent[i] = "PENDING"
  /\ seen' = seen \cup {i}
  /\ UNCHANGED <<intent, spentOn>>

LookAway(i) == i \in seen /\ seen' = seen \ {i} /\ UNCHANGED <<intent, spentOn>>

\* The lapse it saw, written over a payment, a sale or a cancellation too.
ExpireSeen(i) ==
  /\ i \in seen
  /\ intent' = [intent EXCEPT ![i] = "EXPIRED"]
  /\ seen' \in {seen, seen \ {i}}
  /\ UNCHANGED spentOn

Next == \E i \in Intents : \/ Request(i) \/ Pay(i) \/ GiveUp(i)
                           \/ Look(i) \/ LookAway(i) \/ ExpireSeen(i)
                           \/ \E o \in Sales : Consume(i, o)

Spec == Init /\ [][Next]_vars
=============================================================================
