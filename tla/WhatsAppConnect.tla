--------------------------- MODULE WhatsAppConnect ---------------------------
(***************************************************************************)
(* The self-service connection of a business to its own WhatsApp number.   *)
(*                                                                         *)
(* run_exchange is a chain of calls to Meta with a commit after each, so   *)
(* that a failed attempt leaves its progress behind and is simply started  *)
(* again.  Nothing is locked: two attempts, a disconnection, a health      *)
(* check and Meta's own account events meet on one row, and the sender     *)
(* picks a token from whatever they left.                                  *)
(*                                                                         *)
(* A handler keeps the rows it loaded and writes the columns it changes:   *)
(* the connection is read again after each commit, the business is not.    *)
(* A number and the WhatsApp account (WABA) that holds it are columns of   *)
(* their own: an account may hold several numbers, and nobody asks Meta    *)
(* whether the two that the browser named belong together.                 *)
(***************************************************************************)
EXTENDS FiniteSets, Naturals

CONSTANTS
  Requests,    \* slots for handlers in service
  Businesses,
  Numbers,     \* numbers of customers' own WhatsApp accounts
  Accounts,    \* those accounts
  Platform,    \* numbers the platform provisioned
  CanSee,      \* business -> the numbers and accounts its owner's token gives access to
  None,        \* a null column
  MaxCalls     \* bound: requests of the owners

ASSUME ConnectAssumption ==
  /\ CanSee \in [Businesses -> SUBSET (Numbers \cup Accounts)]
  /\ Numbers \cap (Platform \cup Accounts) = {} /\ Platform \cap Accounts = {}
  /\ None \notin Numbers \cup Platform \cup Accounts
  /\ MaxCalls \in Nat

VARIABLES
  conn,     \* business -> its whatsapp_connections row
  route,    \* business -> whatsapp_phone_number_id
  account,  \* business -> whatsapp_business_account_id
  left,     \* businesses whose owner has disconnected at some time
  req,      \* slot -> what the handler in it has loaded
  calls     \* requests so far

vars == <<conn, route, account, left, req, calls>>

Statuses == {"NONE", "PENDING", "CONNECTED", "NEEDS_ATTENTION", "DISCONNECTED"}

Connection == [status : Statuses, number : Numbers \cup {None},
               waba : Accounts \cup {None}, token : {"none", "good", "revoked"}]

Steps == {"code_exchange", "verify_assets", "subscribe_webhooks", "register_phone",
          "claim_routing_number"}

Idle == [op |-> "idle"]

Loaded ==
  [op : {"exchange"}, on : Businesses, step : Steps, number : Numbers, waba : Accounts,
   row : Connection, route : Numbers \cup Platform \cup {None}, account : Accounts \cup {None}]
  \cup [op : {"disconnect", "health_check"}, on : Businesses, row : Connection,
        route : Numbers \cup Platform \cup {None}, account : Accounts \cup {None}]

\* Every row and every handler's copy of one has its type.
TypeOK ==
  /\ conn \in [Businesses -> Connection]
  /\ route \in [Businesses -> Numbers \cup Platform \cup {None}]
  /\ account \in [Businesses -> Accounts \cup {None}]
  /\ left \subseteq Businesses
  /\ req \in [Requests -> {Idle} \cup Loaded]
  /\ calls \in 0 .. MaxCalls

\* Some businesses already use a number the platform gave them.
Init ==
  /\ conn = [b \in Businesses |->
               [status |-> "NONE", number |-> None, waba |-> None, token |-> "none"]]
  /\ route \in [Businesses -> Platform \cup {None}]
  /\ \A b, c \in Businesses : route[b] = route[c] /\ route[b] # None => b = c
  /\ account = [b \in Businesses |-> None]
  /\ left = {}
  /\ req = [r \in Requests |-> Idle]
  /\ calls = 0

-----------------------------------------------------------------------------
Serving(r, op) == req[r].op = op

\* A slot is free for a new request.
Arrives(r) == req[r] = Idle /\ calls < MaxCalls /\ calls' = calls + 1

End(r) == req' = [req EXCEPT ![r] = Idle]

\* Only the columns that differ from what was loaded are in the UPDATE.
Saved(db, loaded, new) ==
  [f \in DOMAIN db |-> IF new[f] = loaded[f] THEN db[f] ELSE new[f]]

Save(b, loaded, new) == conn' = [conn EXCEPT ![b] = Saved(@, loaded, new)]

SavedColumn(db, loaded, new) == IF new = loaded THEN db ELSE new

business == <<route, account, left>>

TakenElsewhere(b, n) == \E c \in Businesses \ {b} : route[c] = n

\* The unique indexes over phone_number_id and waba_id, NULLs apart, refuse an UPDATE.
Collides(b, loaded, new) ==
  \E c \in Businesses \ {b}, column \in {"number", "waba"} :
    new[column] # loaded[column] /\ conn[c][column] = new[column]

Load(b, op) ==
  [op |-> op, on |-> b, row |-> conn[b], route |-> route[b], account |-> account[b]]

-----------------------------------------------------------------------------
(* run_exchange, started with a fresh state token and code from Meta. *)

\* Mutant: the number the browser names is written before Meta confirmed it.
StartedAtOnce(b, n) ==
  LET new == [conn[b] EXCEPT !.status = "PENDING", !.number = n]
  IN  IF Collides(b, conn[b], new) THEN [conn[b] EXCEPT !.status = "PENDING"] ELSE new

Started(b, n) == [conn[b] EXCEPT !.status = "PENDING"]

\* _fail: the step's reason is shown, and what earlier steps left stays.
NeedsAttention(row) == [row EXCEPT !.status = "NEEDS_ATTENTION"]

\* The number routes another business: refused before anybody asks Meta.
ExchangeRefused(r, b, n) ==
  /\ Arrives(r)
  /\ TakenElsewhere(b, n)
  /\ conn' = [conn EXCEPT ![b] = NeedsAttention(@)]
  /\ UNCHANGED <<business, req>>

ExchangeStarts(r, b, n, a) ==
  /\ Arrives(r)
  /\ ~TakenElsewhere(b, n)
  /\ conn' = [conn EXCEPT ![b] = Started(b, n)]
  /\ req' = [req EXCEPT ![r] =
               [op |-> "exchange", on |-> b, step |-> "code_exchange",
                number |-> n, waba |-> a, row |-> Started(b, n),
                route |-> route[b], account |-> account[b]]]
  /\ UNCHANGED business

At(r, step) == Serving(r, "exchange") /\ req[r].step = step

Fails(r) ==
  /\ Save(req[r].on, req[r].row, NeedsAttention(req[r].row))
  /\ End(r)
  /\ UNCHANGED business

\* The commit, and the connection read again.
Proceeds(r, new, step) ==
  /\ Save(req[r].on, req[r].row, new)
  /\ req' = [req EXCEPT ![r].step = step, ![r].row = conn'[req[r].on]]
  /\ UNCHANGED business

ExchangesCode(r) ==
  /\ At(r, "code_exchange")
  /\ \/ /\ conn' = [conn EXCEPT ![req[r].on] =
                      [Saved(@, req[r].row, req[r].row) EXCEPT !.token = "good"]]
        /\ req' = [req EXCEPT ![r].step = "verify_assets", ![r].row = conn'[req[r].on]]
        /\ UNCHANGED business
     \/ Fails(r)

\* Meta shows the token's owner the number and the account, and the indexes have
\* room for them.
VerifiesAssets(r) ==
  LET b == req[r].on
      seen == {req[r].number, req[r].waba} \subseteq CanSee[b]
      new == [req[r].row EXCEPT !.number = req[r].number, !.waba = req[r].waba]
  IN  /\ At(r, "verify_assets")
      /\ \/ seen /\ ~Collides(b, req[r].row, new) /\ Proceeds(r, new, "subscribe_webhooks")
         \/ /\ seen /\ Collides(b, req[r].row, new)
            /\ conn' = [conn EXCEPT ![b] = NeedsAttention(@)]
            /\ End(r) /\ UNCHANGED business
         \/ Fails(r)

SubscribesWebhooks(r) ==
  /\ At(r, "subscribe_webhooks")
  /\ \/ Proceeds(r, req[r].row, "register_phone")
     \/ Fails(r)

\* A number that is registered already counts as registered.
RegistersPhone(r) ==
  /\ At(r, "register_phone")
  /\ \/ Proceeds(r, req[r].row, "claim_routing_number")
     \/ Fails(r)

\* _claim_routing_number.
ClaimsRoutingNumber(r) ==
  LET b == req[r].on
      n == req[r].row.number
  IN  /\ At(r, "claim_routing_number")
      /\ \/ TakenElsewhere(b, n) /\ Fails(r)
         \/ /\ ~TakenElsewhere(b, n)
            /\ Save(b, req[r].row, [req[r].row EXCEPT !.status = "CONNECTED"])
            /\ route' = [route EXCEPT ![b] = SavedColumn(@, req[r].route, n)]
            /\ account' = [account EXCEPT ![b] = SavedColumn(@, req[r].account, req[r].row.waba)]
            /\ End(r) /\ UNCHANGED left

-----------------------------------------------------------------------------
(* The owner's other requests. *)

DisconnectLoads(r, b) ==
  /\ Arrives(r)
  /\ conn[b].status # "NONE"
  /\ req' = [req EXCEPT ![r] = Load(b, "disconnect")]
  /\ UNCHANGED <<conn, business>>

\* A column that still points at what this connection has is emptied: the number is
\* compared with the number, the account with the account.
Cleared(loaded, held) == IF loaded = held THEN None ELSE loaded

\* Whatever Meta answered.
DisconnectCommits(r) ==
  LET b == req[r].on
      row == req[r].row
  IN  /\ Serving(r, "disconnect")
      /\ Save(b, row, [row EXCEPT !.status = "DISCONNECTED", !.token = "none"])
      /\ route' = [route EXCEPT ![b] =
                     SavedColumn(@, req[r].route, Cleared(req[r].route, row.number))]
      /\ account' = [account EXCEPT ![b] =
                       SavedColumn(@, req[r].account, Cleared(req[r].account, row.waba))]
      /\ left' = left \cup {b}
      /\ End(r)

HealthCheckLoads(r, b) ==
  /\ Arrives(r)
  /\ conn[b].status \notin {"NONE", "DISCONNECTED"}
  /\ req' = [req EXCEPT ![r] = Load(b, "health_check")]
  /\ UNCHANGED <<conn, business>>

\* A number Meta still shows is connected again; anything else needs attention.
HealthCheckCommits(r) ==
  LET row == req[r].row
      Recovered == IF row.status = "NEEDS_ATTENTION" THEN "CONNECTED" ELSE row.status
  IN  /\ Serving(r, "health_check")
      /\ \/ /\ row.token = "good" /\ row.number \in CanSee[req[r].on]
            /\ Save(req[r].on, row, [row EXCEPT !.status = Recovered])
         \/ Save(req[r].on, row, NeedsAttention(row))
      /\ End(r) /\ UNCHANGED business

-----------------------------------------------------------------------------
(* Meta. *)

RevokesToken(b) ==
  /\ conn[b].token = "good"
  /\ conn' = [conn EXCEPT ![b].token = "revoked"]
  /\ UNCHANGED <<business, req>>

\* _handle_account_update_event: removed, or restricted.
AccountUpdate(a) ==
  \E b \in Businesses :
    /\ conn[b].waba = a
    /\ \/ conn' = [conn EXCEPT ![b].status = "DISCONNECTED", ![b].token = "none"]
       \/ conn' = [conn EXCEPT ![b] = NeedsAttention(@)]
    /\ UNCHANGED <<business, req>>

-----------------------------------------------------------------------------
(* Whose token a message of b is sent with: resolve_whatsapp_credentials. *)

OwnsRoute(b) == route[b] # None /\ conn[b].number = route[b]

\* Mutant: only the connection's status is asked.
ManagedByStatus(b) == conn[b].status \notin {"NONE", "DISCONNECTED"}

\* The business is, or was left, in the middle of connecting a number of its own.
Managed(b) == conn[b].status \notin {"NONE", "DISCONNECTED"} \/ account[b] # None

Sender(b) ==
  CASE OwnsRoute(b) -> IF conn[b].status = "CONNECTED" /\ conn[b].token # "none"
                       THEN "business" ELSE "nobody"
    [] ~OwnsRoute(b) /\ Managed(b) -> "nobody"
    [] OTHER -> IF route[b] = None THEN "nobody" ELSE "platform"

\* mark_invalid_token: a send, or the test message, met error 190.
MarkInvalidToken(b) ==
  /\ Sender(b) = "business" /\ conn[b].token = "revoked"
  /\ conn' = [conn EXCEPT ![b] = NeedsAttention(@)]
  /\ UNCHANGED <<business, req>>

-----------------------------------------------------------------------------
Step(r) ==
  \/ ExchangesCode(r) \/ VerifiesAssets(r) \/ SubscribesWebhooks(r)
  \/ RegistersPhone(r) \/ ClaimsRoutingNumber(r)
  \/ DisconnectCommits(r) \/ HealthCheckCommits(r)

Meta ==
  \/ \E b \in Businesses : RevokesToken(b) \/ MarkInvalidToken(b)
  \/ \E a \in Accounts : AccountUpdate(a)

Next ==
  \/ \E r \in Requests :
       \/ \E b \in Businesses, n \in Numbers :
            ExchangeRefused(r, b, n) \/ \E a \in Accounts : ExchangeStarts(r, b, n, a)
       \/ \E b \in Businesses : DisconnectLoads(r, b) \/ HealthCheckLoads(r, b)
  \/ (Meta \/ \E r \in Requests : Step(r)) /\ UNCHANGED calls

Spec == Init /\ [][Next]_vars

-----------------------------------------------------------------------------
\* "Never trust the browser's ids": what a connection or a business's own columns
\* hold was shown by Meta to that business's own token, whoever else tried to take it
\* and wherever an attempt broke off (connection_service.py, the note on F1).
ConfirmedByMeta ==
  \A b \in Businesses :
    /\ {conn[b].number, conn[b].waba, account[b]} \subseteq CanSee[b] \cup {None}
    /\ route[b] \in CanSee[b] \cup Platform \cup {None}

\* The platform's token is not used for a customer's number because a reconnection
\* failed, a health check or an attempt wrote back what it had loaded, or Meta removed
\* the account, in any order, and also when the connection is left at another number
\* (token_resolver.py, the note on F2): the owner must have disconnected.
PlatformOnlyAfterLeaving ==
  \A b \in Businesses : Sender(b) = "platform" => route[b] \in Platform \/ b \in left

\* "The platform token is NEVER used for it again" (token_resolver.py).  Does not hold:
\* a number of an account is routed, an attempt at another number of it fails once that
\* is verified, and the owner disconnects.  The account is emptied and the route is not.
PlatformStaysOut ==
  \A b \in Businesses : Sender(b) = "platform" => route[b] \in Platform

\* The page says connected only when the business receives on the number and
\* has a token to answer with.  Does not hold: a health check revives an attempt
\* that failed before its last step, and a disconnection can overtake one.
ConnectedWorks ==
  \A b \in Businesses :
    conn[b].status = "CONNECTED" => OwnsRoute(b) /\ conn[b].token # "none"

\* "Disconnect it there first" (connection_service.py): once that is done, the
\* number is free.  Does not hold after a failed attempt at another number.
DisconnectFrees ==
  \A b \in Businesses : conn[b].status = "DISCONNECTED" => route[b] \notin Numbers
=============================================================================
