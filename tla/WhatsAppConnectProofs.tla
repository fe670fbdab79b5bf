------------------------ MODULE WhatsAppConnectProofs ------------------------
(***************************************************************************)
(* The connections for any number of businesses, numbers and requests.     *)
(*                                                                         *)
(* Nothing is locked, so what a handler has loaded says little about the   *)
(* row it writes.  What saves it: every number and account in either was   *)
(* shown by Meta to the business; a column of the connection, once filled, *)
(* stays filled, so that a copy never has more than the row; and until its *)
(* owner disconnects a business on a number of its own has an account,     *)
(* which is all that keeps the platform's token away from that number.     *)
(***************************************************************************)
EXTENDS WhatsAppConnect, TLAPS

Shown(b, x) == x \in CanSee[b] \cup {None}

Confirmed(b, c) == Shown(b, c.number) /\ Shown(b, c.waba)

\* Row d has a number and an account where c has.
Fills(c, d) == (c.number # None => d.number # None) /\ (c.waba # None => d.waba # None)

SameAssets(c, d) == c.number = d.number /\ c.waba = d.waba

Complete(c) == c.number # None /\ c.waba # None

RowOK(b) ==
  /\ Confirmed(b, conn[b])
  /\ route[b] \in CanSee[b] \cup Platform \cup {None}
  /\ Shown(b, account[b])
  /\ b \notin left /\ route[b] \in Numbers => account[b] # None

Verified == {"subscribe_webhooks", "register_phone", "claim_routing_number"}

\* What a handler has loaded, and what of it the rows still have.
SlotOK(r) ==
  req[r].op # "idle" =>
    /\ Confirmed(req[r].on, req[r].row)
    /\ Fills(req[r].row, conn[req[r].on])
    /\ Shown(req[r].on, req[r].account)
    /\ req[r].on \notin left /\ req[r].account # None => account[req[r].on] # None
    /\ req[r].op = "exchange" /\ req[r].step \in Verified => Complete(req[r].row)

IInv ==
  /\ TypeOK
  /\ \A b \in Businesses : RowOK(b)
  /\ \A r \in Requests : SlotOK(r)

-----------------------------------------------------------------------------
(* Records.                                                                 *)

Attempts ==
  [op : {"exchange"}, on : Businesses, step : Steps, number : Numbers, waba : Accounts,
   row : Connection, route : Numbers \cup Platform \cup {None}, account : Accounts \cup {None}]

\* An UPDATE of the columns that differ from what was loaded.
LEMMA SavedColumns ==
  ASSUME NEW db \in Connection, NEW loaded \in Connection, NEW new \in Connection
  PROVE  /\ Saved(db, loaded, new) \in Connection
         /\ Saved(db, loaded, new).number = SavedColumn(db.number, loaded.number, new.number)
         /\ Saved(db, loaded, new).waba = SavedColumn(db.waba, loaded.waba, new.waba)
<1> DEFINE c == Saved(db, loaded, new)
<1>1. DOMAIN db = {"status", "number", "waba", "token"}
  BY DEF Connection
<1>2. c = [status |-> IF new.status = loaded.status THEN db.status ELSE new.status,
           number |-> IF new.number = loaded.number THEN db.number ELSE new.number,
           waba |-> IF new.waba = loaded.waba THEN db.waba ELSE new.waba,
           token |-> IF new.token = loaded.token THEN db.token ELSE new.token]
  BY <1>1 DEF Saved, Connection
<1> QED
  BY <1>2 DEF Connection, SavedColumn

\* The statuses and tokens that are written leave the number and the account.
LEMMA Columns ==
  ASSUME NEW c \in Connection
  PROVE  /\ \A s \in Statuses :
              [c EXCEPT !.status = s] \in Connection /\ SameAssets([c EXCEPT !.status = s], c)
         /\ \A t \in {"none", "good", "revoked"} :
              [c EXCEPT !.token = t] \in Connection /\ SameAssets([c EXCEPT !.token = t], c)
         /\ \A s \in Statuses, t \in {"none", "good", "revoked"} :
              /\ [c EXCEPT !.status = s, !.token = t] \in Connection
              /\ SameAssets([c EXCEPT !.status = s, !.token = t], c)
BY DEF Connection, SameAssets

\* The number and the account that Meta has confirmed.
LEMMA Filled ==
  ASSUME NEW c \in Connection, NEW n \in Numbers, NEW a \in Accounts
  PROVE  \E new \in Connection :
           new = [c EXCEPT !.number = n, !.waba = a] /\ new.number = n /\ new.waba = a
<1> DEFINE new == [c EXCEPT !.number = n, !.waba = a]
<1>1. new \in Connection /\ new.number = n /\ new.waba = a
  BY DEF Connection
<1> QED
  BY <1>1

\* A row with the same number and account is as good.
LEMMA SameIsAsGood ==
  ASSUME NEW c, NEW d, SameAssets(c, d)
  PROVE  /\ Fills(d, c) /\ (Complete(d) => Complete(c))
         /\ \A b \in Businesses : Confirmed(b, d) => Confirmed(b, c)
         /\ \A e : Fills(e, d) => Fills(e, c)
BY DEF SameAssets, Fills, Complete, Confirmed

\* Saving other columns leaves the number and the account of the row.
LEMMA SavedSame ==
  ASSUME NEW db \in Connection, NEW loaded \in Connection, NEW new \in Connection,
         SameAssets(new, loaded)
  PROVE  Saved(db, loaded, new) \in Connection /\ SameAssets(Saved(db, loaded, new), db)
BY SavedColumns DEF SavedColumn, SameAssets

\* A slot that is not idle has a request's copies of the two rows.
LEMMA SlotShape ==
  ASSUME TypeOK, NEW r \in Requests, req[r].op # "idle"
  PROVE  /\ req[r] \in Loaded
         /\ req[r].on \in Businesses /\ req[r].row \in Connection
         /\ req[r].route \in Numbers \cup Platform \cup {None}
         /\ req[r].account \in Accounts \cup {None}
         /\ req[r].op = "exchange" => req[r] \in Attempts
<1>1. req[r] \in Loaded
  BY DEF TypeOK, Idle
<1> QED
  BY <1>1 DEF Loaded, Attempts

-----------------------------------------------------------------------------
(* What one write does.                                                     *)

\* The row of one connection is written, and a request may end.
LEMMA ConnWritten ==
  ASSUME IInv, NEW b \in Businesses, NEW c \in Connection, conn' = [conn EXCEPT ![b] = c],
         Confirmed(b, c), Fills(conn[b], c),
         UNCHANGED business, calls' \in 0 .. MaxCalls,
         req' \in [Requests -> {Idle} \cup Loaded],
         \A r \in Requests : req'[r] = req[r] \/ req'[r] = Idle \/ SlotOK(r)'
  PROVE  IInv'
<1>1. TypeOK'
  BY DEF IInv, TypeOK, business
<1>2. ASSUME NEW d \in Businesses PROVE RowOK(d)' /\ Fills(conn[d], conn'[d])
  BY DEF IInv, TypeOK, RowOK, Confirmed, Shown, Fills, business
<1>3. ASSUME NEW r \in Requests PROVE SlotOK(r)'
  <2>1. CASE req'[r] = req[r]
    BY <1>2, <2>1, SlotShape DEF IInv, SlotOK, Shown, Confirmed, Fills, business
  <2>2. CASE req'[r] = Idle
    BY <2>2 DEF SlotOK, Idle
  <2> QED
    BY <2>1, <2>2
<1> QED
  BY <1>1, <1>2, <1>3 DEF IInv

\* A handler commits its copy of the connection with some columns changed, and is done.
LEMMA SaveEnds ==
  ASSUME IInv, NEW r \in Requests, req[r].op # "idle", NEW new \in Connection,
         Save(req[r].on, req[r].row, new), End(r), UNCHANGED business, UNCHANGED calls,
         SameAssets(new, req[r].row)
  PROVE  IInv'
<1> DEFINE b == req[r].on
           c == Saved(conn[b], req[r].row, new)
<1>1. b \in Businesses /\ req[r].row \in Connection /\ conn[b] \in Connection
  BY SlotShape DEF IInv, TypeOK
<1>2. c \in Connection /\ SameAssets(c, conn[b])
  BY <1>1, SavedSame
<1>3. conn' = [conn EXCEPT ![b] = c]
  BY DEF Save
<1>4. Confirmed(b, c) /\ Fills(conn[b], c)
  BY <1>1, <1>2, SameIsAsGood DEF IInv, RowOK
<1>5. /\ req' \in [Requests -> {Idle} \cup Loaded]
      /\ \A s \in Requests : req'[s] = req[s] \/ req'[s] = Idle
  BY DEF End, IInv, TypeOK
<1>6. calls' \in 0 .. MaxCalls
  BY DEF IInv, TypeOK
<1> HIDE DEF b, c
<1> QED
  BY <1>1, <1>2, <1>3, <1>4, <1>5, <1>6, ConnWritten

LEMMA FailKeeps ==
  ASSUME IInv, NEW r \in Requests, req[r].op # "idle", Fails(r), UNCHANGED calls
  PROVE  IInv'
<1>1. req[r].row \in Connection
  BY SlotShape DEF IInv
<1>2. NeedsAttention(req[r].row) \in Connection /\ SameAssets(NeedsAttention(req[r].row), req[r].row)
  BY <1>1, Columns DEF NeedsAttention, Statuses
<1> QED
  BY <1>2, SaveEnds DEF Fails

\* The copy of an attempt moves on with the connection as it now is.
LEMMA AttemptMoves ==
  ASSUME IInv, NEW r \in Requests, req[r].op = "exchange", NEW step \in Steps, NEW c \in Connection,
         conn' = [conn EXCEPT ![req[r].on] = c],
         req' = [req EXCEPT ![r].step = step, ![r].row = conn'[req[r].on]],
         Confirmed(req[r].on, c), Fills(conn[req[r].on], c),
         step \in Verified => Complete(c),
         UNCHANGED business, UNCHANGED calls
  PROVE  IInv'
<1> DEFINE b == req[r].on
           new == [op |-> "exchange", on |-> b, step |-> step, number |-> req[r].number,
                   waba |-> req[r].waba, row |-> c,
                   route |-> req[r].route, account |-> req[r].account]
<1>1. req[r] \in Attempts /\ b \in Businesses /\ req \in [Requests -> {Idle} \cup Loaded]
  BY SlotShape DEF IInv, TypeOK
<1>2. conn'[b] = c
  BY <1>1 DEF IInv, TypeOK
<1>3. \A k \in Attempts :
        [k EXCEPT !.step = step, !.row = c]
          = [op |-> "exchange", on |-> k.on, step |-> step, number |-> k.number, waba |-> k.waba,
             row |-> c, route |-> k.route, account |-> k.account]
  <2>1. ASSUME NEW k \in Attempts
        PROVE  [k EXCEPT !.step = step, !.row = c]
                 = [op |-> "exchange", on |-> k.on, step |-> step, number |-> k.number, waba |-> k.waba,
                    row |-> c, route |-> k.route, account |-> k.account]
    <3> DEFINE g == [k EXCEPT !.step = step, !.row = c]
    <3>1. g \in Attempts
      BY DEF Attempts
    <3>2. /\ g.op = "exchange" /\ g.on = k.on /\ g.step = step /\ g.number = k.number
          /\ g.waba = k.waba /\ g.row = c /\ g.route = k.route /\ g.account = k.account
      BY DEF Attempts
    <3> HIDE DEF g
    <3>3. g = [op |-> g.op, on |-> g.on, step |-> g.step, number |-> g.number, waba |-> g.waba,
               row |-> g.row, route |-> g.route, account |-> g.account]
      BY <3>1 DEF Attempts
    <3> QED
      BY <3>2, <3>3 DEF g
  <2> QED
    BY <2>1
<1>4. req' = [req EXCEPT ![r] = new]
  <2> DEFINE k == req[r]
  <2>1. req' = [req EXCEPT ![r] = [k EXCEPT !.step = step, !.row = c]]
    BY <1>2, Zenon
  <2> QED
    BY <1>1, <1>3, <2>1, Zenon
<1>5. new \in Loaded
  BY <1>1 DEF Loaded, Attempts
<1>6. /\ new.op = "exchange" /\ new.on = b /\ new.step = step /\ new.row = c
      /\ new.account = req[r].account
  OBVIOUS
<1> HIDE DEF new
<1>7. req' \in [Requests -> {Idle} \cup Loaded] /\ req'[r] = new /\ \A s \in Requests \ {r} : req'[s] = req[s]
  BY <1>1, <1>4, <1>5
<1>8. SlotOK(r)'
  <2>1. Fills(c, c)
    BY DEF Fills
  <2>2. /\ Shown(b, req[r].account)
        /\ b \notin left /\ req[r].account # None => account[b] # None
    BY DEF IInv, SlotOK
  <2> HIDE DEF b
  <2> QED
    BY <1>2, <1>6, <1>7, <2>1, <2>2 DEF SlotOK, business, Confirmed, Shown, Fills, b
<1>9. calls' \in 0 .. MaxCalls
  BY DEF IInv, TypeOK
<1> HIDE DEF b
<1> QED
  BY <1>1, <1>7, <1>8, <1>9, ConnWritten DEF b

\* A request arrives, and takes a copy of what the database has.
LEMMA SlotTaken ==
  ASSUME IInv, NEW r \in Requests, Arrives(r), NEW b \in Businesses, NEW c \in Connection,
         conn' = [conn EXCEPT ![b] = c], SameAssets(c, conn[b]),
         UNCHANGED business, NEW new \in Loaded,
         req' = [req EXCEPT ![r] = new],
         new.on = b, new.row = c, new.account = account[b],
         new.op = "exchange" => new.step \notin Verified
  PROVE  IInv'
<1>1. calls' \in 0 .. MaxCalls
  BY ConnectAssumption DEF Arrives, IInv, TypeOK
<1>2. /\ req' \in [Requests -> {Idle} \cup Loaded]
      /\ req'[r] = new /\ \A s \in Requests \ {r} : req'[s] = req[s]
  BY DEF IInv, TypeOK
<1>3. RowOK(b) /\ conn'[b] = c
  BY DEF IInv, TypeOK
<1>4. Confirmed(b, c) /\ Fills(conn[b], c) /\ Fills(c, c)
  BY <1>3, SameIsAsGood DEF RowOK, Fills
<1>5. SlotOK(r)'
  BY <1>2, <1>3, <1>4 DEF SlotOK, RowOK, Shown, Confirmed, Fills, business
<1> QED
  BY <1>1, <1>2, <1>4, <1>5, ConnWritten

\* A request's last step writes the connection and the two columns of the business.
LEMMA BusinessWritten ==
  ASSUME IInv, NEW r \in Requests, req[r].op # "idle", NEW new \in Connection,
         Save(req[r].on, req[r].row, new), End(r), UNCHANGED calls,
         SameAssets(new, req[r].row),
         NEW n \in CanSee[req[r].on] \cup Platform \cup {None}, NEW a \in Accounts \cup {None},
         n \in Numbers \cup Platform \cup {None}, Shown(req[r].on, a),
         route' = [route EXCEPT ![req[r].on] = n], account' = [account EXCEPT ![req[r].on] = a],
         left \subseteq left', left' \subseteq Businesses,
         req[r].on \in left' \/ a # None
  PROVE  IInv'
<1> DEFINE b == req[r].on
           c == Saved(conn[b], req[r].row, new)
<1>1. b \in Businesses /\ req[r].row \in Connection /\ conn[b] \in Connection
  BY SlotShape DEF IInv, TypeOK
<1>2. c \in Connection /\ SameAssets(c, conn[b])
  BY <1>1, SavedSame
<1>3. conn' = [conn EXCEPT ![b] = c]
  BY DEF Save
<1>4. Confirmed(b, c) /\ Fills(conn[b], c)
  BY <1>1, <1>2, SameIsAsGood DEF IInv, RowOK
<1> HIDE DEF b, c
<1>5. TypeOK'
  BY <1>1, <1>2, <1>3 DEF End, IInv, TypeOK, b
<1>6. ASSUME NEW d \in Businesses
      PROVE  RowOK(d)' /\ Fills(conn[d], conn'[d]) /\ (d \notin left' /\ account[d] # None => account'[d] # None)
  <2>1. RowOK(d)
    BY DEF IInv
  <2>2. CASE d = b
    BY <1>1, <1>3, <1>4, <2>2 DEF IInv, TypeOK, RowOK, Shown, Confirmed, b
  <2>3. CASE d # b
    BY <1>3, <2>1, <2>3 DEF IInv, TypeOK, RowOK, Shown, Confirmed, Fills, b
  <2> QED
    BY <2>2, <2>3
<1>7. ASSUME NEW s \in Requests PROVE SlotOK(s)'
  <2>1. CASE s = r
    BY <2>1 DEF SlotOK, End, Idle, IInv, TypeOK
  <2>2. CASE s # r
    <3>1. req'[s] = req[s] /\ SlotOK(s)
      BY <2>2 DEF End, IInv, TypeOK
    <3>2. req[s].op # "idle" => req[s].on \in Businesses
      BY SlotShape DEF IInv
    <3> QED
      BY <1>6, <3>1, <3>2 DEF SlotOK, Shown, Confirmed, Fills
  <2> QED
    BY <2>1, <2>2
<1> QED
  BY <1>5, <1>6, <1>7 DEF IInv

\* _claim_routing_number takes what Meta confirmed for the attempt.  The account is not
\* left empty: what was loaded was emptied since by a disconnection only.
LEMMA ClaimKeeps ==
  ASSUME IInv, NEW r \in Requests, ClaimsRoutingNumber(r), UNCHANGED calls
  PROVE  IInv'
<1> DEFINE b == req[r].on
           row == req[r].row
           n == row.number
           a == row.waba
<1>1. /\ req[r].op = "exchange" /\ b \in Businesses /\ row \in Connection
      /\ Complete(row) /\ Confirmed(b, row)
      /\ b \notin left /\ req[r].account # None => account[b] # None
  BY SlotShape DEF ClaimsRoutingNumber, At, Serving, IInv, SlotOK, Verified
<1>2. n \in CanSee[b] /\ n \in Numbers /\ a \in CanSee[b] /\ a \in Accounts /\ a # None
  BY <1>1, ConnectAssumption DEF Shown, Confirmed, Complete, Connection
<1>3. RowOK(b) /\ route[b] \in Numbers \cup Platform \cup {None} /\ account[b] \in Accounts \cup {None}
  BY <1>1 DEF IInv, TypeOK
<1>4. CASE Fails(r)
  BY <1>1, <1>4, FailKeeps
<1>5. CASE ~Fails(r)
  <2> DEFINE new == [row EXCEPT !.status = "CONNECTED"]
             to == SavedColumn(route[b], req[r].route, n)
             acct == SavedColumn(account[b], req[r].account, a)
  <2>1. new \in Connection /\ SameAssets(new, row)
    BY <1>1, Columns DEF Statuses
  <2>2. /\ Save(b, row, new) /\ End(r) /\ UNCHANGED left
        /\ route' = [route EXCEPT ![b] = to] /\ account' = [account EXCEPT ![b] = acct]
    BY <1>5 DEF ClaimsRoutingNumber
  <2>3. b \in left \/ acct # None
    BY <1>1, <1>2 DEF SavedColumn
  <2>4. /\ to \in CanSee[b] \cup Platform \cup {None} /\ to \in Numbers \cup Platform \cup {None}
        /\ acct \in Accounts \cup {None} /\ Shown(b, acct)
    BY <1>2, <1>3 DEF SavedColumn, RowOK, Shown
  <2>5. left \subseteq left' /\ left' \subseteq Businesses
    BY <2>2 DEF IInv, TypeOK
  <2> HIDE DEF new, to, acct
  <2> QED
    BY <1>1, <2>1, <2>2, <2>3, <2>4, <2>5, BusinessWritten
<1> QED
  BY <1>4, <1>5

\* A disconnection empties each column on its own, and its owner has left.
LEMMA DisconnectKeeps ==
  ASSUME IInv, NEW r \in Requests, DisconnectCommits(r), UNCHANGED calls
  PROVE  IInv'
<1> DEFINE b == req[r].on
           row == req[r].row
           new == [row EXCEPT !.status = "DISCONNECTED", !.token = "none"]
           to == SavedColumn(route[b], req[r].route, Cleared(req[r].route, row.number))
           acct == SavedColumn(account[b], req[r].account, Cleared(req[r].account, row.waba))
<1>1. req[r].op = "disconnect" /\ b \in Businesses /\ row \in Connection
  BY SlotShape DEF DisconnectCommits, Serving, IInv
<1>2. RowOK(b) /\ route[b] \in Numbers \cup Platform \cup {None} /\ account[b] \in Accounts \cup {None}
  BY <1>1 DEF IInv, TypeOK
<1>3. new \in Connection /\ SameAssets(new, row)
  BY <1>1, Columns DEF Statuses
<1>4. /\ Save(b, row, new) /\ End(r)
      /\ route' = [route EXCEPT ![b] = to] /\ account' = [account EXCEPT ![b] = acct]
      /\ left' = left \cup {b}
  BY DEF DisconnectCommits
<1>5. /\ to \in CanSee[b] \cup Platform \cup {None} /\ to \in Numbers \cup Platform \cup {None}
      /\ acct \in Accounts \cup {None} /\ Shown(b, acct)
  BY <1>2 DEF SavedColumn, Cleared, RowOK, Shown
<1>6. left \subseteq left' /\ left' \subseteq Businesses /\ b \in left'
  BY <1>1, <1>4 DEF IInv, TypeOK
<1> HIDE DEF new, to, acct
<1> QED
  BY <1>1, <1>3, <1>4, <1>5, <1>6, BusinessWritten

-----------------------------------------------------------------------------
(* The steps.                                                               *)

\* What is only read by Meta's events and by the sender is written at once.
LEMMA EventKeeps ==
  ASSUME IInv, NEW b \in Businesses, NEW c \in Connection, conn' = [conn EXCEPT ![b] = c],
         SameAssets(c, conn[b]), UNCHANGED <<business, req>>, calls' \in 0 .. MaxCalls
  PROVE  IInv'
<1>1. req' \in [Requests -> {Idle} \cup Loaded] /\ \A r \in Requests : req'[r] = req[r]
  BY DEF IInv, TypeOK
<1>2. Confirmed(b, c) /\ Fills(conn[b], c)
  BY SameIsAsGood DEF IInv, TypeOK, RowOK
<1> QED
  BY <1>1, <1>2, ConnWritten

LEMMA MetaKeeps ==
  ASSUME IInv, Meta, UNCHANGED calls
  PROVE  IInv'
<1>0. calls' \in 0 .. MaxCalls /\ conn \in [Businesses -> Connection]
  BY DEF IInv, TypeOK
<1>1. ASSUME NEW b \in Businesses, RevokesToken(b) PROVE IInv'
  <2> DEFINE old == conn[b]
             c == [old EXCEPT !.token = "revoked"]
  <2>1. c \in Connection /\ SameAssets(c, conn[b])
    BY <1>0, Columns
  <2>2. conn' = [conn EXCEPT ![b] = c] /\ UNCHANGED <<business, req>>
    BY <1>1, Zenon DEF RevokesToken
  <2> HIDE DEF c
  <2> QED
    BY <1>0, <2>1, <2>2, EventKeeps
<1>2. ASSUME NEW b \in Businesses, conn' = [conn EXCEPT ![b] = NeedsAttention(conn[b])],
             UNCHANGED <<business, req>>
      PROVE  IInv'
  <2>1. NeedsAttention(conn[b]) \in Connection /\ SameAssets(NeedsAttention(conn[b]), conn[b])
    BY <1>0, Columns DEF NeedsAttention, Statuses
  <2> QED
    BY <1>0, <1>2, <2>1, EventKeeps
<1>3. ASSUME NEW b \in Businesses, MarkInvalidToken(b) PROVE IInv'
  BY <1>2, <1>3 DEF MarkInvalidToken
<1>4. ASSUME NEW a \in Accounts, AccountUpdate(a) PROVE IInv'
  <2>1. PICK b \in Businesses :
          /\ \/ conn' = [conn EXCEPT ![b].status = "DISCONNECTED", ![b].token = "none"]
             \/ conn' = [conn EXCEPT ![b] = NeedsAttention(@)]
          /\ UNCHANGED <<business, req>>
    BY <1>4, Zenon DEF AccountUpdate
  <2>2. CASE conn' = [conn EXCEPT ![b].status = "DISCONNECTED", ![b].token = "none"]
    <3> DEFINE old == conn[b]
               c == [old EXCEPT !.status = "DISCONNECTED", !.token = "none"]
    <3>1. c \in Connection /\ SameAssets(c, conn[b])
      BY <1>0, Columns DEF Statuses
    <3>2. conn' = [conn EXCEPT ![b] = c]
      BY <2>2, Zenon
    <3> HIDE DEF c
    <3> QED
      BY <1>0, <2>1, <3>1, <3>2, EventKeeps
  <2> QED
    BY <1>2, <2>1, <2>2, Zenon
<1> QED
  BY <1>1, <1>3, <1>4 DEF Meta

\* An attempt's commit, with what it had or what Meta has shown.
LEMMA ProceedKeeps ==
  ASSUME IInv, NEW r \in Requests, req[r].op = "exchange", NEW new \in Connection, NEW step \in Steps,
         Proceeds(r, new, step), UNCHANGED calls,
         SameAssets(new, req[r].row) \/ {new.number, new.waba} \subseteq CanSee[req[r].on],
         step \in Verified => Complete(new)
  PROVE  IInv'
<1> DEFINE b == req[r].on
           c == Saved(conn[b], req[r].row, new)
<1>1. /\ b \in Businesses /\ req[r].row \in Connection /\ conn[b] \in Connection
      /\ Confirmed(b, conn[b]) /\ Fills(req[r].row, conn[b])
  BY SlotShape DEF IInv, TypeOK, SlotOK, RowOK
<1>2. /\ c \in Connection
      /\ c.number = SavedColumn(conn[b].number, req[r].row.number, new.number)
      /\ c.waba = SavedColumn(conn[b].waba, req[r].row.waba, new.waba)
  BY <1>1, SavedColumns
<1>3. conn' = [conn EXCEPT ![b] = c]
  BY DEF Proceeds, Save
<1>4. req' = [req EXCEPT ![r].step = step, ![r].row = conn'[req[r].on]] /\ UNCHANGED business
  BY Zenon DEF Proceeds
<1>5. None \notin CanSee[b]
  BY <1>1, ConnectAssumption
<1> HIDE DEF b, c
<1>6. Confirmed(b, c)
  BY <1>1, <1>2 DEF SavedColumn, Shown, Confirmed, SameAssets, b
<1>7. Fills(conn[b], c) /\ (step \in Verified => Complete(c))
  BY <1>1, <1>2, <1>5 DEF SavedColumn, Fills, Complete, SameAssets, b
<1> QED
  BY <1>2, <1>3, <1>4, <1>6, <1>7, AttemptMoves DEF b

\* The attempt's number and account are written once Meta has shown both.
LEMMA AssetsKeep ==
  ASSUME IInv, NEW r \in Requests, At(r, "verify_assets"), UNCHANGED calls,
         {req[r].number, req[r].waba} \subseteq CanSee[req[r].on],
         Proceeds(r, [req[r].row EXCEPT !.number = req[r].number, !.waba = req[r].waba],
                  "subscribe_webhooks")
  PROVE  IInv'
<1>1. req[r].op = "exchange" /\ req[r] \in Attempts
  BY SlotShape DEF At, Serving, IInv
<1>2. PICK row \in Connection, n \in Numbers, a \in Accounts :
        row = req[r].row /\ n = req[r].number /\ a = req[r].waba
  BY <1>1 DEF Attempts
<1>3. PICK new \in Connection :
        new = [row EXCEPT !.number = n, !.waba = a] /\ new.number = n /\ new.waba = a
  BY Filled
<1>4. Proceeds(r, new, "subscribe_webhooks")
  BY <1>2, <1>3, Zenon
<1>5. Complete(new) /\ {new.number, new.waba} \subseteq CanSee[req[r].on]
  BY <1>2, <1>3, ConnectAssumption DEF Complete
<1>6. "subscribe_webhooks" \in Steps
  BY DEF Steps
<1> QED
  BY <1>1, <1>4, <1>5, <1>6, ProceedKeeps

LEMMA StepKeeps ==
  ASSUME IInv, NEW r \in Requests, Step(r), UNCHANGED calls
  PROVE  IInv'
<1>1. ASSUME NEW step, At(r, step)
      PROVE  /\ req[r].op = "exchange" /\ req[r] \in Attempts /\ req[r].row \in Connection
             /\ req[r].on \in Businesses /\ conn[req[r].on] \in Connection
             /\ step \in Verified => Complete(req[r].row)
             /\ RowOK(req[r].on) /\ SlotOK(r)
  BY <1>1, SlotShape DEF At, Serving, IInv, TypeOK, SlotOK
<1>2. CASE ExchangesCode(r)
  <2>1. At(r, "code_exchange")
    BY <1>2 DEF ExchangesCode
  <2>2. CASE Fails(r)
    BY <1>1, <2>1, <2>2, FailKeeps
  <2>3. CASE ~Fails(r)
    <3> DEFINE b == req[r].on
               same == Saved(conn[b], req[r].row, req[r].row)
               c == [same EXCEPT !.token = "good"]
    <3>1. same \in Connection /\ SameAssets(same, conn[b])
      BY <1>1, <2>1, SavedSame DEF SameAssets
    <3> HIDE DEF same
    <3>2. c \in Connection /\ SameAssets(c, conn[b])
      <4>1. c \in Connection /\ SameAssets(c, same)
        BY <3>1, Columns
      <4> QED
        BY <3>1, <4>1 DEF SameAssets
    <3> USE DEF same
    <3>3. conn' = [conn EXCEPT ![b] = c]
      BY <1>2, <2>3, Zenon DEF ExchangesCode
    <3>4. req' = [req EXCEPT ![r].step = "verify_assets", ![r].row = conn'[req[r].on]] /\ UNCHANGED business
      BY <1>2, <2>3, Zenon DEF ExchangesCode
    <3>5. Confirmed(b, c) /\ Fills(conn[b], c)
      BY <1>1, <2>1, <3>2, SameIsAsGood DEF RowOK
    <3> HIDE DEF c
    <3>6. ASSUME NEW step, step = "verify_assets" PROVE step \in Steps /\ step \notin Verified
      BY <3>6 DEF Steps, Verified
    <3> QED
      BY <1>1, <2>1, <3>2, <3>3, <3>4, <3>5, <3>6, AttemptMoves
  <2> QED
    BY <2>2, <2>3
<1>3. CASE VerifiesAssets(r)
  <2> DEFINE b == req[r].on
  <2>1. At(r, "verify_assets")
    BY <1>3 DEF VerifiesAssets
  <2>3. CASE Fails(r)
    BY <1>1, <2>1, <2>3, FailKeeps
  <2>4. ASSUME {req[r].number, req[r].waba} \subseteq CanSee[b],
               Proceeds(r, [req[r].row EXCEPT !.number = req[r].number, !.waba = req[r].waba],
                        "subscribe_webhooks")
        PROVE  IInv'
    BY <2>1, <2>4, AssetsKeep
  <2>5. ASSUME conn' = [conn EXCEPT ![b] = NeedsAttention(@)], End(r), UNCHANGED business PROVE IInv'
    <3> DEFINE c == NeedsAttention(conn[b])
    <3>1. c \in Connection /\ SameAssets(c, conn[b])
      BY <1>1, <2>1, Columns DEF NeedsAttention, Statuses
    <3>2. /\ req' \in [Requests -> {Idle} \cup Loaded]
          /\ \A s \in Requests : req'[s] = req[s] \/ req'[s] = Idle
      BY <2>5 DEF End, IInv, TypeOK
    <3>3. calls' \in 0 .. MaxCalls
      BY DEF IInv, TypeOK
    <3>4. conn' = [conn EXCEPT ![b] = c]
      BY <2>5
    <3>5. b \in Businesses /\ Confirmed(b, c) /\ Fills(conn[b], c)
      BY <1>1, <2>1, <3>1, SameIsAsGood DEF RowOK
    <3> HIDE DEF c, b
    <3> QED
      BY <2>5, <3>1, <3>2, <3>3, <3>4, <3>5, ConnWritten
  <2> QED
    BY <1>3, <2>3, <2>4, <2>5, Zenon DEF VerifiesAssets
<1>4. CASE SubscribesWebhooks(r)
  <2>1. At(r, "subscribe_webhooks") /\ "subscribe_webhooks" \in Verified /\ "register_phone" \in Steps
    BY <1>4 DEF SubscribesWebhooks, Verified, Steps
  <2>2. SameAssets(req[r].row, req[r].row)
    BY DEF SameAssets
  <2>3. Fails(r) \/ Proceeds(r, req[r].row, "register_phone")
    BY <1>4 DEF SubscribesWebhooks
  <2> QED
    BY <1>1, <2>1, <2>2, <2>3, FailKeeps, ProceedKeeps
<1>5. CASE RegistersPhone(r)
  <2>1. At(r, "register_phone") /\ "register_phone" \in Verified /\ "claim_routing_number" \in Steps
    BY <1>5 DEF RegistersPhone, Verified, Steps
  <2>2. SameAssets(req[r].row, req[r].row)
    BY DEF SameAssets
  <2>3. Fails(r) \/ Proceeds(r, req[r].row, "claim_routing_number")
    BY <1>5 DEF RegistersPhone
  <2> QED
    BY <1>1, <2>1, <2>2, <2>3, FailKeeps, ProceedKeeps
<1>6. CASE HealthCheckCommits(r)
  <2>1. req[r].op = "health_check" /\ req[r].row \in Connection
    BY <1>6, SlotShape DEF HealthCheckCommits, Serving, IInv
  <2>2. ASSUME NEW new \in Connection, SameAssets(new, req[r].row), Save(req[r].on, req[r].row, new),
               End(r), UNCHANGED business
        PROVE  IInv'
    BY <2>1, <2>2, SaveEnds
  <2>3. \A s \in Statuses :
          [req[r].row EXCEPT !.status = s] \in Connection
          /\ SameAssets([req[r].row EXCEPT !.status = s], req[r].row)
    BY <2>1, Columns
  <2>4. \E s \in Statuses : Save(req[r].on, req[r].row, [req[r].row EXCEPT !.status = s])
    <3>1. req[r].row.status \in Statuses /\ "CONNECTED" \in Statuses /\ "NEEDS_ATTENTION" \in Statuses
      BY <2>1 DEF Connection, Statuses
    <3> QED
      BY <1>6, <3>1, Zenon DEF HealthCheckCommits, NeedsAttention
  <2>5. End(r) /\ UNCHANGED business
    BY <1>6 DEF HealthCheckCommits
  <2> QED
    BY <2>2, <2>3, <2>4, <2>5, Zenon
<1> QED
  BY <1>2, <1>3, <1>4, <1>5, <1>6, ClaimKeeps, DisconnectKeeps DEF Step

\* An owner's request is refused, or takes a slot.
LEMMA RequestKeeps ==
  ASSUME IInv, NEW r \in Requests, NEW b \in Businesses,
         \/ \E n \in Numbers : ExchangeRefused(r, b, n) \/ \E a \in Accounts : ExchangeStarts(r, b, n, a)
         \/ DisconnectLoads(r, b) \/ HealthCheckLoads(r, b)
  PROVE  IInv'
<1>1. /\ conn \in [Businesses -> Connection] /\ conn[b] \in Connection /\ route[b] \in Numbers \cup Platform \cup {None}
      /\ account[b] \in Accounts \cup {None}
  BY DEF IInv, TypeOK
<1>2. ASSUME Arrives(r) PROVE calls' \in 0 .. MaxCalls
  BY <1>2, ConnectAssumption DEF Arrives, IInv, TypeOK
<1>3. ASSUME NEW n \in Numbers, ExchangeRefused(r, b, n) PROVE IInv'
  <2>1. NeedsAttention(conn[b]) \in Connection /\ SameAssets(NeedsAttention(conn[b]), conn[b])
    BY <1>1, Columns DEF NeedsAttention, Statuses
  <2>2. conn' = [conn EXCEPT ![b] = NeedsAttention(conn[b])] /\ UNCHANGED <<business, req>> /\ Arrives(r)
    BY <1>3 DEF ExchangeRefused
  <2> QED
    BY <1>2, <2>1, <2>2, EventKeeps
<1>4. ASSUME NEW n \in Numbers, NEW a \in Accounts, ExchangeStarts(r, b, n, a) PROVE IInv'
  <2> DEFINE c == Started(b, n)
             new == [op |-> "exchange", on |-> b, step |-> "code_exchange", number |-> n,
                     waba |-> a, row |-> c, route |-> route[b], account |-> account[b]]
  <2>1. c \in Connection /\ SameAssets(c, conn[b])
    <3>1. "PENDING" \in Statuses
      BY DEF Statuses
    <3>2. [conn[b] EXCEPT !.status = "PENDING"] \in Connection
          /\ SameAssets([conn[b] EXCEPT !.status = "PENDING"], conn[b])
      BY <1>1, <3>1, Columns
    <3> QED
      BY <3>2 DEF Started
  <2>2. /\ Arrives(r) /\ conn' = [conn EXCEPT ![b] = c] /\ req' = [req EXCEPT ![r] = new]
        /\ UNCHANGED business
    BY <1>4 DEF ExchangeStarts
  <2> HIDE DEF c
  <2>3. new \in Loaded
    BY <1>1, <2>1 DEF Loaded, Steps
  <2>4. /\ new.on = b /\ new.row = c /\ new.account = account[b]
        /\ new.step \notin Verified
    BY DEF Verified
  <2> HIDE DEF new
  <2> QED
    BY <2>1, <2>2, <2>3, <2>4, SlotTaken
<1>5. ASSUME NEW op \in {"disconnect", "health_check"}, Arrives(r), req' = [req EXCEPT ![r] = Load(b, op)],
             UNCHANGED <<conn, business>>
      PROVE  IInv'
  <2>1. Load(b, op) \in Loaded
    BY <1>1 DEF Load, Loaded
  <2>2. /\ Load(b, op).on = b /\ Load(b, op).row = conn[b]
        /\ Load(b, op).account = account[b] /\ Load(b, op).op # "exchange"
    BY DEF Load
  <2>3. conn' = [conn EXCEPT ![b] = conn[b]] /\ SameAssets(conn[b], conn[b])
    BY <1>1, <1>5 DEF SameAssets
  <2> QED
    BY <1>1, <1>5, <2>1, <2>2, <2>3, SlotTaken
<1> QED
  BY <1>3, <1>4, <1>5 DEF DisconnectLoads, HealthCheckLoads

LEMMA InitInv ==
  ASSUME Init
  PROVE  IInv
<1>1. TypeOK
  <2>1. [status |-> "NONE", number |-> None, waba |-> None, token |-> "none"] \in Connection
    BY DEF Connection, Statuses
  <2> QED
    BY <2>1, ConnectAssumption DEF Init, TypeOK
<1>2. ASSUME NEW b \in Businesses PROVE RowOK(b)
  BY ConnectAssumption DEF Init, RowOK, Shown, Confirmed
<1>3. ASSUME NEW r \in Requests PROVE SlotOK(r)
  BY DEF Init, SlotOK, Idle
<1> QED
  BY <1>1, <1>2, <1>3 DEF IInv

\* Every step keeps the invariant.
LEMMA StepInv ==
  ASSUME IInv, [Next]_vars
  PROVE  IInv'
<1>1. CASE UNCHANGED vars
  BY <1>1 DEF vars, IInv, TypeOK, RowOK, Shown, Confirmed, Fills, SlotOK
<1> QED
  BY <1>1, RequestKeeps, MetaKeeps, StepKeeps DEF Next

-----------------------------------------------------------------------------
(* The theorems.                                                            *)

\* In every behaviour what the rows and the copies of handlers hold was shown by Meta, a
\* copy has no column that the row lacks, and a business that routes a number of its own
\* has an account until its owner disconnects (connection_service.py).
THEOREM ConnectionInvariant == Spec => []IInv
<1>1. Init => IInv
  BY InitInv
<1>2. IInv /\ [Next]_vars => IInv'
  BY StepInv
<1> QED
  BY <1>1, <1>2, PTL DEF Spec

\* No connection and no column of a business ever holds a number or an account that Meta did
\* not show to that business's own token, whatever the browser named (connection_service.py).
THEOREM NumbersAreConfirmed == Spec => []ConfirmedByMeta
<1>1. IInv => ConfirmedByMeta
  BY DEF IInv, RowOK, Shown, Confirmed, ConfirmedByMeta
<1> QED
  BY <1>1, ConnectionInvariant, PTL

\* Until its owner disconnects, the platform's token never sends for a business on a number
\* of its own, wherever attempts, checks and events left the connection (token_resolver.py).
THEOREM ThePlatformComesAfterLeaving == Spec => []PlatformOnlyAfterLeaving
<1>1. ASSUME IInv, NEW b \in Businesses, Sender(b) = "platform", b \notin left
      PROVE  route[b] \in Platform
  <2>1. RowOK(b) /\ route[b] \in Numbers \cup Platform \cup {None}
    BY <1>1 DEF IInv, TypeOK
  <2>2. ~Managed(b) /\ route[b] # None
    BY <1>1 DEF Sender
  <2>3. account[b] = None
    BY <2>2 DEF Managed
  <2> QED
    BY <1>1, <2>1, <2>2, <2>3 DEF RowOK
<1>2. IInv => PlatformOnlyAfterLeaving
  BY <1>1 DEF PlatformOnlyAfterLeaving
<1> QED
  BY <1>2, ConnectionInvariant, PTL

=============================================================================
