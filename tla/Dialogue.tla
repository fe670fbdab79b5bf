------------------------------ MODULE Dialogue ------------------------------
(***************************************************************************)
(* The WhatsApp conversation in which a customer orders: one customer, one *)
(* conversation row, one message handled at a time under the row's lock.   *)
(*                                                                         *)
(* A message is a text of a class that the keyword rules of intent_router  *)
(* and the menu matching tell apart, with the dish it names.  Handles is   *)
(* the order in which _handle_message tries its branches; one action per   *)
(* branch.  What the language model answers is any of the actions its      *)
(* reply can be parsed into.                                               *)
(*                                                                         *)
(* A cart line is a dish as the summary words it: an option, a modifier or *)
(* an add-on makes it another dish, and Answered pairs a dish that lacks a *)
(* required option with the one that has it.  The lines are a bag.         *)
(* confirmed_cart is left out: the code locks it again from the cart right *)
(* before it is used.  Left out too are prices, the text of the notes, the *)
(* order a session supersedes (OrderLifecycle has it), and answers that    *)
(* change nothing: specials, hours, location, tracking, the cart on        *)
(* request.                                                                *)
(***************************************************************************)
EXTENDS Naturals, FiniteSets, FiniteSetsExt, Functions

CONSTANTS
  Dishes,                 \* items ordered by name, as a cart line says them
  Answered,               \* a dish that lacks its required option -> the dish with it
  Variants,               \* items of a family, "<family>: <variant>"
  NoLine, NoOrder,
  MaxOrders,              \* the shop's daily limit of orders
  DeliveryEnabled,        \* business settings
  NameRequired,
  PhoneRequired,
  OnlinePaymentRequired,
  MaxUnits                \* bound: units in the cart

ASSUME DialogueAssumption ==
  /\ DOMAIN Answered \subseteq Dishes /\ Dishes \cap Variants = {}
  /\ \A d \in DOMAIN Answered : Answered[d] \in Dishes \ DOMAIN Answered
  /\ IsInjective(Answered)
  /\ NoOrder \notin 1 .. MaxOrders /\ MaxOrders \in Nat /\ MaxUnits \in Nat \ {0}
  /\ {DeliveryEnabled, NameRequired, PhoneRequired, OnlinePaymentRequired} \subseteq BOOLEAN

VARIABLES
  session,   \* conversation_sessions: state and context_json
  orders,    \* the customer's orders, oldest first: 1 .. MaxOrders
  onRecord,  \* whether customers.phone_number is known
  known,     \* whether the customer has been told all of what is in the cart
  told,      \* what a customer who has made up their mind was last asked, or told
  focused    \* the customer has made up their mind and answers questions

vars == <<session, orders, onRecord, known, told, focused>>

Orders == 1 .. MaxOrders
Lines == Dishes \cup Variants

Carts == [Lines -> 0 .. MaxUnits]
Empty == [l \in Lines |-> 0]
Units(cart) == SumFunction(cart)
Plus(cart, l) == [cart EXCEPT ![l] = @ + 1]

\* A required option group that the line does not answer.
Missing(l) == l \in DOMAIN Answered

\* The same menu item, with its option and without.
Other == [l \in DOMAIN Answered \cup Range(Answered) |->
            IF Missing(l) THEN Answered[l] ELSE CHOOSE d \in DOMAIN Answered : Answered[d] = l]
Optioned == DOMAIN Other
SameItem(l, x) == l = x \/ (l \in Optioned /\ x = Other[l])

States == {"IDLE", "GREETING", "BROWSING_MENU", "BUILDING_CART", "CHOOSING_OPTIONS",
           "CONFIRMING_ORDER", "CHOOSING_ORDER_MODE", "COLLECTING_DETAILS",
           "WAITING_DELIVERY_FEE_APPROVAL", "COLLECTING_PAYMENT", "ORDER_PLACED", "HANDOFF"}

NewSession ==
  [at |-> "IDLE", cart |-> Empty, mode |-> "none",
   name |-> FALSE, phone |-> FALSE, address |-> FALSE, asked |-> FALSE,
   pending |-> NoLine, guessed |-> FALSE, proposed |-> NoLine,
   alloc |-> 0, order |-> NoOrder, fee |-> "none"]

Open == {"PENDING_DELIVERY_FEE", "FEE_SENT", "NEW"}

Questions == {"confirm", "mode", "name", "phone", "address", "notes", "fee", "payment",
              "option", "variant"}
Ends == {"placed", "limit", "cancelled"}

TypeOK ==
  /\ session.at \in States /\ session.cart \in Carts
  /\ session.mode \in {"none", "PICKUP", "DELIVERY"}
  /\ session.alloc \in 0 .. MaxUnits
  /\ session.order \in Orders \cup {NoOrder}
  /\ session.fee \in {"none", "FEE_SENT", "APPROVED"}
  /\ {session.pending, session.proposed} \subseteq Lines \cup {NoLine}
  /\ {session.name, session.phone, session.address, session.asked,
      session.guessed} \subseteq BOOLEAN
  /\ orders \in [Orders -> Open \cup {"none", "IN_PROGRESS", "CLOSED"}]
  /\ told \in Questions \cup {"none", "fee later"} \cup Ends
  /\ {onRecord, known, focused} \subseteq BOOLEAN

-----------------------------------------------------------------------------
(* The messages, and what the keyword rules make of them.                  *)

Bare == {"hi", "menu", "yes", "yebo", "yes for delivery", "no", "actually no", "cancel",
         "human", "pickup", "delivery", "cash", "option", "words", "digits",
         "change", "make it more"}
Of(says, lines, also) == [says : says, line : lines, also : also]

\* "also" is a second, fully specified dish in the same sentence; "change" and
\* "make it more", among the bare ones, speak of a line without naming it.
Naming ==
  Of({"hi, I want", "I want", "add", "only", "without"}, Dishes, {NoLine})
    \cup Of({"I want"}, DOMAIN Answered, Dishes \ DOMAIN Answered)

\* "15 Bambino Meals": of which kind is left open.
NamingFamily ==
  Of({"family"}, {NoLine},
     IF Variants = {} THEN {} ELSE {NoLine} \cup (Dishes \ DOMAIN Answered))

Message ==
  Of(Bare, {NoLine}, {NoLine}) \cup Naming \cup NamingFamily
    \cup Of({"remove"}, Lines, {NoLine}) \cup Of({"variant"}, Variants, {NoLine})

Intent == [m \in Message |->
  CASE m.says \in {"hi", "yebo", "hi, I want"} -> "GREETING"
    [] m.says = "menu" -> "MENU_REQUEST"
    [] m.says = "cancel" -> "ORDER_CANCEL"
    [] m.says = "I want" -> "ORDER_START"
    [] m.says = "add" -> "ORDER_ADD"
    [] m.says \in {"remove", "without"} -> "ORDER_REMOVE"
    [] m.says = "yes" -> "ORDER_CONFIRM"
    [] m.says = "human" -> "HUMAN_HANDOFF"
    [] OTHER -> "none"]

Confirmation(m) == m.says \in {"yes", "yebo", "yes for delivery"}
Negation(m) == m.says \in {"no", "actually no"}

\* Past the customer's yes.
PostConfirmation == {"COLLECTING_DETAILS", "CHOOSING_ORDER_MODE", "WAITING_DELIVERY_FEE_APPROVAL",
                     "COLLECTING_PAYMENT", "ORDER_PLACED", "HANDOFF"}

VariantUnits(cart) == SumFunctionOnSet(cart, Variants)

\* The session a message finds: an allocation that the cart already holds
\* although checkout has gone on is dropped.
Now ==
  IF session.alloc > 0 /\ session.at \in PostConfirmation
       /\ VariantUnits(session.cart) >= session.alloc
    THEN [session EXCEPT !.alloc = 0]
    ELSE session

-----------------------------------------------------------------------------
(* The session operations of state_machine, and the replies.               *)

\* n units of a line are taken off, or reworded.
TakesOff(s, l, n) == [s EXCEPT !.cart[l] = @ - n]
Reworded(s, l, n) == [s EXCEPT !.cart[l] = @ - n, !.cart[Other[l]] = @ + n]

Add(s, l) == IF l = NoLine THEN s ELSE [s EXCEPT !.cart = Plus(@, l)]
Goes(s, state) == [s EXCEPT !.at = state]

\* clear_cart keeps the allocation, and the address the order went to.
Cleared(s) ==
  [s EXCEPT !.cart = Empty, !.mode = "none", !.order = NoOrder, !.fee = "none",
            !.pending = NoLine, !.guessed = FALSE, !.proposed = NoLine,
            !.asked = FALSE]

Tells(q) == told' = IF focused THEN q ELSE "none"

\* The session is s, the customer is told q, and nothing of the cart.
Replies(s, q) ==
  session' = s /\ Tells(q) /\ known' = (known /\ s.cart = session.cart)

\* ... and what was added to it.
Announces(s, q) == session' = s /\ Tells(q) /\ UNCHANGED known

\* ... and the whole cart, or that it is empty.
Shows(s, q) == session' = s /\ Tells(q) /\ known' = TRUE

\* confirmed_cart is locked and the summary ends in "shall I place it?".
Summary(s) == Shows(Goes(s, "CONFIRMING_ORDER"), "confirm")

\* What is left after a line was taken off.
Reduced(s) == IF s.cart = Empty THEN Shows(Goes(s, "IDLE"), "none") ELSE Summary(s)

CancelledCart(s) == Shows(Goes(Cleared(s), "IDLE"), "cancelled")

NoOrders == UNCHANGED <<orders, onRecord>>

-----------------------------------------------------------------------------
(* Placing the order.                                                      *)

LastOrder == IF \E o \in Orders : orders[o] # "none"
               THEN Max({o \in Orders : orders[o] # "none"}) ELSE NoOrder
LimitReached == \A o \in Orders : orders[o] # "none"

\* Mutant: a fee proposal does not count among the prior live orders.
PriorWithoutProposals == {o \in Orders : orders[o] \in Open \ {"FEE_SENT"}}

\* _cancel_prior_live_orders.
Replaced == {o \in Orders : orders[o] \in Open}

\* create_order_from_cart.
Creates(status) ==
  LET new == IF LastOrder = NoOrder THEN 1 ELSE LastOrder + 1 IN
  orders' = [o \in Orders |->
    IF o = new THEN status ELSE IF o \in Replaced THEN "CLOSED" ELSE orders[o]]

\* An order that waits for its delivery fee.
Parks(s) ==
  LET new == IF LastOrder = NoOrder THEN 1 ELSE LastOrder + 1 IN
  /\ Creates("PENDING_DELIVERY_FEE")
  /\ Shows([Cleared(s) EXCEPT !.order = new, !.at = "WAITING_DELIVERY_FEE_APPROVAL"],
           "fee later")

Places(s) == Creates("NEW") /\ Shows(Goes(Cleared(s), "ORDER_PLACED"), "placed")

\* Mutant: that the notes were asked for is not recorded.
NotesForgotten(s) == s
NotesAsked(s) == [s EXCEPT !.asked = TRUE]

\* _handle_order_confirmation: one question at a time, then the order.  With an
\* empty cart the creation raises: the message is rolled back, nobody answers.
OrderConfirmation(s0) ==
  LET s == IF s0.mode = "none" THEN [s0 EXCEPT !.mode = "PICKUP"] ELSE s0
      Asks(t, q) == Replies(Goes(t, "COLLECTING_DETAILS"), q) /\ UNCHANGED orders IN
  IF s0.mode = "none" /\ DeliveryEnabled
    THEN Replies(Goes(s0, "CHOOSING_ORDER_MODE"), "mode") /\ UNCHANGED orders
  ELSE IF NameRequired /\ ~s.name THEN Asks(s, "name")
  ELSE IF PhoneRequired /\ ~s.phone /\ ~onRecord' THEN Asks(s, "phone")
  ELSE IF s.mode = "DELIVERY" /\ ~s.address THEN Asks(s, "address")
  ELSE IF ~s.asked THEN Asks(NotesAsked(s), "notes")
  ELSE IF LimitReached THEN Replies(s, "limit") /\ UNCHANGED orders
  ELSE IF s.cart = Empty THEN UNCHANGED <<session, orders, known, told>>
  ELSE IF s.mode = "DELIVERY" /\ s.fee # "APPROVED" THEN Parks(s)
  ELSE Places(s)

\* _finalize_pending_delivery_order: NEW, whatever the order's status was.
Finalises(s) ==
  IF s.order = NoOrder
    THEN Replies(s, "placed") /\ UNCHANGED orders
    ELSE /\ orders' = [orders EXCEPT ![s.order] = "NEW"]
         /\ Shows(Goes(Cleared(s), "ORDER_PLACED"), "placed")

NextAfterDetails(s) ==
  IF s.order # NoOrder THEN Finalises(s) ELSE OrderConfirmation(s)

-----------------------------------------------------------------------------
(* The branches of _handle_message; each is given the session it finds.    *)

\* What the sentence names that can go straight into the cart.
Ready(m) == {l \in {m.line, m.also} \ {NoLine} : ~Missing(l)}

\* _resolve_variant_allocation_reply: the allocation owns the turn.  Whatever
\* the verb, a variant that is named is added.
VariantReply(s, m) ==
  /\ NoOrders
  /\ IF Negation(m) THEN Replies([s EXCEPT !.alloc = 0], "none")
     ELSE IF m.line \in Variants
       THEN LET t == [Add(s, m.line) EXCEPT !.alloc = @ - 1] IN
            IF t.alloc = 0 THEN Summary(t) ELSE Announces(t, "variant")
     ELSE LET other == IF Intent[m] = "ORDER_REMOVE" \/ Ready(m) = {}
                         THEN NoLine ELSE CHOOSE l \in Ready(m) : TRUE IN
          Announces(Add(s, other), "variant")

\* A greeting that names a dish is answered with the summary; a required
\* option is not asked for.
Greets(s, m) ==
  /\ NoOrders
  /\ IF m.line = NoLine THEN Replies(Goes(s, "GREETING"), "none")
                        ELSE Summary(Add(s, m.line))

\* Menus and photos: the order in progress is kept.
ShowsMenu(s) ==
  /\ NoOrders
  /\ Replies(IF s.at \in {"BUILDING_CART", "CONFIRMING_ORDER", "COLLECTING_DETAILS"}
               THEN s ELSE Goes(s, "BROWSING_MENU"), "none")

\* Only after ORDER_PLACED is there an order to cancel by telephone.
Cancels(s) ==
  /\ NoOrders
  /\ IF /\ s.at = "ORDER_PLACED" /\ LastOrder # NoOrder
        /\ orders[LastOrder] # "CLOSED"
       THEN Shows(Goes(Cleared(s), "IDLE"), "none")
       ELSE CancelledCart(s)

\* A placed order the kitchen has not begun may be replaced by a new one.
ReplacesPlaced(s) ==
  /\ NoOrders
  /\ LET last == LastOrder
         status == IF last = NoOrder THEN "none" ELSE orders[last] IN
     Replies(IF status = "IN_PROGRESS" THEN s ELSE Goes(s, "BUILDING_CART"), "none")

\* "Done" anywhere else: the summary first.
ConfirmGate(s) ==
  NoOrders /\ IF s.cart = Empty THEN Replies(s, "none") ELSE Summary(s)

HandsOff(s) == NoOrders /\ Replies(Goes(s, "HANDOFF"), "none")

\* _commit_to_cart_and_confirm.
Commits(s, ls) ==
  Summary([s EXCEPT !.cart = [l \in Lines |-> @[l] + Cardinality({i \in DOMAIN ls : ls[i] = l})],
                    !.pending = NoLine, !.guessed = FALSE, !.proposed = NoLine])

\* Mutant: the question for the option leaves the state where it was.
AsksOptionInPlace(s, l, also) ==
  [Add(s, also) EXCEPT !.pending = l, !.guessed = FALSE]
\* A dish whose option is asked for waits outside the cart; the other dish of
\* the sentence goes in, and the question does not say so.
AsksOption(s, l, also) ==
  [Add(s, also) EXCEPT !.pending = l, !.guessed = FALSE, !.at = "CHOOSING_OPTIONS"]

-----------------------------------------------------------------------------
(* _handle_with_llm.                                                       *)

\* The sentence names a dish and the rules may add it without the model.
Deterministic(s, intent, m) ==
  /\ m.line \in Dishes
  /\ \/ intent = "ORDER_START" /\ s.at # "CHOOSING_OPTIONS"
     \/ /\ intent = "ORDER_ADD"
        /\ s.at \in {"BUILDING_CART", "BROWSING_MENU", "IDLE", "CONFIRMING_ORDER"}
     \/ /\ intent = "none"
        /\ s.at \in {"BUILDING_CART", "BROWSING_MENU", "IDLE", "GREETING"}

AddsNamed(s, m) ==
  IF Missing(m.line) THEN Replies(AsksOption(s, m.line, m.also), "option")
                     ELSE Summary(Add(Add(s, m.line), m.also))

\* The question which of the family, and the other dish of the sentence.
AsksVariant(s, m) ==
  \E n \in 1 .. MaxUnits : Announces([Add(s, m.also) EXCEPT !.alloc = n], "variant")

\* "X without Y" is a new line; "remove X" takes off one unit, or the line.
Removes(s, m) ==
  LET t == [s EXCEPT !.pending = NoLine, !.guessed = FALSE] IN
  IF m.says = "without"
    THEN Summary(Add(t, IF Missing(m.line) THEN Answered[m.line] ELSE m.line))
    ELSE \E l \in {x \in Lines : SameItem(x, m.line) /\ s.cart[x] > 0} : \E n \in {1, s.cart[l]} :
           Reduced([TakesOff(t, l, n) EXCEPT !.proposed = NoLine])

\* An ingredient, an add-on or an instruction of a line in the cart, for all
\* of its units or for some of them; some of these leave the state as it was.
Rewords(s, m) ==
  /\ m.says = "change"
  /\ \E l \in {x \in Optioned : s.cart[x] > 0}, at \in {s.at, "CONFIRMING_ORDER"} :
       \E n \in 1 .. s.cart[l] :
         /\ n < s.cart[l] => s.at \in {"CONFIRMING_ORDER", "BUILDING_CART"}
         /\ Shows(Goes(Reworded(s, l, n), at), "confirm")

SetsQuantity(s, m) ==
  /\ m.says = "make it more"
  /\ \E l \in {x \in Lines : s.cart[x] > 0} : \E n \in 1 .. MaxUnits :
       Shows([s EXCEPT !.cart[l] = n], "confirm")

(* The actions a reply of the language model is parsed into.               *)

\* No answer, or an action on items that names none.  old is what the caller
\* saved before it cleared the cart.
ModelFails(old) == Replies(old, "none")

\* NoLine: none of the names is on the menu.
ModelAdds(s) ==
  \E l \in Dishes \cup {NoLine} :
    Summary([Add(s, l) EXCEPT !.pending = IF s.at = "CHOOSING_OPTIONS" THEN NoLine ELSE @])

ModelRemoves(s) ==
  \E l \in {x \in Lines : s.cart[x] > 0} : Reduced(TakesOff(s, l, s.cart[l]))

ModelReplaces(s) ==
  \E l \in {x \in Lines : s.cart[x] > 0}, new \in Dishes :
    Summary([Add(TakesOff(s, l, s.cart[l]), new) EXCEPT !.pending = NoLine])

ModelRecommends(s) == Replies(Goes(s, "BROWSING_MENU"), "none")

ModelAsksOption(s) ==
  \/ Replies(Goes(s, "CHOOSING_OPTIONS"), "option")
  \/ \E l \in Dishes :
       Replies([Goes(s, "CHOOSING_OPTIONS") EXCEPT !.pending = l, !.guessed = TRUE], "option")

\* Small talk: it replaces no answer to an order, and may propose a dish.
ModelChats(s, old, intent) ==
  \/ old # s /\ Replies(s, "none")
  \/ /\ s.cart = Empty /\ intent \notin {"ORDER_START", "ORDER_ADD", "ORDER_REMOVE"}
     /\ s.at \in {"CHOOSING_OPTIONS", "IDLE", "GREETING", "BROWSING_MENU"}
     /\ \E l \in Dishes :
          Replies([Goes(s, "CHOOSING_OPTIONS") EXCEPT !.proposed = l], "none")

ModelAnswers(s, old, intent) ==
  \/ ModelFails(old) \/ ModelAdds(s) \/ ModelRemoves(s) \/ ModelReplaces(s)
  \/ ModelRecommends(s) \/ ModelAsksOption(s) \/ ConfirmGate(s) \/ CancelledCart(s)
  \/ HandsOff(s) \/ ModelChats(s, old, intent)

Ordering(s, old, intent, m) ==
  /\ NoOrders
  /\ \/ /\ m.says = "family" /\ s.at # "CHOOSING_OPTIONS"
        /\ AsksVariant(s, m)
     \/ Deterministic(s, intent, m) /\ AddsNamed(s, m)
     \/ intent = "ORDER_REMOVE" /\ Removes(s, m)
     \/ Rewords(s, m) \/ SetsQuantity(s, m)
     \* A dish with a priced option goes to the model as well, which answers
     \* as it does to "words", unless the cart was cleared before.
     \/ /\ m.says = "family" => s.at = "CHOOSING_OPTIONS"
        /\ Deterministic(s, intent, m) => m.line \in Optioned /\ old # s
        /\ intent = "ORDER_REMOVE" =>
             m.says = "remove" /\ \A l \in Lines : SameItem(l, m.line) => s.cart[l] = 0
        /\ ModelAnswers(s, old, intent)

-----------------------------------------------------------------------------
(* The branches of a state.                                                *)

\* The summary was shown.  "only": the whole order anew; what was in the cart
\* comes back when the model has no answer.
Confirming(s, m) ==
  CASE Confirmation(m) ->
         /\ UNCHANGED onRecord
         /\ OrderConfirmation(IF m.says = "yes for delivery"
                                THEN [s EXCEPT !.mode = "DELIVERY"] ELSE s)
    [] m.says = "actually no" -> NoOrders /\ CancelledCart(s)
    [] m.says = "no" -> NoOrders /\ Replies(Goes(s, "BUILDING_CART"), "none")
    [] OTHER -> Ordering(Goes(Cleared(s), "BUILDING_CART"), s, "ORDER_START", m)

ChoosingOptions(s, m) ==
  IF m.says = "option" /\ s.pending # NoLine /\ ~s.guessed /\ Missing(s.pending)
       /\ s.proposed = NoLine
    THEN NoOrders /\ Commits(s, <<Answered[s.pending]>>)
  ELSE IF Confirmation(m) /\ {s.pending, s.proposed} # {NoLine}
    THEN NoOrders /\ Commits(s,
           IF s.proposed = NoLine THEN <<s.pending>>
           ELSE IF s.pending = NoLine \/ SameItem(s.pending, s.proposed) THEN <<s.proposed>>
           ELSE <<s.proposed, s.pending>>)
  ELSE IF Negation(m) /\ s.pending # NoLine
    THEN /\ NoOrders
         /\ IF Missing(s.pending) /\ ~s.guessed
              THEN Replies([Goes(s, "IDLE") EXCEPT !.pending = NoLine], "none")
              ELSE Commits(s, <<s.pending>>)
  ELSE IF Intent[m] \in {"ORDER_ADD", "ORDER_START"}
    THEN NoOrders /\ Commits(s, <<s.pending, m.line, m.also>>)
  ELSE Ordering(s, s, Intent[m], m)

ChoosesMode(s, m) ==
  /\ UNCHANGED onRecord
  /\ CASE m.says = "pickup" ->
           OrderConfirmation([Goes(s, "CONFIRMING_ORDER") EXCEPT !.mode = "PICKUP"])
      [] m.says \in {"delivery", "yes for delivery"} ->
           OrderConfirmation([Goes(s, "CONFIRMING_ORDER") EXCEPT !.mode = "DELIVERY"])
      [] OTHER -> UNCHANGED orders /\ Replies(s, "mode")

\* _handle_waiting_delivery_fee: any yes approves, whether or not staff have
\* set the fee.
AnswersFee(s, m) ==
  LET t == [s EXCEPT !.fee = "APPROVED"] IN
  /\ UNCHANGED onRecord
  /\ IF Confirmation(m)
       THEN IF OnlinePaymentRequired THEN Finalises(t)
            ELSE Replies(Goes(t, "COLLECTING_PAYMENT"), "payment") /\ UNCHANGED orders
     ELSE IF Negation(m)
       THEN /\ orders' = IF s.order = NoOrder THEN orders
                          ELSE [orders EXCEPT ![s.order] = "CLOSED"]
            /\ CancelledCart(s)
     ELSE UNCHANGED orders /\ Replies(s, "fee")

\* The name and the telephone number were asked for before the order was made.
ChoosesPayment(s, m) ==
  /\ UNCHANGED onRecord
  /\ IF m.says = "cash" THEN Finalises(s)
                        ELSE UNCHANGED orders /\ Replies(s, "payment")

\* The next detail that the context lacks, or on to the order: a number on
\* the customer's record does not count here.
AfterDetail(s) ==
  LET missing == IF NameRequired /\ ~s.name THEN "name"
                 ELSE IF PhoneRequired /\ ~s.phone THEN "phone"
                 ELSE IF s.mode = "DELIVERY" /\ ~s.address THEN "address" ELSE "none" IN
  IF missing = "none" THEN NextAfterDetails(s) ELSE UNCHANGED orders /\ Replies(s, missing)

\* _handle_collecting_details: any text is the detail that comes next.
GivesDetail(s, m) ==
  IF NameRequired /\ ~s.name
    THEN /\ UNCHANGED onRecord
         /\ IF m.says = "digits" THEN UNCHANGED orders /\ Replies(s, "name")
                                 ELSE AfterDetail([s EXCEPT !.name = TRUE])
  ELSE IF PhoneRequired /\ ~s.phone
    THEN IF m.says = "digits"
           THEN onRecord' = TRUE /\ AfterDetail([s EXCEPT !.phone = TRUE])
           ELSE NoOrders /\ Replies(s, "phone")
  ELSE /\ UNCHANGED onRecord
       /\ IF s.mode = "DELIVERY" /\ ~s.address THEN AfterDetail([s EXCEPT !.address = TRUE])
          ELSE NextAfterDetails(s)

\* The handler of the state, after the branches that every state has.
InState(s, m) ==
  CASE s.at = "CHOOSING_OPTIONS" -> ChoosingOptions(s, m)
    [] s.at = "CHOOSING_ORDER_MODE" -> ChoosesMode(s, m)
    [] s.at = "WAITING_DELIVERY_FEE_APPROVAL" -> AnswersFee(s, m)
    [] s.at = "COLLECTING_PAYMENT" -> ChoosesPayment(s, m)
    [] s.at = "COLLECTING_DETAILS" -> GivesDetail(s, m)
    [] OTHER -> Ordering(s, s, Intent[m], m)

\* _handle_message: the first branch that takes the message.
Handles(m) ==
  LET s == Now
      awaitsYes == s.at \in {"CONFIRMING_ORDER", "WAITING_DELIVERY_FEE_APPROVAL"} IN
  IF s.alloc > 0 THEN VariantReply(s, m)
  ELSE IF Intent[m] = "GREETING" /\ ~(Confirmation(m) /\ awaitsYes) THEN Greets(s, m)
  ELSE IF Intent[m] = "MENU_REQUEST" THEN ShowsMenu(s)
  ELSE IF Intent[m] = "ORDER_CANCEL" THEN Cancels(s)
  ELSE IF s.at = "ORDER_PLACED" /\ Intent[m] \in {"ORDER_START", "ORDER_ADD", "ORDER_REMOVE"}
    THEN ReplacesPlaced(s)
  ELSE IF /\ Intent[m] = "ORDER_CONFIRM"
          /\ ~awaitsYes /\ s.at \notin {"COLLECTING_PAYMENT", "CHOOSING_OPTIONS"}
    THEN ConfirmGate(s)
  ELSE IF Intent[m] = "HUMAN_HANDOFF" THEN HandsOff(s)
  ELSE IF s.at = "CONFIRMING_ORDER" /\ (Confirmation(m) \/ Negation(m) \/ m.says = "only")
    THEN Confirming(s, m)
  ELSE InState(s, m)

-----------------------------------------------------------------------------
Init ==
  /\ session = NewSession /\ known = TRUE /\ told = "none" /\ focused = FALSE
  /\ onRecord = FALSE
  /\ orders = [o \in Orders |-> "none"]

Says(m) ==
  /\ Handles(m)
  /\ session'.cart # session.cart => Units(session'.cart) <= MaxUnits
  /\ focused' = (focused /\ told' \notin Ends)

\* Where a class of messages makes a difference; elsewhere it does what "words"
\* does, or another class that is looked for there.
Meant(m) ==
  LET at == session.at
      shopping == at \notin {"CHOOSING_ORDER_MODE", "WAITING_DELIVERY_FEE_APPROVAL",
                             "COLLECTING_PAYMENT", "COLLECTING_DETAILS"} IN
  IF Now.alloc > 0 THEN m.says \in {"words", "no", "I want", "variant"}
  ELSE CASE m.says = "option" -> at = "CHOOSING_OPTIONS"
       [] m.says \in {"pickup", "delivery"} -> at = "CHOOSING_ORDER_MODE"
       [] m.says = "cash" -> at = "COLLECTING_PAYMENT"
       [] m.says = "digits" -> at = "COLLECTING_DETAILS"
       [] m.says = "variant" -> FALSE
       [] m.says = "yebo" -> at \in {"CONFIRMING_ORDER", "WAITING_DELIVERY_FEE_APPROVAL"}
       [] Negation(m) ->
            at \in {"CONFIRMING_ORDER", "CHOOSING_OPTIONS", "WAITING_DELIVERY_FEE_APPROVAL"}
       [] m.says = "yes for delivery" ->
            at \in {"CONFIRMING_ORDER", "CHOOSING_OPTIONS", "CHOOSING_ORDER_MODE",
                   "WAITING_DELIVERY_FEE_APPROVAL"}
       [] m.says \in {"change", "make it more"} -> shopping /\ session.cart # Empty
       [] m.says \in {"I want", "without", "family"} -> shopping
       [] m.says = "add" -> shopping /\ at \notin {"GREETING", "HANDOFF"}
       [] m.says = "only" ->
            at \in {"CONFIRMING_ORDER", "BUILDING_CART", "BROWSING_MENU", "IDLE", "GREETING"}
       [] m.says = "remove" ->
            shopping /\ (session.cart[m.line] > 0 \/ at = "ORDER_PLACED")
       [] OTHER -> TRUE

Chats == \E m \in Message : ~focused /\ Meant(m) /\ Says(m)

\* The customer wants what the summary says, and from here on replies to what
\* is asked.
SeesItThrough ==
  /\ ~focused /\ session.at = "CONFIRMING_ORDER" /\ session.cart # Empty
  /\ focused' = TRUE /\ told' = "confirm"
  /\ UNCHANGED <<session, orders, onRecord, known>>

Reply(question) ==
  CASE question = "mode" -> {"pickup", "delivery"}
    [] question \in {"name", "address", "notes"} -> {"words"}
    [] question = "phone" -> {"digits"}
    [] question = "fee" -> {"yes", "no"}
    [] question = "payment" -> {"cash"}
    [] question = "variant" -> {"variant", "no"}
    [] question = "option" -> {"option", "no"}
    [] question \in {"confirm", "none"} -> {"yes"}
    [] OTHER -> {}

AnswersQuestion == \E m \in Message : focused /\ m.says \in Reply(told) /\ Says(m)

\* set_delivery_fee, over whatever the conversation is at.
SetDeliveryFee(o) ==
  /\ orders[o] = "PENDING_DELIVERY_FEE"
  /\ orders' = [orders EXCEPT ![o] = "FEE_SENT"]
  /\ session' = [session EXCEPT !.fee = "FEE_SENT", !.order = o,
                                !.at = "WAITING_DELIVERY_FEE_APPROVAL"]
  /\ Tells("fee")
  /\ UNCHANGED <<onRecord, known, focused>>

Kitchen(o) ==
  /\ orders[o] \in {"NEW", "IN_PROGRESS"}
  /\ orders' = [orders EXCEPT ![o] = IF @ = "NEW" THEN "IN_PROGRESS" ELSE "CLOSED"]
  /\ UNCHANGED <<session, onRecord, known, told, focused>>

\* Staff, or the timeout of an order whose fee nobody set.
CancelsOrder(o) ==
  /\ orders[o] \in Open
  /\ orders' = [orders EXCEPT ![o] = "CLOSED"]
  /\ IF o = session.order THEN Tells("cancelled") ELSE UNCHANGED told
  /\ focused' = (focused /\ o # session.order)
  /\ UNCHANGED <<session, onRecord, known>>

\* The next message comes more than an hour after the last.
Expires ==
  /\ ~focused /\ session # NewSession /\ session' = NewSession
  /\ known' = (known /\ session.cart = Empty)
  /\ UNCHANGED <<orders, onRecord, told, focused>>

Next ==
  \/ Chats \/ SeesItThrough \/ AnswersQuestion \/ Expires
  \/ \E o \in Orders : SetDeliveryFee(o) \/ Kitchen(o) \/ CancelsOrder(o)

\* A customer who has made up their mind answers, and staff set the fee of an
\* order that waits for it, before the conversation expires.
Fairness == WF_vars(AnswersQuestion) /\ WF_vars(\E o \in Orders : SetDeliveryFee(o))

Spec == Init /\ [][Next]_vars /\ Fairness

-----------------------------------------------------------------------------
\* Every order the bot creates holds exactly what the customer was last shown
\* or told of the cart: no line slips in or out between the summary and the
\* "yes", whatever branch took the messages between them.
OrderedAsShown ==
  [][\A o \in Orders : orders[o] = "none" /\ orders'[o] # "none" => known]_vars

\* The kitchen's queue never holds two open orders of one customer: an order
\* that is replaced is withdrawn, also when it was waiting for its fee.
OneOpenOrder == Cardinality({o \in Orders : orders[o] \in Open}) <= 1

\* A customer who answers every question reaches an end: the order is placed,
\* or they are told why it is not.
SeenThrough == focused ~> told \in Ends

-----------------------------------------------------------------------------
(* What the repository says of the pipeline and the code refutes             *)

\* An order that waits for its delivery fee is confirmed from FEE_SENT only:
\* after staff set the fee, and while the order still stands (the event that
\* _finalize_pending_delivery_order writes says so: FEE_SENT to NEW).
FeeAccepted ==
  [][\A o \in Orders :
       orders[o] \notin {"none", "NEW"} /\ orders'[o] = "NEW" => orders[o] = "FEE_SENT"]_vars

=============================================================================
