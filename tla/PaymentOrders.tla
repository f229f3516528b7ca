---------------------------- MODULE PaymentOrders ----------------------------
(***************************************************************************)
(* The exchange of NodeLoc energy for traffic, src/src/routes/payment.js,  *)
(* with the two cron jobs of src/src/app.js that close and delete orders.  *)
(* The orders are those of one user: the handlers never relate the orders  *)
(* of two users.                                                           *)
(*                                                                         *)
(* The payment service is external: it answers the create request or       *)
(* fails, takes the user's payment on the page it returned, whatever the   *)
(* panel has done with the order meanwhile, and then calls back any number *)
(* of times (the callback is a GET the user's browser is sent to, so it is *)
(* repeated by a reload).                                                  *)
(*                                                                         *)
(* Time is the day in Asia/Shanghai ('+8 hours').                          *)
(***************************************************************************)
EXTENDS Integers

CONSTANTS
  Orders,  \* order ids, each is used once
  MaxDay   \* bound: the last day

ASSUME MaxDayAssumption == MaxDay \in Nat

VARIABLES
  day,      \* today
  cleaned,  \* the clean-up of two o'clock has run today
  status,   \* nodeloc_payment_orders.status; "none": not created yet,
            \* "deleted": the row is gone
  paidAt,   \* the day of paid_at, -1 for NULL
  request,  \* the create request: "none", "fetching" (awaits the service),
            \* "offered" (the user has the payment page), "over"
  paidOn,   \* external: the day the user paid, -1 before
  credits,  \* how many times the traffic of the order has been added
  doneOn    \* history: the day the callback completed the order, -1 before

vars == <<day, cleaned, status, paidAt, request, paidOn, credits, doneOn>>

CompletedOn(o, d) == status[o] = "completed" /\ paidAt[o] = d

\* date(COALESCE(paid_at, updated_at)) = today for a completed order
CompletedToday(except) == \E o \in Orders \ except : CompletedOn(o, day)

\* paid_at: the moment of the payment when the callback carries it, otherwise the
\* moment of the callback
Stamps(o) == {paidOn[o], day}

----------------------------------------------------------------------------
Init ==
  /\ day = 0
  /\ cleaned = FALSE
  /\ status = [o \in Orders |-> "none"]
  /\ paidAt = [o \in Orders |-> -1]
  /\ request = [o \in Orders |-> "none"]
  /\ paidOn = [o \in Orders |-> -1]
  /\ credits = [o \in Orders |-> 0]
  /\ doneOn = [o \in Orders |-> -1]

\* POST /nodeloc/create, up to the fetch
Create(o) ==
  /\ status[o] = "none"
  /\ ~CompletedToday({})
  /\ status' = [status EXCEPT ![o] = "pending"]
  /\ request' = [request EXCEPT ![o] = "fetching"]
  /\ UNCHANGED <<day, cleaned, paidAt, paidOn, credits, doneOn>>

\* ... the service answered with a payment page: status = data.status || 'pending'.
\* What it may send before it is paid is the service's own word, "other" for
\* any that the cron jobs do not look for.
CreateAnswered(o) ==
  /\ request[o] = "fetching"
  /\ request' = [request EXCEPT ![o] = "offered"]
  /\ \E word \in {"pending", "other"} : status' = [status EXCEPT ![o] = word]
  /\ UNCHANGED <<day, cleaned, paidAt, paidOn, credits, doneOn>>

\* ... an error answer, an answer without a page, or an exception
CreateFails(o) ==
  /\ request[o] = "fetching"
  /\ request' = [request EXCEPT ![o] = "over"]
  /\ status' = [status EXCEPT ![o] = "failed"]
  /\ UNCHANGED <<day, cleaned, paidAt, paidOn, credits, doneOn>>

\* The panel restarts while it awaits the service
RequestLost(o) ==
  /\ request[o] = "fetching"
  /\ request' = [request EXCEPT ![o] = "over"]
  /\ UNCHANGED <<day, cleaned, status, paidAt, paidOn, credits, doneOn>>

\* External: the user pays
Pay(o) ==
  /\ request[o] = "offered"
  /\ paidOn[o] = -1
  /\ paidOn' = [paidOn EXCEPT ![o] = day]
  /\ UNCHANGED <<day, cleaned, status, paidAt, request, credits, doneOn>>

\* Two variants: a repeated callback is not recognised; the limit of the day
\* is left to the create request
CallbackNotIdempotent(o) ==
  /\ paidOn[o] # -1
  /\ status[o] \notin {"none", "deleted"}
  /\ ~CompletedToday({o})
  /\ status' = [status EXCEPT ![o] = "completed"]
  /\ credits' = [credits EXCEPT ![o] = @ + 1]
  /\ doneOn' = [doneOn EXCEPT ![o] = day]
  /\ \E d \in Stamps(o) : paidAt' = [paidAt EXCEPT ![o] = d]
  /\ UNCHANGED <<day, cleaned, request, paidOn>>
CallbackWithoutLimit(o) ==
  /\ paidOn[o] # -1
  /\ status[o] \notin {"none", "deleted", "completed"}
  /\ status' = [status EXCEPT ![o] = "completed"]
  /\ credits' = [credits EXCEPT ![o] = @ + 1]
  /\ doneOn' = [doneOn EXCEPT ![o] = day]
  /\ \E d \in Stamps(o) : paidAt' = [paidAt EXCEPT ![o] = d]
  /\ UNCHANGED <<day, cleaned, request, paidOn>>

\* GET /callback with a valid signature and status=completed.  An order that
\* is already completed is left alone; any other one, closed, failed or
\* rejected earlier, is completed unless another order was completed today.
Callback(o) ==
  /\ paidOn[o] # -1
  /\ status[o] \notin {"none", "deleted", "completed"}
  /\ \E d \in Stamps(o) : paidAt' = [paidAt EXCEPT ![o] = d]
  /\ IF CompletedToday({o})
       THEN /\ status' = [status EXCEPT ![o] = "rejected"]
            /\ UNCHANGED <<credits, doneOn>>
       ELSE /\ status' = [status EXCEPT ![o] = "completed"]
            /\ credits' = [credits EXCEPT ![o] = @ + 1]
            /\ doneOn' = [doneOn EXCEPT ![o] = day]
  /\ UNCHANGED <<day, cleaned, request, paidOn>>

\* Cron, every minute: orders pending for more than 15 minutes are closed.  A
\* create request does not last that long (fetch gives up after 5 minutes).
CloseStale ==
  \E old \in (SUBSET {o \in Orders : status[o] = "pending" /\ request[o] # "fetching"}) \ {{}} :
    /\ status' = [o \in Orders |-> IF o \in old THEN "closed" ELSE status[o]]
    /\ UNCHANGED <<day, cleaned, paidAt, request, paidOn, credits, doneOn>>

\* Cron, at 2:00: closed, failed and rejected orders are deleted
CleanUp ==
  /\ ~cleaned
  /\ cleaned' = TRUE
  /\ status' = [o \in Orders |->
                  IF status[o] \in {"closed", "failed", "rejected"} THEN "deleted" ELSE status[o]]
  /\ UNCHANGED <<day, paidAt, request, paidOn, credits, doneOn>>

\* Midnight.  The clean-up of a day is missed when the panel is down at 2:00.
NextDay ==
  /\ day < MaxDay
  /\ day' = day + 1
  /\ cleaned' = FALSE
  /\ UNCHANGED <<status, paidAt, request, paidOn, credits, doneOn>>

OrderStep(o) ==
  \/ Create(o)
  \/ CreateAnswered(o)
  \/ CreateFails(o)
  \/ RequestLost(o)
  \/ Pay(o)
  \/ Callback(o)

Next == (\E o \in Orders : OrderStep(o)) \/ CloseStale \/ CleanUp \/ NextDay

Spec == Init /\ [][Next]_vars

----------------------------------------------------------------------------
Statuses == {"none", "pending", "other", "failed", "closed", "rejected", "completed", "deleted"}

\* The variables have their types.
TypeOK ==
  /\ day \in 0..MaxDay
  /\ cleaned \in BOOLEAN
  /\ status \in [Orders -> Statuses]
  /\ paidAt \in [Orders -> (0..MaxDay) \cup {-1}]
  /\ request \in [Orders -> {"none", "fetching", "offered", "over"}]
  /\ paidOn \in [Orders -> (0..MaxDay) \cup {-1}]
  /\ credits \in [Orders -> Nat]
  /\ doneOn \in [Orders -> (0..MaxDay) \cup {-1}]

\* The traffic of an order has been added once when the order is completed and
\* not at all otherwise, whatever mixture of repeated callbacks, late answers
\* and cron jobs it went through: no answer of the create request, no closing
\* and no clean-up takes a completed order back to a state in which a repeated
\* callback would be credited again.
CreditedOnceIffCompleted ==
  \A o \in Orders : credits[o] = IF status[o] = "completed" THEN 1 ELSE 0

\* Of the orders that are credited on one day, at most one was paid, by its
\* record, on that day, although several may be open and paid at once.  More the
\* code does not keep: it looks for an order with today's paid_at and then stores
\* the paid_at the service sends, so orders paid on an earlier day and called
\* back late are credited beside it, and share their day of payment.
OnePaidToday ==
  \A o, p \in Orders :
    /\ status[o] = "completed" /\ status[p] = "completed"
    /\ doneOn[o] = doneOn[p] /\ paidAt[o] = doneOn[o] /\ paidAt[p] = doneOn[p]
    => o = p
=============================================================================
