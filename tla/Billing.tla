------------------------------- MODULE Billing -------------------------------
(***************************************************************************)
(* One organisation's subscription: app/services/billing_service.py and    *)
(* app/routers/billing.py, with Stripe as the external system that takes   *)
(* payments and calls the webhook.                                         *)
(*                                                                         *)
(* A checkout is one POST /billing/create-checkout-session.  The Stripe    *)
(* customer it creates, the session it opens and the subscription that a   *)
(* payment starts all bear its name.  Every handler reads the organisation *)
(* row when it begins and commits the columns it changed when it ends.     *)
(* (create_portal_session only reads the customer and is left out; so is   *)
(* the 403 of a suspended organisation, which changes no row.)             *)
(***************************************************************************)
EXTENDS Naturals, FiniteSets, Sequences, SequencesExt

CONSTANTS
  Checkouts,    \* the checkout requests of the organisation's owners
  PlanOf,       \* [Checkouts -> paid plans]: the plan each one asks for
  Handlers,     \* webhook requests served at the same time
  MaxFaults,    \* bound: how many commits fail or answers are lost
  MaxChanges    \* bound: how often a subscription changes its status

None == "none"

ASSUME BillingAssumption ==
  /\ Checkouts # {} /\ Handlers # {} /\ None \notin Checkouts
  /\ PlanOf \in [Checkouts -> {"pro", "business"}]
  /\ MaxFaults \in Nat /\ MaxChanges \in Nat

VARIABLES
  org,        \* the billing columns of the organisation row
  checkout,   \* where each checkout request is
  customerOf, \* Stripe: the customer a checkout's session belongs to
  subs,       \* Stripe: the status of each checkout's subscription
  mail,       \* Stripe: the events not yet answered with 200, oldest first
  handler,    \* each webhook request: the event and the row it has read
  disturbed,  \* an event has overtaken another one, or two requests have overlapped
              \* (an observer)
  faults, changes

vars == <<org, checkout, customerOf, subs, mail, handler, disturbed, faults, changes>>

Statuses == {"active", "past_due", "unpaid", "canceled"}
Row == [customer : Checkouts \cup {None}, sub : Checkouts \cup {None},
        status : Statuses \cup {"free"}, plan : {"free", "pro", "business"}]
Event == [type : {"completed", "payment_failed"}, of : Checkouts]
         \cup [type : {"changed"}, of : Checkouts, status : Statuses]
Idle == [state |-> "idle"]
Busy == [state : {"busy"}, event : Event, row : Row]

TypeOK ==
  /\ org \in Row
  /\ checkout \in [Checkouts -> {"new", "open", "answered", "failed"}]
  /\ customerOf \in [Checkouts -> Checkouts \cup {None}]
  /\ subs \in [Checkouts -> Statuses \cup {None}]
  /\ mail \in Seq(Event)
  /\ handler \in [Handlers -> Busy \cup {Idle}]
  /\ disturbed \in BOOLEAN
  /\ faults \in 0 .. MaxFaults
  /\ changes \in 0 .. MaxChanges

Init ==
  /\ org = [customer |-> None, sub |-> None, status |-> "free", plan |-> "free"]
  /\ checkout = [c \in Checkouts |-> "new"]
  /\ customerOf = [c \in Checkouts |-> None]
  /\ subs = [c \in Checkouts |-> None]
  /\ mail = <<>>
  /\ handler = [h \in Handlers |-> Idle]
  /\ disturbed = FALSE
  /\ faults = 0 /\ changes = 0

Fault == faults < MaxFaults /\ faults' = faults + 1

----------------------------------------------------------------------------
(* create_checkout_session *)

\* The request reads the row, creates a customer if it read none, and opens
\* the session at Stripe.  (First, always creating one.)
OpenCheckoutAnew(c) ==
  /\ checkout[c] = "new"
  /\ disturbed' = (disturbed \/ "open" \in {checkout[d] : d \in Checkouts})
  /\ checkout' = [checkout EXCEPT ![c] = "open"]
  /\ customerOf' = [customerOf EXCEPT ![c] = c]
  /\ UNCHANGED <<org, subs, mail, handler, faults, changes>>
OpenCheckout(c) ==
  /\ checkout[c] = "new"
  /\ disturbed' = (disturbed \/ "open" \in {checkout[d] : d \in Checkouts})
  /\ checkout' = [checkout EXCEPT ![c] = "open"]
  /\ customerOf' = [customerOf EXCEPT
                      ![c] = IF org.customer = None THEN c ELSE org.customer]
  /\ UNCHANGED <<org, subs, mail, handler, faults, changes>>

\* get_db commits the customer the request created, and the owner gets the
\* URL.  (First, with the plan granted before it is paid.)
CommitCheckoutEarly(c) ==
  /\ checkout[c] = "open"
  /\ checkout' = [checkout EXCEPT ![c] = "answered"]
  /\ org' = [org EXCEPT !.customer = IF customerOf[c] = c THEN c ELSE @, !.plan = PlanOf[c]]
  /\ UNCHANGED <<customerOf, subs, mail, handler, disturbed, faults, changes>>
CommitCheckout(c) ==
  /\ checkout[c] = "open"
  /\ checkout' = [checkout EXCEPT ![c] = "answered"]
  /\ org' = [org EXCEPT !.customer = IF customerOf[c] = c THEN c ELSE @]
  /\ UNCHANGED <<customerOf, subs, mail, handler, disturbed, faults, changes>>

\* Stripe or the commit fails: the owner gets no URL, the customer stays.
AbortCheckout(c) ==
  /\ checkout[c] = "open"
  /\ checkout' = [checkout EXCEPT ![c] = "failed"]
  /\ Fault
  /\ UNCHANGED <<org, customerOf, subs, mail, handler, disturbed, changes>>

----------------------------------------------------------------------------
(* Stripe *)

Send(events) == mail' = mail \o events

Pay(c) ==
  /\ checkout[c] = "answered" /\ subs[c] = None
  /\ subs' = [subs EXCEPT ![c] = "active"]
  /\ Send(<<[type |-> "completed", of |-> c]>>)
  /\ UNCHANGED <<org, checkout, customerOf, handler, disturbed, faults, changes>>

\* A renewal fails, is retried with success, or is given up; the owner ends
\* the subscription in the portal; an unpaid one is paid after all.
Successors == [active |-> {"past_due", "canceled"},
               past_due |-> {"active", "unpaid", "canceled"},
               unpaid |-> {"active", "canceled"},
               canceled |-> {}]

ChangeStatus(c, status) ==
  /\ subs[c] # None /\ status \in Successors[subs[c]]
  /\ changes < MaxChanges /\ changes' = changes + 1
  /\ subs' = [subs EXCEPT ![c] = status]
  /\ Send((IF status = "past_due" THEN <<[type |-> "payment_failed", of |-> c]>> ELSE <<>>)
          \o <<[type |-> "changed", of |-> c, status |-> status]>>)
  /\ UNCHANGED <<org, checkout, customerOf, handler, disturbed, faults>>

----------------------------------------------------------------------------
(* handle_webhook *)

\* A request begins and reads the row.  Stripe keeps the event until it is
\* answered with 200, so a failed request brings it again.
Receive(h, i) ==
  /\ handler[h] = Idle
  /\ i \in DOMAIN mail
  /\ disturbed' = (disturbed \/ i # 1 \/ \E g \in Handlers : handler[g] # Idle)
  /\ handler' = [handler EXCEPT ![h] = [state |-> "busy", event |-> mail[i], row |-> org]]
  /\ mail' = RemoveAt(mail, i)
  /\ UNCHANGED <<org, checkout, customerOf, subs, faults, changes>>

\* The handlers: the row they leave in the session.  Checkout events find
\* the organisation by metadata, the others by its customer, and do nothing
\* for a customer they do not find.
_handle_checkout_completed(row, event) ==
  [row EXCEPT !.sub = event.of, !.status = "active", !.plan = PlanOf[event.of]]

_handle_subscription_change(row, event) ==
  [row EXCEPT !.status = event.status,
              !.plan = IF event.status \in {"canceled", "unpaid"} THEN "free" ELSE @]

\* (First, with a status nobody else knows.)
_handle_payment_failed_label(row, event) == [row EXCEPT !.status = "payment_failed"]
_handle_payment_failed(row, event) == [row EXCEPT !.status = "past_due"]

Known(row, event) == row.customer = customerOf[event.of]

handle_webhook(row, event) ==
  CASE event.type = "completed" -> _handle_checkout_completed(row, event)
    [] event.type = "changed" /\ Known(row, event) -> _handle_subscription_change(row, event)
    [] event.type = "payment_failed" /\ Known(row, event) -> _handle_payment_failed(row, event)
    [] OTHER -> row

\* The ORM updates the columns whose value differs from the one it read.
Written(read, left, current) ==
  [column \in DOMAIN current |->
     IF left[column] = read[column] THEN current[column] ELSE left[column]]

Applies(h) ==
  /\ handler[h] # Idle
  /\ LET read == handler[h].row IN
       org' = Written(read, handle_webhook(read, handler[h].event), org)
  /\ handler' = [handler EXCEPT ![h] = Idle]

Commit(h) ==
  /\ Applies(h)
  /\ UNCHANGED <<checkout, customerOf, subs, mail, disturbed, faults, changes>>

\* The commit fails: Stripe sends the event again, before the later ones
\* where the order is kept.  (First, if the request had answered 200.)
RetryAnswered(h) ==
  /\ handler[h] # Idle
  /\ handler' = [handler EXCEPT ![h] = Idle]
  /\ Fault
  /\ UNCHANGED <<org, checkout, customerOf, subs, mail, disturbed, changes>>
Retry(h) ==
  /\ handler[h] # Idle
  /\ mail' = <<handler[h].event>> \o mail
  /\ handler' = [handler EXCEPT ![h] = Idle]
  /\ Fault
  /\ UNCHANGED <<org, checkout, customerOf, subs, disturbed, changes>>

\* The commit is done but the answer is lost: the event comes once more.
Repeat(h) ==
  /\ Applies(h)
  /\ Fault
  /\ mail' = <<handler[h].event>> \o mail
  /\ UNCHANGED <<checkout, customerOf, subs, disturbed, changes>>

Checkout(c) == OpenCheckout(c) \/ CommitCheckout(c) \/ AbortCheckout(c)
Stripe(c) == Pay(c) \/ \E status \in Statuses : ChangeStatus(c, status)
Webhook(h) ==
  (\E i \in DOMAIN mail : Receive(h, i)) \/ Commit(h) \/ Retry(h) \/ Repeat(h)

Next ==
  \/ \E c \in Checkouts : Checkout(c) \/ Stripe(c)
  \/ \E h \in Handlers : Webhook(h)

Spec == Init /\ [][Next]_vars

\* Stripe keeps sending what was not answered, and requests are served.
FairSpec == Spec /\ \A h \in Handlers : WF_vars((\E i \in DOMAIN mail : Receive(h, i)) \/ Commit(h))

----------------------------------------------------------------------------
(* Properties *)

\* A plan is only had by paying for it: whatever the order, the repeats and
\* the overlaps, the plan of the row is one a paid checkout asked for, and
\* the subscription of the row is a paid one.
PlanWasPaid ==
  /\ org.plan # "free" => \E c \in Checkouts : subs[c] # None /\ PlanOf[c] = org.plan
  /\ org.sub # None => subs[org.sub] # None

Quiet == mail = <<>> /\ \A h \in Handlers : handler[h] = Idle

\* When every event has been answered, a paid plan has a subscription behind
\* it that is neither canceled nor unpaid, whatever was repeated or failed, as
\* long as nothing overlapped or overtook.  (A checkout event that comes after the
\* deletion of its subscription brings the plan back for good.)
PlanIsBacked ==
  ~disturbed /\ Quiet /\ org.plan # "free" =>
    \E c \in Checkouts : PlanOf[c] = org.plan /\ subs[c] \in {"active", "past_due"}

\* An organisation whose subscriptions have all been canceled for good is on
\* the free plan for good in the end, whatever failed or was repeated on the
\* way, as long as nothing overlapped or overtook.
AllCanceled ==
  /\ \E c \in Checkouts : subs[c] = "canceled"
  /\ \A c \in Checkouts : subs[c] \in {None, "canceled"}
CancellationArrives == <>[](AllCanceled /\ ~disturbed) => <>[](org.plan = "free")
=============================================================================
