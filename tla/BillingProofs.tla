---------------------------- MODULE BillingProofs ----------------------------
(***************************************************************************)
(* That a plan is only had by paying for it, for any checkouts, any number *)
(* of webhook requests and any order of events; and that, where no event   *)
(* overtook and no request overlapped, a paid plan is backed by a          *)
(* subscription once every event has been answered.                        *)
(***************************************************************************)
EXTENDS Billing, SequenceTheorems, TLAPS

\* What has been paid for stays paid for: rows that name nothing else, and
\* events about nothing else.
Paid == {c \in Checkouts : subs[c] # None}
PaidRow == {r \in Row : /\ r.sub # None => r.sub \in Paid
                        /\ r.plan # "free" => \E c \in Paid : PlanOf[c] = r.plan}
PaidEvent == {e \in Event : e.of \in Paid}
PaidHandler == {w \in Busy : w.event \in PaidEvent /\ w.row \in PaidRow} \cup {Idle}

\* PlanWasPaid of the row, of every row a request has read, and of every
\* event that Stripe holds or a request works on.
PaymentInv ==
  /\ TypeOK
  /\ org \in PaidRow
  /\ mail \in Seq(PaidEvent)
  /\ handler \in [Handlers -> PaidHandler]

\* A new organisation has paid for nothing and has no plan.
LEMMA PaymentInit == Init => PaymentInv
<1> SUFFICES ASSUME Init PROVE PaymentInv
  OBVIOUS
<1>1. org \in Row
  BY DEF Init, Row, None
<1>2. org \in PaidRow
  BY <1>1 DEF Init, PaidRow, None
<1>3. handler \in [Handlers -> PaidHandler] /\ handler \in [Handlers -> Busy \cup {Idle}]
  BY DEF Init, PaidHandler
<1>4. mail \in Seq(PaidEvent) /\ mail \in Seq(Event)
  BY EmptySeq DEF Init
<1>5. checkout \in [Checkouts -> {"new", "open", "answered", "failed"}]
      /\ customerOf \in [Checkouts -> Checkouts \cup {None}]
      /\ subs \in [Checkouts -> Statuses \cup {None}]
  BY DEF Init
<1>6. faults \in 0 .. MaxFaults /\ changes \in 0 .. MaxChanges
  BY BillingAssumption DEF Init, BillingAssumption
<1>7. disturbed \in BOOLEAN
  BY DEF Init
<1>8. QED
  BY <1>1, <1>2, <1>3, <1>4, <1>5, <1>6, <1>7 DEF PaymentInv, TypeOK

\* More payments leave everything paid for.
LEMMA PaidGrows ==
  ASSUME Paid \subseteq Paid'
  PROVE  /\ PaidRow \subseteq PaidRow'
         /\ PaidEvent \subseteq PaidEvent'
         /\ PaidHandler \subseteq PaidHandler'
<1>1. PaidRow \subseteq PaidRow'
  BY DEF PaidRow
<1>2. PaidEvent \subseteq PaidEvent'
  BY DEF PaidEvent
<1>3. QED
  BY <1>1, <1>2 DEF PaidHandler

\* An event taken out of the mail leaves a shorter mail.
LEMMA Taken ==
  ASSUME NEW S, NEW seq \in Seq(S), NEW i \in DOMAIN seq
  PROVE  seq[i] \in S /\ RemoveAt(seq, i) \in Seq(S)
<1>1. Len(seq) \in Nat /\ i \in 1 .. Len(seq) /\ \A j \in 1 .. Len(seq) : seq[j] \in S
  BY LenProperties, ElementOfSeq
<1>2. SubSeq(seq, 1, i - 1) \in Seq(S)
  <2>1. \A j \in 1 .. i - 1 : seq[j] \in S
    BY <1>1
  <2>2. 1 \in Int /\ i - 1 \in Int
    BY <1>1
  <2>3. QED
    BY <2>1, <2>2, SubSeqProperties
<1>3. SubSeq(seq, i + 1, Len(seq)) \in Seq(S)
  <2>1. \A j \in i + 1 .. Len(seq) : seq[j] \in S
    BY <1>1
  <2>2. i + 1 \in Int /\ Len(seq) \in Int
    BY <1>1
  <2>3. QED
    BY <2>1, <2>2, SubSeqProperties
<1>4. QED
  BY <1>1, <1>2, <1>3, ConcatProperties DEF RemoveAt

\* An event given back, or sent, in front of or behind the others.
LEMMA Sent ==
  ASSUME NEW S, NEW e \in S, NEW seq \in Seq(S)
  PROVE  <<e>> \o seq \in Seq(S) /\ seq \o <<e>> \in Seq(S)
<1>1. <<e>> \in Seq(S)
  OBVIOUS
<1>2. QED
  BY <1>1, ConcatProperties

\* What a handler leaves is paid for when its event and its reading are.
LEMMA HandledIsPaid ==
  ASSUME BillingAssumption, NEW r \in PaidRow, NEW e \in PaidEvent
  PROVE  handle_webhook(r, e) \in PaidRow
<1>1. r \in Row /\ e.of \in Paid /\ e.of \in Checkouts /\ PlanOf[e.of] \in {"pro", "business"}
  BY DEF PaidRow, PaidEvent, Paid, BillingAssumption
<1>2. _handle_checkout_completed(r, e) \in PaidRow
  <2>1. _handle_checkout_completed(r, e) \in Row
    BY <1>1 DEF _handle_checkout_completed, Row, Statuses
  <2>2. QED
    BY <1>1, <2>1 DEF _handle_checkout_completed, PaidRow, Row
<1>3. ASSUME e.type = "changed" PROVE _handle_subscription_change(r, e) \in PaidRow
  <2>1. e.status \in Statuses
    BY <1>3 DEF PaidEvent, Event
  <2>2. _handle_subscription_change(r, e) \in Row
    BY <1>1, <2>1 DEF _handle_subscription_change, Row
  <2>3. QED
    BY <1>1, <2>2 DEF _handle_subscription_change, PaidRow, Row
<1>4. _handle_payment_failed(r, e) \in PaidRow
  <2>1. _handle_payment_failed(r, e) \in Row
    BY <1>1 DEF _handle_payment_failed, Row, Statuses
  <2>2. QED
    BY <1>1, <2>1 DEF _handle_payment_failed, PaidRow, Row
<1>5. QED
  BY <1>2, <1>3, <1>4 DEF handle_webhook

\* The row may mix what two events left, column by column: each column is
\* still paid for.
LEMMA MixIsPaid ==
  ASSUME NEW read \in PaidRow, NEW left \in PaidRow, NEW current \in PaidRow
  PROVE  Written(read, left, current) \in PaidRow
<1> DEFINE mixed == Written(read, left, current)
<1>1. DOMAIN current = {"customer", "sub", "status", "plan"}
  BY DEF PaidRow, Row
<1>2. \A column \in {"customer", "sub", "status", "plan"} :
        mixed[column] \in {left[column], current[column]}
  BY <1>1 DEF Written
<1>3. mixed = [customer |-> mixed.customer, sub |-> mixed.sub,
               status |-> mixed.status, plan |-> mixed.plan]
  BY <1>1 DEF Written
<1>4. mixed \in Row
  BY <1>2, <1>3 DEF PaidRow, Row
<1>5. QED
  BY <1>2, <1>4 DEF PaidRow

\* When nothing is paid anew, the row, the mail and the requests decide.
LEMMA SamePayments ==
  ASSUME PaymentInv, TypeOK', UNCHANGED subs,
         org' \in PaidRow, mail' \in Seq(PaidEvent), handler' \in [Handlers -> PaidHandler]
  PROVE  PaymentInv'
<1>1. Paid' = Paid
  BY DEF Paid
<1>2. PaidRow' = PaidRow /\ PaidEvent' = PaidEvent
  BY <1>1 DEF PaidRow, PaidEvent
<1>3. PaidHandler' = PaidHandler
  BY <1>2 DEF PaidHandler
<1>4. QED
  BY <1>2, <1>3 DEF PaymentInv

\* A checkout writes the customer at most.
LEMMA CheckoutStep ==
  ASSUME PaymentInv, NEW c \in Checkouts, Checkout(c)
  PROVE  PaymentInv'
<1>1. /\ org \in PaidRow /\ mail \in Seq(PaidEvent)
      /\ handler \in [Handlers -> PaidHandler] /\ TypeOK
  BY DEF PaymentInv
<1>2. CASE OpenCheckout(c)
  <2>1. TypeOK'
    <3>1. disturbed' \in BOOLEAN
      BY <1>1, <1>2, ZenonT(30) DEF OpenCheckout, TypeOK
    <3>2. customerOf' \in [Checkouts -> Checkouts \cup {None}]
      BY <1>1, <1>2 DEF OpenCheckout, TypeOK, Row
    <3>3. QED
      BY <1>1, <1>2, <3>1, <3>2 DEF OpenCheckout, TypeOK
  <2>2. QED
    BY <1>1, <1>2, <2>1, SamePayments DEF OpenCheckout
<1>3. CASE CommitCheckout(c)
  <2>1. org' \in PaidRow /\ org' \in Row
    BY <1>1, <1>3 DEF CommitCheckout, PaidRow, Row
  <2>2. TypeOK'
    BY <1>1, <1>3, <2>1 DEF CommitCheckout, TypeOK
  <2>3. QED
    BY <1>1, <1>3, <2>1, <2>2, SamePayments DEF CommitCheckout
<1>4. CASE AbortCheckout(c)
  <2>1. TypeOK'
    BY <1>1, <1>4, BillingAssumption DEF AbortCheckout, Fault, TypeOK, BillingAssumption
  <2>2. QED
    BY <1>1, <1>4, <2>1, SamePayments DEF AbortCheckout
<1>5. QED
  BY <1>2, <1>3, <1>4 DEF Checkout

\* A payment, or a change of what has been paid for, tells of nothing unpaid.
LEMMA StripeStep ==
  ASSUME PaymentInv, NEW c \in Checkouts, Stripe(c)
  PROVE  PaymentInv'
<1>1. /\ org \in PaidRow /\ mail \in Seq(PaidEvent)
      /\ handler \in [Handlers -> PaidHandler] /\ TypeOK
  BY DEF PaymentInv
<1>2. PICK status \in Statuses : Pay(c) \/ ChangeStatus(c, status)
  BY DEF Stripe, Statuses
<1>3. /\ Paid \subseteq Paid' /\ c \in Paid'
      /\ subs' \in [Checkouts -> Statuses \cup {None}]
  BY <1>1, <1>2 DEF Paid, Pay, ChangeStatus, TypeOK, Statuses, None
<1>4. /\ PaidRow \subseteq PaidRow' /\ PaidEvent \subseteq PaidEvent'
      /\ PaidHandler \subseteq PaidHandler'
  BY <1>3, PaidGrows
<1>5. org' \in PaidRow' /\ handler' \in [Handlers -> PaidHandler']
  BY <1>1, <1>2, <1>4 DEF Pay, ChangeStatus
<1>6. mail' \in Seq(PaidEvent')
  <2>1. mail \in Seq(PaidEvent')
    BY <1>1, <1>4, SeqMonotonic
  <2>2. \A e \in PaidEvent' : mail \o <<e>> \in Seq(PaidEvent')
    BY <2>1, Sent
  <2>3. CASE Pay(c)
    <3>1. [type |-> "completed", of |-> c] \in PaidEvent'
      BY <1>3 DEF PaidEvent, Event
    <3>2. QED
      BY <2>2, <2>3, <3>1 DEF Pay, Send
  <2>4. CASE ChangeStatus(c, status)
    <3> DEFINE failed == [type |-> "payment_failed", of |-> c]
               changed == [type |-> "changed", of |-> c, status |-> status]
    <3>1. failed \in PaidEvent' /\ changed \in PaidEvent'
      BY <1>3 DEF PaidEvent, Event
    <3>2. <<>> \o <<changed>> \in Seq(PaidEvent')
          /\ <<failed>> \o <<changed>> \in Seq(PaidEvent')
      <4>1. <<>> \in Seq(PaidEvent') /\ <<failed>> \in Seq(PaidEvent')
        BY <3>1
      <4>2. QED
        BY <3>1, <4>1, Sent
    <3>3. mail \o (<<>> \o <<changed>>) \in Seq(PaidEvent')
          /\ mail \o (<<failed>> \o <<changed>>) \in Seq(PaidEvent')
      BY <2>1, <3>2, ConcatProperties
    <3>4. mail' = mail \o (<<>> \o <<changed>>)
          \/ mail' = mail \o (<<failed>> \o <<changed>>)
      BY <2>4 DEF ChangeStatus, Send
    <3>5. QED
      BY <3>3, <3>4
  <2>5. QED
    BY <1>2, <2>3, <2>4
<1>7. TypeOK'
  <2>1. mail' \in Seq(Event)
    <3>1. PaidEvent' \subseteq Event
      BY DEF PaidEvent, Event, Statuses
    <3>2. QED
      BY <1>6, <3>1, SeqMonotonic
  <2>2. changes' \in 0 .. MaxChanges
    BY <1>1, <1>2, BillingAssumption DEF Pay, ChangeStatus, TypeOK, BillingAssumption
  <2>3. QED
    BY <1>1, <1>2, <1>3, <2>1, <2>2 DEF Pay, ChangeStatus, TypeOK
<1>8. QED
  BY <1>5, <1>6, <1>7 DEF PaymentInv

\* A webhook request takes an event, applies it to its own reading, or gives
\* it back.
LEMMA WebhookStep ==
  ASSUME PaymentInv, NEW h \in Handlers, Webhook(h)
  PROVE  PaymentInv'
<1>1. /\ org \in PaidRow /\ mail \in Seq(PaidEvent)
      /\ handler \in [Handlers -> PaidHandler] /\ TypeOK
  BY DEF PaymentInv
<1>2. PaidRow \subseteq Row /\ PaidEvent \subseteq Event
  BY DEF PaidRow, PaidEvent
<1>3. PaidHandler \subseteq Busy \cup {Idle} /\ Idle \in PaidHandler
  BY DEF PaidHandler
<1>4. ASSUME handler[h] # Idle
      PROVE  handler[h].event \in PaidEvent /\ handler[h].row \in PaidRow
  BY <1>1, <1>4 DEF PaidHandler
<1>5. ASSUME Applies(h) PROVE org' \in PaidRow /\ handler' \in [Handlers -> PaidHandler]
  <2>1. handler[h].event \in PaidEvent /\ handler[h].row \in PaidRow
    BY <1>4, <1>5 DEF Applies
  <2>2. handle_webhook(handler[h].row, handler[h].event) \in PaidRow
    BY <2>1, HandledIsPaid, BillingAssumption
  <2>3. org' \in PaidRow
    BY <1>1, <1>5, <2>1, <2>2, MixIsPaid DEF Applies
  <2>4. QED
    BY <1>1, <1>3, <1>5, <2>3 DEF Applies
<1>6. ASSUME handler[h] # Idle
      PROVE  <<handler[h].event>> \o mail \in Seq(PaidEvent)
  BY <1>1, <1>4, <1>6, Sent
<1> DEFINE Keeps ==
      /\ org' \in PaidRow /\ mail' \in Seq(PaidEvent)
      /\ handler' \in [Handlers -> PaidHandler]
      /\ UNCHANGED <<subs, checkout, customerOf, changes>>
      /\ disturbed' \in BOOLEAN /\ faults' \in 0 .. MaxFaults
<1>7. ASSUME Keeps PROVE PaymentInv'
  <2>1. mail' \in Seq(Event)
    BY <1>2, <1>7, SeqMonotonic
  <2>2. org' \in Row /\ handler' \in [Handlers -> Busy \cup {Idle}]
    BY <1>2, <1>3, <1>7
  <2>3. TypeOK'
    BY <1>1, <1>7, <2>1, <2>2 DEF TypeOK
  <2>4. QED
    BY <1>7, <2>3, SamePayments
<1>8. ASSUME NEW i \in DOMAIN mail, Receive(h, i) PROVE Keeps
  <2>1. mail[i] \in PaidEvent /\ RemoveAt(mail, i) \in Seq(PaidEvent)
    BY <1>1, Taken
  <2>2. [state |-> "busy", event |-> mail[i], row |-> org] \in PaidHandler
    BY <1>1, <1>2, <2>1 DEF PaidHandler, Busy
  <2>3. disturbed' \in BOOLEAN
    BY <1>1, <1>8, ZenonT(30) DEF Receive, TypeOK
  <2>4. QED
    BY <1>1, <1>8, <2>1, <2>2, <2>3 DEF Receive, TypeOK
<1>9. ASSUME Commit(h) PROVE Keeps
  BY <1>1, <1>5, <1>9 DEF Commit, TypeOK
<1>10. ASSUME Retry(h) \/ Repeat(h) PROVE Keeps
  <2>1. faults' \in 0 .. MaxFaults
    BY <1>1, <1>10, BillingAssumption DEF Retry, Repeat, Fault, TypeOK, BillingAssumption
  <2>2. mail' \in Seq(PaidEvent)
    BY <1>6, <1>10 DEF Retry, Repeat, Applies
  <2>3. org' \in PaidRow /\ handler' \in [Handlers -> PaidHandler]
    BY <1>1, <1>3, <1>5, <1>10 DEF Retry, Repeat
  <2>4. QED
    BY <1>1, <1>10, <2>1, <2>2, <2>3 DEF Retry, Repeat, TypeOK
<1>11. QED
  BY <1>7, <1>8, <1>9, <1>10 DEF Webhook

\* Every step, then, keeps what is paid for.
LEMMA PaymentInductive == PaymentInv /\ [Next]_vars => PaymentInv'
<1> SUFFICES ASSUME PaymentInv, [Next]_vars PROVE PaymentInv'
  OBVIOUS
<1>1. ASSUME NEW c \in Checkouts, Checkout(c) \/ Stripe(c) PROVE PaymentInv'
  BY <1>1, CheckoutStep, StripeStep
<1>2. ASSUME NEW h \in Handlers, Webhook(h) PROVE PaymentInv'
  BY <1>2, WebhookStep
<1>3. CASE UNCHANGED vars
  BY <1>3, SamePayments DEF vars, PaymentInv, TypeOK
<1>4. QED
  BY <1>1, <1>2, <1>3 DEF Next

\* Every reachable state of Billing is well typed.
THEOREM BillingTypeCorrect == Spec => []TypeOK
<1>1. PaymentInv => TypeOK
  BY DEF PaymentInv
<1>2. QED
  BY PaymentInit, PaymentInductive, <1>1, PTL DEF Spec

\* The plan and the subscription of the row have been paid for, whatever Stripe
\* reorders or repeats, and whichever columns of two events the row may mix.
THEOREM PlanWasPaidCorrect == Spec => []PlanWasPaid
<1>1. PaymentInv => PlanWasPaid
  BY DEF PaymentInv, PaidRow, Paid, PlanWasPaid
<1>2. QED
  BY PaymentInit, PaymentInductive, <1>1, PTL DEF Spec

----------------------------------------------------------------------------
(* Undisturbed: what the events that are still to come leave of the plan *)

\* A subscription that is over, an event that takes the plan away, and its
\* being in the mail behind the i-th event.
Lost == {"canceled", "unpaid"}
Over(c) == subs[c] \in Lost
Ends(e) == e.type = "changed" /\ e.status \in Lost
EndBehind(i) == \E j \in DOMAIN mail : j > i /\ Ends(mail[j])
EndComes ==
  EndBehind(0) \/ \E h \in Handlers : handler[h] # Idle /\ Ends(handler[h].event)

\* Every customer of a session is that of the row, so that every event is for
\* a customer the handler finds.
OneCustomer ==
  /\ \A c, d \in Checkouts : checkout[c] = "open" /\ checkout[d] = "open" => c = d
  /\ \A c \in Checkouts :
       /\ checkout[c] = "open" =>
            customerOf[c] = IF org.customer = None THEN c ELSE org.customer
       /\ checkout[c] = "answered" => org.customer # None /\ customerOf[c] = org.customer

\* At most one request is busy, and what it has read is still the row.
OneReader ==
  /\ \A g, h \in Handlers : handler[g] # Idle /\ handler[h] # Idle => g = h
  /\ \A h \in Handlers : handler[h] # Idle => handler[h].row = org

\* A plan that was given, or is about to be given, by a subscription that is
\* over will be taken away by an event that is still to come.
PlanEnds ==
  /\ org.plan # "free" =>
       \E c \in Paid : PlanOf[c] = org.plan /\ (Over(c) => EndComes)
  /\ \A h \in Handlers :
       handler[h] # Idle /\ handler[h].event.type = "completed" /\ Over(handler[h].event.of)
         => EndBehind(0)
  /\ \A i \in DOMAIN mail :
       mail[i].type = "completed" /\ Over(mail[i].of) => EndBehind(i)

\* The second part only while nothing is disturbed: an event that overtook, or
\* a row that was read too early, breaks it for good.
BackedInv ==
  /\ PaymentInv
  /\ \A c \in Paid : checkout[c] = "answered"
  /\ ~disturbed => OneCustomer /\ OneReader /\ PlanEnds

\* What stands where when events are sent behind others.
LEMMA Behind ==
  ASSUME NEW S, NEW s \in Seq(S), NEW t \in Seq(S)
  PROVE  /\ Len(s) \in Nat /\ DOMAIN s = 1 .. Len(s)
         /\ Len(t) \in Nat /\ DOMAIN t = 1 .. Len(t)
         /\ DOMAIN (s \o t) = 1 .. Len(s) + Len(t)
         /\ \A i \in 1 .. Len(s) : (s \o t)[i] = s[i]
         /\ \A i \in 1 .. Len(t) : (s \o t)[Len(s) + i] = t[i]
         /\ \A i \in Len(s) + 1 .. Len(s) + Len(t) : (s \o t)[i] = t[i - Len(s)]
<1>1. Len(s) \in Nat /\ DOMAIN s = 1 .. Len(s) /\ Len(t) \in Nat /\ DOMAIN t = 1 .. Len(t)
  BY LenProperties
<1>2. /\ s \o t \in Seq(S)
      /\ Len(s \o t) = Len(s) + Len(t)
      /\ \A i \in 1 .. Len(s) + Len(t) : (s \o t)[i] =
           IF i <= Len(s) THEN s[i] ELSE t[i - Len(s)]
  BY ConcatProperties
<1>3. DOMAIN (s \o t) = 1 .. Len(s) + Len(t)
  BY <1>2, LenProperties
<1>4. \A i \in 1 .. Len(t) : (s \o t)[Len(s) + i] = t[i]
  <2> TAKE i \in 1 .. Len(t)
  <2>1. /\ Len(s) + i \in 1 .. Len(s) + Len(t)
        /\ ~(Len(s) + i <= Len(s)) /\ Len(s) + i - Len(s) = i
    BY <1>1
  <2>2. QED
    BY <1>2, <2>1
<1>5. QED
  BY <1>1, <1>2, <1>3, <1>4

\* Taking the first event is the reverse of giving one back.
LEMMA FirstTaken ==
  ASSUME NEW S, NEW s \in Seq(S), 1 \in DOMAIN s
  PROVE  s = <<s[1]>> \o RemoveAt(s, 1) /\ RemoveAt(s, 1) \in Seq(S)
<1>1. Len(s) \in Nat /\ 1 \in 1 .. Len(s) /\ \A j \in 1 .. Len(s) : s[j] \in S
  BY LenProperties, ElementOfSeq
<1>2. SubSeq(s, 1, 0) = <<>>
  BY SubSeqEmpty
<1>3. SubSeq(s, 2, Len(s)) \in Seq(S)
  BY <1>1, SubSeqProperties
<1>4. RemoveAt(s, 1) = SubSeq(s, 2, Len(s))
  BY <1>2, <1>3, ConcatEmptySeq DEF RemoveAt
<1>5. SubSeq(s, 1, Len(s)) = <<s[1]>> \o SubSeq(s, 2, Len(s))
  BY <1>1, SubSeqRecursiveFirst
<1>6. QED
  BY <1>3, <1>4, <1>5, SubSeqFull

\* One event sent, or two of them.
LEMMA TwoSent ==
  ASSUME NEW S, NEW a \in S, NEW b \in S
  PROVE  <<>> \o <<b>> = <<b>> /\ <<a>> \o <<b>> = <<a, b>>
<1>1. <<b>> \in Seq(S) /\ <<a>> \in Seq(S) /\ <<a, b>> \in Seq(S)
  OBVIOUS
<1>2. <<>> \o <<b>> = <<b>>
  BY <1>1, ConcatEmptySeq
<1>3. <<a>> \o <<b>> = <<a, b>>
  <2> DEFINE s == <<a>>
             t == <<b>>
             u == <<a, b>>
  <2>1. /\ s \in Seq(S) /\ Len(s) = 1 /\ s[1] = a
        /\ t \in Seq(S) /\ Len(t) = 1 /\ t[1] = b
        /\ u \in Seq(S) /\ Len(u) = 2 /\ u[1] = a /\ u[2] = b
    BY <1>1
  <2> HIDE DEF s, t, u
  <2>2. /\ s \o t \in Seq(S) /\ Len(s \o t) = 2
        /\ (s \o t)[1] = a /\ (s \o t)[2] = b
    BY <2>1, ConcatProperties
  <2>3. s \o t = u
    <3>1. \A i \in 1 .. Len(s \o t) : (s \o t)[i] = u[i]
      BY <2>1, <2>2
    <3>2. QED
      BY <2>1, <2>2, <3>1, SeqEqual
  <2>4. QED
    BY <2>3 DEF s, t, u
<1>4. QED
  BY <1>2, <1>3

\* A new organisation has no plan to be backed.
LEMMA BackedInit == Init => BackedInv
<1> SUFFICES ASSUME Init PROVE BackedInv
  OBVIOUS
<1>1. PaymentInv
  BY PaymentInit
<1>2. \A c \in Paid : checkout[c] = "answered"
  BY DEF Init, Paid
<1>3. OneCustomer /\ OneReader
  BY DEF Init, OneCustomer, OneReader
<1>4. PlanEnds
  BY DEF Init, PlanEnds
<1>5. QED
  BY <1>1, <1>2, <1>3, <1>4 DEF BackedInv

\* What BackedInv gives where nothing has been disturbed: all that is paid for
\* has the customer of the row.
LEMMA CustomerKnown ==
  ASSUME BackedInv, ~disturbed, NEW e \in PaidEvent
  PROVE  org.customer # None /\ Known(org, e)
  BY DEF BackedInv, OneCustomer, PaidEvent, Event, Known

\* A checkout changes the customer of the row only while nothing is paid for.
LEMMA BackedCheckout ==
  ASSUME BackedInv, NEW c \in Checkouts, Checkout(c)
  PROVE  BackedInv'
<1>1. PaymentInv'
  BY CheckoutStep DEF BackedInv
<1>2. /\ PaymentInv /\ TypeOK /\ org \in Row
      /\ handler \in [Handlers -> PaidHandler]
      /\ checkout \in [Checkouts -> {"new", "open", "answered", "failed"}]
      /\ customerOf \in [Checkouts -> Checkouts \cup {None}]
      /\ None \notin Checkouts
  BY BillingAssumption DEF BackedInv, PaymentInv, TypeOK, BillingAssumption
<1>3. UNCHANGED <<subs, mail, handler>> /\ Paid' = Paid
  BY DEF Checkout, OpenCheckout, CommitCheckout, AbortCheckout, Paid
<1>4. \A d \in Paid : checkout'[d] = "answered"
  BY <1>2 DEF BackedInv, Paid, Checkout, OpenCheckout, CommitCheckout, AbortCheckout
<1>5. ASSUME ~disturbed' PROVE ~disturbed
  BY <1>5, Zenon DEF Checkout, OpenCheckout, CommitCheckout, AbortCheckout
<1>6. ASSUME ~disturbed' PROVE OneCustomer'
  <2>1. OneCustomer
    BY <1>5, <1>6 DEF BackedInv
  <2>2. CASE OpenCheckout(c)
    <3>1. \A d \in Checkouts : checkout[d] # "open"
      BY <1>6, <2>2, Zenon DEF OpenCheckout
    <3>2. QED
      BY <1>2, <2>1, <2>2, <3>1 DEF OpenCheckout, OneCustomer
  <2>3. CASE CommitCheckout(c)
    <3>1. org'.customer = IF customerOf[c] = c THEN c ELSE org.customer
      BY <1>2, <2>3 DEF CommitCheckout, Row
    <3>2. checkout' = [checkout EXCEPT ![c] = "answered"] /\ customerOf' = customerOf
          /\ checkout[c] = "open"
      BY <2>3 DEF CommitCheckout
    <3>3. org'.customer = customerOf[c] /\ org'.customer # None
      BY <1>2, <2>1, <3>1, <3>2 DEF OneCustomer
    <3>4. org.customer # None => org'.customer = org.customer
      BY <2>1, <3>2, <3>3 DEF OneCustomer
    <3>5. QED
      BY <1>2, <2>1, <3>2, <3>3, <3>4 DEF OneCustomer
  <2>4. CASE AbortCheckout(c)
    BY <1>2, <2>1, <2>4 DEF AbortCheckout, OneCustomer
  <2>5. QED
    BY <2>2, <2>3, <2>4 DEF Checkout
<1>7. ASSUME ~disturbed' PROVE OneReader'
  <2>1. OneReader /\ OneCustomer /\ ~disturbed
    BY <1>5, <1>7 DEF BackedInv
  <2>2. ASSUME NEW h \in Handlers, handler[h] # Idle PROVE org' = org
    <3>1. handler[h].event \in PaidEvent
      BY <1>2, <2>2 DEF PaidHandler
    <3>2. org.customer # None
      BY <2>1, <3>1, CustomerKnown
    <3>3. CASE CommitCheckout(c)
      <4>1. customerOf[c] = org.customer
        BY <2>1, <3>2, <3>3 DEF CommitCheckout, OneCustomer
      <4>2. org' = [org EXCEPT !.customer = org.customer]
        BY <3>3, <4>1 DEF CommitCheckout
      <4>3. QED
        BY <1>2, <4>2 DEF Row
    <3>4. QED
      BY <3>3 DEF Checkout, OpenCheckout, AbortCheckout
  <2>3. QED
    BY <1>3, <2>1, <2>2 DEF OneReader
<1>8. ASSUME ~disturbed' PROVE PlanEnds'
  <2>1. PlanEnds
    BY <1>5, <1>8 DEF BackedInv
  <2>2. org'.plan = org.plan
    BY <1>2 DEF Checkout, OpenCheckout, CommitCheckout, AbortCheckout, Row
  <2>3. QED
    BY <1>3, <2>1, <2>2 DEF PlanEnds, Over, EndComes, EndBehind
<1>9. QED
  BY <1>1, <1>4, <1>6, <1>7, <1>8, <1>3 DEF BackedInv

\* A mail that grows behind keeps the ends that are to come; and a subscription
\* that is newly over has sent its end.
LEMMA PlanEndsGrows ==
  ASSUME PaymentInv, PaymentInv', PlanEnds, NEW t \in Seq(Event), mail' = mail \o t,
         UNCHANGED <<org, handler>>, Paid \subseteq Paid',
         \A d \in Checkouts : subs'[d] \in Lost => Over(d) \/ \E k \in DOMAIN t : Ends(t[k]),
         \A k \in DOMAIN t : t[k].type = "completed" => subs'[t[k].of] \notin Lost
  PROVE  PlanEnds'
<1>1. mail \in Seq(Event) /\ mail \in Seq(PaidEvent) /\ handler \in [Handlers -> PaidHandler]
  BY DEF PaymentInv, TypeOK
<1> DEFINE n == Len(mail)
<1>2. /\ n \in Nat /\ DOMAIN mail = 1 .. n
      /\ Len(t) \in Nat /\ DOMAIN t = 1 .. Len(t)
      /\ DOMAIN mail' = 1 .. n + Len(t)
      /\ \A i \in 1 .. n : mail'[i] = mail[i]
      /\ \A i \in 1 .. Len(t) : mail'[n + i] = t[i]
      /\ \A i \in n + 1 .. n + Len(t) : mail'[i] = t[i - n]
  BY <1>1, Behind
<1> HIDE DEF n
<1>3. \A i \in 0 .. n : EndBehind(i) => EndBehind(i)'
  BY <1>2 DEF EndBehind, Ends
<1>4. ASSUME NEW k \in DOMAIN t, Ends(t[k]), NEW i \in 0 .. n PROVE EndBehind(i)'
  <2>1. n + k \in DOMAIN mail' /\ n + k > i /\ mail'[n + k] = t[k]
    BY <1>2, <1>4
  <2>2. QED
    BY <1>4, <2>1 DEF EndBehind, Ends
<1>5. EndComes => EndComes'
  BY <1>2, <1>3 DEF EndComes, Ends
<1>6. ASSUME NEW d \in Checkouts, subs'[d] \in Lost, NEW i \in 0 .. n, Over(d) => EndBehind(i)
      PROVE  EndBehind(i)'
  BY <1>3, <1>4, <1>6
<1>7. ASSUME org'.plan # "free"
      PROVE  \E c \in Paid' : PlanOf[c] = org'.plan /\ (subs'[c] \in Lost => EndComes')
  <2>1. PICK c \in Paid : PlanOf[c] = org.plan /\ (Over(c) => EndComes)
    BY <1>7 DEF PlanEnds
  <2>2. ASSUME subs'[c] \in Lost PROVE EndComes'
    <3>1. c \in Checkouts
      BY DEF Paid
    <3>2. CASE Over(c)
      BY <1>5, <2>1, <3>2
    <3>3. CASE \E k \in DOMAIN t : Ends(t[k])
      BY <1>2, <1>4, <3>3 DEF EndComes
    <3>4. QED
      BY <2>2, <3>1, <3>2, <3>3
  <2>3. QED
    BY <2>1, <2>2
<1>8. ASSUME NEW h \in Handlers, handler'[h] # Idle,
             handler'[h].event.type = "completed", subs'[handler'[h].event.of] \in Lost
      PROVE  EndBehind(0)'
  <2> DEFINE d == handler[h].event.of
  <2>1. handler[h].event \in PaidEvent
    BY <1>1, <1>8 DEF PaidHandler
  <2>2. d \in Checkouts /\ subs'[d] \in Lost
    BY <1>8, <2>1 DEF PaidEvent, Paid
  <2>3. Over(d) => EndBehind(0)
    BY <1>8 DEF PlanEnds
  <2> HIDE DEF d
  <2>4. QED
    BY <1>2, <1>6, <2>2, <2>3
<1>9. ASSUME NEW i \in DOMAIN mail', mail'[i].type = "completed", subs'[mail'[i].of] \in Lost
      PROVE  EndBehind(i)'
  <2>1. CASE i \in 1 .. n
    <3> DEFINE d == mail[i].of
    <3>1. mail[i] \in PaidEvent /\ mail'[i] = mail[i]
      BY <1>1, <1>2, <2>1, ElementOfSeq DEF n
    <3>2. d \in Checkouts /\ subs'[d] \in Lost
      BY <1>9, <3>1 DEF PaidEvent, Paid
    <3>3. Over(d) => EndBehind(i)
      BY <1>2, <1>9, <2>1, <3>1 DEF PlanEnds
    <3> HIDE DEF d
    <3>4. QED
      BY <1>2, <1>6, <2>1, <3>2, <3>3
  <2>2. CASE i \in n + 1 .. n + Len(t)
    <3>1. i - n \in DOMAIN t /\ mail'[i] = t[i - n]
      BY <1>2, <2>2
    <3>2. QED
      BY <1>9, <3>1
  <2>3. QED
    BY <1>2, <2>1, <2>2
<1>10. QED
  BY <1>7, <1>8, <1>9 DEF PlanEnds, Over

\* Stripe tells of every subscription that is over, after telling of its payment.
LEMMA BackedStripe ==
  ASSUME BackedInv, NEW c \in Checkouts, Stripe(c)
  PROVE  BackedInv'
<1>1. PaymentInv /\ PaymentInv' /\ TypeOK
  BY StripeStep DEF BackedInv, PaymentInv
<1>2. PICK status \in Statuses : Pay(c) \/ ChangeStatus(c, status)
  BY DEF Stripe, Statuses
<1>3. /\ UNCHANGED <<org, checkout, customerOf, handler, disturbed>>
      /\ Paid \subseteq Paid' /\ \A d \in Paid' : checkout[d] = "answered"
      /\ \A d \in Checkouts : d # c => subs'[d] = subs[d]
  BY <1>1, <1>2 DEF BackedInv, Pay, ChangeStatus, Paid, TypeOK, Statuses, None
<1>4. ASSUME ~disturbed' PROVE OneCustomer' /\ OneReader'
  BY <1>3, <1>4 DEF BackedInv, OneCustomer, OneReader
<1>5. ASSUME PlanEnds PROVE PlanEnds'
  <2>1. CASE Pay(c)
    <3> DEFINE t == <<[type |-> "completed", of |-> c]>>
    <3>1. t \in Seq(Event) /\ DOMAIN t = {1}
      BY DEF Event
    <3>2. mail' = mail \o t /\ subs'[c] \notin Lost
      BY <1>1, <2>1 DEF Pay, Send, Lost, TypeOK
    <3>3. \A d \in Checkouts : subs'[d] \in Lost => Over(d)
      BY <1>3, <3>2 DEF Over
    <3>4. \A k \in DOMAIN t : subs'[t[k].of] \notin Lost
      BY <3>1, <3>2
    <3> HIDE DEF t
    <3>5. QED
      BY <1>1, <1>3, <1>5, <3>1, <3>2, <3>3, <3>4, PlanEndsGrows
  <2>2. CASE ChangeStatus(c, status)
    <3> DEFINE failed == [type |-> "payment_failed", of |-> c]
               changed == [type |-> "changed", of |-> c, status |-> status]
               t == (IF status = "past_due" THEN <<failed>> ELSE <<>>) \o <<changed>>
    <3>1. failed \in Event /\ changed \in Event
      BY DEF Event
    <3>2. /\ t = <<changed>> \/ t = <<failed, changed>>
          /\ t \in Seq(Event)
      <4>1. <<>> \o <<changed>> = <<changed>> /\ <<failed>> \o <<changed>> = <<failed, changed>>
        <5> HIDE DEF failed, changed, t
        <5>1. QED
          BY <3>1, TwoSent
      <4>2. <<changed>> \in Seq(Event) /\ <<failed, changed>> \in Seq(Event)
        BY <3>1
      <4>3. t = <<changed>> \/ t = <<failed, changed>>
        BY <4>1
      <4>4. QED
        BY <4>2, <4>3
    <3>3. mail' = mail \o t
      BY <2>2 DEF ChangeStatus, Send
    <3>4. subs'[c] \in Lost => Ends(changed)
      BY <1>1, <2>2 DEF ChangeStatus, Ends, TypeOK
    <3>5. \A k \in DOMAIN t : t[k].type # "completed"
      <4>1. failed.type # "completed" /\ changed.type # "completed"
        OBVIOUS
      <4> HIDE DEF failed, changed, t
      <4>2. QED
        BY <3>2, <4>1
    <3> HIDE DEF failed, changed, t
    <3>6. \E k \in DOMAIN t : t[k] = changed
      <4>1. CASE t = <<changed>>
        <5>1. 1 \in DOMAIN t /\ t[1] = changed
          BY <4>1
        <5>2. QED
          BY <5>1
      <4>2. CASE t = <<failed, changed>>
        <5>1. 2 \in DOMAIN t /\ t[2] = changed
          BY <4>2
        <5>2. QED
          BY <5>1
      <4>3. QED
        BY <3>2, <4>1, <4>2
    <3>7. \A d \in Checkouts : subs'[d] \in Lost => Over(d) \/ \E k \in DOMAIN t : Ends(t[k])
      BY <1>3, <3>4, <3>6 DEF Over
    <3>8. QED
      BY <1>1, <1>3, <1>5, <3>2, <3>3, <3>5, <3>7, PlanEndsGrows
  <2>3. QED
    BY <1>2, <2>1, <2>2
<1>6. QED
  BY <1>1, <1>3, <1>4, <1>5 DEF BackedInv

\* An event in front, or taken from the front, leaves what is behind it.
LEMMA FrontEvent ==
  ASSUME NEW e \in Event, NEW s \in Seq(Event)
  PROVE  /\ Len(s) \in Nat /\ DOMAIN s = 1 .. Len(s)
         /\ DOMAIN (<<e>> \o s) = 1 .. Len(s) + 1
         /\ (<<e>> \o s)[1] = e
         /\ \A i \in 1 .. Len(s) : (<<e>> \o s)[i + 1] = s[i]
         /\ \A i \in 2 .. Len(s) + 1 : (<<e>> \o s)[i] = s[i - 1]
<1> DEFINE f == <<e>>
<1>1. f \in Seq(Event) /\ Len(f) = 1 /\ f[1] = e
  OBVIOUS
<1> HIDE DEF f
<1>2. /\ Len(s) \in Nat /\ DOMAIN s = 1 .. Len(s)
      /\ DOMAIN (f \o s) = 1 .. Len(f) + Len(s)
      /\ \A i \in 1 .. Len(f) : (f \o s)[i] = f[i]
      /\ \A i \in 1 .. Len(s) : (f \o s)[Len(f) + i] = s[i]
      /\ \A i \in Len(f) + 1 .. Len(f) + Len(s) : (f \o s)[i] = s[i - Len(f)]
  <2>1. f \in Seq(Event) /\ s \in Seq(Event)
    BY <1>1
  <2>2. QED
    BY <2>1, Behind
<1>3. /\ Len(s) \in Nat /\ DOMAIN s = 1 .. Len(s)
      /\ DOMAIN (f \o s) = 1 .. Len(s) + 1
      /\ (f \o s)[1] = e
      /\ \A i \in 1 .. Len(s) : (f \o s)[i + 1] = s[i]
      /\ \A i \in 2 .. Len(s) + 1 : (f \o s)[i] = s[i - 1]
  <2> DEFINE m == f \o s
  <2>1. /\ Len(s) \in Nat /\ DOMAIN s = 1 .. Len(s)
        /\ DOMAIN m = 1 .. 1 + Len(s)
        /\ m[1] = e
        /\ \A i \in 1 .. Len(s) : m[1 + i] = s[i]
        /\ \A i \in 2 .. 1 + Len(s) : m[i] = s[i - 1]
    BY <1>1, <1>2
  <2> HIDE DEF m
  <2>2. \A i \in 1 .. Len(s) : i + 1 = 1 + i
    BY <2>1
  <2>3. 1 + Len(s) = Len(s) + 1
    BY <2>1
  <2>4. QED
    BY <2>1, <2>2, <2>3 DEF m
<1>4. QED
  BY <1>3 DEF f

\* A request that nothing disturbs takes the oldest event.
LEMMA ReceiveBacked ==
  ASSUME BackedInv, ~disturbed, NEW h \in Handlers, Receive(h, 1), 1 \in DOMAIN mail,
         \A g \in Handlers : handler[g] = Idle
  PROVE  OneReader' /\ PlanEnds'
<1>1. /\ mail \in Seq(Event) /\ handler \in [Handlers -> Busy \cup {Idle}]
      /\ PlanEnds
  BY DEF BackedInv, PaymentInv, TypeOK
<1> DEFINE e == mail[1]
           n == Len(mail')
<1>2. mail' \in Seq(Event) /\ mail = <<e>> \o mail' /\ e \in Event
  <2>1. mail' = RemoveAt(mail, 1)
    BY DEF Receive
  <2>2. mail = <<mail[1]>> \o RemoveAt(mail, 1) /\ RemoveAt(mail, 1) \in Seq(Event)
    BY <1>1, FirstTaken
  <2>3. mail[1] \in Event
    BY <1>1, Taken
  <2>4. QED
    BY <2>1, <2>2, <2>3
<1>3. handler' = [handler EXCEPT ![h] = [state |-> "busy", event |-> e, row |-> org]]
      /\ UNCHANGED <<org, subs>>
  BY DEF Receive
<1> HIDE DEF e
<1>4. /\ n \in Nat /\ DOMAIN mail' = 1 .. n /\ DOMAIN mail = 1 .. n + 1
      /\ mail[1] = e
      /\ \A i \in 1 .. n : mail[i + 1] = mail'[i]
      /\ \A i \in 2 .. n + 1 : mail[i] = mail'[i - 1]
  BY <1>2, FrontEvent
<1> HIDE DEF n
<1>5. OneReader'
  BY <1>1, <1>3 DEF OneReader, Idle
<1>6. \A i \in 0 .. n : EndBehind(i + 1) => EndBehind(i)'
  <2> SUFFICES ASSUME NEW i \in 0 .. n, EndBehind(i + 1) PROVE EndBehind(i)'
    OBVIOUS
  <2>1. PICK j \in DOMAIN mail : j > i + 1 /\ Ends(mail[j])
    BY DEF EndBehind
  <2>2. j - 1 \in DOMAIN mail' /\ j - 1 > i /\ mail'[j - 1] = mail[j]
    BY <1>4, <2>1
  <2>3. QED
    BY <2>1, <2>2 DEF EndBehind, Ends
<1>7. handler'[h] # Idle /\ handler'[h].event = e
  BY <1>1, <1>3 DEF Idle
<1>8. EndComes => EndComes'
  <2>1. ASSUME EndComes PROVE EndBehind(1) \/ Ends(e)
    <3>1. PICK j \in DOMAIN mail : j > 0 /\ Ends(mail[j])
      BY <2>1 DEF EndComes, EndBehind
    <3>2. QED
      BY <1>4, <3>1 DEF EndBehind
  <2>2. QED
    BY <1>4, <1>6, <1>7, <2>1 DEF EndComes, Ends
<1>9. PlanEnds'
  <2>1. ASSUME org'.plan # "free"
        PROVE  \E c \in Paid' : PlanOf[c] = org'.plan /\ (subs'[c] \in Lost => EndComes')
    BY <1>1, <1>3, <1>8, <2>1 DEF PlanEnds, Paid, Over
  <2>2. ASSUME NEW g \in Handlers, handler'[g] # Idle,
               handler'[g].event.type = "completed", subs'[handler'[g].event.of] \in Lost
        PROVE  EndBehind(0)'
    <3>1. g = h
      BY <1>3, <2>2
    <3>2. e.type = "completed" /\ subs[e.of] \in Lost
      BY <1>3, <1>7, <2>2, <3>1
    <3>3. EndBehind(1)
      BY <1>1, <1>4, <3>2 DEF PlanEnds, Over
    <3>4. QED
      BY <1>4, <1>6, <3>3
  <2>3. ASSUME NEW i \in DOMAIN mail', mail'[i].type = "completed",
               subs'[mail'[i].of] \in Lost
        PROVE  EndBehind(i)'
    <3>1. i + 1 \in DOMAIN mail /\ mail[i + 1] = mail'[i]
      BY <1>4
    <3>2. EndBehind(i + 1)
      BY <1>1, <1>3, <2>3, <3>1 DEF PlanEnds, Over
    <3>3. QED
      BY <1>4, <1>6, <3>2
  <2>4. QED
    BY <2>1, <2>2, <2>3 DEF PlanEnds, Over
<1>10. QED
  BY <1>5, <1>9

\* A request that nothing disturbs applies its event to the row as it is, and
\* leaves no plan of a subscription that is over unless the mail ends it.
LEMMA AppliedPlan ==
  ASSUME BackedInv, ~disturbed, NEW h \in Handlers, Applies(h)
  PROVE  /\ \A g \in Handlers : handler'[g] = Idle
         /\ org'.customer = org.customer
         /\ org'.plan # "free" =>
              \E c \in Paid : PlanOf[c] = org'.plan /\ (Over(c) => EndBehind(0))
<1> DEFINE e == handler[h].event
           left == handle_webhook(org, e)
<1>1. /\ handler \in [Handlers -> PaidHandler] /\ org \in Row /\ handler[h] # Idle
      /\ OneReader /\ PlanEnds
  BY DEF BackedInv, PaymentInv, TypeOK, Applies
<1>2. e \in PaidEvent /\ handler[h].row = org
  BY <1>1 DEF PaidHandler, OneReader
<1>3. handler' = [handler EXCEPT ![h] = Idle]
  BY DEF Applies
<1>4. \A g \in Handlers : handler'[g] = Idle
  BY <1>1, <1>3 DEF OneReader
<1>5. org' = Written(org, left, org)
  BY <1>2 DEF Applies
<1>6. Known(org, e)
  BY <1>2, CustomerKnown
<1>7. /\ Over(e.of) /\ e.type = "completed" => EndBehind(0)
      /\ ~Ends(e) /\ EndComes => EndBehind(0)
  BY <1>1 DEF PlanEnds, EndComes, OneReader
<1> HIDE DEF e, left
<1>8. e.of \in Paid /\ e.type \in {"completed", "changed", "payment_failed"}
  BY <1>2 DEF PaidEvent, Event
<1>9. /\ org'.customer = left.customer
      /\ org'.plan = left.plan
  BY <1>1, <1>5 DEF Written, Row
<1>10. CASE e.type = "completed"
  <2>1. left = _handle_checkout_completed(org, e)
    BY <1>10 DEF left, handle_webhook
  <2>2. left.customer = org.customer /\ left.plan = PlanOf[e.of]
    BY <1>1, <2>1 DEF _handle_checkout_completed, Row
  <2>3. QED
    BY <1>4, <1>7, <1>8, <1>9, <1>10, <2>2
<1>11. CASE e.type = "changed" /\ e.status \in Lost
  <2>1. left = _handle_subscription_change(org, e)
    BY <1>6, <1>11 DEF left, handle_webhook
  <2>2. left.customer = org.customer /\ left.plan = "free"
    BY <1>1, <1>11, <2>1 DEF _handle_subscription_change, Row, Lost
  <2>3. QED
    BY <1>4, <1>9, <2>2
<1>12. CASE ~Ends(e) /\ e.type # "completed"
  <2>1. left.customer = org.customer /\ left.plan = org.plan
    <3>1. CASE e.type = "changed"
      <4>1. left = _handle_subscription_change(org, e)
        BY <1>6, <3>1 DEF left, handle_webhook
      <4>2. e.status \notin {"canceled", "unpaid"}
        BY <1>12, <3>1 DEF Ends, Lost
      <4>3. QED
        BY <1>1, <4>1, <4>2 DEF _handle_subscription_change, Row
    <3>2. CASE e.type = "payment_failed"
      <4>1. left = _handle_payment_failed(org, e)
        BY <1>6, <3>2 DEF left, handle_webhook
      <4>2. QED
        BY <1>1, <4>1 DEF _handle_payment_failed, Row
    <3>3. QED
      BY <1>8, <1>12, <3>1, <3>2
  <2>2. QED
    BY <1>1, <1>4, <1>7, <1>9, <1>12, <2>1 DEF PlanEnds
<1>13. QED
  BY <1>10, <1>11, <1>12 DEF Ends

\* An event given back to the front is as good as one that is still applied.
LEMMA GivenBack ==
  ASSUME BackedInv, ~disturbed, NEW h \in Handlers, handler[h] # Idle,
         mail' = <<handler[h].event>> \o mail, UNCHANGED subs
  PROVE  /\ EndComes => EndBehind(0)'
         /\ EndBehind(0) => EndBehind(0)'
         /\ \A i \in DOMAIN mail' :
              mail'[i].type = "completed" /\ subs'[mail'[i].of] \in Lost => EndBehind(i)'
<1> DEFINE e == handler[h].event
           n == Len(mail)
<1>1. /\ handler \in [Handlers -> PaidHandler] /\ mail \in Seq(Event)
      /\ OneReader /\ PlanEnds
  BY DEF BackedInv, PaymentInv, TypeOK
<1>2. e \in Event /\ \A g \in Handlers : handler[g] # Idle => handler[g].event = e
  BY <1>1 DEF PaidHandler, PaidEvent, OneReader
<1>3. e.type = "completed" /\ Over(e.of) => EndBehind(0)
  BY <1>1 DEF PlanEnds
<1> HIDE DEF e
<1>4. mail' = <<e>> \o mail
  BY DEF e
<1>5. /\ n \in Nat /\ DOMAIN mail = 1 .. n /\ DOMAIN mail' = 1 .. n + 1
      /\ mail'[1] = e
      /\ \A i \in 1 .. n : mail'[i + 1] = mail[i]
      /\ \A i \in 2 .. n + 1 : mail'[i] = mail[i - 1]
  BY <1>1, <1>2, <1>4, FrontEvent
<1> HIDE DEF n
<1>6. \A i \in 0 .. n : EndBehind(i) => EndBehind(i + 1)'
  <2> SUFFICES ASSUME NEW i \in 0 .. n, EndBehind(i) PROVE EndBehind(i + 1)'
    OBVIOUS
  <2>1. PICK j \in DOMAIN mail : j > i /\ Ends(mail[j])
    BY DEF EndBehind
  <2>2. j + 1 \in DOMAIN mail' /\ j + 1 > i + 1 /\ mail'[j + 1] = mail[j]
    BY <1>5, <2>1
  <2>3. QED
    BY <2>1, <2>2 DEF EndBehind, Ends
<1>7. EndBehind(0) => EndBehind(0)'
  <2>1. EndBehind(1)' => EndBehind(0)'
    BY <1>5 DEF EndBehind
  <2>2. 0 \in 0 .. n /\ 0 + 1 = 1
    BY <1>5
  <2>3. EndBehind(0) => EndBehind(1)'
    BY <1>6, <2>2
  <2>4. QED
    BY <2>1, <2>3
<1>8. Ends(e) => EndBehind(0)'
  <2>1. 1 \in DOMAIN mail' /\ 1 > 0
    BY <1>5
  <2>2. QED
    BY <1>5, <2>1 DEF EndBehind, Ends
<1>9. EndComes => EndBehind(0)'
  BY <1>2, <1>7, <1>8 DEF EndComes
<1>10. ASSUME NEW i \in DOMAIN mail', mail'[i].type = "completed", subs'[mail'[i].of] \in Lost
       PROVE  EndBehind(i)'
  <2>1. CASE i = 1
    <3>1. EndBehind(0)
      BY <1>3, <1>5, <1>10, <2>1 DEF Over
    <3>2. 0 \in 0 .. n /\ 0 + 1 = 1
      BY <1>5
    <3>3. QED
      BY <1>6, <2>1, <3>1, <3>2
  <2>2. CASE i # 1
    <3>1. i - 1 \in DOMAIN mail /\ mail'[i] = mail[i - 1] /\ i - 1 + 1 = i /\ i - 1 \in 0 .. n
      BY <1>5, <2>2
    <3>2. EndBehind(i - 1)
      BY <1>1, <1>10, <3>1 DEF PlanEnds, Over
    <3>3. EndBehind(i - 1 + 1)'
      BY <1>6, <3>1, <3>2
    <3>4. QED
      BY <3>1, <3>3
  <2>3. QED
    BY <2>1, <2>2
<1>11. QED
  BY <1>7, <1>9, <1>10

\* A webhook request takes an event, applies it, or gives it back.
LEMMA BackedWebhook ==
  ASSUME BackedInv, NEW h \in Handlers, Webhook(h)
  PROVE  BackedInv'
<1>1. PaymentInv /\ PaymentInv'
  BY WebhookStep DEF BackedInv
<1>2. /\ UNCHANGED <<subs, checkout, customerOf>> /\ Paid' = Paid
      /\ \A c \in Paid' : checkout'[c] = "answered"
  BY DEF BackedInv, Webhook, Receive, Commit, Retry, Repeat, Applies, Paid
<1>3. ASSUME ~disturbed' PROVE ~disturbed
  BY <1>3, Zenon DEF Webhook, Receive, Commit, Retry, Repeat
<1>4. ASSUME ~disturbed' PROVE OneCustomer' /\ OneReader' /\ PlanEnds'
  <2>1. ~disturbed /\ OneCustomer /\ OneReader /\ PlanEnds
    BY <1>3, <1>4 DEF BackedInv
  <2>2. ASSUME org'.customer = org.customer PROVE OneCustomer'
    BY <1>2, <2>1, <2>2 DEF OneCustomer
  <2> DEFINE NoneBusy == \A g \in Handlers : handler'[g] = Idle
             PlanBacked == org'.plan # "free" =>
               \E c \in Paid : PlanOf[c] = org'.plan /\ (Over(c) => EndBehind(0)')
             MailBacked == \A i \in DOMAIN mail' :
               mail'[i].type = "completed" /\ subs'[mail'[i].of] \in Lost => EndBehind(i)'
  <2>3. ASSUME NoneBusy, PlanBacked, MailBacked PROVE OneReader' /\ PlanEnds'
    BY <1>2, <2>3 DEF OneReader, PlanEnds, EndComes, Over
  <2>4. ASSUME NEW i \in DOMAIN mail, Receive(h, i) PROVE OneCustomer' /\ OneReader' /\ PlanEnds'
    <3>1. i = 1 /\ \A g \in Handlers : handler[g] = Idle
      BY <1>4, <2>4, Zenon DEF Receive
    <3>2. org' = org
      BY <2>4 DEF Receive
    <3>3. QED
      BY <2>1, <2>2, <2>4, <3>1, <3>2, ReceiveBacked
  <2>5. CASE Commit(h)
    <3>1. Applies(h) /\ mail' = mail
      BY <2>5 DEF Commit
    <3>2. EndBehind(0)' <=> EndBehind(0)
      BY <3>1 DEF EndBehind, Ends
    <3>3. NoneBusy /\ org'.customer = org.customer /\ PlanBacked
      BY <2>1, <3>1, <3>2, AppliedPlan
    <3>4. MailBacked
      BY <1>2, <2>1, <3>1 DEF PlanEnds, Over, EndBehind, Ends
    <3>5. QED
      BY <2>2, <2>3, <3>3, <3>4
  <2>6. CASE Repeat(h)
    <3>1. /\ Applies(h) /\ handler[h] # Idle
          /\ mail' = <<handler[h].event>> \o mail
      BY <2>6 DEF Repeat, Applies
    <3>2. (EndBehind(0) => EndBehind(0)') /\ MailBacked
      BY <1>2, <2>1, <3>1, GivenBack
    <3>3. NoneBusy /\ org'.customer = org.customer /\ PlanBacked
      BY <2>1, <3>1, <3>2, AppliedPlan
    <3>4. QED
      BY <2>2, <2>3, <3>2, <3>3
  <2>7. CASE Retry(h)
    <3>1. /\ handler[h] # Idle /\ org' = org
          /\ handler' = [handler EXCEPT ![h] = Idle]
          /\ mail' = <<handler[h].event>> \o mail
      BY <2>7 DEF Retry
    <3>2. (EndComes => EndBehind(0)') /\ MailBacked
      BY <1>2, <2>1, <3>1, GivenBack
    <3>3. NoneBusy
      BY <1>1, <2>1, <3>1 DEF OneReader, PaymentInv
    <3>4. PlanBacked
      BY <2>1, <3>1, <3>2 DEF PlanEnds
    <3>5. QED
      BY <2>2, <2>3, <3>1, <3>2, <3>3, <3>4
  <2>8. QED
    BY <2>4, <2>5, <2>6, <2>7 DEF Webhook
<1>5. QED
  BY <1>1, <1>2, <1>4 DEF BackedInv

\* Every step, then, keeps the promise that what is over will be ended.
LEMMA BackedInductive == BackedInv /\ [Next]_vars => BackedInv'
<1> SUFFICES ASSUME BackedInv, [Next]_vars PROVE BackedInv'
  OBVIOUS
<1>1. ASSUME NEW c \in Checkouts, Checkout(c) \/ Stripe(c) PROVE BackedInv'
  BY <1>1, BackedCheckout, BackedStripe
<1>2. ASSUME NEW h \in Handlers, Webhook(h) PROVE BackedInv'
  BY <1>2, BackedWebhook
<1>3. CASE UNCHANGED vars
  <2>1. PaymentInv'
    BY <1>3, PaymentInductive DEF BackedInv
  <2>2. (\A c \in Paid : checkout[c] = "answered")'
    BY <1>3 DEF BackedInv, Paid, vars
  <2>3. OneCustomer' = OneCustomer /\ OneReader' = OneReader /\ PlanEnds' = PlanEnds
    BY <1>3 DEF vars, OneCustomer, OneReader, PlanEnds, Paid, Over, EndComes, EndBehind, Ends
  <2>4. disturbed' = disturbed
    BY <1>3 DEF vars
  <2>5. QED
    BY <2>1, <2>2, <2>3, <2>4 DEF BackedInv
<1>4. QED
  BY <1>1, <1>2, <1>3 DEF Next

\* When every event has been answered and nothing has overlapped or overtaken, a
\* paid plan has a subscription behind it that is neither canceled nor unpaid,
\* for any checkouts, any failures and any repeats: no end is left to come.
THEOREM PlanIsBackedCorrect == Spec => []PlanIsBacked
<1>1. BackedInv => PlanIsBacked
  <2> SUFFICES ASSUME BackedInv, ~disturbed, Quiet, org.plan # "free"
               PROVE  \E c \in Checkouts :
                        PlanOf[c] = org.plan /\ subs[c] \in {"active", "past_due"}
    BY DEF PlanIsBacked
  <2>1. PICK c \in Paid : PlanOf[c] = org.plan /\ (Over(c) => EndComes)
    BY DEF BackedInv, PlanEnds
  <2>2. ~EndComes
    <3>1. DOMAIN mail = {}
      BY DEF Quiet
    <3>2. QED
      BY <3>1 DEF EndComes, EndBehind, Quiet
  <2>3. c \in Checkouts /\ subs[c] \in Statuses /\ subs[c] \notin Lost
    BY <2>1, <2>2 DEF Paid, Over, BackedInv, PaymentInv, TypeOK
  <2>4. QED
    BY <2>1, <2>3 DEF Statuses, Lost
<1>2. QED
  BY BackedInit, BackedInductive, <1>1, PTL DEF Spec
=============================================================================
