--------------------------- MODULE StripeSessions ---------------------------
(***************************************************************************)
(* One online payment and the Checkout Sessions that PaymentsService opens   *)
(* for it at Stripe: createPayment hands out the page of a session, Stripe   *)
(* charges the buyer there and tells so by webhooks, which come late, in     *)
(* another order, or again and again until they are answered.                *)
(*                                                                         *)
(* No transaction spans the row of the payment and Stripe.  The row has one  *)
(* column, providerRef, for the id of a session; the webhooks write the id   *)
(* of whatever they are about into it.  What settles the payment beyond its  *)
(* own row is in Payments.                                                  *)
(***************************************************************************)
EXTENDS Naturals, FiniteSets

CONSTANTS
    Calls,       \* requests and webhooks in flight at the same time
    Sessions,    \* ids of sessions at Stripe (a bound: no more are opened)
    ByHand       \* statuses that are asked for by other routes than the webhook

VARIABLES
    payment,     \* status, providerRef and provider of the row
    session,     \* Stripe: what became of each session
    offered,     \* sessions whose page the buyer was sent to
    sent,        \* Stripe: the events that webhooks carry
    call,        \* handlers in flight
    excused      \* history: more than one session may be charged

vars == <<payment, session, offered, sent, call, excused>>

PaymentStatus == {"PENDING", "SUCCEEDED", "FAILED", "REFUNDED"}
NoRef == [of |-> "none"]
Given == [of |-> "request"]     \* an id that somebody typed in
SessionRef(s) == [of |-> "session", id |-> s]
IntentRef(s) == [of |-> "intent", id |-> s]

Idle == [at |-> "idle"]

\* createPayment inserts the payment with the provider; a checkout inserts it
\* without one.
Init ==
    /\ payment \in [status : {"PENDING"}, ref : {NoRef}, provider : {"STRIPE", "null"}]
    /\ session = [s \in Sessions |-> "none"]
    /\ offered = {}
    /\ sent = {}
    /\ call = [c \in Calls |-> Idle]
    /\ excused = FALSE

Goto(c, step) == call' = [call EXCEPT ![c] = step]
Return(c) == Goto(c, Idle)

-----------------------------------------------------------------------------
(* Stripe.  A session has one payment intent.                               *)

Event(type, s) == [type |-> type, session |-> s]

Pay(s) ==
    /\ s \in offered
    /\ session[s] = "open"
    /\ session' = [session EXCEPT ![s] = "complete"]
    /\ sent' = sent \cup {Event(t, s) : t \in {"payment_intent.created", "payment_intent.succeeded",
                                               "checkout.session.completed"}}
    /\ UNCHANGED <<payment, offered, call, excused>>

\* A card is refused; the buyer may try another on the same page.
Decline(s) ==
    /\ s \in offered
    /\ session[s] = "open"
    /\ sent' = sent \cup {Event(t, s) : t \in {"payment_intent.created", "payment_intent.payment_failed"}}
    /\ UNCHANGED <<payment, session, offered, call, excused>>

Expire(s) ==
    /\ session[s] = "open"
    /\ session' = [session EXCEPT ![s] = "expired"]
    /\ sent' = sent \cup {Event("checkout.session.expired", s)}
    /\ UNCHANGED <<payment, offered, call, excused>>

-----------------------------------------------------------------------------
(* ensureStripeCheckoutSession.                                             *)

\* createPayment has found the pending payment, or inserted it.
CreatePayment(c) ==
    /\ call[c] = Idle
    /\ payment.status = "PENDING"
    /\ Goto(c, [at |-> "load"])
    /\ excused' = (excused \/ \E d \in Calls : call[d].at \in {"load", "retrieve", "create", "store"})
    /\ UNCHANGED <<payment, session, offered, sent>>

Load(c) ==
    /\ call[c].at = "load"
    /\ CASE payment.status # "PENDING"  -> Return(c)
         [] payment.status = "PENDING" /\ payment.ref.of = "session"
                                        -> Goto(c, [at |-> "retrieve", session |-> payment.ref.id])
         [] OTHER                       -> Goto(c, [at |-> "create"])
    /\ UNCHANGED <<payment, session, offered, sent, excused>>

\* Mutated: a session that was stored is not used again.
NeverUsable(s) == FALSE

\* It has a page: a complete session has none.
Usable(s) == session[s] = "open"

Retrieve(c) ==
    LET s == call[c].session
    IN  /\ call[c].at = "retrieve"
        /\ IF Usable(s)
           THEN offered' = offered \cup {s} /\ Return(c)
           ELSE Goto(c, [at |-> "create"]) /\ UNCHANGED offered
        /\ UNCHANGED <<payment, session, sent, excused>>

\* Whatever the error, a fresh session is opened.
RetrieveFails(c) ==
    /\ call[c].at = "retrieve"
    /\ Goto(c, [at |-> "create"])
    /\ excused' = TRUE
    /\ UNCHANGED <<payment, session, offered, sent>>

CreateSession(c, s) ==
    /\ call[c].at = "create"
    /\ session[s] = "none"
    /\ session' = [session EXCEPT ![s] = "open"]
    /\ Goto(c, [at |-> "store", session |-> s])
    /\ excused' = (excused \/ \E t \in Sessions : session[t] = "complete")
    /\ UNCHANGED <<payment, offered, sent>>

\* payment.update, whatever the payment has become meanwhile.
StoreRef(c) ==
    LET s == call[c].session
    IN  /\ call[c].at = "store"
        /\ payment' = [payment EXCEPT !.ref = SessionRef(s)]
        /\ offered' = offered \cup {s}
        /\ Return(c)
        /\ UNCHANGED <<session, sent, excused>>

-----------------------------------------------------------------------------
(* handleProviderWebhook and the other ways to settle.                      *)

\* stripeStatusToPaymentStatus
StatusOf(type) ==
    CASE type \in {"payment_intent.succeeded", "checkout.session.completed"}     -> "SUCCEEDED"
      [] type \in {"payment_intent.payment_failed", "checkout.session.expired"} -> "FAILED"
      [] OTHER                                                                -> "PENDING"

\* The id of the object that the event is about.
RefOf(e) ==
    IF e.type \in {"checkout.session.completed", "checkout.session.expired"}
    THEN SessionRef(e.session) ELSE IntentRef(e.session)

\* Mutated: the payment is looked for by providerRef.
TargetByRef(e) == payment.provider = "STRIPE" /\ payment.ref = RefOf(e)

\* The metadata name the payment, which must have Stripe for its provider.
Target(e) == payment.provider = "STRIPE"

\* The first read of applyPaymentStatus.
ReadPayment(c, status, ref) ==
    /\ call[c] = Idle
    /\ payment.status = "PENDING"
    /\ Goto(c, [at |-> "settle", status |-> status, ref |-> ref])
    /\ UNCHANGED <<payment, session, offered, sent, excused>>

HandleProviderWebhook(c, e) ==
    /\ e \in sent
    /\ Target(e)
    /\ ReadPayment(c, StatusOf(e.type), RefOf(e))

\* cancelPayment, updatePaymentStatus: without an id in the request, the one that
\* was read is written again.
SettleByHand(c, status) == \E ref \in {payment.ref, Given} : ReadPayment(c, status, ref)

ProcessPayment(c) == ReadPayment(c, "SUCCEEDED", Given)

\* The claim of applyPaymentStatus.
Settle(c) ==
    /\ call[c].at = "settle"
    /\ IF payment.status = "PENDING"
       THEN payment' = [payment EXCEPT !.status = call[c].status, !.ref = call[c].ref]
       ELSE UNCHANGED payment
    /\ excused' = (excused \/ (payment'.status = "PENDING" /\ payment'.ref # payment.ref))
    /\ Return(c)
    /\ UNCHANGED <<session, offered, sent>>

\* Stripe or the database does not answer, or the process dies.
Fail(c) ==
    /\ call[c] # Idle
    /\ Return(c)
    /\ UNCHANGED <<payment, session, offered, sent, excused>>

-----------------------------------------------------------------------------
Stripe == \E s \in Sessions : Pay(s) \/ Decline(s) \/ Expire(s)

Starts(c) ==
    \/ CreatePayment(c)
    \/ \E e \in sent : HandleProviderWebhook(c, e)
    \/ \E status \in ByHand : SettleByHand(c, status)
    \/ ProcessPayment(c)

GoesOn(c) ==
    \/ Load(c)
    \/ Retrieve(c)
    \/ RetrieveFails(c)
    \/ \E s \in Sessions : CreateSession(c, s)
    \/ StoreRef(c)
    \/ Settle(c)
    \/ Fail(c)

Next == Stripe \/ \E c \in Calls : Starts(c) \/ GoesOn(c)

Spec == Init /\ [][Next]_vars

\* A webhook tells of a charge.
Told(c) == \E e \in sent : StatusOf(e.type) = "SUCCEEDED" /\ HandleProviderWebhook(c, e)
Settled(c) == call[c].at = "settle" /\ call[c].status = "SUCCEEDED" /\ Settle(c)

\* Every handler comes to an end, if by a timeout.  Stripe brings an event again
\* until it is answered, and a handler of one does not fail every time.
Fairness == \A c \in Calls : WF_vars(GoesOn(c)) /\ SF_vars(Told(c)) /\ SF_vars(Settled(c))

FairSpec == Spec /\ Fairness

-----------------------------------------------------------------------------
(* A buyer is charged once for a payment, though the sessions and the row    *)
(* are kept by two parties: the session in providerRef is used again while   *)
(* it has a page.  The exceptions are those the code leaves: two requests    *)
(* overlap, Stripe does not answer about the session, a webhook (that an     *)
(* intent was created) has replaced providerRef, or the session was paid and *)
(* its webhook is not there yet.                                            *)
ChargedOnce ==
    ~excused => Cardinality({s \in Sessions : session[s] = "complete"}) <= 1

Charged == payment.provider = "STRIPE" /\ \E s \in Sessions : session[s] = "complete"
NotPending == payment.status # "PENDING"

(* Who was charged by Stripe does not keep a pending payment, whichever      *)
(* session and event it was and whatever providerRef says by then; a payment *)
(* without a provider is left out, because no webhook finds it.             *)
ChargeSettled == Charged ~> NotPending
=============================================================================
