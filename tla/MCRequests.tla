----------------------------- MODULE MCRequests ------------------------------
(***************************************************************************)
(* Two parts that share no row, both about calls that are made again: the    *)
(* interceptor that answers repeated requests, and the sessions that         *)
(* repeated requests for the payment of an order open at Stripe.  A          *)
(* behaviour is about one of them.                                          *)
(***************************************************************************)
EXTENDS Idempotency

CONSTANTS Handlers, Pages, ByHand    \* Calls, Sessions and ByHand of StripeSessions

VARIABLES part, payment, session, offered, sent, call, excused

Stripe == INSTANCE StripeSessions WITH
    Calls <- Handlers, Sessions <- Pages

ASSUME ByHandAssumption == ByHand \subseteq Stripe!PaymentStatus

charges == <<payment, session, offered, sent, call, excused>>
parts == <<part, vars, charges>>

PartsInit == part \in {"interceptor", "stripe"} /\ Init /\ Stripe!Init

Interceptor == part = "interceptor" /\ UNCHANGED <<part, charges>>
Sessions == part = "stripe" /\ UNCHANGED <<part, vars>>

PartsNext == (Interceptor /\ Next) \/ (Sessions /\ Stripe!Next)

PartsFairness ==
    /\ WF_parts(Interceptor /\ Tick)
    /\ \A r \in Requests : WF_parts(Interceptor /\ TimesOut(r))
    /\ \A c \in Handlers :
          /\ WF_parts(Sessions /\ Stripe!GoesOn(c))
          /\ SF_parts(Sessions /\ Stripe!Told(c))
          /\ SF_parts(Sessions /\ Stripe!Settled(c))

PartsSpec == PartsInit /\ [][PartsNext]_parts /\ PartsFairness

(* The properties of StripeSessions, by their names there.                  *)

(* StripeSessions: one charge for a payment.                                *)
ChargedOnce == Stripe!ChargedOnce

(* StripeSessions: who was charged does not keep a pending payment.         *)
ChargeSettled == Stripe!Charged ~> Stripe!NotPending
=============================================================================
