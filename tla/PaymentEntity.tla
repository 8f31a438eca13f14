---------------------------- MODULE PaymentEntity ----------------------------
(* The Payment entity of the domain, its state classes, and how              *)
(* PaymentPrismaRepository stores it, beside PaymentsService, which writes   *)
(* the same rows through Prisma (see Payments).                              *)
EXTENDS Aggregate

Status == {"PENDING", "SUCCEEDED", "FAILED", "REFUNDED"}
Intents == {"i1", "i2"}
Metadata == {"m1"}
Errors == {"e1"}
Settled == {"REFUNDED"}

\* The state classes: the moves that each one passes on to the entity.
Moves ==
    [PENDING   |-> {"SUCCEEDED", "FAILED"},
     SUCCEEDED |-> {"REFUNDED"},
     FAILED    |-> {},
     REFUNDED  |-> {}]

Entities ==
    [status : Status, intent : Intents, metadata : Metadata, paidAt : BOOLEAN,
     refundedAt : BOOLEAN, error : Errors \cup {"none"}, reason : BOOLEAN]

New == {[status |-> "PENDING", intent |-> "i1", metadata |-> m, paidAt |-> FALSE,
         refundedAt |-> FALSE, error |-> "none", reason |-> FALSE] : m \in Metadata}

IsRefundable(e) == e.status = "SUCCEEDED"

MarkAsPaid(e) ==
    When(e.status = "PENDING",
         [e EXCEPT !.status = "SUCCEEDED", !.paidAt = TRUE, !.error = "none"])

\* A second failure only changes the message.
MarkAsFailed(e, message) ==
    When(e.status \in {"PENDING", "FAILED"}, [e EXCEPT !.status = "FAILED", !.error = message])

Refund(e, reason) ==
    When(IsRefundable(e),
         [e EXCEPT !.status = "REFUNDED", !.refundedAt = TRUE, !.reason = reason])

UpdatePaymentIntentId(e, i) ==
    When(e.status \notin {"SUCCEEDED", "REFUNDED"}, [e EXCEPT !.intent = i])

UpdateMetadata(e, m) == When(TRUE, [e EXCEPT !.metadata = m])

Change(e) ==
    MarkAsPaid(e)
    \cup (UNION {MarkAsFailed(e, m) : m \in Errors})
    \cup (UNION {Refund(e, reason) : reason \in BOOLEAN})
    \cup (UNION {UpdatePaymentIntentId(e, i) : i \in Intents})
    \cup (UNION {UpdateMetadata(e, m) : m \in Metadata})

-----------------------------------------------------------------------------
\* The columns of save.  It can only update: for a new row it has no userId.
Columns(e) ==
    [status |-> e.status, provider |-> TRUE, ref |-> e.intent, metadata |-> e.metadata,
     paidAt |-> e.paidAt, refundedAt |-> e.refundedAt, error |-> e.error, reason |-> e.reason]

\* mapToDomain throws for a payment without a provider or a reference.
ToDomain(r) ==
    IF r.provider /\ r.ref # "none"
    THEN {[status |-> r.status, intent |-> r.ref, metadata |-> r.metadata, paidAt |-> r.paidAt,
           refundedAt |-> r.refundedAt, error |-> r.error, reason |-> r.reason]}
    ELSE Throws

Rows ==
    [status : Status, provider : BOOLEAN, ref : Intents \cup {"none"}, metadata : Metadata,
     paidAt : BOOLEAN, refundedAt : BOOLEAN, error : Errors \cup {"none"}, reason : BOOLEAN]

\* createPayment: a COD payment has no provider, an online one no reference yet.
Inserted ==
    {[status |-> "PENDING", provider |-> online, ref |-> "none", metadata |-> "m1",
      paidAt |-> FALSE, refundedAt |-> FALSE, error |-> "none", reason |-> FALSE] : online \in BOOLEAN}

\* A checkout session of Stripe is opened; a payment is settled, without a
\* time, and takes a reference if the caller has one.
SessionOpened(r) == IF r.provider /\ r.status = "PENDING" THEN {[r EXCEPT !.ref = "i1"]} ELSE {}

ServiceSettles(r) ==
    IF r.status = "PENDING"
    THEN {[r EXCEPT !.status = s, !.ref = ref] : s \in {"SUCCEEDED", "FAILED"}, ref \in {r.ref, "i2"}}
    ELSE {}

Direct(r) == SessionOpened(r) \cup ServiceSettles(r)

Queries == [find : {"byStatus"}, status : Status] \cup [find : {"byGateway", "byOrder"}]

\* findMany and count combine these conditions.
Matches(q, r) ==
    CASE q.find = "byStatus"  -> r.status = q.status
      [] q.find = "byGateway" -> r.provider
      [] q.find = "byOrder"   -> TRUE

\* Only what was paid has a time of payment, only what was refunded one of the
\* refund, and only what failed an error.
Agrees(e) ==
    /\ e.paidAt => e.status \in {"SUCCEEDED", "REFUNDED"}
    /\ e.refundedAt <=> e.status = "REFUNDED"
    /\ e.reason => e.refundedAt
    /\ e.error # "none" => e.status = "FAILED"
=============================================================================
