---------------------------- MODULE Notifications ----------------------------
(* The Notification entity, its state classes and NotificationState, how     *)
(* NotificationPrismaRepository stores it, and NotificationsService, which   *)
(* writes the same rows through Prisma.                                      *)
EXTENDS Aggregate

Settled == {"READ"}

\* canTransitionTo of the value object.
Moves ==
    [PENDING |-> {"SENT", "FAILED"},
     SENT    |-> {"READ", "FAILED"},
     READ    |-> {},
     FAILED  |-> {"PENDING", "SENT"}]

Status == DOMAIN Moves

\* Only whether the internal channel is among them, or none at all.
Channels == {"internal", "other"}

Entities == [status : Status, channels : Channels, sentAt : BOOLEAN, readAt : BOOLEAN]

New == {[status |-> "PENDING", channels |-> c, sentAt |-> FALSE, readAt |-> FALSE] : c \in Channels}

\* The conditions of the state classes.
CanSend(e) == e.status \in {"PENDING", "FAILED"}
CanRead(e) == e.status = "SENT" /\ e.channels = "internal"
CanFail(e) == e.status \in {"PENDING", "SENT"}

MarkAsSent(e) == When(CanSend(e), [e EXCEPT !.status = "SENT", !.sentAt = TRUE])

MarkAsRead(e) == When(CanRead(e), [e EXCEPT !.status = "READ", !.readAt = TRUE])
MarkAsFailed(e) == When(CanFail(e), [e EXCEPT !.status = "FAILED"])

Change(e) == MarkAsSent(e) \cup MarkAsRead(e) \cup MarkAsFailed(e)

\* NotificationState moves a notification by it, and anybody may: it asks for
\* nothing and leaves the times as they are.
SetState(e) == {[e EXCEPT !.status = s] : s \in Status}

-----------------------------------------------------------------------------
\* save puts the names of the channels into upper case, and mapToDomain reads
\* them whatever their case.
Columns(e) == e

\* A notification needs a channel.
ToDomain(r) == When(r.channels \in Channels, r)

\* create: the channels of a request may be an empty list.
Inserted ==
    {[status |-> "PENDING", channels |-> c, sentAt |-> FALSE, readAt |-> FALSE] :
        c \in Channels \cup {"none"}}

\* markAsRead of the service and of the repository look at no status.
Direct(r) == {[r EXCEPT !.status = "READ", !.readAt = TRUE]}

\* The listings of the service; unreadOnly and getUnreadCount take the pending ones.
Queries == [find : {"byStatus"}, status : Status] \cup [find : {"byUser", "unreadOnly"}]

Matches(q, r) ==
    CASE q.find = "byStatus"   -> r.status = q.status
      [] q.find = "unreadOnly" -> r.status = "PENDING"
      [] q.find = "byUser"     -> TRUE

\* What was read has the time of it and no other has, what is sent was sent.
Agrees(e) ==
    /\ e.readAt <=> e.status = "READ"
    /\ e.status = "SENT" => e.sentAt
=============================================================================
