----------------------------- MODULE UserEntity ------------------------------
(* The User entity of the domain and how UserPrismaRepository stores it,     *)
(* beside the services that write the same rows through Prisma.  The name is *)
(* left out: it is written as the email is.                                  *)
EXTENDS Aggregate

Emails == {"e1", "e2"}
Phones == {"p1"}
Zeros == "0000000000"

Roles == {"BUYER", "SELLER", "ADMIN", "SHIPPER"}

Entities == [email : Emails, phone : Phones \cup {Zeros}, isActive : BOOLEAN]

New == {[email |-> m, phone |-> p, isActive |-> TRUE] : m \in Emails, p \in Phones}

ChangeEmail(e, m) == {[e EXCEPT !.email = m]}
ChangePhoneNumber(e, p) == {[e EXCEPT !.phone = p]}
Activate(e) == {[e EXCEPT !.isActive = TRUE]}
Deactivate(e) == {[e EXCEPT !.isActive = FALSE]}

Change(e) ==
    (UNION {ChangeEmail(e, m) : m \in Emails}) \cup (UNION {ChangePhoneNumber(e, p) : p \in Phones})
    \cup Activate(e) \cup Deactivate(e)

-----------------------------------------------------------------------------
\* The columns of save; a new user is ACTIVE at once.
Columns(e) == [email |-> e.email, phone |-> e.phone, isActive |-> e.isActive]

\* A user without a number is given one made of zeros.
ToDomain(r) ==
    {[email |-> r.email, phone |-> IF r.phone = "none" THEN Zeros ELSE r.phone,
      isActive |-> r.isActive]}

Rows == [email : Emails, phone : Phones \cup {Zeros, "none"}, isActive : BOOLEAN]

\* register needs no phone number.
Inserted == {[email |-> m, phone |-> "none", isActive |-> TRUE] : m \in Emails}

\* updateProfile writes name and email; no service writes the number or isActive.
Direct(r) == {[r EXCEPT !.email = m] : m \in Emails}

\* email and phoneNumber are unique.
Keys(r) == {r.email, r.phone} \ {"none"}

\* The roles and profiles of a user are rows of other tables, which may be
\* anything: any user may be in a list that goes by them.
ByRole == [find : {"byRole"}, role : Roles]
ByProfile == [find : {"byProfile"}, role : {"SELLER", "BUYER", "ADMIN"}]
Shippers == [find : {"active", "nearBy", "byVehicleType", "byOperatingArea"}]

Queries ==
    [find : {"byActiveStatus"}, active : BOOLEAN] \cup ByRole \cup ByProfile \cup Shippers

Matches(q, r) == q.find = "byActiveStatus" => r.isActive = q.active
=============================================================================
