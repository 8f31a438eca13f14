------------------------------ MODULE Accounts ------------------------------
(***************************************************************************)
(* Users, their sessions and the tokens they get by mail: AuthService, the  *)
(* two JWT strategies, and the parts of UsersService and AdminService that  *)
(* end sessions.                                                            *)
(*                                                                         *)
(* As in Payments a handler is a slot of "call".  Between its check and its *)
(* write a handler hashes and signs, which takes long.  A transaction that  *)
(* ends sessions is two steps: its last statement sees the sessions that    *)
(* are committed by then and locks them, and the commit comes later.        *)
(*                                                                         *)
(* A request with an expired or a wrong token, or with a wrong password, is *)
(* refused by the first check and is no step.  Which new password a request *)
(* brings is chosen in the step that writes it.                             *)
(***************************************************************************)
EXTENDS Naturals, FiniteSets

CONSTANTS
    Calls,       \* handlers that may be in flight at the same time
    Users,       \* users, by their e-mail address
    Passwords,
    Sessions,    \* ids of sessions
    Tokens       \* ids of the rows of PasswordReset

VARIABLES
    user,        \* User rows
    session,     \* Session rows
    token,       \* PasswordReset rows, for verification and for reset
    call,        \* handlers in flight
    raced        \* history: users, sessions and tokens of overlapping handlers

vars == <<user, session, token, call, raced>>

AccountStatus == {"PENDING", "ACTIVE", "SUSPENDED"}

NoUser == [status |-> "none"]
UserRows == [status : AccountStatus, password : Passwords, deleted : BOOLEAN]

\* History: "knows" is the password its owner has last given, "successors" how
\* many sessions a refresh has made of it (up to 2).
NoSession == [at |-> "none"]
SessionRows ==
    [live : {TRUE}, user : Users, successors : 0 .. 2, knows : Passwords]
    \cup [live : {FALSE}, user : Users, successors : 0 .. 2]

\* "used" is uses > 0.  History: how often the token was redeemed (up to 2).
NoToken == [kind |-> "none"]
TokenRows == [kind : {"verify", "reset"}, user : Users, uses : 0 .. 2]

Idle == [at |-> "idle"]
Handlers ==
    {Idle}
    \cup [at : {"register", "forgot", "delete"}, user : Users]
    \cup [at : {"login"}, user : Users, password : Passwords]
    \cup [at : {"refresh", "refresh_open"}, user : Users, session : Sessions, password : Passwords]
    \cup [at : {"end"}, session : Sessions]
    \cup [at : {"change"}, user : Users, session : Sessions]
    \cup [at : {"verify", "reset"}, user : Users, token : Tokens]
    \cup [at : {"change_commit"}, user : Users, session : Sessions, seen : SUBSET Sessions]
    \cup [at : {"reset_commit"}, user : Users, token : Tokens, seen : SUBSET Sessions]
    \cup [at : {"status_commit"}, user : Users, status : AccountStatus, seen : SUBSET Sessions]

TypeOK ==
    /\ user \in [Users -> UserRows \cup {NoUser}]
    /\ session \in [Sessions -> SessionRows \cup {NoSession}]
    /\ token \in [Tokens -> TokenRows \cup {NoToken}]
    /\ call \in [Calls -> Handlers]
    /\ raced \subseteq Users \cup Sessions \cup Tokens

Init ==
    /\ user = [u \in Users |-> NoUser]
    /\ session = [s \in Sessions |-> NoSession]
    /\ token = [t \in Tokens |-> NoToken]
    /\ call = [c \in Calls |-> Idle]
    /\ raced = {}

-----------------------------------------------------------------------------
(* Handlers that overlap in a way their checks do not see                   *)

At(calls, c, steps) == calls[c].at \in steps

Opening == {"login", "refresh", "refresh_open"}
UserCommit == {"change_commit", "reset_commit", "status_commit"}
Refreshing == {"refresh", "refresh_open"}
Redeeming == {"verify", "reset", "reset_commit"}

\* What two handlers in flight race for.
Race(g, h) ==
    {u \in Users :
        \/ g.at \in Opening /\ h.at \in UserCommit /\ g.user = u /\ h.user = u
        \/ g.at = "verify" /\ h.at = "status_commit" /\ g.user = u /\ h.user = u}
    \cup {s \in Sessions :
            g.at \in Refreshing /\ h.at \in Refreshing /\ g.session = s /\ h.session = s}
    \cup {t \in Tokens :
            g.at \in Redeeming /\ h.at \in Redeeming /\ g.token = t /\ h.token = t}

Goto(c, h) ==
    /\ call' = [call EXCEPT ![c] = h]
    /\ raced' = raced \cup UNION {Race(h, call[d]) \cup Race(call[d], h) : d \in Calls \ {c}}

Advance(c, at) == Goto(c, [call[c] EXCEPT !.at = at])
Return(c) == Goto(c, Idle)

Starts(c, h) == call[c] = Idle /\ Goto(c, h)

tables == <<user, session, token>>

Live(s) == session[s] # NoSession /\ session[s].live

\* Row locks: a user's by a transaction that has written it, a session's by
\* one that has ended it.
UserLocked(u) == \E c \in Calls : At(call, c, UserCommit) /\ call[c].user = u
SessionLocked(s) ==
    \E c \in Calls : At(call, c, UserCommit) /\ s \in call[c].seen

\* updateMany over the sessions of a user that are not revoked.
LiveSessions(u) == {s \in Sessions : Live(s) /\ session[s].user = u}
CanEnd(S) == \A s \in S : ~SessionLocked(s)
Ended(S) == [s \in Sessions |-> IF s \in S /\ Live(s)
                                THEN [live |-> FALSE, user |-> session[s].user,
                                      successors |-> session[s].successors]
                                ELSE session[s]]

-----------------------------------------------------------------------------
(* register, verifyEmail                                                    *)

TokensLeft ==
    Cardinality({c \in Calls : At(call, c, {"register", "forgot"})})
        < Cardinality({t \in Tokens : token[t] = NoToken})

Register(c, u) ==
    /\ TokensLeft
    /\ user[u] = NoUser
    /\ Starts(c, [at |-> "register", user |-> u])
    /\ UNCHANGED tables

NewToken(t, kind, u) ==
    /\ token[t] = NoToken
    /\ token' = [token EXCEPT ![t] = [kind |-> kind, user |-> u, uses |-> 0]]

\* User.email is unique: of two registrations the later fails.
InsertUser(c, t, p) ==
    LET u == call[c].user
    IN  /\ call[c].at = "register"
        /\ user[u] = NoUser
        /\ user' = [user EXCEPT ![u] =
              [status |-> "PENDING", password |-> p, deleted |-> FALSE]]
        /\ NewToken(t, "verify", u)
        /\ Return(c)
        /\ UNCHANGED session

Redeemable(t, kind) == token[t].kind = kind /\ token[t].uses = 0

\* Mutated: the owner's status is not looked at.
AnyOwner(t) == TRUE

OwnerNotSuspended(t) == user[token[t].user].status # "SUSPENDED"

VerifyEmail(c, t) ==
    /\ Redeemable(t, "verify")
    /\ OwnerNotSuspended(t)
    /\ Starts(c, [at |-> "verify", user |-> token[t].user, token |-> t])
    /\ UNCHANGED tables

Used(t) == [token EXCEPT ![t].uses = IF @ = 2 THEN 2 ELSE @ + 1]

CommitVerification(c) ==
    LET u == call[c].user
    IN  /\ call[c].at = "verify"
        /\ ~UserLocked(u)
        /\ user' = [user EXCEPT ![u].status = "ACTIVE"]
        /\ token' = Used(call[c].token)
        /\ Return(c)
        /\ UNCHANGED session

-----------------------------------------------------------------------------
(* login, refresh, logout                                                   *)

SessionsLeft ==
    Cardinality({c \in Calls : At(call, c, Opening)})
        < Cardinality({s \in Sessions : session[s] = NoSession})

\* deletedAt is not looked at.
Login(c, u, p) ==
    /\ SessionsLeft
    /\ user[u].status = "ACTIVE"
    /\ user[u].password = p
    /\ Starts(c, [at |-> "login", user |-> u, password |-> p])
    /\ UNCHANGED tables

NewSession(u, p) == [user |-> u, live |-> TRUE, knows |-> p, successors |-> 0]

OpenSession(c, s) ==
    /\ call[c].at = "login"
    /\ session[s] = NoSession
    /\ session' = [session EXCEPT ![s] = NewSession(call[c].user, call[c].password)]
    /\ Return(c)
    /\ UNCHANGED <<user, token>>

\* JwtRefreshStrategy.validate, and the user found by refresh (users stay).
Refresh(c, s) ==
    /\ SessionsLeft
    /\ Live(s)
    /\ Starts(c, [at |-> "refresh", user |-> session[s].user, session |-> s,
                  password |-> session[s].knows])
    /\ UNCHANGED tables

\* Mutated: the session that is refreshed stays.
OldSessionKept(c) == session

OldSessionEnded(c) == Ended({call[c].session})

RevokeOld(c) ==
    /\ call[c].at = "refresh"
    /\ ~SessionLocked(call[c].session)
    /\ session' = OldSessionEnded(c)
    /\ Advance(c, "refresh_open")
    /\ UNCHANGED <<user, token>>

ReplaceSession(c, s) ==
    LET old == call[c].session
    IN  /\ call[c].at = "refresh_open"
        /\ session[s] = NoSession
        /\ session' = [session EXCEPT
              ![s] = NewSession(call[c].user, call[c].password),
              ![old].successors = IF @ = 2 THEN 2 ELSE @ + 1]
        /\ Return(c)
        /\ UNCHANGED <<user, token>>

\* JwtAccessStrategy.validate
Authenticated(s) == Live(s)

Logout(c, s) ==
    /\ Authenticated(s)
    /\ Starts(c, [at |-> "end", session |-> s])
    /\ UNCHANGED tables

\* revokeSession: any session of the same user that is not revoked.
RevokeSession(c, s, other) ==
    /\ Authenticated(s)
    /\ Live(other) /\ session[other].user = session[s].user
    /\ Starts(c, [at |-> "end", session |-> other])
    /\ UNCHANGED tables

EndSession(c) ==
    /\ call[c].at = "end"
    /\ ~SessionLocked(call[c].session)
    /\ session' = Ended({call[c].session})
    /\ Return(c)
    /\ UNCHANGED <<user, token>>

-----------------------------------------------------------------------------
(* forgotPassword, resetPassword, changePassword                            *)

ForgotPassword(c, u) ==
    /\ TokensLeft
    /\ user[u].status \in {"PENDING", "ACTIVE"}
    /\ Starts(c, [at |-> "forgot", user |-> u])
    /\ UNCHANGED tables

InsertToken(c, t) ==
    /\ call[c].at = "forgot"
    /\ NewToken(t, "reset", call[c].user)
    /\ Return(c)
    /\ UNCHANGED <<user, session>>

ResetPassword(c, t) ==
    /\ Redeemable(t, "reset")
    /\ OwnerNotSuspended(t)
    /\ Starts(c, [at |-> "reset", user |-> token[t].user, token |-> t])
    /\ UNCHANGED tables

BeginReset(c) ==
    LET u == call[c].user
    IN  /\ call[c].at = "reset"
        /\ ~UserLocked(u) /\ CanEnd(LiveSessions(u))
        /\ Goto(c, [at |-> "reset_commit", user |-> u, token |-> call[c].token,
                    seen |-> LiveSessions(u)])
        /\ UNCHANGED tables

CommitReset(c, p) ==
    /\ call[c].at = "reset_commit"
    /\ user' = [user EXCEPT ![call[c].user].password = p]
    /\ token' = Used(call[c].token)
    /\ session' = Ended(call[c].seen)
    /\ Return(c)

\* Whoever gives another password than the current one is refused.
ChangePassword(c, s) ==
    /\ Authenticated(s)
    /\ Starts(c, [at |-> "change", user |-> session[s].user, session |-> s])
    /\ UNCHANGED tables

\* Mutated: no session is ended.
NoOtherSessions(c) == {}

OtherSessions(c) == LiveSessions(call[c].user) \ {call[c].session}

BeginChange(c) ==
    /\ call[c].at = "change"
    /\ ~UserLocked(call[c].user) /\ CanEnd(OtherSessions(c))
    /\ Goto(c, [at |-> "change_commit", user |-> call[c].user, session |-> call[c].session,
                seen |-> OtherSessions(c)])
    /\ UNCHANGED tables

CommitChange(c, p) ==
    /\ call[c].at = "change_commit"
    /\ user' = [user EXCEPT ![call[c].user].password = p]
    /\ session' = [Ended(call[c].seen) EXCEPT
          ![call[c].session] = IF Live(call[c].session)
                               THEN [@ EXCEPT !.knows = p]
                               ELSE @]
    /\ Return(c)
    /\ UNCHANGED token

-----------------------------------------------------------------------------
(* AdminService.updateUserStatus and updateUserRoles                        *)

\* Mutated: a suspension leaves the sessions.
NoneToEnd(u, status) == {}

ToEnd(u, status) == IF status = "SUSPENDED" THEN LiveSessions(u) ELSE {}

UpdateUserStatus(c, u, status) ==
    /\ user[u] # NoUser
    /\ ~UserLocked(u) /\ CanEnd(ToEnd(u, status))
    /\ Starts(c, [at |-> "status_commit", user |-> u, status |-> status,
                  seen |-> ToEnd(u, status)])
    /\ UNCHANGED tables

CommitStatus(c) ==
    /\ call[c].at = "status_commit"
    /\ user' = [user EXCEPT ![call[c].user].status = call[c].status]
    /\ session' = Ended(call[c].seen)
    /\ Return(c)
    /\ UNCHANGED token

EndAll(u) ==
    /\ CanEnd(LiveSessions(u))
    /\ session' = Ended(LiveSessions(u))

\* The rows of UserRoleMapping are left out: JwtAccessStrategy reads them anew for
\* every request, so that no session holds old ones.  What is left is one write.
UpdateUserRoles(u) ==
    /\ user[u] # NoUser
    /\ EndAll(u)
    /\ UNCHANGED <<user, token, call, raced>>

-----------------------------------------------------------------------------
(* UsersService.deleteAccount and becomeSeller                              *)

EnsureUserExists(u) == ~user[u].deleted

DeleteAccount(c, s) ==
    /\ Authenticated(s)
    /\ EnsureUserExists(session[s].user)
    /\ Starts(c, [at |-> "delete", user |-> session[s].user])
    /\ UNCHANGED tables

\* One step: nobody relies on deletedAt and the sessions changing together.
CommitDeletion(c) ==
    LET u == call[c].user
    IN  /\ call[c].at = "delete"
        /\ ~UserLocked(u)
        /\ user' = [user EXCEPT ![u].deleted = TRUE]
        /\ EndAll(u)
        /\ Return(c)
        /\ UNCHANGED token

\* The new role is left out, see UpdateUserRoles.
BecomeSeller(s) ==
    /\ Authenticated(s)
    /\ EnsureUserExists(session[s].user)
    /\ EndAll(session[s].user)
    /\ UNCHANGED <<user, token, call, raced>>

-----------------------------------------------------------------------------

\* A check or a unique key refuses, the database or the process fails: an open
\* transaction is dropped.
Fail(c) ==
    /\ call[c] # Idle
    /\ Return(c)
    /\ UNCHANGED tables

Starting(c) ==
    \/ \E u \in Users : Register(c, u) \/ ForgotPassword(c, u)
    \/ \E u \in Users, p \in Passwords : Login(c, u, p)
    \/ \E u \in Users, status \in AccountStatus : UpdateUserStatus(c, u, status)
    \/ \E t \in Tokens : VerifyEmail(c, t) \/ ResetPassword(c, t)
    \/ \E s \in Sessions :
          Refresh(c, s) \/ Logout(c, s) \/ ChangePassword(c, s) \/ DeleteAccount(c, s)
    \/ \E s, other \in Sessions : RevokeSession(c, s, other)

GoingOn(c) ==
    \/ \E t \in Tokens, p \in Passwords : InsertUser(c, t, p)
    \/ \E t \in Tokens : InsertToken(c, t)
    \/ \E s \in Sessions : OpenSession(c, s) \/ ReplaceSession(c, s)
    \/ CommitVerification(c) \/ RevokeOld(c) \/ EndSession(c)
    \/ BeginReset(c) \/ BeginChange(c) \/ CommitStatus(c) \/ CommitDeletion(c)
    \/ \E p \in Passwords : CommitReset(c, p) \/ CommitChange(c, p)

Next ==
    \/ \E c \in Calls : Starting(c) \/ GoingOn(c) \/ Fail(c)
    \/ \E u \in Users : UpdateUserRoles(u)
    \/ \E s \in Sessions : BecomeSeller(s)

Spec == Init /\ [][Next]_vars

-----------------------------------------------------------------------------
(* Properties.  Each holds for users, sessions and tokens whose handlers     *)
(* have not overlapped in the way "Race" names, whatever else overlaps.      *)

\* A suspended user has no live session: login, refresh and the suspension
\* leave none, unless one of the first two was under way during the last.
SuspendedIsOut ==
    \A u \in Users \ raced : user[u].status = "SUSPENDED" => LiveSessions(u) = {}

\* Whoever has a live session has proved to know the password the user has now:
\* changes and resets end the sessions of all others.
KnowsPassword ==
    \A u \in Users \ raced : \A s \in LiveSessions(u) : session[s].knows = user[u].password

\* What is good for one use is used once: a refresh token, whose session is
\* replaced by at most one other, and a token from a mail.
UsedOnce ==
    /\ \A s \in Sessions \ raced : session[s] # NoSession => session[s].successors <= 1
    /\ \A t \in Tokens \ raced : token[t] # NoToken => token[t].uses <= 1

\* Only an admin lifts a suspension: no handler that the user can start does.
SuspensionKept ==
    [][\A u \in Users \ raced' :
          user[u].status = "SUSPENDED" /\ user'[u].status # "SUSPENDED" =>
              \E c \in Calls : call[c].at = "status_commit" /\ call[c].user = u]_vars
=============================================================================
