--------------------------- MODULE Accounts_proofs --------------------------
(* Proofs about Accounts, for every set of users, sessions, tokens and       *)
(* handlers, and however the handlers overlap and fail.                     *)
EXTENDS Accounts, TLAPS

-----------------------------------------------------------------------------
(* The inductive invariant.                                                 *)

\* What a handler names exists, and belongs to its user.
NamesUser == {"login", "refresh", "refresh_open", "forgot", "delete", "change", "verify", "reset"}
                 \cup UserCommit
NamesSession == {"refresh", "refresh_open", "change", "change_commit"}

HandlerRows(h) ==
    /\ h.at \in NamesUser => user[h.user] # NoUser
    /\ h.at \in NamesSession =>
          /\ session[h.session] # NoSession
          /\ session[h.session].user = h.user
    /\ h.at = "end" => session[h.session] # NoSession
    /\ h.at \in Redeeming => token[h.token] # NoToken
    /\ h.at = "refresh_open" => ~session[h.session].live
    /\ h.at = "change_commit" => h.session \notin h.seen

\* Sessions and tokens are those of users, and a live session has no successor.
TableRows ==
    /\ \A s \in Sessions : session[s] # NoSession =>
          user[session[s].user] # NoUser /\ (session[s].live => session[s].successors = 0)
    /\ \A t \in Tokens : token[t] # NoToken => user[token[t].user] # NoUser

\* Handlers that overlap in the way Race names have marked what they race for.
Marked == \A c, d \in Calls : c # d => Race(call[c], call[d]) \subseteq raced

\* What a handler has read at its start still holds, unless it is raced for.
StillOpen(h) ==
    h.at \in Opening /\ h.user \notin raced =>
        /\ user[h.user].status # "SUSPENDED"
        /\ user[h.user].password = h.password
StillWelcome(h) ==
    h.at = "verify" /\ h.user \notin raced => user[h.user].status # "SUSPENDED"
StillFirst(h) ==
    /\ h.at \in Refreshing /\ h.session \notin raced =>
          session[h.session].successors = 0
    /\ h.at \in Redeeming /\ h.token \notin raced => token[h.token].uses = 0

\* The sessions that a transaction has seen and will end are all of the user's.
SeenAll(h) ==
    h.user \notin raced =>
        /\ h.at = "reset_commit" => LiveSessions(h.user) \subseteq h.seen
        /\ h.at = "status_commit" /\ h.status = "SUSPENDED" =>
              LiveSessions(h.user) \subseteq h.seen
        /\ h.at = "change_commit" =>
              LiveSessions(h.user) \subseteq h.seen \cup {h.session}

HandlerFacts(h) == StillOpen(h) /\ StillWelcome(h) /\ StillFirst(h) /\ SeenAll(h)

Promises == SuspendedIsOut /\ KnowsPassword /\ UsedOnce

Inv ==
    /\ TypeOK /\ TableRows /\ Marked /\ Promises
    /\ \A c \in Calls : HandlerRows(call[c]) /\ HandlerFacts(call[c])

-----------------------------------------------------------------------------
(* Types.                                                                   *)

LEMMA HandlerFields ==
  ASSUME NEW h \in Handlers
  PROVE  /\ h.at \in NamesUser \cup {"register"} => h.user \in Users
         /\ h.at \in NamesSession \cup {"end"} => h.session \in Sessions
         /\ h.at \in Redeeming => h.token \in Tokens
         /\ h.at \in Opening => h.password \in Passwords
         /\ h.at \in UserCommit => h.seen \subseteq Sessions
         /\ h.at = "status_commit" => h.status \in AccountStatus
  BY DEF Handlers, Idle, NamesUser, NamesSession, UserCommit, Redeeming, Opening

LEMMA IdleHandler == Idle \in Handlers /\ Idle.at = "idle"
  BY DEF Handlers, Idle

LEMMA RaceType ==
  ASSUME NEW g, NEW h
  PROVE  Race(g, h) \subseteq Users \cup Sessions \cup Tokens
  BY DEF Race

\* What a handler's step does to the handlers and to what is raced for.
LEMMA Moving ==
  ASSUME TypeOK, Marked, NEW c \in Calls, NEW h \in Handlers, Goto(c, h)
  PROVE  /\ call' \in [Calls -> Handlers] /\ call'[c] = h
         /\ \A d \in Calls : d # c => call'[d] = call[d]
         /\ raced \subseteq raced' /\ raced' \subseteq Users \cup Sessions \cup Tokens
         /\ Marked'
  <1>1. /\ call' \in [Calls -> Handlers] /\ call'[c] = h
        /\ \A d \in Calls : d # c => call'[d] = call[d]
    BY DEF Goto, TypeOK
  <1>2. raced \subseteq raced'
    BY DEF Goto
  <1>3. \A d \in Calls \ {c} : Race(h, call[d]) \cup Race(call[d], h) \subseteq raced'
    BY DEF Goto
  <1>4. raced' \subseteq Users \cup Sessions \cup Tokens
    BY RaceType DEF Goto, TypeOK
  <1>5. Marked'
    <2> SUFFICES ASSUME NEW d \in Calls, NEW e \in Calls, d # e
                 PROVE  Race(call'[d], call'[e]) \subseteq raced'
      BY DEF Marked, Race
    <2>1. CASE d = c
      BY <1>1, <1>3, <2>1
    <2>2. CASE e = c
      BY <1>1, <1>3, <2>2
    <2>3. CASE d # c /\ e # c
      BY <1>1, <1>2, <2>3 DEF Marked
    <2>. QED BY <2>1, <2>2, <2>3
  <1>. QED BY <1>1, <1>2, <1>4, <1>5

\* What two handlers in flight at the same time have marked.
LEMMA Races ==
  ASSUME TypeOK, Marked, NEW c \in Calls, NEW d \in Calls, c # d
  PROVE  /\ call[c].at \in Opening /\ call[d].at \in UserCommit /\ call[c].user = call[d].user
               => call[c].user \in raced
         /\ call[c].at = "verify" /\ call[d].at = "status_commit" /\ call[c].user = call[d].user
               => call[c].user \in raced
         /\ call[c].at \in Refreshing /\ call[d].at \in Refreshing
            /\ call[c].session = call[d].session => call[c].session \in raced
         /\ call[c].at \in Redeeming /\ call[d].at \in Redeeming /\ call[c].token = call[d].token
               => call[c].token \in raced
  <1>1. Race(call[c], call[d]) \subseteq raced
    BY DEF Marked
  <1>2. call[c] \in Handlers
    BY DEF TypeOK
  <1>3. /\ call[c].at \in Opening \cup {"verify"} => call[c].user \in Users
        /\ call[c].at \in Refreshing => call[c].session \in Sessions
        /\ call[c].at \in Redeeming => call[c].token \in Tokens
    BY <1>2, HandlerFields DEF NamesUser, NamesSession, Opening, Refreshing
  <1>. QED BY <1>1, <1>3 DEF Race

-----------------------------------------------------------------------------
(* What a step owes to the handlers it does not move.                        *)

\* No row is taken away or given to another user, and no ended session revives.
Kept ==
    /\ \A u \in Users : user[u] # NoUser => user'[u] # NoUser
    /\ \A s \in Sessions : session[s] # NoSession =>
          /\ session'[s] # NoSession /\ session'[s].user = session[s].user
          /\ session'[s].live => session[s].live
    /\ \A t \in Tokens : token[t] # NoToken =>
          token'[t] # NoToken /\ token'[t].user = token[t].user

NotSuspended(u) == user[u].status # "SUSPENDED" => user'[u].status # "SUSPENDED"

LiveThen(u) == {s \in Sessions : session'[s] # NoSession /\ session'[s].live /\ session'[s].user = u}

\* Unless it is raced for, what handler d relies on is as d has read it.
Undisturbed(d) ==
    /\ call[d].at \in Opening /\ call[d].user \notin raced' =>
          NotSuspended(call[d].user) /\ user'[call[d].user].password = user[call[d].user].password
    /\ call[d].at = "verify" /\ call[d].user \notin raced' => NotSuspended(call[d].user)
    /\ call[d].at \in Refreshing /\ call[d].session \notin raced' =>
          session'[call[d].session].successors = session[call[d].session].successors
    /\ call[d].at \in Redeeming /\ call[d].token \notin raced' =>
          token'[call[d].token].uses = token[call[d].token].uses
    /\ call[d].at \in UserCommit /\ call[d].user \notin raced' =>
          LiveThen(call[d].user) \subseteq LiveSessions(call[d].user)

LEMMA Stay ==
  ASSUME Inv, NEW d \in Calls, call'[d] = call[d], raced \subseteq raced', Kept, Undisturbed(d)
  PROVE  HandlerRows(call[d])' /\ HandlerFacts(call[d])'
  <1> DEFINE h == call[d]
  <1>1. h \in Handlers /\ HandlerRows(call[d]) /\ HandlerFacts(call[d])
    BY DEF Inv, TypeOK
  <1>2. /\ h.at \in NamesUser => h.user \in Users
        /\ h.at \in NamesSession \cup {"end"} => h.session \in Sessions
        /\ h.at \in Redeeming => h.token \in Tokens
    BY <1>1, HandlerFields
  <1>3. /\ Opening \subseteq NamesUser /\ "verify" \in NamesUser /\ UserCommit \subseteq NamesUser
        /\ Refreshing \subseteq NamesSession /\ "change_commit" \in NamesSession
        /\ "refresh_open" \in NamesSession
        /\ {"reset_commit", "status_commit", "change_commit"} = UserCommit
    BY DEF Opening, NamesUser, UserCommit, Refreshing, NamesSession
  <1> HIDE DEF h
  <1>4. HandlerRows(call[d])'
    BY <1>1, <1>2, <1>3 DEF HandlerRows, Kept, h
  <1>5. StillOpen(call[d])' /\ StillWelcome(call[d])'
    BY <1>1, <1>2, <1>3
       DEF HandlerFacts, StillOpen, StillWelcome, Undisturbed, NotSuspended, h
  <1>6. StillFirst(call[d])'
    BY <1>1 DEF HandlerFacts, StillFirst, Undisturbed, h
  <1>7. SeenAll(call[d])'
    <2> SUFFICES ASSUME call[d].user \notin raced'
                 PROVE  SeenAll(call[d])'
      BY DEF SeenAll
    <2>1. call[d].user \notin raced
      OBVIOUS
    <2>2. CASE call[d].at \in UserCommit
      <3>1. LiveThen(call[d].user) \subseteq LiveSessions(call[d].user)
        BY <2>2 DEF Undisturbed
      <3>2. LiveSessions(call[d].user)' = LiveThen(call[d].user)
        BY DEF LiveSessions, Live, LiveThen
      <3>. QED BY <1>1, <2>1, <3>1, <3>2 DEF HandlerFacts, SeenAll, LiveSessions, Live
    <2>3. CASE call[d].at \notin UserCommit
      BY <1>3, <2>3 DEF SeenAll
    <2>. QED BY <2>2, <2>3
  <1>. QED BY <1>4, <1>5, <1>6, <1>7 DEF HandlerFacts

TablesTyped ==
    /\ user' \in [Users -> UserRows \cup {NoUser}]
    /\ session' \in [Sessions -> SessionRows \cup {NoSession}]
    /\ token' \in [Tokens -> TokenRows \cup {NoToken}]

LEMMA Assemble ==
  ASSUME Inv, NEW c \in Calls, NEW h \in Handlers, Goto(c, h),
         TablesTyped, TableRows', Promises', Kept,
         \A d \in Calls \ {c} : Undisturbed(d),
         HandlerRows(call[c])', HandlerFacts(call[c])'
  PROVE  Inv'
  <1>1. /\ call' \in [Calls -> Handlers]
        /\ \A d \in Calls : d # c => call'[d] = call[d]
        /\ raced \subseteq raced' /\ raced' \subseteq Users \cup Sessions \cup Tokens
        /\ Marked'
    BY Moving DEF Inv
  <1>2. TypeOK'
    BY <1>1 DEF TypeOK, TablesTyped
  <1>3. ASSUME NEW d \in Calls
        PROVE  HandlerRows(call[d])' /\ HandlerFacts(call[d])'
    BY <1>1, Stay
  <1>. QED BY <1>1, <1>2, <1>3 DEF Inv

LEMMA IdleFine ==
  ASSUME NEW c, call'[c] = Idle
  PROVE  HandlerRows(call[c])' /\ HandlerFacts(call[c])'
  <1>1. call'[c].at = "idle"
    BY IdleHandler
  <1>2. HandlerRows(call[c])'
    BY <1>1 DEF HandlerRows, NamesUser, NamesSession, UserCommit, Redeeming
  <1>3. HandlerFacts(call[c])'
    BY <1>1 DEF HandlerFacts, StillOpen, StillWelcome, StillFirst, SeenAll,
                Opening, Refreshing, Redeeming
  <1>. QED BY <1>2, <1>3

\* A step that only moves a handler on.
LEMMA OnlyMoves ==
  ASSUME Inv, NEW c \in Calls, NEW h \in Handlers, Goto(c, h), UNCHANGED tables,
         HandlerRows(call[c])', HandlerFacts(call[c])'
  PROVE  Inv'
  <1>1. user' = user /\ session' = session /\ token' = token
    BY DEF tables
  <1>2. raced \subseteq raced'
    BY Moving DEF Inv
  <1>3. TablesTyped /\ TableRows' /\ Kept
    BY <1>1 DEF Inv, TypeOK, TablesTyped, TableRows, Kept
  <1>4. Promises'
    <2>1. \A u : LiveSessions(u)' = LiveSessions(u)
      BY <1>1 DEF LiveSessions, Live
    <2>. QED BY <1>1, <1>2, <2>1 DEF Inv, Promises, SuspendedIsOut, KnowsPassword, UsedOnce
  <1>5. \A d \in Calls : Undisturbed(d)
    BY <1>1 DEF Undisturbed, NotSuspended, LiveThen, LiveSessions, Live
  <1>. QED BY <1>3, <1>4, <1>5, Assemble

LEMMA OnlyReturns ==
  ASSUME Inv, NEW c \in Calls, Return(c), UNCHANGED tables
  PROVE  Inv'
  <1>1. call'[c] = Idle
    BY DEF Return, Goto, Inv, TypeOK
  <1>. QED BY <1>1, IdleFine, IdleHandler, OnlyMoves DEF Return

-----------------------------------------------------------------------------
(* Sessions that end.                                                       *)

LEMMA SessionFields ==
  ASSUME NEW row \in SessionRows
  PROVE  /\ row # NoSession /\ row.live \in BOOLEAN /\ row.user \in Users
         /\ row.successors \in 0 .. 2
         /\ row.live => row.knows \in Passwords
  <1>1. CASE row \in [live : {TRUE}, user : Users, successors : 0 .. 2, knows : Passwords]
    <2>1. row # NoSession
      BY <1>1 DEF NoSession
    <2>2. row.live \in BOOLEAN /\ row.user \in Users /\ row.successors \in 0 .. 2
          /\ row.knows \in Passwords
      BY <1>1
    <2>. QED BY <2>1, <2>2
  <1>2. CASE row \in [live : {FALSE}, user : Users, successors : 0 .. 2]
    <2>1. row # NoSession
      BY <1>2 DEF NoSession
    <2>2. row.live = FALSE /\ row.user \in Users /\ row.successors \in 0 .. 2
      BY <1>2
    <2>. QED BY <2>1, <2>2
  <1>. QED BY <1>1, <1>2 DEF SessionRows

\* The statement that ends sessions ends those, and leaves the rest of the rows.
LEMMA EndedRows ==
  ASSUME TypeOK, NEW S, session' = Ended(S)
  PROVE  /\ session' \in [Sessions -> SessionRows \cup {NoSession}]
         /\ \A s \in Sessions : session[s] # NoSession =>
               /\ session'[s] # NoSession /\ session'[s].user = session[s].user
               /\ session'[s].successors = session[s].successors
               /\ session'[s].live <=> session[s].live /\ s \notin S
               /\ session'[s].live => session'[s] = session[s]
         /\ \A s \in Sessions : session[s] = NoSession => session'[s] = NoSession
         /\ \A u : LiveSessions(u)' = LiveSessions(u) \ S
  <1>1. ASSUME NEW s \in Sessions, session[s] # NoSession
        PROVE  /\ session'[s] \in SessionRows /\ session'[s] # NoSession
               /\ session'[s].user = session[s].user
               /\ session'[s].successors = session[s].successors
               /\ session'[s].live <=> session[s].live /\ s \notin S
               /\ session'[s].live => session'[s] = session[s]
    <2>1. session[s] \in SessionRows
      BY <1>1 DEF TypeOK
    <2>2. CASE s \in S /\ session[s].live
      <3> DEFINE row == [live |-> FALSE, user |-> session[s].user,
                         successors |-> session[s].successors]
      <3>1. session'[s] = row
        BY <1>1, <2>2 DEF Ended, Live
      <3>2. row \in SessionRows /\ row # NoSession /\ row.user = session[s].user
            /\ row.successors = session[s].successors /\ ~row.live
        BY <2>1, SessionFields DEF SessionRows, NoSession
      <3> HIDE DEF row
      <3>. QED BY <2>2, <3>1, <3>2
    <2>3. CASE ~(s \in S /\ session[s].live)
      <3>1. session'[s] = session[s]
        BY <2>3 DEF Ended, Live
      <3>2. session[s].live \in BOOLEAN
        BY <2>1, SessionFields
      <3>. QED BY <1>1, <2>1, <2>3, <3>1, <3>2
    <2>. QED BY <2>2, <2>3
  <1>2. ASSUME NEW s \in Sessions, session[s] = NoSession
        PROVE  session'[s] = NoSession
    BY <1>2 DEF Ended, Live
  <1>3. DOMAIN session' = Sessions /\ session' = [s \in Sessions |-> session'[s]]
    BY DEF Ended
  <1>4. session' \in [Sessions -> SessionRows \cup {NoSession}]
    BY <1>1, <1>2, <1>3
  <1>5. ASSUME NEW u
        PROVE  LiveSessions(u)' = LiveSessions(u) \ S
    BY <1>1, <1>2 DEF LiveSessions, Live
  <1>. QED BY <1>1, <1>2, <1>4, <1>5

LEMMA EndedTyped ==
  ASSUME Inv, NEW S, session' = Ended(S), user' \in [Users -> UserRows \cup {NoUser}],
         token' \in [Tokens -> TokenRows \cup {NoToken}]
  PROVE  TablesTyped
  BY EndedRows DEF Inv, TablesTyped

LEMMA UserFields ==
  ASSUME NEW row \in UserRows
  PROVE  /\ row # NoUser /\ row.status \in AccountStatus /\ row.password \in Passwords
         /\ row.deleted \in BOOLEAN
  <1>1. row.status \in AccountStatus /\ row.password \in Passwords /\ row.deleted \in BOOLEAN
    BY DEF UserRows
  <1>2. NoUser.status \notin AccountStatus
    BY DEF NoUser, AccountStatus
  <1>. QED BY <1>1, <1>2

LEMMA TokenFields ==
  ASSUME NEW row \in TokenRows
  PROVE  /\ row # NoToken /\ row.kind \in {"verify", "reset"} /\ row.user \in Users
         /\ row.uses \in 0 .. 2
  <1>1. row.kind \in {"verify", "reset"} /\ row.user \in Users /\ row.uses \in 0 .. 2
    BY DEF TokenRows
  <1>2. NoToken.kind \notin {"verify", "reset"}
    BY DEF NoToken
  <1>. QED BY <1>1, <1>2

-----------------------------------------------------------------------------
(* Handlers that start, or go on without writing.                           *)

LEMMA NewHandler ==
  ASSUME Inv, NEW c \in Calls, NEW h \in Handlers, Goto(c, h), UNCHANGED tables,
         HandlerRows(h), HandlerFacts(h)
  PROVE  Inv'
  <1>1. user' = user /\ session' = session /\ token' = token
    BY DEF tables
  <1>2. raced \subseteq raced' /\ call'[c] = h
    BY Moving DEF Inv
  <1>3. HandlerRows(call[c])'
    BY <1>1, <1>2 DEF HandlerRows
  <1>4. HandlerFacts(call[c])'
    <2>1. \A u : LiveSessions(u)' = LiveSessions(u)
      BY <1>1 DEF LiveSessions, Live
    <2>. QED BY <1>1, <1>2, <2>1 DEF HandlerFacts, StillOpen, StillWelcome, StillFirst, SeenAll
  <1>. QED BY <1>3, <1>4, OnlyMoves

\* Most handlers rely on nothing but that their rows exist.
LEMMA PlainHandler ==
  ASSUME NEW h, h.at \in {"register", "forgot", "delete", "end", "change"}
  PROVE  HandlerFacts(h)
  <1>1. h.at \notin Opening /\ h.at \notin Refreshing
    BY DEF Opening, Refreshing
  <1>2. h.at \notin Redeeming /\ h.at # "verify"
    BY DEF Redeeming
  <1>3. h.at \notin {"reset_commit", "status_commit", "change_commit"}
    OBVIOUS
  <1>. QED BY <1>1, <1>2, <1>3 DEF HandlerFacts, StillOpen, StillWelcome, StillFirst, SeenAll

LEMMA StartRegister ==
  ASSUME Inv, NEW c \in Calls, NEW u \in Users, Register(c, u)
  PROVE  Inv'
  <1> DEFINE h == [at |-> "register", user |-> u]
  <1>1. h \in Handlers /\ h.at = "register"
    BY DEF Handlers
  <1>2. Goto(c, h) /\ UNCHANGED tables
    BY DEF Register, Starts
  <1> HIDE DEF h
  <1>3. HandlerRows(h) /\ HandlerFacts(h)
    BY <1>1, PlainHandler
       DEF HandlerRows, NamesUser, NamesSession, UserCommit, Redeeming
  <1>. QED BY <1>1, <1>2, <1>3, NewHandler

LEMMA StartForgot ==
  ASSUME Inv, NEW c \in Calls, NEW u \in Users, ForgotPassword(c, u)
  PROVE  Inv'
  <1> DEFINE h == [at |-> "forgot", user |-> u]
  <1>1. h \in Handlers /\ h.at = "forgot" /\ h.user = u
    BY DEF Handlers
  <1>2. Goto(c, h) /\ UNCHANGED tables /\ user[u] # NoUser
    BY DEF ForgotPassword, Starts, NoUser
  <1> HIDE DEF h
  <1>3. HandlerRows(h) /\ HandlerFacts(h)
    BY <1>1, <1>2, PlainHandler
       DEF HandlerRows, NamesSession, Redeeming
  <1>. QED BY <1>1, <1>2, <1>3, NewHandler

LEMMA StartLogin ==
  ASSUME Inv, NEW c \in Calls, NEW u \in Users, NEW p \in Passwords, Login(c, u, p)
  PROVE  Inv'
  <1> DEFINE h == [at |-> "login", user |-> u, password |-> p]
  <1>1. h \in Handlers /\ h.at = "login" /\ h.user = u /\ h.password = p
    BY DEF Handlers
  <1>2. Goto(c, h) /\ UNCHANGED tables
    BY DEF Login, Starts
  <1>3. user[u].status = "ACTIVE" /\ user[u].password = p /\ user[u] # NoUser
    BY DEF Login, NoUser
  <1> HIDE DEF h
  <1>4. HandlerRows(h)
    BY <1>1, <1>3 DEF HandlerRows, NamesSession, Redeeming
  <1>5. HandlerFacts(h)
    BY <1>1, <1>3
       DEF HandlerFacts, StillOpen, StillWelcome, StillFirst, SeenAll, Refreshing, Redeeming
  <1>. QED BY <1>1, <1>2, <1>4, <1>5, NewHandler

\* A live session that has not been raced for has no successor, its user is not
\* suspended and has the password it was opened with.
LEMMA StartRefresh ==
  ASSUME Inv, NEW c \in Calls, NEW s \in Sessions, Refresh(c, s)
  PROVE  Inv'
  <1> DEFINE h == [at |-> "refresh", user |-> session[s].user, session |-> s,
                   password |-> session[s].knows]
  <1>1. session[s] # NoSession /\ session[s].live /\ session[s] \in SessionRows
    BY DEF Refresh, Live, Inv, TypeOK
  <1>2. session[s].user \in Users /\ session[s].knows \in Passwords
    BY <1>1, SessionFields
  <1>3. /\ h \in Handlers /\ h.at = "refresh" /\ h.user = session[s].user
        /\ h.session = s /\ h.password = session[s].knows
    BY <1>2 DEF Handlers
  <1>4. Goto(c, h) /\ UNCHANGED tables
    BY DEF Refresh, Starts
  <1> HIDE DEF h
  <1>5. user[h.user] # NoUser /\ session[s].successors = 0
    BY <1>1, <1>3 DEF Inv, TableRows
  <1>6. HandlerRows(h)
    BY <1>1, <1>3, <1>5 DEF HandlerRows, Redeeming
  <1>7. ASSUME h.user \notin raced
        PROVE  user[h.user].status # "SUSPENDED" /\ user[h.user].password = h.password
    <2>1. s \in LiveSessions(h.user)
      BY <1>1, <1>3 DEF LiveSessions, Live
    <2>. QED BY <1>2, <1>3, <1>7, <2>1 DEF Inv, Promises, SuspendedIsOut, KnowsPassword
  <1>8. HandlerFacts(h)
    BY <1>3, <1>5, <1>7
       DEF HandlerFacts, StillOpen, StillWelcome, StillFirst, SeenAll, Redeeming
  <1>. QED BY <1>3, <1>4, <1>6, <1>8, NewHandler

LEMMA StartEnd ==
  ASSUME Inv, NEW c \in Calls, NEW s \in Sessions, NEW other \in Sessions,
         Logout(c, s) \/ RevokeSession(c, other, s)
  PROVE  Inv'
  <1> DEFINE h == [at |-> "end", session |-> s]
  <1>1. h \in Handlers /\ h.at = "end" /\ h.session = s
    BY DEF Handlers
  <1>2. Goto(c, h) /\ UNCHANGED tables /\ session[s] # NoSession
    BY DEF Logout, RevokeSession, Starts, Authenticated, Live
  <1> HIDE DEF h
  <1>3. HandlerRows(h) /\ HandlerFacts(h)
    BY <1>1, <1>2, PlainHandler
       DEF HandlerRows, NamesUser, NamesSession, UserCommit, Redeeming
  <1>. QED BY <1>1, <1>2, <1>3, NewHandler

LEMMA StartChange ==
  ASSUME Inv, NEW c \in Calls, NEW s \in Sessions, ChangePassword(c, s)
  PROVE  Inv'
  <1> DEFINE h == [at |-> "change", user |-> session[s].user, session |-> s]
  <1>1. session[s] # NoSession /\ session[s] \in SessionRows
    BY DEF ChangePassword, Authenticated, Live, Inv, TypeOK
  <1>2. session[s].user \in Users /\ user[session[s].user] # NoUser
    BY <1>1, SessionFields DEF Inv, TableRows
  <1>3. h \in Handlers /\ h.at = "change" /\ h.session = s /\ h.user = session[s].user
    BY <1>2 DEF Handlers
  <1>4. Goto(c, h) /\ UNCHANGED tables
    BY DEF ChangePassword, Starts
  <1> HIDE DEF h
  <1>5. HandlerRows(h) /\ HandlerFacts(h)
    BY <1>1, <1>2, <1>3, PlainHandler DEF HandlerRows, Redeeming
  <1>. QED BY <1>3, <1>4, <1>5, NewHandler

LEMMA StartDelete ==
  ASSUME Inv, NEW c \in Calls, NEW s \in Sessions, DeleteAccount(c, s)
  PROVE  Inv'
  <1> DEFINE h == [at |-> "delete", user |-> session[s].user]
  <1>1. session[s] # NoSession /\ session[s] \in SessionRows
    BY DEF DeleteAccount, Authenticated, Live, Inv, TypeOK
  <1>2. session[s].user \in Users /\ user[session[s].user] # NoUser
    BY <1>1, SessionFields DEF Inv, TableRows
  <1>3. h \in Handlers /\ h.at = "delete" /\ h.user = session[s].user
    BY <1>2 DEF Handlers
  <1>4. Goto(c, h) /\ UNCHANGED tables
    BY DEF DeleteAccount, Starts
  <1> HIDE DEF h
  <1>5. HandlerRows(h) /\ HandlerFacts(h)
    BY <1>2, <1>3, PlainHandler DEF HandlerRows, NamesSession, Redeeming
  <1>. QED BY <1>3, <1>4, <1>5, NewHandler

LEMMA StartRedeeming ==
  ASSUME Inv, NEW c \in Calls, NEW t \in Tokens, VerifyEmail(c, t) \/ ResetPassword(c, t)
  PROVE  Inv'
  <1> DEFINE h(at) == [at |-> at, user |-> token[t].user, token |-> t]
  <1>1. PICK at \in {"verify", "reset"} :
           Redeemable(t, at) /\ OwnerNotSuspended(t) /\ Goto(c, h(at)) /\ UNCHANGED tables
    BY DEF VerifyEmail, ResetPassword, Starts
  <1>2. token[t] # NoToken /\ token[t] \in TokenRows /\ token[t].uses = 0
    BY <1>1 DEF Redeemable, NoToken, Inv, TypeOK
  <1>3. token[t].user \in Users /\ user[token[t].user] # NoUser
    BY <1>2, TokenFields DEF Inv, TableRows
  <1>4. /\ h(at) \in Handlers /\ h(at).at = at /\ h(at).user = token[t].user
        /\ h(at).token = t
    BY <1>3 DEF Handlers
  <1> HIDE DEF h
  <1>5. HandlerRows(h(at))
    BY <1>2, <1>3, <1>4 DEF HandlerRows, NamesSession
  <1>6. HandlerFacts(h(at))
    BY <1>1, <1>2, <1>3, <1>4
       DEF HandlerFacts, StillOpen, StillWelcome, StillFirst, SeenAll, OwnerNotSuspended,
           Opening, Refreshing
  <1>. QED BY <1>1, <1>4, <1>5, <1>6, NewHandler

LEMMA StartStatus ==
  ASSUME Inv, NEW c \in Calls, NEW u \in Users, NEW status \in AccountStatus,
         UpdateUserStatus(c, u, status)
  PROVE  Inv'
  <1> DEFINE h == [at |-> "status_commit", user |-> u, status |-> status,
                   seen |-> ToEnd(u, status)]
  <1>1. ToEnd(u, status) \subseteq Sessions
    BY DEF ToEnd, LiveSessions
  <1>2. /\ h \in Handlers /\ h.at = "status_commit" /\ h.user = u /\ h.status = status
        /\ h.seen = ToEnd(u, status)
    BY <1>1 DEF Handlers
  <1>3. Goto(c, h) /\ UNCHANGED tables /\ user[u] # NoUser
    BY DEF UpdateUserStatus, Starts
  <1> HIDE DEF h
  <1>4. HandlerRows(h)
    BY <1>2, <1>3 DEF HandlerRows, NamesSession, Redeeming
  <1>5. HandlerFacts(h)
    BY <1>2
       DEF HandlerFacts, StillOpen, StillWelcome, StillFirst, SeenAll, ToEnd,
           Opening, Refreshing, Redeeming
  <1>. QED BY <1>2, <1>3, <1>4, <1>5, NewHandler

LEMMA GoOnReset ==
  ASSUME Inv, NEW c \in Calls, BeginReset(c)
  PROVE  Inv'
  <1> DEFINE g == call[c]
             h == [at |-> "reset_commit", user |-> g.user, token |-> g.token,
                   seen |-> LiveSessions(g.user)]
  <1>1. g.at = "reset" /\ g \in Handlers /\ HandlerRows(g) /\ HandlerFacts(g)
    BY DEF BeginReset, Inv, TypeOK
  <1>2. Goto(c, h) /\ UNCHANGED tables
    BY DEF BeginReset
  <1> HIDE DEF g
  <1>3. g.user \in Users /\ g.token \in Tokens
    BY <1>1, HandlerFields DEF NamesUser, Redeeming
  <1>4. user[g.user] # NoUser /\ token[g.token] # NoToken
    BY <1>1 DEF HandlerRows, NamesUser, Redeeming
  <1>5. LiveSessions(g.user) \subseteq Sessions
    BY DEF LiveSessions
  <1>6. /\ h \in Handlers /\ h.at = "reset_commit" /\ h.user = g.user /\ h.token = g.token
        /\ h.seen = LiveSessions(g.user)
    BY <1>3, <1>5 DEF Handlers
  <1> HIDE DEF h
  <1>7. HandlerRows(h)
    BY <1>4, <1>6 DEF HandlerRows, NamesSession
  <1>8. StillFirst(h)
    BY <1>1, <1>6 DEF HandlerFacts, StillFirst, Refreshing, Redeeming
  <1>9. HandlerFacts(h)
    BY <1>6, <1>8 DEF HandlerFacts, StillOpen, StillWelcome, SeenAll, Opening
  <1>. QED BY <1>2, <1>6, <1>7, <1>9, NewHandler

LEMMA GoOnChange ==
  ASSUME Inv, NEW c \in Calls, BeginChange(c)
  PROVE  Inv'
  <1> DEFINE g == call[c]
             h == [at |-> "change_commit", user |-> g.user, session |-> g.session,
                   seen |-> OtherSessions(c)]
  <1>1. g.at = "change" /\ g \in Handlers /\ HandlerRows(g)
    BY DEF BeginChange, Inv, TypeOK
  <1>2. Goto(c, h) /\ UNCHANGED tables /\ OtherSessions(c) = LiveSessions(g.user) \ {g.session}
    BY DEF BeginChange, OtherSessions
  <1> HIDE DEF g
  <1>3. g.user \in Users /\ g.session \in Sessions
    BY <1>1, HandlerFields DEF NamesUser, NamesSession
  <1>4. /\ user[g.user] # NoUser /\ session[g.session] # NoSession
        /\ session[g.session].user = g.user
    BY <1>1 DEF HandlerRows, NamesUser, NamesSession
  <1>5. OtherSessions(c) \subseteq Sessions
    BY <1>2 DEF LiveSessions
  <1>6. /\ h \in Handlers /\ h.at = "change_commit" /\ h.user = g.user
        /\ h.session = g.session /\ h.seen = OtherSessions(c)
    BY <1>3, <1>5 DEF Handlers
  <1> HIDE DEF h
  <1>7. HandlerRows(h)
    BY <1>2, <1>4, <1>6 DEF HandlerRows, Redeeming
  <1>8. HandlerFacts(h)
    BY <1>2, <1>6
       DEF HandlerFacts, StillOpen, StillWelcome, StillFirst, SeenAll,
           Opening, Refreshing, Redeeming
  <1>. QED BY <1>2, <1>6, <1>7, <1>8, NewHandler

LEMMA StartingKeepsInv ==
  ASSUME Inv, NEW c \in Calls, Starting(c)
  PROVE  Inv'
  BY StartRegister, StartForgot, StartLogin, StartStatus, StartRedeeming, StartRefresh,
     StartEnd, StartChange, StartDelete
     DEF Starting

-----------------------------------------------------------------------------
(* Handlers that write.                                                     *)

\* What a writer owes, when it is done.
LEMMA Written ==
  ASSUME Inv, NEW c \in Calls, Return(c), TablesTyped, TableRows', Promises', Kept,
         \A d \in Calls \ {c} : Undisturbed(d)
  PROVE  Inv'
  <1>1. call'[c] = Idle
    BY DEF Return, Goto, Inv, TypeOK
  <1>. QED BY <1>1, IdleFine, IdleHandler, Assemble DEF Return

LEMMA ReturnRaces ==
  ASSUME Inv, NEW c \in Calls, Return(c)
  PROVE  raced \subseteq raced'
  BY DEF Return, Goto

\* The rows that a handler in flight names.
LEMMA HandlerNames ==
  ASSUME Inv, NEW d \in Calls
  PROVE  /\ call[d].at \in NamesUser => call[d].user \in Users /\ user[call[d].user] # NoUser
         /\ call[d].at \in NamesSession =>
               /\ call[d].session \in Sessions /\ session[call[d].session] # NoSession
               /\ session[call[d].session].user = call[d].user
         /\ call[d].at \in Redeeming =>
               call[d].token \in Tokens /\ token[call[d].token] # NoToken
         /\ call[d].at \in UserCommit => call[d].seen \subseteq Sessions
  <1>1. call[d] \in Handlers /\ HandlerRows(call[d])
    BY DEF Inv, TypeOK
  <1>. QED BY <1>1, HandlerFields DEF HandlerRows

LEMMA Steps ==
  /\ Opening \subseteq NamesUser /\ "verify" \in NamesUser /\ UserCommit \subseteq NamesUser
  /\ Refreshing \subseteq NamesSession /\ "change_commit" \in NamesSession
  /\ Refreshing \subseteq Opening
  /\ {"reset_commit", "status_commit", "change_commit"} = UserCommit
  /\ {"verify", "reset", "reset_commit"} = Redeeming
  BY DEF Opening, NamesUser, UserCommit, Refreshing, NamesSession, Redeeming

\* A step that ends sessions and leaves everybody's status and password.
LEMMA EndsOnly ==
  ASSUME Inv, NEW S, session' = Ended(S), token' = token, raced \subseteq raced',
         user' \in [Users -> UserRows \cup {NoUser}],
         \A u \in Users : /\ user[u] # NoUser => user'[u] # NoUser
                          /\ user'[u].status = user[u].status
                          /\ user'[u].password = user[u].password
  PROVE  /\ TablesTyped /\ TableRows' /\ Promises' /\ Kept
         /\ \A d \in Calls : Undisturbed(d)
  <1>1. TypeOK /\ TableRows /\ Promises
    BY DEF Inv
  <1>2. TablesTyped
    BY <1>1, EndedTyped DEF TypeOK
  <1>3. Kept
    BY <1>1, EndedRows DEF Kept
  <1>4. TableRows'
    <2>1. ASSUME NEW s \in Sessions, session'[s] # NoSession
          PROVE  user'[session'[s].user] # NoUser
                 /\ (session'[s].live => session'[s].successors = 0)
      <3>1. session[s] # NoSession /\ session[s] \in SessionRows
        BY <1>1, <2>1, EndedRows DEF TypeOK
      <3>. QED BY <1>1, <3>1, EndedRows, SessionFields DEF TableRows
    <2>2. ASSUME NEW t \in Tokens, token[t] # NoToken
          PROVE  user'[token[t].user] # NoUser
      <3>1. token[t] \in TokenRows
        BY <1>1, <2>2 DEF TypeOK
      <3>. QED BY <1>1, <2>2, <3>1, TokenFields DEF TableRows
    <2>. QED BY <2>1, <2>2 DEF TableRows
  <1>5. \A u : LiveSessions(u)' = LiveSessions(u) \ S
    BY <1>1, EndedRows
  <1>6. Promises'
    <2>1. SuspendedIsOut'
      BY <1>1, <1>5 DEF Promises, SuspendedIsOut
    <2>2. KnowsPassword'
      <3> SUFFICES ASSUME NEW u \in Users \ raced', NEW s \in LiveSessions(u)'
                   PROVE  session'[s].knows = user'[u].password
        BY DEF KnowsPassword
      <3>1. s \in LiveSessions(u) /\ s \in Sessions /\ s \notin S
        BY <1>5 DEF LiveSessions
      <3>2. session'[s] = session[s]
        BY <1>1, <3>1, EndedRows DEF LiveSessions, Live
      <3>. QED BY <1>1, <3>1, <3>2 DEF Promises, KnowsPassword
    <2>3. UsedOnce'
      BY <1>1, EndedRows DEF Promises, UsedOnce
    <2>. QED BY <2>1, <2>2, <2>3 DEF Promises
  <1>7. ASSUME NEW d \in Calls
        PROVE  Undisturbed(d)
    <2>1. LiveThen(call[d].user) \subseteq LiveSessions(call[d].user)
      BY <1>1, <1>5, EndedRows DEF LiveThen, LiveSessions, Live
    <2>. QED BY <1>1, <2>1, Steps, HandlerNames, EndedRows DEF Undisturbed, NotSuspended
  <1>. QED BY <1>2, <1>3, <1>4, <1>6, <1>7

LEMMA EndSessionKeepsInv ==
  ASSUME Inv, NEW c \in Calls, EndSession(c)
  PROVE  Inv'
  <1>1. /\ session' = Ended({call[c].session}) /\ Return(c)
        /\ user' = user /\ token' = token
    BY DEF EndSession
  <1>2. raced \subseteq raced'
    BY <1>1, ReturnRaces
  <1>3. TypeOK
    BY DEF Inv
  <1>. QED BY <1>1, <1>2, <1>3, EndsOnly, Written DEF TypeOK

LEMMA DeletionKeepsInv ==
  ASSUME Inv, NEW c \in Calls, CommitDeletion(c)
  PROVE  Inv'
  <1> DEFINE u == call[c].user
  <1>1. /\ session' = Ended(LiveSessions(u)) /\ Return(c) /\ token' = token
        /\ user' = [user EXCEPT ![u].deleted = TRUE] /\ call[c].at = "delete"
    BY DEF CommitDeletion, EndAll
  <1>2. u \in Users /\ user[u] # NoUser
    BY <1>1, HandlerNames DEF NamesUser
  <1> HIDE DEF u
  <1>3. user[u] \in UserRows /\ user \in [Users -> UserRows \cup {NoUser}]
    BY <1>2 DEF Inv, TypeOK
  <1>4. [user[u] EXCEPT !.deleted = TRUE] \in UserRows
    BY <1>3 DEF UserRows
  <1>5. user' \in [Users -> UserRows \cup {NoUser}]
    BY <1>1, <1>3, <1>4
  <1>6. \A v \in Users : /\ user[v] # NoUser => user'[v] # NoUser
                         /\ user'[v].status = user[v].status
                         /\ user'[v].password = user[v].password
    BY <1>1, <1>2, <1>3, <1>4, UserFields DEF UserRows
  <1>7. raced \subseteq raced'
    BY <1>1, ReturnRaces
  <1>. QED BY <1>1, <1>5, <1>6, <1>7, EndsOnly, Written

\* Whatever ends all sessions of a user and is one write.
LEMMA EndAllKeepsInv ==
  ASSUME Inv, NEW u, EndAll(u), UNCHANGED <<user, token, call, raced>>
  PROVE  Inv'
  <1>1. session' = Ended(LiveSessions(u)) /\ user \in [Users -> UserRows \cup {NoUser}]
    BY DEF EndAll, Inv, TypeOK
  <1>2. TablesTyped /\ TableRows' /\ Promises' /\ Kept /\ \A d \in Calls : Undisturbed(d)
    BY <1>1, EndsOnly
  <1>3. \A d \in Calls : HandlerRows(call[d])' /\ HandlerFacts(call[d])'
    BY <1>2, Stay
  <1>4. TypeOK' /\ Marked'
    BY <1>2 DEF Inv, TypeOK, TablesTyped, Marked, Race
  <1>. QED BY <1>2, <1>3, <1>4 DEF Inv

\* The refresh that has ended the session it replaces.
LEMMA RevokeOldKeepsInv ==
  ASSUME Inv, NEW c \in Calls, RevokeOld(c)
  PROVE  Inv'
  <1> DEFINE g == call[c]
             h == [g EXCEPT !.at = "refresh_open"]
  <1>1. /\ session' = Ended({g.session}) /\ Goto(c, h) /\ user' = user /\ token' = token
        /\ g.at = "refresh"
    BY DEF RevokeOld, OldSessionEnded, Advance
  <1>2. g \in Handlers /\ HandlerRows(g) /\ HandlerFacts(g)
    BY DEF Inv, TypeOK
  <1>3. /\ g.user \in Users /\ user[g.user] # NoUser
        /\ g.session \in Sessions /\ session[g.session] # NoSession
        /\ session[g.session].user = g.user
    BY <1>1, HandlerNames DEF NamesUser, NamesSession
  <1>4. /\ h \in Handlers /\ h.at = "refresh_open" /\ h.user = g.user
        /\ h.session = g.session /\ h.password = g.password
    BY <1>1, <1>2 DEF Handlers, Idle
  <1> HIDE DEF g, h
  <1>5. call'[c] = h /\ raced \subseteq raced'
    BY <1>1, <1>4, Moving DEF Inv
  <1>6. user \in [Users -> UserRows \cup {NoUser}] /\ TypeOK
    BY DEF Inv, TypeOK
  <1>7. TablesTyped /\ TableRows' /\ Promises' /\ Kept /\ \A d \in Calls : Undisturbed(d)
    BY <1>1, <1>5, <1>6, EndsOnly
  <1>8. /\ session'[g.session] # NoSession /\ session'[g.session].user = g.user
        /\ session'[g.session].successors = session[g.session].successors
        /\ ~session'[g.session].live
    BY <1>1, <1>3, <1>6, EndedRows
  <1>9. HandlerRows(call[c])'
    BY <1>1, <1>3, <1>4, <1>5, <1>8 DEF HandlerRows, Redeeming
  <1>10. HandlerFacts(call[c])'
    <2>1. StillOpen(g) /\ StillFirst(g)
      BY <1>2 DEF HandlerFacts
    <2>2. StillOpen(call[c])'
      BY <1>1, <1>4, <1>5, <2>1 DEF StillOpen, Opening
    <2>3. StillFirst(call[c])'
      BY <1>1, <1>4, <1>5, <1>8, <2>1 DEF StillFirst, Refreshing, Redeeming
    <2>. QED BY <1>4, <1>5, <2>2, <2>3 DEF HandlerFacts, StillWelcome, SeenAll
  <1>. QED BY <1>1, <1>4, <1>7, <1>9, <1>10, Assemble

-----------------------------------------------------------------------------
(* Sessions that are opened.                                                *)

LEMMA NewSessionType ==
  ASSUME NEW u \in Users, NEW p \in Passwords
  PROVE  /\ NewSession(u, p) \in SessionRows /\ NewSession(u, p) # NoSession
         /\ NewSession(u, p).live /\ NewSession(u, p).user = u
         /\ NewSession(u, p).knows = p /\ NewSession(u, p).successors = 0
  <1>1. /\ NewSession(u, p).live = TRUE /\ NewSession(u, p).user = u
        /\ NewSession(u, p).knows = p /\ NewSession(u, p).successors = 0
    BY DEF NewSession
  <1>2. NewSession(u, p) \in [live : {TRUE}, user : Users, successors : 0 .. 2, knows : Passwords]
    BY DEF NewSession
  <1>3. NewSession(u, p) \in SessionRows
    BY <1>2 DEF SessionRows
  <1>. QED BY <1>1, <1>3, SessionFields

\* One more session, of a user whose login or refresh is under way; no other
\* session starts to live or changes hands.
LEMMA Opened ==
  ASSUME Inv, NEW c \in Calls, call[c].at \in Opening, NEW s \in Sessions,
         session[s] = NoSession,
         session' \in [Sessions -> SessionRows \cup {NoSession}],
         session'[s] = NewSession(call[c].user, call[c].password),
         \A r \in Sessions \ {s} :
            /\ session[r] = NoSession => session'[r] = NoSession
            /\ session[r] # NoSession =>
                  /\ session'[r] # NoSession /\ session'[r].user = session[r].user
                  /\ session'[r].live = session[r].live
                  /\ session'[r].live => session'[r] = session[r],
         user' = user, raced \subseteq raced'
  PROVE  /\ SuspendedIsOut' /\ KnowsPassword'
         /\ \A r \in Sessions : session'[r] # NoSession =>
               user'[session'[r].user] # NoUser
               /\ (session'[r].live => session'[r].successors = 0)
         /\ \A r \in Sessions : session[r] # NoSession =>
               /\ session'[r] # NoSession /\ session'[r].user = session[r].user
               /\ session'[r].live => session[r].live
         /\ \A d \in Calls \ {c} : call[d].at \in UserCommit /\ call[d].user \notin raced' =>
               LiveThen(call[d].user) \subseteq LiveSessions(call[d].user)
  <1> DEFINE u == call[c].user
             p == call[c].password
  <1>1. TypeOK /\ TableRows /\ Marked /\ Promises /\ HandlerFacts(call[c])
    BY DEF Inv
  <1>2. u \in Users /\ user[u] # NoUser /\ p \in Passwords
    BY HandlerNames, Steps, HandlerFields DEF Inv, TypeOK
  <1>3. u \notin raced => user[u].status # "SUSPENDED" /\ user[u].password = p
    BY <1>1 DEF HandlerFacts, StillOpen
  <1>4. ASSUME NEW d \in Calls \ {c}, call[d].at \in UserCommit, call[d].user = u
        PROVE  u \in raced
    BY <1>1, <1>4, Races
  <1>5. /\ session'[s] # NoSession /\ session'[s].live /\ session'[s].user = u
        /\ session'[s].knows = p /\ session'[s].successors = 0
    BY <1>2, NewSessionType
  <1> HIDE DEF u, p
  <1>6. \A v : LiveThen(v) = IF v = u THEN LiveSessions(v) \cup {s} ELSE LiveSessions(v)
    BY <1>5 DEF LiveThen, LiveSessions, Live
  <1>7. \A v : LiveSessions(v)' = LiveThen(v)
    BY DEF LiveThen, LiveSessions, Live
  <1>8. SuspendedIsOut'
    BY <1>1, <1>3, <1>6, <1>7 DEF Promises, SuspendedIsOut
  <1>9. KnowsPassword'
    <2> SUFFICES ASSUME NEW v \in Users \ raced', NEW r \in LiveSessions(v)'
                 PROVE  session'[r].knows = user'[v].password
      BY DEF KnowsPassword
    <2>1. CASE r = s
      BY <1>3, <1>5, <2>1 DEF LiveSessions
    <2>2. CASE r # s
      <3>1. r \in LiveSessions(v) /\ session'[r] = session[r]
        BY <1>6, <1>7, <2>2 DEF LiveSessions, Live
      <3>. QED BY <1>1, <3>1 DEF Promises, KnowsPassword
    <2>. QED BY <2>1, <2>2
  <1>10. ASSUME NEW r \in Sessions, session'[r] # NoSession
         PROVE  user'[session'[r].user] # NoUser
                /\ (session'[r].live => session'[r].successors = 0)
    <2>1. CASE r = s
      BY <1>2, <1>5, <2>1
    <2>2. CASE r # s
      BY <1>1, <1>10, <2>2 DEF TableRows
    <2>. QED BY <2>1, <2>2
  <1>11. \A d \in Calls \ {c} : call[d].at \in UserCommit /\ call[d].user \notin raced' =>
            LiveThen(call[d].user) \subseteq LiveSessions(call[d].user)
    BY <1>4, <1>6
  <1>. QED BY <1>8, <1>9, <1>10, <1>11

LEMMA OpenSessionKeepsInv ==
  ASSUME Inv, NEW c \in Calls, NEW s \in Sessions, OpenSession(c, s)
  PROVE  Inv'
  <1> DEFINE row == NewSession(call[c].user, call[c].password)
  <1>1. /\ call[c].at = "login" /\ call[c].at \in Opening /\ session[s] = NoSession
        /\ session' = [session EXCEPT ![s] = row]
        /\ Return(c) /\ user' = user /\ token' = token
    BY DEF OpenSession, Opening
  <1>2. row \in SessionRows /\ row.successors = 0
    BY <1>1, NewSessionType, HandlerNames, Steps, HandlerFields DEF Inv, TypeOK
  <1> HIDE DEF row
  <1>3. TypeOK /\ TableRows /\ Promises /\ raced \subseteq raced'
    BY <1>1, ReturnRaces DEF Inv
  <1>4. /\ session' \in [Sessions -> SessionRows \cup {NoSession}] /\ session'[s] = row
        /\ \A r \in Sessions \ {s} : session'[r] = session[r]
    BY <1>1, <1>2, <1>3 DEF TypeOK
  <1>5. TablesTyped
    BY <1>1, <1>3, <1>4 DEF TypeOK, TablesTyped
  <1>6. /\ SuspendedIsOut' /\ KnowsPassword'
        /\ \A r \in Sessions : session'[r] # NoSession =>
               user'[session'[r].user] # NoUser
               /\ (session'[r].live => session'[r].successors = 0)
        /\ \A r \in Sessions : session[r] # NoSession =>
               /\ session'[r] # NoSession /\ session'[r].user = session[r].user
               /\ session'[r].live => session[r].live
        /\ \A d \in Calls \ {c} : call[d].at \in UserCommit /\ call[d].user \notin raced' =>
               LiveThen(call[d].user) \subseteq LiveSessions(call[d].user)
    BY <1>1, <1>3, <1>4, Opened DEF row
  <1>7. TableRows' /\ Kept
    BY <1>1, <1>3, <1>6 DEF TableRows, Kept
  <1>8. UsedOnce'
    BY <1>1, <1>2, <1>3, <1>4 DEF Promises, UsedOnce
  <1>9. ASSUME NEW d \in Calls \ {c}
        PROVE  Undisturbed(d)
    BY <1>1, <1>4, <1>6, HandlerNames, Steps DEF Undisturbed, NotSuspended
  <1>. QED BY <1>1, <1>5, <1>6, <1>7, <1>8, <1>9, Written DEF Promises

LEMMA ReplaceSessionKeepsInv ==
  ASSUME Inv, NEW c \in Calls, NEW s \in Sessions, ReplaceSession(c, s)
  PROVE  Inv'
  <1> DEFINE row == NewSession(call[c].user, call[c].password)
             old == call[c].session
             more == IF session[old].successors = 2 THEN 2 ELSE session[old].successors + 1
  <1>1. /\ call[c].at = "refresh_open" /\ call[c].at \in Opening /\ session[s] = NoSession
        /\ Return(c) /\ user' = user /\ token' = token
    BY DEF ReplaceSession, Opening
  <1>2. row \in SessionRows /\ row.successors = 0
    BY <1>1, NewSessionType, HandlerNames, Steps, HandlerFields DEF Inv, TypeOK
  <1>3. TypeOK /\ TableRows /\ Marked /\ Promises /\ raced \subseteq raced'
    BY <1>1, ReturnRaces DEF Inv
  <1>4. /\ old \in Sessions /\ session[old] # NoSession /\ session[old] \in SessionRows
        /\ ~session[old].live
    BY <1>1, <1>3, HandlerNames DEF NamesSession, HandlerRows, Inv, TypeOK
  <1>5. session' = [session EXCEPT ![s] = row, ![old] = [session[old] EXCEPT !.successors = more]]
    BY <1>1, <1>3, <1>4 DEF ReplaceSession, TypeOK
  <1>6. old \notin raced => session[old].successors = 0
    BY <1>1 DEF Inv, HandlerFacts, StillFirst, Refreshing
  <1> DEFINE after == [session[old] EXCEPT !.successors = more]
  <1>7. /\ after \in SessionRows /\ after # NoSession /\ after.user = session[old].user
        /\ ~after.live /\ after.successors = more
    <2>1. more \in 0 .. 2
      BY <1>4, SessionFields
    <2>2. session[old] \in [live : {FALSE}, user : Users, successors : 0 .. 2]
      BY <1>4 DEF SessionRows
    <2> HIDE DEF more
    <2>3. after \in [live : {FALSE}, user : Users, successors : 0 .. 2]
          /\ after.user = session[old].user /\ after.successors = more
      BY <2>1, <2>2
    <2>4. after \in SessionRows
      BY <2>3 DEF SessionRows
    <2>. QED BY <2>3, <2>4, SessionFields
  <1>8. more \in 0 .. 2 /\ (old \notin raced => more = 1)
    BY <1>4, <1>6, SessionFields
  <1> HIDE DEF row, old, more, after
  <1>9. /\ session' \in [Sessions -> SessionRows \cup {NoSession}] /\ session'[s] = row
        /\ session'[old] = after
        /\ \A r \in Sessions \ {s, old} : session'[r] = session[r]
    BY <1>1, <1>2, <1>3, <1>4, <1>5, <1>7 DEF TypeOK, after
  <1>10. TablesTyped
    BY <1>1, <1>3, <1>9 DEF TypeOK, TablesTyped
  <1>11. \A r \in Sessions \ {s} :
            /\ session[r] = NoSession => session'[r] = NoSession
            /\ session[r] # NoSession =>
                  /\ session'[r] # NoSession /\ session'[r].user = session[r].user
                  /\ session'[r].live = session[r].live
                  /\ session'[r].live => session'[r] = session[r]
    <2>1. after.live = session[old].live
      BY <1>4, <1>7, SessionFields
    <2>. QED BY <1>4, <1>7, <1>9, <2>1
  <1>12. /\ SuspendedIsOut' /\ KnowsPassword'
         /\ \A r \in Sessions : session'[r] # NoSession =>
               user'[session'[r].user] # NoUser
               /\ (session'[r].live => session'[r].successors = 0)
         /\ \A r \in Sessions : session[r] # NoSession =>
               /\ session'[r] # NoSession /\ session'[r].user = session[r].user
               /\ session'[r].live => session[r].live
         /\ \A d \in Calls \ {c} : call[d].at \in UserCommit /\ call[d].user \notin raced' =>
               LiveThen(call[d].user) \subseteq LiveSessions(call[d].user)
    BY <1>1, <1>3, <1>9, <1>11, Opened DEF row
  <1>13. TableRows' /\ Kept
    BY <1>1, <1>3, <1>12 DEF TableRows, Kept
  <1>14. UsedOnce'
    <2> SUFFICES ASSUME NEW r \in Sessions \ raced', session'[r] # NoSession
                 PROVE  session'[r].successors <= 1
      BY <1>1, <1>3 DEF Promises, UsedOnce
    <2>1. CASE r = s
      BY <1>2, <1>9, <2>1
    <2>2. CASE r = old
      BY <1>3, <1>7, <1>8, <1>9, <2>2
    <2>3. CASE r \notin {s, old}
      BY <1>3, <1>9, <2>3 DEF Promises, UsedOnce
    <2>. QED BY <2>1, <2>2, <2>3
  <1>15. ASSUME NEW d \in Calls \ {c}
         PROVE  Undisturbed(d)
    <2>1. call[d].at \in Refreshing /\ call[d].session = old => old \in raced
      BY <1>1, <1>3, Races DEF old, Refreshing
    <2>. QED BY <1>1, <1>3, <1>9, <1>12, <2>1, HandlerNames, Steps
             DEF Undisturbed, NotSuspended
  <1>. QED BY <1>1, <1>10, <1>12, <1>13, <1>14, <1>15, Written DEF Promises

-----------------------------------------------------------------------------
(* Users and tokens that are written.                                       *)

\* A row of a token that is redeemed.
LEMMA UsedToken ==
  ASSUME Inv, NEW c \in Calls, call[c].at \in Redeeming, token' = Used(call[c].token),
         raced \subseteq raced'
  PROVE  /\ token' \in [Tokens -> TokenRows \cup {NoToken}]
         /\ \A t \in Tokens :
               /\ token[t] = NoToken => token'[t] = NoToken
               /\ token[t] # NoToken => token'[t] # NoToken /\ token'[t].user = token[t].user
         /\ \A t \in Tokens \ raced' : token'[t] # NoToken => token'[t].uses <= 1
         /\ \A d \in Calls \ {c} : call[d].at \in Redeeming /\ call[d].token \notin raced' =>
               token'[call[d].token].uses = token[call[d].token].uses
  <1> DEFINE u == call[c].token
             more == IF token[u].uses = 2 THEN 2 ELSE token[u].uses + 1
             row == [token[u] EXCEPT !.uses = more]
  <1>1. TypeOK /\ Marked /\ Promises
    BY DEF Inv
  <1>2. u \in Tokens /\ token[u] # NoToken /\ token[u] \in TokenRows
    BY <1>1, HandlerNames DEF TypeOK
  <1>3. u \notin raced => token[u].uses = 0
    BY DEF Inv, HandlerFacts, StillFirst
  <1>4. more \in 0 .. 2 /\ (u \notin raced => more = 1)
    BY <1>2, <1>3, TokenFields
  <1>5. token' = [token EXCEPT ![u] = row]
    BY <1>1, <1>2 DEF Used, TypeOK
  <1>6. row \in TokenRows /\ row.uses = more /\ row.user = token[u].user
    <2> HIDE DEF more, u
    <2>. QED BY <1>2, <1>4 DEF TokenRows
  <1> HIDE DEF u, more, row
  <1>7. /\ token' \in [Tokens -> TokenRows \cup {NoToken}] /\ token'[u] = row
        /\ \A t \in Tokens \ {u} : token'[t] = token[t]
    BY <1>1, <1>2, <1>5, <1>6 DEF TypeOK
  <1>8. \A t \in Tokens :
           /\ token[t] = NoToken => token'[t] = NoToken
           /\ token[t] # NoToken => token'[t] # NoToken /\ token'[t].user = token[t].user
    BY <1>2, <1>6, <1>7, TokenFields
  <1>9. \A t \in Tokens \ raced' : token'[t] # NoToken => token'[t].uses <= 1
    BY <1>1, <1>4, <1>6, <1>7 DEF Promises, UsedOnce
  <1>10. ASSUME NEW d \in Calls \ {c}, call[d].at \in Redeeming, call[d].token \notin raced'
         PROVE  token'[call[d].token].uses = token[call[d].token].uses
    <2>1. call[d].token # u
      BY <1>1, <1>10, Races DEF u
    <2>. QED BY <1>7, <1>10, <2>1, HandlerNames
  <1>. QED BY <1>7, <1>8, <1>9, <1>10

\* Rows stay those of users: what is left to show is about the users.
LEMMA RowsOfUsers ==
  ASSUME Inv,
         \A u \in Users : user[u] # NoUser => user'[u] # NoUser,
         \A s \in Sessions :
            /\ session[s] = NoSession => session'[s] = NoSession
            /\ session[s] # NoSession =>
                  /\ session'[s] # NoSession /\ session'[s].user = session[s].user
                  /\ session'[s].successors = session[s].successors
                  /\ session'[s].live => session[s].live,
         \A t \in Tokens :
            /\ token[t] = NoToken => token'[t] = NoToken
            /\ token[t] # NoToken => token'[t] # NoToken /\ token'[t].user = token[t].user
  PROVE  TableRows' /\ Kept
  <1>1. TypeOK /\ TableRows
    BY DEF Inv
  <1>2. \A s \in Sessions : session[s] # NoSession => session[s].user \in Users
    BY <1>1, SessionFields DEF TypeOK
  <1>3. \A t \in Tokens : token[t] # NoToken => token[t].user \in Users
    BY <1>1, TokenFields DEF TypeOK
  <1>. QED BY <1>1, <1>2, <1>3 DEF TableRows, Kept

\* One row of User, written by the handler that names it.
LEMMA UserWritten ==
  ASSUME TypeOK, NEW u \in Users, NEW row \in UserRows, user' = [user EXCEPT ![u] = row]
  PROVE  /\ user' \in [Users -> UserRows \cup {NoUser}] /\ user'[u] = row
         /\ \A v \in Users \ {u} : user'[v] = user[v]
         /\ \A v \in Users : user[v] # NoUser => user'[v] # NoUser
  BY UserFields DEF TypeOK

LEMMA RowChanged ==
  ASSUME NEW row \in UserRows, NEW status \in AccountStatus, NEW p \in Passwords
  PROVE  /\ [row EXCEPT !.status = status] \in UserRows
         /\ [row EXCEPT !.status = status].status = status
         /\ [row EXCEPT !.status = status].password = row.password
         /\ [row EXCEPT !.password = p] \in UserRows
         /\ [row EXCEPT !.password = p].status = row.status
         /\ [row EXCEPT !.password = p].password = p
  BY DEF UserRows

LEMMA InsertUserKeepsInv ==
  ASSUME Inv, NEW c \in Calls, NEW t \in Tokens, NEW p \in Passwords, InsertUser(c, t, p)
  PROVE  Inv'
  <1> DEFINE u == call[c].user
             row == [status |-> "PENDING", password |-> p, deleted |-> FALSE]
             mail == [kind |-> "verify", user |-> u, uses |-> 0]
  <1>1. /\ user[u] = NoUser /\ user' = [user EXCEPT ![u] = row]
        /\ token[t] = NoToken /\ token' = [token EXCEPT ![t] = mail]
        /\ Return(c) /\ session' = session /\ call[c].at = "register"
    BY DEF InsertUser, NewToken
  <1>2. TypeOK /\ TableRows /\ Promises /\ raced \subseteq raced'
    BY <1>1, ReturnRaces DEF Inv
  <1>3. u \in Users
    BY <1>1, <1>2, HandlerFields DEF TypeOK
  <1>4. row \in UserRows /\ row.status = "PENDING"
    BY DEF UserRows, AccountStatus
  <1> HIDE DEF u, row
  <1>5. mail \in TokenRows /\ mail.user = u /\ mail.uses = 0
    BY <1>3 DEF TokenRows
  <1> HIDE DEF mail
  <1>6. /\ user' \in [Users -> UserRows \cup {NoUser}] /\ user'[u] = row
        /\ \A v \in Users \ {u} : user'[v] = user[v]
        /\ \A v \in Users : user[v] # NoUser => user'[v] # NoUser
    BY <1>1, <1>2, <1>3, <1>4, UserWritten
  <1>7. /\ token' \in [Tokens -> TokenRows \cup {NoToken}] /\ token'[t] = mail
        /\ \A x \in Tokens \ {t} : token'[x] = token[x]
    BY <1>1, <1>2, <1>5 DEF TypeOK
  <1>8. TablesTyped
    BY <1>1, <1>2, <1>6, <1>7 DEF TypeOK, TablesTyped
  <1>9. Kept
    BY <1>1, <1>6, <1>7 DEF Kept
  <1>10. TableRows'
    <2>1. \A s \in Sessions : session[s] # NoSession => session[s].user \in Users
      BY <1>2, SessionFields DEF TypeOK
    <2>2. \A x \in Tokens : token[x] # NoToken => token[x].user \in Users
      BY <1>2, TokenFields DEF TypeOK
    <2>3. user'[u] # NoUser
      BY <1>4, <1>6, UserFields
    <2>. QED BY <1>1, <1>2, <1>3, <1>5, <1>6, <1>7, <2>1, <2>2, <2>3 DEF TableRows
  <1>11. Promises'
    <2>1. \A v : LiveSessions(v)' = LiveSessions(v)
      BY <1>1 DEF LiveSessions, Live
    <2>2. LiveSessions(u) = {}
      BY <1>1, <1>2 DEF LiveSessions, Live, TableRows
    <2>3. SuspendedIsOut'
      BY <1>2, <1>6, <2>1, <2>2 DEF Promises, SuspendedIsOut
    <2>4. KnowsPassword'
      BY <1>1, <1>2, <1>6, <2>1, <2>2 DEF Promises, KnowsPassword
    <2>5. UsedOnce'
      BY <1>1, <1>2, <1>5, <1>7 DEF Promises, UsedOnce
    <2>. QED BY <2>3, <2>4, <2>5 DEF Promises
  <1>12. ASSUME NEW d \in Calls \ {c}
         PROVE  Undisturbed(d)
    <2>1. call[d].at \in NamesUser => call[d].user \in Users \ {u}
      BY <1>1, HandlerNames
    <2>2. call[d].at \in Redeeming => call[d].token \in Tokens \ {t}
      BY <1>1, HandlerNames
    <2>. QED BY <1>1, <1>6, <1>7, <2>1, <2>2, Steps
             DEF Undisturbed, NotSuspended, LiveThen, LiveSessions, Live
  <1>. QED BY <1>1, <1>8, <1>9, <1>10, <1>11, <1>12, Written

LEMMA InsertTokenKeepsInv ==
  ASSUME Inv, NEW c \in Calls, NEW t \in Tokens, InsertToken(c, t)
  PROVE  Inv'
  <1> DEFINE u == call[c].user
             mail == [kind |-> "reset", user |-> u, uses |-> 0]
  <1>1. /\ token[t] = NoToken /\ token' = [token EXCEPT ![t] = mail]
        /\ Return(c) /\ session' = session /\ user' = user /\ call[c].at = "forgot"
    BY DEF InsertToken, NewToken
  <1>2. TypeOK /\ TableRows /\ Promises /\ raced \subseteq raced'
    BY <1>1, ReturnRaces DEF Inv
  <1>3. u \in Users /\ user[u] # NoUser
    BY <1>1, HandlerNames DEF NamesUser
  <1> HIDE DEF u
  <1>4. mail \in TokenRows /\ mail.user = u /\ mail.uses = 0
    BY <1>3 DEF TokenRows
  <1> HIDE DEF mail
  <1>5. /\ token' \in [Tokens -> TokenRows \cup {NoToken}] /\ token'[t] = mail
        /\ \A x \in Tokens \ {t} : token'[x] = token[x]
    BY <1>1, <1>2, <1>4 DEF TypeOK
  <1>6. TablesTyped /\ TableRows' /\ Kept
    BY <1>1, <1>2, <1>3, <1>4, <1>5 DEF TypeOK, TablesTyped, TableRows, Kept
  <1>7. Promises'
    <2>1. \A v : LiveSessions(v)' = LiveSessions(v)
      BY <1>1 DEF LiveSessions, Live
    <2>2. UsedOnce'
      BY <1>1, <1>2, <1>4, <1>5 DEF Promises, UsedOnce
    <2>. QED BY <1>1, <1>2, <2>1, <2>2 DEF Promises, SuspendedIsOut, KnowsPassword
  <1>8. ASSUME NEW d \in Calls \ {c}
        PROVE  Undisturbed(d)
    <2>1. call[d].at \in Redeeming => call[d].token \in Tokens \ {t}
      BY <1>1, HandlerNames
    <2>. QED BY <1>1, <1>5, <2>1
             DEF Undisturbed, NotSuspended, LiveThen, LiveSessions, Live
  <1>. QED BY <1>1, <1>6, <1>7, <1>8, Written

LEMMA VerificationKeepsInv ==
  ASSUME Inv, NEW c \in Calls, CommitVerification(c)
  PROVE  Inv'
  <1> DEFINE u == call[c].user
             row == [user[u] EXCEPT !.status = "ACTIVE"]
  <1>1. /\ user' = [user EXCEPT ![u].status = "ACTIVE"] /\ token' = Used(call[c].token)
        /\ Return(c) /\ session' = session /\ call[c].at = "verify"
    BY DEF CommitVerification
  <1>2. TypeOK /\ Promises /\ raced \subseteq raced' /\ call[c].at \in Redeeming
    BY <1>1, ReturnRaces, Steps DEF Inv
  <1>3. u \in Users /\ user[u] # NoUser /\ user[u] \in UserRows
    BY <1>1, <1>2, HandlerNames DEF NamesUser, TypeOK
  <1>4. /\ row \in UserRows /\ row.status = "ACTIVE" /\ row.password = user[u].password
        /\ user' = [user EXCEPT ![u] = row]
    BY <1>1, <1>3 DEF UserRows, AccountStatus
  <1> HIDE DEF u, row
  <1>5. /\ user' \in [Users -> UserRows \cup {NoUser}] /\ user'[u] = row
        /\ \A v \in Users \ {u} : user'[v] = user[v]
        /\ \A v \in Users : user[v] # NoUser => user'[v] # NoUser
    BY <1>2, <1>3, <1>4, UserWritten
  <1>6. /\ token' \in [Tokens -> TokenRows \cup {NoToken}]
        /\ \A t \in Tokens :
              /\ token[t] = NoToken => token'[t] = NoToken
              /\ token[t] # NoToken => token'[t] # NoToken /\ token'[t].user = token[t].user
        /\ \A t \in Tokens \ raced' : token'[t] # NoToken => token'[t].uses <= 1
        /\ \A d \in Calls \ {c} : call[d].at \in Redeeming /\ call[d].token \notin raced' =>
              token'[call[d].token].uses = token[call[d].token].uses
    BY <1>1, <1>2, UsedToken
  <1>7. TablesTyped
    BY <1>1, <1>2, <1>5, <1>6 DEF TypeOK, TablesTyped
  <1>8. TableRows' /\ Kept
    BY <1>1, <1>5, <1>6, RowsOfUsers
  <1>9. Promises'
    <2>1. \A v : LiveSessions(v)' = LiveSessions(v)
      BY <1>1 DEF LiveSessions, Live
    <2>2. SuspendedIsOut'
      BY <1>2, <1>4, <1>5, <2>1 DEF Promises, SuspendedIsOut
    <2>3. KnowsPassword'
      BY <1>1, <1>2, <1>4, <1>5, <2>1 DEF Promises, KnowsPassword
    <2>4. UsedOnce'
      BY <1>1, <1>2, <1>6 DEF Promises, UsedOnce
    <2>. QED BY <2>2, <2>3, <2>4 DEF Promises
  <1>10. ASSUME NEW d \in Calls \ {c}
         PROVE  Undisturbed(d)
    BY <1>1, <1>4, <1>5, <1>6, HandlerNames, Steps
       DEF Undisturbed, NotSuspended, LiveThen, LiveSessions, Live
  <1>. QED BY <1>1, <1>7, <1>8, <1>9, <1>10, Written

-----------------------------------------------------------------------------
(* The transactions that write a user and end sessions.                     *)

\* Whoever reads that user's row at the same time has been marked.
LEMMA CommitDisturbsNobody ==
  ASSUME Inv, NEW c \in Calls, call[c].at \in UserCommit, raced \subseteq raced',
         \A v \in Users \ {call[c].user} : user'[v] = user[v],
         call[c].at # "status_commit" => NotSuspended(call[c].user),
         \A s \in Sessions :
            /\ session[s] = NoSession => session'[s] = NoSession
            /\ session[s] # NoSession =>
                  /\ session'[s].user = session[s].user
                  /\ session'[s].successors = session[s].successors
                  /\ session'[s].live => session[s].live,
         \A d \in Calls \ {c} : call[d].at \in Redeeming /\ call[d].token \notin raced' =>
            token'[call[d].token].uses = token[call[d].token].uses
  PROVE  \A d \in Calls \ {c} : Undisturbed(d)
  <1> SUFFICES ASSUME NEW d \in Calls \ {c}
               PROVE  Undisturbed(d)
    OBVIOUS
  <1>1. TypeOK /\ Marked
    BY DEF Inv
  <1>2. call[d].at \in Opening /\ call[d].user \notin raced' => call[d].user # call[c].user
    BY <1>1, Races
  <1>3. call[d].at = "verify" /\ call[d].user \notin raced' => NotSuspended(call[d].user)
    <2>1. CASE call[d].user = call[c].user
      BY <1>1, <2>1, Races
    <2>2. CASE call[d].user # call[c].user
      BY <2>2, HandlerNames, Steps DEF NotSuspended
    <2>. QED BY <2>1, <2>2
  <1>4. LiveThen(call[d].user) \subseteq LiveSessions(call[d].user)
    BY DEF LiveThen, LiveSessions, Live
  <1>. QED BY <1>2, <1>3, <1>4, HandlerNames, Steps DEF Undisturbed, NotSuspended

LEMMA ResetKeepsInv ==
  ASSUME Inv, NEW c \in Calls, NEW p \in Passwords, CommitReset(c, p)
  PROVE  Inv'
  <1> DEFINE u == call[c].user
             row == [user[u] EXCEPT !.password = p]
  <1>1. /\ user' = [user EXCEPT ![u].password = p] /\ token' = Used(call[c].token)
        /\ Return(c) /\ session' = Ended(call[c].seen) /\ call[c].at = "reset_commit"
    BY DEF CommitReset
  <1>2. /\ TypeOK /\ Promises /\ raced \subseteq raced' /\ HandlerFacts(call[c])
        /\ call[c].at \in Redeeming /\ call[c].at \in UserCommit
    BY <1>1, ReturnRaces, Steps DEF Inv
  <1>3. u \in Users /\ user[u] # NoUser /\ user[u] \in UserRows
    BY <1>2, HandlerNames, Steps DEF TypeOK
  <1>4. /\ row \in UserRows /\ row.status = user[u].status /\ row.password = p
        /\ user' = [user EXCEPT ![u] = row]
    BY <1>1, <1>3 DEF UserRows
  <1>5. u \notin raced => LiveSessions(u) \subseteq call[c].seen
    BY <1>1, <1>2 DEF HandlerFacts, SeenAll
  <1> HIDE DEF u, row
  <1>6. /\ user' \in [Users -> UserRows \cup {NoUser}] /\ user'[u] = row
        /\ \A v \in Users \ {u} : user'[v] = user[v]
        /\ \A v \in Users : user[v] # NoUser => user'[v] # NoUser
    BY <1>2, <1>3, <1>4, UserWritten
  <1>7. /\ token' \in [Tokens -> TokenRows \cup {NoToken}]
        /\ \A t \in Tokens :
              /\ token[t] = NoToken => token'[t] = NoToken
              /\ token[t] # NoToken => token'[t] # NoToken /\ token'[t].user = token[t].user
        /\ \A t \in Tokens \ raced' : token'[t] # NoToken => token'[t].uses <= 1
        /\ \A d \in Calls \ {c} : call[d].at \in Redeeming /\ call[d].token \notin raced' =>
              token'[call[d].token].uses = token[call[d].token].uses
    BY <1>1, <1>2, UsedToken
  <1>8. /\ session' \in [Sessions -> SessionRows \cup {NoSession}]
        /\ \A s \in Sessions :
              /\ session[s] = NoSession => session'[s] = NoSession
              /\ session[s] # NoSession =>
                    /\ session'[s] # NoSession /\ session'[s].user = session[s].user
                    /\ session'[s].successors = session[s].successors
                    /\ session'[s].live => session[s].live
                    /\ session'[s].live => session'[s] = session[s]
        /\ \A v : LiveSessions(v)' = LiveSessions(v) \ call[c].seen
    BY <1>1, <1>2, EndedRows
  <1>9. TablesTyped
    BY <1>6, <1>7, <1>8 DEF TablesTyped
  <1>10. TableRows' /\ Kept
    BY <1>6, <1>7, <1>8, RowsOfUsers
  <1>11. Promises'
    <2>1. SuspendedIsOut'
      BY <1>2, <1>4, <1>6, <1>8 DEF Promises, SuspendedIsOut
    <2>2. KnowsPassword'
      <3> SUFFICES ASSUME NEW v \in Users \ raced', NEW s \in LiveSessions(v)'
                   PROVE  session'[s].knows = user'[v].password
        BY DEF KnowsPassword
      <3>1. v # u /\ s \in LiveSessions(v) /\ session'[s] = session[s]
        BY <1>2, <1>5, <1>8 DEF LiveSessions, Live
      <3>. QED BY <1>2, <1>6, <3>1 DEF Promises, KnowsPassword
    <2>3. UsedOnce'
      BY <1>2, <1>7, <1>8 DEF Promises, UsedOnce
    <2>. QED BY <2>1, <2>2, <2>3 DEF Promises
  <1>12. \A d \in Calls \ {c} : Undisturbed(d)
    <2>1. NotSuspended(u)
      BY <1>4, <1>6 DEF NotSuspended
    <2>. QED BY <1>2, <1>6, <1>7, <1>8, <2>1, CommitDisturbsNobody DEF u
  <1>. QED BY <1>1, <1>9, <1>10, <1>11, <1>12, Written

LEMMA ChangeKeepsInv ==
  ASSUME Inv, NEW c \in Calls, NEW p \in Passwords, CommitChange(c, p)
  PROVE  Inv'
  <1> DEFINE u == call[c].user
             own == call[c].session
             seen == call[c].seen
             row == [user[u] EXCEPT !.password = p]
             kept == [session[own] EXCEPT !.knows = p]
  <1>1. /\ user' = [user EXCEPT ![u].password = p] /\ token' = token
        /\ session' = [Ended(seen) EXCEPT ![own] =
                         IF Live(own) THEN [Ended(seen)[own] EXCEPT !.knows = p]
                                      ELSE Ended(seen)[own]]
        /\ Return(c) /\ call[c].at = "change_commit"
    BY DEF CommitChange
  <1>2. /\ TypeOK /\ Promises /\ raced \subseteq raced' /\ HandlerFacts(call[c])
        /\ HandlerRows(call[c]) /\ call[c].at \in UserCommit
    BY <1>1, ReturnRaces, Steps DEF Inv
  <1>3. u \in Users /\ user[u] # NoUser /\ user[u] \in UserRows
    BY <1>2, HandlerNames, Steps DEF TypeOK
  <1>4. /\ row \in UserRows /\ row.status = user[u].status /\ row.password = p
        /\ user' = [user EXCEPT ![u] = row]
    BY <1>1, <1>3 DEF UserRows
  <1>5. u \notin raced => LiveSessions(u) \subseteq seen \cup {own}
    BY <1>1, <1>2 DEF HandlerFacts, SeenAll
  <1>6. /\ own \in Sessions /\ session[own] # NoSession /\ session[own] \in SessionRows
        /\ session[own].user = u /\ own \notin seen
    BY <1>1, <1>2, HandlerNames, Steps DEF TypeOK, HandlerRows
  <1> HIDE DEF u, row, own, seen
  <1>7. /\ user' \in [Users -> UserRows \cup {NoUser}] /\ user'[u] = row
        /\ \A v \in Users \ {u} : user'[v] = user[v]
        /\ \A v \in Users : user[v] # NoUser => user'[v] # NoUser
    BY <1>2, <1>3, <1>4, UserWritten
  <1>8. /\ \A s \in Sessions \ {own} : session'[s] = Ended(seen)[s]
        /\ session'[own] = IF session[own].live THEN kept ELSE session[own]
        /\ DOMAIN session' = Sessions /\ session' = [s \in Sessions |-> session'[s]]
    BY <1>1, <1>6 DEF Ended, Live
  <1>9. session[own].live =>
           /\ kept \in SessionRows /\ kept # NoSession /\ kept.live /\ kept.user = u
           /\ kept.successors = session[own].successors /\ kept.knows = p
    <2> SUFFICES ASSUME session[own].live
                 PROVE  /\ kept \in SessionRows /\ kept # NoSession /\ kept.live
                        /\ kept.user = u /\ kept.successors = session[own].successors
                        /\ kept.knows = p
      OBVIOUS
    <2>1. session[own] \in [live : {TRUE}, user : Users, successors : 0 .. 2, knows : Passwords]
      BY <1>6 DEF SessionRows
    <2>2. /\ kept \in [live : {TRUE}, user : Users, successors : 0 .. 2, knows : Passwords]
          /\ kept.live /\ kept.user = u /\ kept.successors = session[own].successors
          /\ kept.knows = p
      BY <1>6, <2>1
    <2> HIDE DEF kept
    <2>. QED BY <2>2, SessionFields DEF SessionRows
  <1> HIDE DEF kept
  <1>10. ASSUME NEW s \in Sessions
         PROVE  /\ session'[s] \in SessionRows \cup {NoSession}
                /\ session[s] = NoSession => session'[s] = NoSession
                /\ session[s] # NoSession =>
                      /\ session'[s] # NoSession /\ session'[s].user = session[s].user
                      /\ session'[s].successors = session[s].successors
                      /\ session'[s].live => session[s].live
                      /\ session'[s].live /\ s # own => session'[s] = session[s]
                      /\ session'[s].live => s \notin seen
    <2>1. CASE s = own
      BY <1>6, <1>8, <1>9, <2>1
    <2>2. CASE s # own /\ s \in seen /\ Live(s)
      <3> DEFINE gone == [live |-> FALSE, user |-> session[s].user,
                          successors |-> session[s].successors]
      <3>1. session'[s] = gone
        BY <1>8, <2>2 DEF Ended
      <3>2. session[s] \in SessionRows /\ session[s] # NoSession /\ session[s].live
        BY <1>2, <2>2 DEF TypeOK, Live
      <3>3. /\ gone \in SessionRows /\ ~gone.live /\ gone.user = session[s].user
            /\ gone.successors = session[s].successors
        BY <3>2, SessionFields DEF SessionRows
      <3> HIDE DEF gone
      <3>. QED BY <2>2, <3>1, <3>2, <3>3, SessionFields
    <2>3. CASE s # own /\ ~(s \in seen /\ Live(s))
      <3>1. session'[s] = session[s]
        BY <1>8, <2>3 DEF Ended
      <3>. QED BY <1>2, <2>3, <3>1 DEF TypeOK, Live
    <2>. QED BY <2>1, <2>2, <2>3
  <1>11. TablesTyped
    BY <1>1, <1>2, <1>7, <1>8, <1>10 DEF TypeOK, TablesTyped
  <1>12. TableRows' /\ Kept
    BY <1>1, <1>7, <1>10, RowsOfUsers
  <1>13. \A v : LiveSessions(v)' \subseteq LiveSessions(v) \ seen
    BY <1>10 DEF LiveSessions, Live
  <1>14. Promises'
    <2>1. SuspendedIsOut'
      BY <1>2, <1>4, <1>7, <1>13 DEF Promises, SuspendedIsOut
    <2>2. KnowsPassword'
      <3> SUFFICES ASSUME NEW v \in Users \ raced', NEW s \in LiveSessions(v)'
                   PROVE  session'[s].knows = user'[v].password
        BY DEF KnowsPassword
      <3>1. s \in Sessions /\ s \in LiveSessions(v) /\ s \notin seen /\ session[s].user = v
        BY <1>13 DEF LiveSessions
      <3>2. CASE v = u
        <4>1. s = own
          BY <1>2, <1>5, <3>1, <3>2
        <4>2. session[own].live
          BY <3>1, <4>1 DEF LiveSessions, Live
        <4>. QED BY <1>4, <1>7, <1>8, <1>9, <3>2, <4>1, <4>2
      <3>3. CASE v # u
        <4>1. s # own
          BY <1>6, <3>1, <3>3
        <4>2. session'[s] = session[s]
          BY <1>10, <3>1, <4>1 DEF LiveSessions, Live
        <4>. QED BY <1>2, <1>7, <3>1, <3>3, <4>2 DEF Promises, KnowsPassword
      <3>. QED BY <3>2, <3>3
    <2>3. UsedOnce'
      BY <1>1, <1>2, <1>10 DEF Promises, UsedOnce
    <2>. QED BY <2>1, <2>2, <2>3 DEF Promises
  <1>15. \A d \in Calls \ {c} : Undisturbed(d)
    <2>1. NotSuspended(u)
      BY <1>4, <1>7 DEF NotSuspended
    <2>. QED BY <1>1, <1>2, <1>7, <1>10, <2>1, CommitDisturbsNobody DEF u
  <1>. QED BY <1>1, <1>11, <1>12, <1>14, <1>15, Written

LEMMA StatusKeepsInv ==
  ASSUME Inv, NEW c \in Calls, CommitStatus(c)
  PROVE  Inv'
  <1> DEFINE u == call[c].user
             row == [user[u] EXCEPT !.status = call[c].status]
  <1>1. /\ user' = [user EXCEPT ![u].status = call[c].status] /\ token' = token
        /\ Return(c) /\ session' = Ended(call[c].seen) /\ call[c].at = "status_commit"
    BY DEF CommitStatus
  <1>2. /\ TypeOK /\ Promises /\ raced \subseteq raced' /\ HandlerFacts(call[c])
        /\ call[c].at \in UserCommit
    BY <1>1, ReturnRaces, Steps DEF Inv
  <1>3. /\ u \in Users /\ user[u] # NoUser /\ user[u] \in UserRows
        /\ call[c].status \in AccountStatus
    BY <1>1, <1>2, HandlerNames, HandlerFields, Steps DEF TypeOK
  <1>4. /\ row \in UserRows /\ row.status = call[c].status
        /\ row.password = user[u].password
        /\ user' = [user EXCEPT ![u] = row]
    BY <1>1, <1>3 DEF UserRows
  <1>5. u \notin raced /\ call[c].status = "SUSPENDED" => LiveSessions(u) \subseteq call[c].seen
    BY <1>1, <1>2 DEF HandlerFacts, SeenAll
  <1> HIDE DEF u, row
  <1>6. /\ user' \in [Users -> UserRows \cup {NoUser}] /\ user'[u] = row
        /\ \A v \in Users \ {u} : user'[v] = user[v]
        /\ \A v \in Users : user[v] # NoUser => user'[v] # NoUser
    BY <1>2, <1>3, <1>4, UserWritten
  <1>7. /\ session' \in [Sessions -> SessionRows \cup {NoSession}]
        /\ \A s \in Sessions :
              /\ session[s] = NoSession => session'[s] = NoSession
              /\ session[s] # NoSession =>
                    /\ session'[s] # NoSession /\ session'[s].user = session[s].user
                    /\ session'[s].successors = session[s].successors
                    /\ session'[s].live => session[s].live
                    /\ session'[s].live => session'[s] = session[s]
        /\ \A v : LiveSessions(v)' = LiveSessions(v) \ call[c].seen
    BY <1>1, <1>2, EndedRows
  <1>8. TablesTyped
    BY <1>1, <1>2, <1>6, <1>7 DEF TablesTyped, TypeOK
  <1>9. TableRows' /\ Kept
    BY <1>1, <1>6, <1>7, RowsOfUsers
  <1>10. Promises'
    <2>1. SuspendedIsOut'
      BY <1>2, <1>4, <1>5, <1>6, <1>7 DEF Promises, SuspendedIsOut
    <2>2. KnowsPassword'
      <3> SUFFICES ASSUME NEW v \in Users \ raced', NEW s \in LiveSessions(v)'
                   PROVE  session'[s].knows = user'[v].password
        BY DEF KnowsPassword
      <3>1. s \in LiveSessions(v) /\ session'[s] = session[s]
        BY <1>7 DEF LiveSessions, Live
      <3>. QED BY <1>2, <1>4, <1>6, <3>1 DEF Promises, KnowsPassword
    <2>3. UsedOnce'
      BY <1>1, <1>2, <1>7 DEF Promises, UsedOnce
    <2>. QED BY <2>1, <2>2, <2>3 DEF Promises
  <1>11. \A d \in Calls \ {c} : Undisturbed(d)
    BY <1>1, <1>2, <1>6, <1>7, CommitDisturbsNobody DEF u
  <1>. QED BY <1>1, <1>8, <1>9, <1>10, <1>11, Written

-----------------------------------------------------------------------------
(* The specification.                                                       *)

LEMMA InitInv ==
  ASSUME Init
  PROVE  Inv
  <1>1. TypeOK
    BY IdleHandler DEF Init, TypeOK
  <1>2. TableRows /\ Promises
    BY DEF Init, TableRows, Promises, SuspendedIsOut, KnowsPassword, UsedOnce,
           LiveSessions, Live
  <1>3. Marked
    <2>1. \A c \in Calls : call[c].at = "idle"
      BY IdleHandler DEF Init
    <2>. QED BY <2>1 DEF Marked, Race, Opening, UserCommit, Refreshing, Redeeming
  <1>4. ASSUME NEW c \in Calls
        PROVE  HandlerRows(call[c]) /\ HandlerFacts(call[c])
    <2>1. call[c].at = "idle"
      BY IdleHandler DEF Init
    <2>2. HandlerRows(call[c])
      BY <2>1 DEF HandlerRows, NamesUser, NamesSession, UserCommit, Redeeming
    <2>3. HandlerFacts(call[c])
      BY <2>1 DEF HandlerFacts, StillOpen, StillWelcome, StillFirst, SeenAll,
                  Opening, Refreshing, Redeeming
    <2>. QED BY <2>2, <2>3
  <1>. QED BY <1>1, <1>2, <1>3, <1>4 DEF Inv

LEMMA GoingOnKeepsInv ==
  ASSUME Inv, NEW c \in Calls, GoingOn(c)
  PROVE  Inv'
  BY InsertUserKeepsInv, InsertTokenKeepsInv, OpenSessionKeepsInv, ReplaceSessionKeepsInv,
     VerificationKeepsInv, RevokeOldKeepsInv, EndSessionKeepsInv, GoOnReset, GoOnChange,
     StatusKeepsInv, DeletionKeepsInv, ResetKeepsInv, ChangeKeepsInv
     DEF GoingOn

LEMMA StutterKeepsInv ==
  ASSUME Inv, UNCHANGED vars
  PROVE  Inv'
  <1>1. /\ user' = user /\ session' = session /\ token' = token
        /\ call' = call /\ raced' = raced
    BY DEF vars
  <1>2. \A u : LiveSessions(u)' = LiveSessions(u)
    BY <1>1 DEF LiveSessions, Live
  <1>3. TypeOK' /\ TableRows' /\ Marked' /\ Promises'
    BY <1>1, <1>2 DEF Inv, TypeOK, TableRows, Marked, Race, Promises, SuspendedIsOut,
                      KnowsPassword, UsedOnce
  <1>4. \A c \in Calls : HandlerRows(call[c])' /\ HandlerFacts(call[c])'
    BY <1>1, <1>2 DEF Inv, HandlerRows, HandlerFacts, StillOpen, StillWelcome, StillFirst, SeenAll
  <1>. QED BY <1>3, <1>4 DEF Inv

LEMMA NextKeepsInv ==
  ASSUME Inv, [Next]_vars
  PROVE  Inv'
  <1>1. CASE \E c \in Calls : Starting(c) \/ GoingOn(c) \/ Fail(c)
    BY <1>1, StartingKeepsInv, GoingOnKeepsInv, OnlyReturns DEF Fail
  <1>2. CASE \E u \in Users : UpdateUserRoles(u)
    BY <1>2, EndAllKeepsInv DEF UpdateUserRoles
  <1>3. CASE \E s \in Sessions : BecomeSeller(s)
    BY <1>3, EndAllKeepsInv DEF BecomeSeller
  <1>4. CASE UNCHANGED vars
    BY <1>4, StutterKeepsInv
  <1>. QED BY <1>1, <1>2, <1>3, <1>4 DEF Next

\* The inductive invariant holds: auth.service.ts, users.service.ts and
\* admin.service.ts keep rows, handlers and marks together as Inv says.
THEOREM AlwaysInv == Spec => []Inv
  <1>1. Init => Inv
    BY InitInv
  <1>2. Inv /\ [Next]_vars => Inv'
    BY NextKeepsInv
  <1>. QED BY <1>1, <1>2, PTL DEF Spec

\* The rows of users, sessions and tokens, and the handlers, keep their types.
THEOREM TypeCorrect == Spec => []TypeOK
  <1>1. Inv => TypeOK
    BY DEF Inv
  <1>. QED BY <1>1, AlwaysInv, PTL

\* AdminService.updateUserStatus: a suspended user has no live session, unless a
\* login or refresh of theirs overlapped the suspension.
THEOREM SuspendedStaysOut == Spec => []SuspendedIsOut
  <1>1. Inv => SuspendedIsOut
    BY DEF Inv, Promises
  <1>. QED BY <1>1, AlwaysInv, PTL

\* changePassword and resetPassword: whoever is logged in has given the password
\* the user has now, unless a login or refresh overlapped the change.
THEOREM PasswordKnown == Spec => []KnowsPassword
  <1>1. Inv => KnowsPassword
    BY DEF Inv, Promises
  <1>. QED BY <1>1, AlwaysInv, PTL

\* refresh, verifyEmail and resetPassword: a refresh token and a token from a mail
\* are redeemed once, unless two handlers redeemed it at the same time.
THEOREM RedeemedOnce == Spec => []UsedOnce
  <1>1. Inv => UsedOnce
    BY DEF Inv, Promises
  <1>. QED BY <1>1, AlwaysInv, PTL

LEMMA StatusWriters ==
  ASSUME Inv, [Next]_vars, NEW u \in Users \ raced',
         user[u].status = "SUSPENDED", user'[u].status # "SUSPENDED"
  PROVE  \E c \in Calls : call[c].at = "status_commit" /\ call[c].user = u
  <1>1. u \in Users /\ user[u] # NoUser /\ user \in [Users -> UserRows \cup {NoUser}]
    BY DEF NoUser, Inv, TypeOK
  <1>2. user' # user
    OBVIOUS
  <1>3. PICK c \in Calls :
          \/ CommitVerification(c) \/ CommitStatus(c) \/ CommitDeletion(c)
          \/ \E t \in Tokens, p \in Passwords : InsertUser(c, t, p)
          \/ \E p \in Passwords : CommitReset(c, p) \/ CommitChange(c, p)
    BY <1>2 DEF Next, vars, tables, Starting, GoingOn, Fail, UpdateUserRoles, BecomeSeller,
                Register, ForgotPassword, Login, UpdateUserStatus, VerifyEmail, ResetPassword,
                Refresh, Logout, ChangePassword, DeleteAccount, RevokeSession, InsertToken,
                OpenSession, ReplaceSession, RevokeOld, EndSession, BeginReset, BeginChange
  <1>4. ASSUME CommitVerification(c)
        PROVE  FALSE
    <2>1. call[c].at = "verify" /\ user' = [user EXCEPT ![call[c].user].status = "ACTIVE"]
          /\ Return(c)
      BY <1>4 DEF CommitVerification
    <2>2. call[c].user = u
      BY <1>1, <2>1
    <2>3. u \notin raced
      BY <2>1, ReturnRaces
    <2>. QED BY <2>1, <2>2, <2>3 DEF Inv, HandlerFacts, StillWelcome
  <1>5. ASSUME CommitStatus(c)
        PROVE  call[c].at = "status_commit" /\ call[c].user = u
    BY <1>1, <1>5 DEF CommitStatus
  <1>6. ASSUME CommitDeletion(c)
        PROVE  FALSE
    BY <1>1, <1>6 DEF CommitDeletion, UserRows
  <1>7. ASSUME NEW t \in Tokens, NEW p \in Passwords, InsertUser(c, t, p)
        PROVE  FALSE
    BY <1>1, <1>7 DEF InsertUser
  <1>8. ASSUME NEW p \in Passwords, CommitReset(c, p) \/ CommitChange(c, p)
        PROVE  FALSE
    BY <1>1, <1>8 DEF CommitReset, CommitChange, UserRows
  <1>. QED BY <1>3, <1>4, <1>5, <1>6, <1>7, <1>8

\* verifyEmail, resetPassword and deleteAccount never lift a suspension: only the
\* transaction of updateUserStatus does, unless a verification overlapped it.
THEOREM SuspensionLifted == Spec => SuspensionKept
  <1>1. Inv /\ [Next]_vars =>
           [\A u \in Users \ raced' :
              user[u].status = "SUSPENDED" /\ user'[u].status # "SUSPENDED" =>
                  \E c \in Calls : call[c].at = "status_commit" /\ call[c].user = u]_vars
    BY StatusWriters
  <1>. QED BY <1>1, AlwaysInv, PTL DEF Spec, SuspensionKept

=============================================================================
