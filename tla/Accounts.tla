------------------------------ MODULE Accounts ------------------------------
(***************************************************************************)
(* The server's accounts: AuthService behind the interceptors that check   *)
(* the token of a call and its rate, the tokens themselves, the users in   *)
(* PostgreSQL and the revoked tokens in Redis.                             *)
(*                                                                         *)
(* Interceptors cannot stop a call: they mark it, the handler runs all the *)
(* same, and the mark replaces the status of its reply.  So a call is a    *)
(* set of outcomes, each with what it leaves behind on the server and what *)
(* the caller is told.  This module has the calls of other programs; the   *)
(* client that comes with this server is module SignIn.                    *)
(*                                                                         *)
(* Passwords are right or wrong; how they are hashed and spelt is left     *)
(* out.  Time is counted in seconds, the unit in which tokens are dated    *)
(* and calls per second are counted.                                       *)
(***************************************************************************)
EXTENDS Integers, FiniteSets

CONSTANTS Names,       \* the names that people register
          AccessTtl,   \* access_token_ttl_seconds
          RefreshTtl,  \* refresh_token_ttl_seconds
          RateLimit,   \* rate_limit_rps
          MaxTime,     \* bound of the model: seconds
          MaxOthers    \* bound of the model: calls of other programs

ASSUME LivesArePositive == AccessTtl \in Nat \ {0} /\ RefreshTtl \in Nat \ {0}
ASSUME RateIsPositive == RateLimit \in Nat \ {0}
ASSUME BoundsAreNumbers == MaxTime \in Nat /\ MaxOthers \in Nat

VARIABLES
  server,    \* the users, tokens and revocations, and the state of the databases
  others     \* the calls of other programs, and the tokens whose Logout succeeded

\* Tokens carry no more than this: two of one second are the same token.
Token == [user : Names, type : {"access", "refresh"}, at : 0..MaxTime, named : BOOLEAN]

AccountsInit ==
  /\ \E users \in SUBSET Names :
       server = [now |-> 0, users |-> users, issued |-> {}, revoked |-> {},
                 redis |-> TRUE, calls |-> RateLimit]
  /\ others = [calls |-> 0, ended |-> {}]

-----------------------------------------------------------------------------
(* Tokens *)

Ttl(type) == IF type = "access" THEN AccessTtl ELSE RefreshTtl

\* JwtManager::validate_token: not expired.
Alive(t) == server.now < t.at + Ttl(t.type)

AccessToken(user) ==
  [user |-> user, type |-> "access", at |-> server.now, named |-> TRUE]

\* A refresh token does not carry the name.
RefreshToken(user) ==
  [user |-> user, type |-> "refresh", at |-> server.now, named |-> FALSE]

\* A revocation lasts for its time to live; without Redis all are revoked.
IsRevoked(t) ==
  \/ ~server.redis
  \/ \E r \in server.revoked : r.token = t /\ server.now < r.until

\* Faulty variant: a revocation lapses while the token still lives.
UntilFromIssue(t) == t.at + AccessTtl - 1

\* When the revocation of a token is forgotten.
Until(t) == server.now + AccessTtl

\* What the interceptor lets through.
Accepts(t) == t.type = "access" /\ Alive(t) /\ ~IsRevoked(t)

-----------------------------------------------------------------------------
(* Handlers: what each may leave behind and answer *)

NoReply == [ok |-> FALSE]

Outcome(s, reply) == [server |-> s, reply |-> reply]

Unchanged(reply) == Outcome(server, reply)

Issues(tokens) == [server EXCEPT !.issued = @ \union tokens]

\* With a failing database a user is just not found.
LoginOutcomes(user, right) ==
  {Unchanged(NoReply)} \union
  IF user \in server.users /\ right
  THEN {Outcome(Issues({AccessToken(user), RefreshToken(user)}),
                [ok |-> TRUE, access |-> AccessToken(user),
                 refresh |-> RefreshToken(user)])}
  ELSE {}

\* A name, password or address may be refused, and the name is unique in the
\* database.  A failure of the database may hide that the user was stored.
RegisterOutcomes(user) ==
  LET stored == [server EXCEPT !.users = @ \union {user}] IN
  {Unchanged(NoReply)} \union
  IF user \in server.users THEN {}
  ELSE {Outcome(stored, [ok |-> TRUE]), Outcome(stored, NoReply)}

\* Any token that lives is valid, a refresh token too.
ValidateOutcomes(t) ==
  {Unchanged(IF Alive(t) /\ ~IsRevoked(t)
             THEN [ok |-> TRUE, user |-> t.user, named |-> t.named] ELSE NoReply)}

\* The payload of a refresh token names nobody, so neither does the new token.
RefreshOutcomes(t) ==
  IF t.type = "refresh" /\ Alive(t) /\ ~IsRevoked(t)
  THEN LET access == [AccessToken(t.user) EXCEPT !.named = t.named] IN
       {Outcome(Issues({access, RefreshToken(t.user)}), [ok |-> TRUE])}
  ELSE {Unchanged(NoReply)}

\* Logout revokes the token of the call.  It may fail before or after that.
LogoutOutcomes(t, authorized) ==
  LET gone == [server EXCEPT !.revoked = @ \union {[token |-> t, until |-> Until(t)]}]
  IN {Unchanged(NoReply)} \union
     IF authorized /\ server.redis
     THEN {Outcome(gone, [ok |-> TRUE]), Outcome(gone, NoReply)} ELSE {}

-----------------------------------------------------------------------------
(* Calls *)

\* Faulty variant: the bucket is taken from when it is empty.
CountedBelow(s) == [s EXCEPT !.calls = @ - 1]

\* One call more in this second; the bucket never runs below empty.  The
\* server keeps one bucket per caller; here all callers share one.
Counted(s) == [s EXCEPT !.calls = IF @ > 0 THEN @ - 1 ELSE 0]

Limited == server.calls = 0

\* The handler ran; a call that is refused or limited is told otherwise.
Intercepted(outcomes, authorized) ==
  {Outcome(Counted(o.server), IF authorized /\ ~Limited THEN o.reply ELSE NoReply) :
     o \in outcomes}

\* Another program makes a call; a Logout that succeeds ends these tokens.
OtherCalls(outcomes, authorized, ends) ==
  /\ others.calls < MaxOthers
  /\ \E o \in Intercepted(outcomes, authorized) :
       /\ server' = o.server
       /\ others' = [calls |-> others.calls + 1,
                     ended |-> others.ended \union IF o.reply.ok THEN ends ELSE {}]

OtherRegisters(user) == OtherCalls(RegisterOutcomes(user), TRUE, {})

OtherLogsIn(user) == OtherCalls(LoginOutcomes(user, TRUE), TRUE, {})

\* Another program of a user refreshes a session, with an access token.
OtherRefreshes(t, header) ==
  t.user = header.user /\ OtherCalls(RefreshOutcomes(t), Accepts(header), {})

OtherLogsOut(t) == OtherCalls(LogoutOutcomes(t, Accepts(t)), Accepts(t), {t})

\* A second passes, and the rate limit's bucket is full again.
Tick ==
  /\ server.now < MaxTime
  /\ server' = [server EXCEPT !.now = @ + 1, !.calls = RateLimit]
  /\ UNCHANGED others

\* Redis stops answering, or answers again with what it had.
RedisChanges == server' = [server EXCEPT !.redis = ~@] /\ UNCHANGED others

OtherPrograms ==
  \/ \E user \in Names : OtherRegisters(user) \/ OtherLogsIn(user)
  \/ \E t, header \in server.issued : OtherRefreshes(t, header)
  \/ \E t \in server.issued : OtherLogsOut(t)

AccountsNext == Tick \/ RedisChanges \/ OtherPrograms

-----------------------------------------------------------------------------
(* Properties *)

\* Type invariant of the server's part.
ServerOK ==
  /\ server.now \in 0..MaxTime /\ server.calls \in 0..RateLimit
  /\ server.users \subseteq Names
  /\ server.issued \subseteq Token /\ \A t \in server.issued : t.at <= server.now
  /\ \A r \in server.revoked : r.token \in server.issued
  /\ server.redis \in BOOLEAN
  /\ others.calls \in 0..MaxOthers /\ others.ended \subseteq server.issued

\* Once Logout has succeeded its token is not accepted again: not when Redis
\* was away in between, and not after Redis has let the revocation lapse.
EndedStaysEnded == \A t \in others.ended : ~Accepts(t)
=============================================================================
