---------------------------- MODULE SignInProofs ----------------------------
(***************************************************************************)
(* Proofs about SignIn, and the server of Accounts it calls, for any users,*)
(* lives of tokens, rate limits and numbers of calls: type correctness, an *)
(* ended token stays ended, and the scenes show the session that is held.  *)
(*                                                                         *)
(* The inductive invariant SignInInv says, for each step of a call, what   *)
(* the client holds meanwhile (Busy, OneCall), as long as no two calls     *)
(* overlap, and for each token whose Logout succeeded, that its revocation *)
(* lasts at least as long as the token (Ended).                            *)
(***************************************************************************)
EXTENDS SignIn, TLAPS, FiniteSetTheorems

-----------------------------------------------------------------------------
(* The inductive invariant *)

(* The steps in which a call can be before it is answered. *)
Ops == {"login", "register", "validate"}

StepsOf(op) ==
  CASE op = "login"    -> {"connect", "call", "set", "save", "fail"}
    [] op = "register" -> {"connect", "call"}
    [] op = "validate" -> {"connect", "token", "call", "fail", "forget"}

Result == [ok : {FALSE}, op : Ops] \union [ok : {TRUE}, op : {"register"}]
          \union [ok : {TRUE}, op : {"login", "validate"}, user : Names]

AnyServer == [now : 0..MaxTime, users : SUBSET Names, issued : SUBSET Token,
              revoked : SUBSET [token : Token, until : Nat], redis : BOOLEAN,
              calls : 0..RateLimit]

(* Types, and what tokens and revocations have to do with each other. *)
ServerShape ==
  /\ server \in AnyServer
  /\ \A t \in server.issued : t.at <= server.now
  /\ \A r \in server.revoked : r.token \in server.issued
  /\ others \in [calls : 0..MaxOthers, ended : SUBSET server.issued]

(* The revocation of t lasts at least as long as t. *)
Gone(t, revoked) ==
  t.type = "access" /\ \E r \in revoked : r.token = t /\ t.at + AccessTtl <= r.until

Ended == \A t \in others.ended : Gone(t, server.revoked)

(* The fields that a call has in each of its steps. *)
WorkerShape ==
  /\ worker # Idle =>
       /\ "step" \in DOMAIN worker
       /\ \/ worker.step \in {"push", "release"}
          \/ "op" \in DOMAIN worker /\ worker.op \in Ops /\ worker.step \in StepsOf(worker.op)
  /\ worker.step \in {"connect", "token", "call"} /\ worker.op = "validate" =>
       "access" \in DOMAIN worker /\ worker.access \in server.issued
  /\ worker.step \in {"connect", "call"} /\ worker.op # "validate" =>
       "user" \in DOMAIN worker /\ worker.user \in Names
  /\ worker.step \in {"set", "save"} =>
       /\ {"user", "access", "refresh"} \subseteq DOMAIN worker
       /\ worker.user \in Names /\ worker.access.user = worker.user
       /\ worker.access \in server.issued /\ worker.refresh \in server.issued
  /\ worker.step = "push" => worker.result \in Result

(* No call is under way that has still to be answered. *)
Quiet == worker = Idle \/ worker.step = "release"

PastShape == [calls : Nat, starts : Nat, overlap : BOOLEAN]

(* Types of the client; each call is answered at most once. *)
ClientShape ==
  /\ ui \in [scene : {"login", "menu"}, at : {"enter", "poll", "buttons"},
             mode : {"login", "register"}, user : Names \union {Nobody}]
  /\ ui.scene = "menu" => ui.user # Nobody
  /\ net \in [connected : BOOLEAN, token : {{}} \union {{t} : t \in server.issued}]
  /\ saved \in {{}} \union {{s} : s \in Session}
  /\ results \in Seq(Result)
  /\ past \in PastShape
  /\ Len(results) + (IF Quiet THEN 0 ELSE 1) <= past.calls

Nothing == net.token = {} /\ saved = {}
SignedIn(user) == net.connected /\ \E t \in net.token : t.user = user
(* What the client holds once the result r is there to be polled. *)
Settles(r) == IF r.ok /\ r.op # "register" THEN SignedIn(r.user) ELSE Nothing

Entering == ui.scene = "login" /\ ui.at = "enter"
Waiting == ui.scene = "login" /\ ui.at # "enter"

(* What the client holds while a call is at each step. *)
Busy ==
  /\ worker.step = "connect" => net.token = {} /\ (worker.op # "validate" => saved = {})
  /\ worker.step = "token" => net.connected
  /\ worker.step = "call" => /\ net.connected
                             /\ IF worker.op = "validate" THEN net.token = {worker.access}
                                ELSE Nothing
  /\ worker.step = "set" => net.connected /\ Nothing
  /\ worker.step = "save" => SignedIn(worker.user)
  /\ worker.step = "fail" /\ worker.op = "login" => saved = {}
  /\ worker.step = "forget" => net.token = {}
  /\ worker.step = "push" => Settles(worker.result)

(* What the client holds as long as no two calls overlap. *)
OneCall ==
  /\ results # <<>> => Quiet /\ Waiting /\ Len(results) = 1 /\ Settles(Head(results))
  /\ ui.scene = "menu" => Quiet /\ results = <<>> /\ SignedIn(ui.user)
  /\ Entering => Quiet /\ results = <<>> /\ net.token = {} /\ (worker # Idle => saved = {})
  /\ Quiet /\ results = <<>> /\ Waiting => Nothing
  /\ ~Quiet => results = <<>> /\ Waiting /\ Busy

ClientInv == WorkerShape /\ ClientShape /\ (~past.overlap => OneCall)

SignInInv == ServerShape /\ Ended /\ ClientInv

-----------------------------------------------------------------------------
(* The handlers *)

(* What a handler makes of the server: nothing is forgotten. *)
Continues(s) ==
  /\ s \in AnyServer /\ s.now = server.now
  /\ server.issued \subseteq s.issued /\ server.revoked \subseteq s.revoked
  /\ \A t \in s.issued : t.at <= s.now
  /\ \A r \in s.revoked : r.token \in s.issued

(* Handing out tokens of this second. *)
LEMMA IssuingContinues ==
  ASSUME ServerShape, NEW tokens \in SUBSET Token, \A t \in tokens : t.at <= server.now
  PROVE  Continues(Issues(tokens)) /\ Issues(tokens).issued = server.issued \union tokens
BY DEF ServerShape, AnyServer, Continues, Issues

(* New tokens are dated now. *)
LEMMA NewTokens ==
  ASSUME ServerShape, NEW user \in Names
  PROVE  /\ AccessToken(user) \in Token /\ RefreshToken(user) \in Token
         /\ AccessToken(user).at = server.now /\ RefreshToken(user).at = server.now
         /\ AccessToken(user).user = user
BY DEF ServerShape, AnyServer, AccessToken, RefreshToken, Token

(* Login: the reply has tokens of the user that were issued. *)
LEMMA LoginContinues ==
  ASSUME ServerShape, NEW user \in Names, NEW right,
         NEW o \in LoginOutcomes(user, right)
  PROVE  /\ Continues(o.server) /\ o.reply.ok \in BOOLEAN
         /\ o.reply.ok => /\ o.reply.access.user = user
                          /\ {o.reply.access, o.reply.refresh} \subseteq o.server.issued
<1>1. Continues(server)
  BY DEF ServerShape, Continues
<1>2. CASE o = Unchanged(NoReply)
  BY <1>1, <1>2 DEF Unchanged, Outcome, NoReply
<1>3. CASE o = Outcome(Issues({AccessToken(user), RefreshToken(user)}),
                       [ok |-> TRUE, access |-> AccessToken(user),
                        refresh |-> RefreshToken(user)])
  <2>1. /\ Continues(Issues({AccessToken(user), RefreshToken(user)}))
        /\ {AccessToken(user), RefreshToken(user)} \subseteq
             Issues({AccessToken(user), RefreshToken(user)}).issued
    <3>1. \A t \in {AccessToken(user), RefreshToken(user)} : t.at <= server.now
      BY NewTokens DEF ServerShape, AnyServer
    <3>2. {AccessToken(user), RefreshToken(user)} \in SUBSET Token
      BY NewTokens
    <3>. QED
      BY <3>1, <3>2, IssuingContinues
  <2>. QED
    BY <1>3, <2>1, NewTokens DEF Outcome
<1>. QED
  BY <1>2, <1>3 DEF LoginOutcomes

(* Register. *)
LEMMA RegisterContinues ==
  ASSUME ServerShape, NEW user \in Names, NEW o \in RegisterOutcomes(user)
  PROVE  Continues(o.server) /\ o.reply.ok \in BOOLEAN
<1>1. Continues(server)
  BY DEF ServerShape, Continues
<1>2. Continues([server EXCEPT !.users = @ \union {user}])
  BY DEF ServerShape, AnyServer, Continues
<1>. DEFINE stored == [server EXCEPT !.users = @ \union {user}]
<1>3. CASE o = Unchanged(NoReply)
  BY <1>1, <1>3 DEF Unchanged, Outcome, NoReply
<1>4. CASE o = Outcome(stored, [ok |-> TRUE])
  BY <1>2, <1>4 DEF Outcome
<1>5. CASE o = Outcome(stored, NoReply)
  BY <1>2, <1>5 DEF Outcome, NoReply
<1>. QED
  BY <1>3, <1>4, <1>5 DEF RegisterOutcomes

(* ValidateToken names the user of the token. *)
LEMMA ValidateContinues ==
  ASSUME ServerShape, NEW t \in server.issued, NEW o \in ValidateOutcomes(t)
  PROVE  /\ Continues(o.server) /\ o.reply.ok \in BOOLEAN
         /\ o.reply.ok => o.reply.user = t.user
<1>1. Continues(server)
  BY DEF ServerShape, Continues
<1>2. CASE o = Unchanged(NoReply)
  BY <1>1, <1>2 DEF Unchanged, Outcome, NoReply
<1>3. CASE o = Unchanged([ok |-> TRUE, user |-> t.user, named |-> t.named])
  BY <1>1, <1>3 DEF Unchanged, Outcome
<1>. QED
  BY <1>2, <1>3 DEF ValidateOutcomes

(* RefreshToken. *)
LEMMA RefreshContinues ==
  ASSUME ServerShape, NEW t \in server.issued, NEW o \in RefreshOutcomes(t)
  PROVE  Continues(o.server) /\ o.reply.ok \in BOOLEAN
<1>1. Continues(server) /\ t \in Token
  BY DEF ServerShape, AnyServer, Continues
<1>2. t.user \in Names /\ t.named \in BOOLEAN
  BY <1>1 DEF Token
<1>. DEFINE access == [AccessToken(t.user) EXCEPT !.named = t.named]
<1>3. access \in Token /\ access.at = server.now
  BY <1>2, NewTokens DEF Token
<1>4. Continues(Issues({access, RefreshToken(t.user)}))
  <2>1. {access, RefreshToken(t.user)} \in SUBSET Token
    BY <1>2, <1>3, NewTokens
  <2>2. \A u \in {access, RefreshToken(t.user)} : u.at <= server.now
    <3>1. server.now \in Nat /\ RefreshToken(t.user).at = server.now
      BY <1>2, NewTokens, BoundsAreNumbers DEF ServerShape, AnyServer
    <3>. HIDE DEF access
    <3>. QED
      BY <1>3, <3>1
  <2>. HIDE DEF access
  <2>. QED
    BY <2>1, <2>2, IssuingContinues
<1>5. CASE o = Unchanged(NoReply)
  BY <1>1, <1>5 DEF Unchanged, Outcome, NoReply
<1>6. CASE o = Outcome(Issues({access, RefreshToken(t.user)}), [ok |-> TRUE])
  <2>. HIDE DEF access
  <2>. QED
    BY <1>4, <1>6 DEF Outcome
<1>. QED
  BY <1>5, <1>6 DEF RefreshOutcomes

(* Logout: when it succeeds, the token is revoked for the rest of its life. *)
LEMMA LogoutContinues ==
  ASSUME ServerShape, NEW t \in server.issued, NEW authorized \in BOOLEAN,
         NEW o \in LogoutOutcomes(t, authorized)
  PROVE  /\ Continues(o.server) /\ o.reply.ok \in BOOLEAN
         /\ o.reply.ok => \E r \in o.server.revoked : r.token = t /\ t.at + AccessTtl <= r.until
<1>1. Continues(server) /\ t \in Token
  BY DEF ServerShape, AnyServer, Continues
<1>. DEFINE r == [token |-> t, until |-> Until(t)]
            gone == [server EXCEPT !.revoked = @ \union {r}]
<1>2. Until(t) \in Nat /\ t.at + AccessTtl <= Until(t)
  BY <1>1, LivesArePositive, BoundsAreNumbers DEF ServerShape, AnyServer, Token, Until
<1>3. Continues(gone) /\ r \in gone.revoked /\ r.token = t /\ t.at + AccessTtl <= r.until
  BY <1>1, <1>2 DEF ServerShape, AnyServer, Continues
<1>4. CASE o = Unchanged(NoReply)
  BY <1>1, <1>4 DEF Unchanged, Outcome, NoReply
<1>5. CASE o = Outcome(gone, [ok |-> TRUE])
  BY <1>3, <1>5 DEF Outcome
<1>6. CASE o = Outcome(gone, NoReply)
  BY <1>3, <1>6 DEF Outcome, NoReply
<1>. QED
  BY <1>4, <1>5, <1>6 DEF LogoutOutcomes

(* The interceptors change no more than the bucket and the reply. *)
LEMMA InterceptedContinues ==
  ASSUME NEW outcomes, NEW authorized \in BOOLEAN, NEW i \in Intercepted(outcomes, authorized),
         \A o \in outcomes : Continues(o.server)
  PROVE  \E o \in outcomes : /\ Continues(i.server) /\ i.server.issued = o.server.issued
                             /\ i.server.revoked = o.server.revoked
                             /\ i.reply \in {NoReply, o.reply}
                             /\ i.reply.ok => authorized /\ i.reply = o.reply
<1>1. PICK o \in outcomes :
        i = Outcome(Counted(o.server), IF authorized /\ ~Limited THEN o.reply ELSE NoReply)
  BY DEF Intercepted
<1>2. /\ Continues(Counted(o.server)) /\ Counted(o.server).issued = o.server.issued
      /\ Counted(o.server).revoked = o.server.revoked
  BY RateIsPositive DEF Counted, Continues, AnyServer
<1>3. CASE authorized /\ ~Limited
  BY <1>1, <1>2, <1>3 DEF Outcome
<1>4. CASE ~(authorized /\ ~Limited)
  BY <1>1, <1>2, <1>4 DEF Outcome, NoReply
<1>. QED
  BY <1>3, <1>4

(* A step of a call changes nothing else about it. *)
LEMMA GoesOn ==
  ASSUME WorkerShape, worker # Idle, NEW s, s # "idle", Goes(s)
  PROVE  /\ worker' # Idle /\ worker'.step = s /\ DOMAIN worker' = DOMAIN worker
         /\ \A x \in DOMAIN worker : x # "step" => worker'[x] = worker[x]
<1>1. "step" \in DOMAIN worker
  BY DEF WorkerShape
<1>2. worker'.step = s
  BY <1>1 DEF Goes
<1>. QED
  BY <1>1, <1>2 DEF Goes, Idle

(* What is known of the server lasts. *)
LEMMA ServerContinues ==
  ASSUME ServerShape, Ended, Continues(server'),
         others' \in [calls : 0..MaxOthers, ended : SUBSET server'.issued],
         \A t \in others'.ended : t \in others.ended \/ Gone(t, server'.revoked)
  PROVE  ServerShape' /\ Ended' /\ server.issued \subseteq server'.issued
<1>1. /\ ServerShape' /\ server.issued \subseteq server'.issued
      /\ server.revoked \subseteq server'.revoked
  BY DEF ServerShape, Continues, AnyServer
<1>2. Ended'
  BY <1>1 DEF Ended, Gone
<1>. QED
  BY <1>1, <1>2

(* Steps of the client that do not call the server. *)
LEMMA SameServer ==
  ASSUME ServerShape, Ended, UNCHANGED <<server, others>>
  PROVE  ServerShape' /\ Ended'
BY DEF ServerShape, Ended, AnyServer

(* Steps of the server that the client does not see. *)
LEMMA SameClient ==
  ASSUME WorkerShape, ClientShape, ~past.overlap => OneCall,
         server.issued \subseteq server'.issued, UNCHANGED client
  PROVE  WorkerShape' /\ ClientShape' /\ (~past'.overlap => OneCall')
<1>1. WorkerShape'
  BY DEF WorkerShape, client
<1>2. ClientShape'
  BY DEF ClientShape, client, Quiet, Session
<1>3. ~past'.overlap => OneCall'
  BY DEF client, OneCall, Quiet, Waiting, Entering, Settles, SignedIn, Nothing, Busy
<1>. QED
  BY <1>1, <1>2, <1>3

-----------------------------------------------------------------------------
(* The other programs, and time *)

(* Another program makes a call; the tokens in ends are ended by it. *)
LEMMA CallKeeps ==
  ASSUME ServerShape, Ended, NEW s, Continues(s), server' = Counted(s),
         NEW ends \in SUBSET server.issued, \A t \in ends : Gone(t, s.revoked),
         others.calls < MaxOthers,
         others' = [calls |-> others.calls + 1, ended |-> others.ended \union ends]
  PROVE  ServerShape' /\ Ended' /\ server.issued \subseteq server'.issued
<1>1. Continues(server') /\ server'.revoked = s.revoked
  BY RateIsPositive DEF Counted, Continues, AnyServer
<1>2. others' \in [calls : 0..MaxOthers, ended : SUBSET server'.issued]
  BY <1>1, BoundsAreNumbers DEF Continues, ServerShape
<1>. QED
  BY <1>1, <1>2, ServerContinues

(* No token is ended. *)
LEMMA OrdinaryCallKeeps ==
  ASSUME ServerShape, Ended, NEW s, Continues(s), server' = Counted(s),
         others.calls < MaxOthers,
         others' = [calls |-> others.calls + 1, ended |-> others.ended]
  PROVE  ServerShape' /\ Ended' /\ server.issued \subseteq server'.issued
<1>. DEFINE ends == {}
<1>1. ends \in SUBSET server.issued /\ \A t \in ends : Gone(t, s.revoked)
  OBVIOUS
<1>2. others' = [calls |-> others.calls + 1, ended |-> others.ended \union ends]
  OBVIOUS
<1>. HIDE DEF ends
<1>. QED
  BY <1>1, <1>2, CallKeeps

(* A second passes. *)
LEMMA TickKeeps ==
  ASSUME ServerShape, Ended, Tick
  PROVE  ServerShape' /\ Ended' /\ server.issued \subseteq server'.issued
<1>1. server.now \in 0..MaxTime /\ server.now + 1 \in 0..MaxTime /\ RateLimit \in 0..RateLimit
  BY RateIsPositive, BoundsAreNumbers DEF Tick, ServerShape, AnyServer
<1>2. /\ server' \in AnyServer /\ server'.now = server.now + 1
      /\ server'.issued = server.issued /\ server'.revoked = server.revoked
  BY <1>1 DEF Tick, ServerShape, AnyServer
<1>3. \A t \in server.issued : t.at <= server'.now
  <2>1. TAKE t \in server.issued
  <2>2. t.at \in Nat /\ t.at <= server.now
    BY BoundsAreNumbers DEF ServerShape, AnyServer, Token
  <2>. QED
    BY <1>1, <1>2, <2>2
<1>. QED
  BY <1>2, <1>3 DEF Tick, ServerShape, Ended

(* Whatever other programs do, the server keeps its part of the invariant. *)
LEMMA OthersStep ==
  ASSUME ServerShape, Ended, AccountsNext
  PROVE  ServerShape' /\ Ended' /\ server.issued \subseteq server'.issued
<1>1. CASE RedisChanges
  BY <1>1 DEF RedisChanges, ServerShape, AnyServer, Ended
<1>2. ASSUME NEW user \in Names, OtherRegisters(user)
      PROVE  ServerShape' /\ Ended' /\ server.issued \subseteq server'.issued
  <2>1. PICK i \in Intercepted(RegisterOutcomes(user), TRUE) :
          /\ server' = i.server /\ others.calls < MaxOthers
          /\ others' = [calls |-> others.calls + 1, ended |-> others.ended]
    BY <1>2 DEF OtherRegisters, OtherCalls
  <2>2. PICK o \in RegisterOutcomes(user) : i.server = Counted(o.server)
    BY DEF Intercepted, Outcome
  <2>. QED
    BY <2>1, <2>2, RegisterContinues, OrdinaryCallKeeps
<1>3. ASSUME NEW user \in Names, OtherLogsIn(user)
      PROVE  ServerShape' /\ Ended' /\ server.issued \subseteq server'.issued
  <2>. DEFINE outcomes == LoginOutcomes(user, TRUE)
  <2>1. PICK i \in Intercepted(outcomes, TRUE) :
          /\ server' = i.server /\ others.calls < MaxOthers
          /\ others' = [calls |-> others.calls + 1, ended |-> others.ended]
    BY <1>3 DEF OtherLogsIn, OtherCalls
  <2>2. PICK o \in outcomes : i.server = Counted(o.server)
    <3>. HIDE DEF outcomes
    <3>. QED
      BY DEF Intercepted, Outcome
  <2>3. Continues(o.server)
    BY LoginContinues
  <2>. QED
    BY <2>1, <2>2, <2>3, OrdinaryCallKeeps
<1>4. ASSUME NEW t \in server.issued, NEW header \in server.issued, OtherRefreshes(t, header)
      PROVE  ServerShape' /\ Ended' /\ server.issued \subseteq server'.issued
  <2>1. PICK i \in Intercepted(RefreshOutcomes(t), Accepts(header)) :
          /\ server' = i.server /\ others.calls < MaxOthers
          /\ others' = [calls |-> others.calls + 1, ended |-> others.ended]
    BY <1>4 DEF OtherRefreshes, OtherCalls
  <2>2. PICK o \in RefreshOutcomes(t) : i.server = Counted(o.server)
    BY DEF Intercepted, Outcome
  <2>. QED
    BY <2>1, <2>2, RefreshContinues, OrdinaryCallKeeps
<1>5. ASSUME NEW t \in server.issued, OtherLogsOut(t)
      PROVE  ServerShape' /\ Ended' /\ server.issued \subseteq server'.issued
  <2>. DEFINE outcomes == LogoutOutcomes(t, Accepts(t))
              Reply(o) == IF Accepts(t) /\ ~Limited THEN o.reply ELSE NoReply
  <2>1. PICK i \in Intercepted(outcomes, Accepts(t)) :
          /\ server' = i.server /\ others.calls < MaxOthers
          /\ others' = [calls |-> others.calls + 1,
                        ended |-> others.ended \union IF i.reply.ok THEN {t} ELSE {}]
    BY <1>5 DEF OtherLogsOut, OtherCalls
  <2>2. PICK o \in outcomes : i.server = Counted(o.server) /\ i.reply = Reply(o)
    BY DEF Intercepted, Outcome
  <2>. DEFINE ends == IF i.reply.ok THEN {t} ELSE {}
  <2>3. Accepts(t) \in BOOLEAN /\ (Accepts(t) => t.type = "access")
    BY DEF Accepts
  <2>4. /\ Continues(o.server)
        /\ o.reply.ok => \E r \in o.server.revoked : r.token = t /\ t.at + AccessTtl <= r.until
    BY <2>3, LogoutContinues
  <2>5. i.reply.ok => Accepts(t) /\ o.reply.ok
    BY <2>2 DEF NoReply
  <2>6. ends \in SUBSET server.issued /\ \A u \in ends : Gone(u, o.server.revoked)
    BY <2>3, <2>4, <2>5 DEF Gone
  <2>. HIDE DEF ends
  <2>7. others' = [calls |-> others.calls + 1, ended |-> others.ended \union ends]
    BY <2>1 DEF ends
  <2>. QED
    BY <2>1, <2>4, <2>6, <2>7, <2>2, CallKeeps
<1>. QED
  BY <1>1, <1>2, <1>3, <1>4, <1>5, TickKeeps DEF AccountsNext, OtherPrograms

-----------------------------------------------------------------------------
(* The thread of a call *)

(* Each step of the thread keeps the client's part of the invariant. *)
LEMMA ConnectStep == ASSUME ServerShape, ClientInv, Connect PROVE ClientInv'
<1>. DEFINE s == IF worker.op = "validate" THEN "token" ELSE "call"
<1>1. worker # Idle /\ worker.step = "connect" /\ Goes(s)
  BY DEF Connect, At, Idle
<1>2. /\ worker' # Idle /\ worker'.step = s /\ DOMAIN worker' = DOMAIN worker
      /\ \A x \in DOMAIN worker : x # "step" => worker'[x] = worker[x]
  BY <1>1, GoesOn DEF ClientInv
<1>3. "op" \in DOMAIN worker /\ worker.op \in Ops /\ worker'.op = worker.op
  BY <1>1, <1>2 DEF ClientInv, WorkerShape
<1>4. WorkerShape'
  BY <1>1, <1>2, <1>3 DEF ClientInv, WorkerShape, Connect, Ops, StepsOf
<1>5. ClientShape'
  BY <1>1, <1>2 DEF ClientInv, ClientShape, Connect, Connected, Quiet, Session
<1>6. ~past'.overlap => OneCall'
  BY <1>1, <1>2, <1>3 DEF ClientInv, OneCall, Busy, Connect, Connected, Quiet, Waiting,
                          Entering, Nothing, Ops
<1>. QED
  BY <1>4, <1>5, <1>6 DEF ClientInv

LEMMA SetSavedTokenStep == ASSUME ServerShape, ClientInv, SetSavedToken PROVE ClientInv'
<1>1. worker # Idle /\ worker.step = "token" /\ Goes("call")
  BY DEF SetSavedToken, At, Idle
<1>2. /\ worker' # Idle /\ worker'.step = "call" /\ DOMAIN worker' = DOMAIN worker
      /\ \A x \in DOMAIN worker : x # "step" => worker'[x] = worker[x]
  BY <1>1, GoesOn DEF ClientInv
<1>3. /\ {"op", "access"} \subseteq DOMAIN worker /\ worker.op = "validate"
      /\ worker'.op = worker.op /\ worker'.access = worker.access
      /\ worker.access \in server.issued
  BY <1>1, <1>2 DEF ClientInv, WorkerShape, Ops, StepsOf
<1>4. WorkerShape'
  BY <1>1, <1>2, <1>3 DEF ClientInv, WorkerShape, SetSavedToken, Ops, StepsOf
<1>5. ClientShape'
  BY <1>1, <1>2, <1>3 DEF ClientInv, ClientShape, SetSavedToken, Quiet, Session
<1>6. ~past'.overlap => OneCall'
  BY <1>1, <1>2, <1>3 DEF ClientInv, OneCall, Busy, SetSavedToken, Quiet, Waiting,
                          Entering, Nothing, ClientShape
<1>. QED
  BY <1>4, <1>5, <1>6 DEF ClientInv

(* The next state shows what the result r says. *)
SettlesNext(r) ==
  IF r.ok /\ r.op # "register"
  THEN net'.connected /\ \E t \in net'.token : t.user = r.user
  ELSE net'.token = {} /\ saved' = {}

NetShape == net \in [connected : BOOLEAN, token : {{}} \union {{t} : t \in server.issued}]
SavedShape == saved \in {{}} \union {{s} : s \in Session}

(* A call is answered: the client must hold what the result says. *)
LEMMA Answered ==
  ASSUME ClientInv, ~Quiet, worker.step # "push", NEW r \in Result, Answers(r),
         UNCHANGED <<ui, results, past>>, server.issued \subseteq server'.issued,
         NetShape', SavedShape', ~past.overlap => SettlesNext(r)
  PROVE  ClientInv'
<1>1. /\ worker' # Idle /\ worker'.step = "push" /\ worker'.result = r
      /\ DOMAIN worker' = {"step", "result"}
  BY DEF Answers, Idle
<1>2. WorkerShape'
  BY <1>1 DEF WorkerShape
<1>3. ClientShape'
  BY <1>1 DEF ClientInv, ClientShape, NetShape, SavedShape, Quiet
<1>4. ~past'.overlap => OneCall'
  BY <1>1 DEF ClientInv, OneCall, Busy, Quiet, Waiting, Entering, Settles, SettlesNext,
              SignedIn, Nothing
<1>. QED
  BY <1>2, <1>3, <1>4 DEF ClientInv

(* A failed call is a result too. *)
LEMMA FailedIsResult ==
  ASSUME ClientInv, ~Quiet, worker.step # "push"
  PROVE  /\ worker.op \in Ops /\ Failed \in Result
         /\ Failed.ok = FALSE
BY DEF ClientInv, WorkerShape, Quiet, Failed, Result

LEMMA NoStubStep == ASSUME ServerShape, ClientInv, NoStub PROVE ClientInv'
<1>1. ~Quiet /\ worker.step = "call" /\ Answers(Failed) /\ ~net.connected
  BY DEF NoStub, At, Quiet, Idle
<1>2. past.overlap
  BY <1>1 DEF ClientInv, OneCall, Busy
<1>3. NetShape' /\ SavedShape'
  BY DEF NoStub, ClientInv, ClientShape, NetShape, SavedShape, Session
<1>. QED
  BY <1>1, <1>2, <1>3, FailedIsResult, Answered DEF NoStub

LEMMA SetTokenStep == ASSUME ServerShape, ClientInv, SetToken PROVE ClientInv'
<1>1. worker # Idle /\ worker.step = "set" /\ Goes("save")
  BY DEF SetToken, At, Idle
<1>2. /\ worker' # Idle /\ worker'.step = "save" /\ DOMAIN worker' = DOMAIN worker
      /\ \A x \in DOMAIN worker : x # "step" => worker'[x] = worker[x]
  BY <1>1, GoesOn DEF ClientInv
<1>3. /\ {"op", "user", "access", "refresh"} \subseteq DOMAIN worker /\ worker.op = "login"
      /\ worker'.op = worker.op /\ worker'.user = worker.user /\ worker'.access = worker.access
      /\ worker'.refresh = worker.refresh /\ worker.access.user = worker.user
      /\ worker.access \in server.issued
  BY <1>1, <1>2 DEF ClientInv, WorkerShape, Ops, StepsOf
<1>4. WorkerShape'
  BY <1>1, <1>2, <1>3 DEF ClientInv, WorkerShape, SetToken, Ops, StepsOf
<1>5. ClientShape'
  BY <1>1, <1>2, <1>3 DEF ClientInv, ClientShape, SetToken, Quiet, Session
<1>6. ~past'.overlap => OneCall'
  BY <1>1, <1>2, <1>3 DEF ClientInv, OneCall, Busy, SetToken, Quiet, Waiting,
                          Entering, Nothing, ClientShape, SignedIn
<1>. QED
  BY <1>4, <1>5, <1>6 DEF ClientInv

LEMMA SaveStep == ASSUME ServerShape, ClientInv, Save PROVE ClientInv'
<1>. DEFINE r == [ok |-> TRUE, op |-> "login", user |-> worker.user]
<1>1. ~Quiet /\ worker.step = "save" /\ Answers(r)
  BY DEF Save, At, Quiet, Idle
<1>2. /\ worker.user \in Names /\ worker.access \in server.issued
      /\ worker.refresh \in server.issued
  BY <1>1 DEF ClientInv, WorkerShape
<1>3. r \in Result /\ r.ok = TRUE /\ r.op = "login" /\ r.user = worker.user
  BY <1>2 DEF Result
<1>4. NetShape' /\ SavedShape'
  BY <1>2 DEF Save, ClientInv, ClientShape, NetShape, SavedShape, Session
<1>5. ~past.overlap => SettlesNext(r)
  BY <1>1, <1>3 DEF ClientInv, OneCall, Busy, Save, SettlesNext, SignedIn
<1>. HIDE DEF r
<1>. QED
  BY <1>1, <1>3, <1>4, <1>5, Answered DEF Save

LEMMA FailStep == ASSUME ServerShape, ClientInv, Fail PROVE ClientInv'
<1>1. ~Quiet /\ worker # Idle /\ worker.step = "fail" /\ net' = NotConnected
  BY DEF Fail, At, Quiet, Idle
<1>2. "op" \in DOMAIN worker /\ worker.op \in {"login", "validate"}
  BY <1>1 DEF ClientInv, WorkerShape, Ops, StepsOf
<1>3. NetShape' /\ SavedShape' /\ UNCHANGED <<server, ui, results, past, saved>>
  BY <1>1 DEF Fail, ClientInv, ClientShape, NetShape, SavedShape, Session, NotConnected
<1>4. CASE worker.op = "login"
  <2>1. ~past.overlap => SettlesNext(Failed)
    BY <1>1, <1>3, <1>4, FailedIsResult DEF ClientInv, OneCall, Busy, SettlesNext,
                                            NotConnected
  <2>2. Answers(Failed)
    BY <1>4 DEF Fail
  <2>. QED
    BY <1>1, <1>3, <2>1, <2>2, FailedIsResult, Answered
<1>5. CASE worker.op = "validate"
  <2>1. /\ worker' # Idle /\ worker'.step = "forget" /\ DOMAIN worker' = DOMAIN worker
        /\ \A x \in DOMAIN worker : x # "step" => worker'[x] = worker[x]
    BY <1>1, <1>5, GoesOn DEF ClientInv, Fail
  <2>2. /\ {"step", "op"} \subseteq DOMAIN worker' /\ worker'.op = "validate"
        /\ "forget" \in StepsOf("validate")
    BY <1>1, <1>2, <1>5, <2>1 DEF StepsOf, ClientInv, WorkerShape
  <2>3. WorkerShape'
    BY <2>1, <2>2 DEF WorkerShape, Ops
  <2>4. ClientShape'
    BY <1>1, <1>3, <2>1 DEF ClientInv, ClientShape, NetShape, SavedShape, Quiet
  <2>5. ~past'.overlap => OneCall'
    BY <1>1, <1>3, <2>1, <2>2 DEF ClientInv, OneCall, Busy, Quiet, Waiting,
                            Entering, NotConnected
  <2>. QED
    BY <2>3, <2>4, <2>5 DEF ClientInv
<1>. QED
  BY <1>2, <1>4, <1>5

LEMMA ForgetStep == ASSUME ServerShape, ClientInv, Forget PROVE ClientInv'
<1>1. ~Quiet /\ worker.step = "forget" /\ Answers(Failed)
  BY DEF Forget, At, Quiet, Idle
<1>2. NetShape' /\ SavedShape'
  BY DEF Forget, Forgotten, ClientInv, ClientShape, NetShape, SavedShape, Session
<1>3. ~past.overlap => SettlesNext(Failed)
  BY <1>1, FailedIsResult DEF ClientInv, OneCall, Busy, SettlesNext, Forget, Forgotten
<1>. QED
  BY <1>1, <1>2, <1>3, FailedIsResult, Answered DEF Forget

LEMMA PushStep == ASSUME ServerShape, ClientInv, Push PROVE ClientInv'
<1>1. worker # Idle /\ ~Quiet /\ worker.step = "push" /\ Goes("release")
  BY DEF Push, At, Idle, Quiet
<1>2. worker' # Idle /\ worker'.step = "release" /\ DOMAIN worker' = DOMAIN worker
  BY <1>1, GoesOn DEF ClientInv
<1>3. worker.result \in Result /\ results \in Seq(Result)
  BY <1>1 DEF ClientInv, WorkerShape, ClientShape
<1>4. results' \in Seq(Result) /\ Len(results') = Len(results) + 1
  BY <1>3 DEF Push
<1>5. results = <<>> => Head(results') = worker.result /\ results' # <<>>
  BY <1>3 DEF Push
<1>6. WorkerShape'
  BY <1>1, <1>2 DEF ClientInv, WorkerShape, Push
<1>7. ClientShape'
  BY <1>1, <1>2, <1>4 DEF ClientInv, ClientShape, Push, Quiet, Session
<1>8. ~past'.overlap => OneCall'
  <2>1. SUFFICES ASSUME ~past.overlap PROVE OneCall'
    BY DEF Push
  <2>2. results = <<>> /\ Waiting /\ Settles(worker.result)
    BY <1>1, <2>1 DEF ClientInv, OneCall, Busy
  <2>3. Len(results') = 1 /\ Settles(Head(results))' /\ Waiting' /\ Quiet'
    BY <1>2, <1>4, <1>5, <2>2 DEF Push, Settles, SignedIn, Nothing, Waiting, Quiet
  <2>. QED
    BY <1>5, <2>2, <2>3 DEF OneCall, Waiting, Entering
<1>. QED
  BY <1>6, <1>7, <1>8 DEF ClientInv

LEMMA ReleaseStep == ASSUME ServerShape, ClientInv, Release PROVE ClientInv'
<1>1. worker' = Idle /\ Quiet' /\ Quiet
  BY DEF Release, At, Quiet
<1>2. WorkerShape'
  BY <1>1 DEF WorkerShape, Idle
<1>3. ClientShape'
  BY <1>1 DEF ClientInv, ClientShape, Release, Session
<1>4. ~past'.overlap => OneCall'
  BY <1>1 DEF ClientInv, OneCall, Release, Waiting, Entering, Settles, SignedIn, Nothing
<1>. QED
  BY <1>2, <1>3, <1>4 DEF ClientInv

(* What the thread makes of a reply that tells it something. *)
Meant(reply, issued) ==
  reply.ok => /\ worker.op = "login" =>
                   /\ reply.access.user = worker.user
                   /\ {reply.access, reply.refresh} \subseteq issued
              /\ worker.op = "validate" => reply.user = worker.access.user

(* What the server makes of the client's call. *)
LEMMA OutcomesContinue ==
  ASSUME ServerShape, ClientInv, worker.step = "call", NEW i \in Outcomes
  PROVE  Continues(i.server) /\ Meant(i.reply, i.server.issued)
<1>1. worker.op \in Ops
  BY DEF ClientInv, WorkerShape, Idle
<1>2. CASE worker.op = "login"
  <2>. DEFINE outcomes == LoginOutcomes(worker.user, worker.right)
              authorized == TRUE
  <2>1. i \in Intercepted(outcomes, authorized) /\ authorized \in BOOLEAN
    BY <1>2 DEF Outcomes
  <2>2. worker.user \in Names
    BY <1>2 DEF ClientInv, WorkerShape
  <2>3. \A o \in outcomes :
          /\ Continues(o.server)
          /\ o.reply.ok => /\ o.reply.access.user = worker.user
                           /\ {o.reply.access, o.reply.refresh} \subseteq o.server.issued
    BY <2>2, LoginContinues
  <2>. HIDE DEF outcomes, authorized
  <2>4. PICK o \in outcomes : /\ Continues(i.server) /\ i.server.issued = o.server.issued
                              /\ i.reply.ok => i.reply = o.reply
    BY <2>1, <2>3, InterceptedContinues
  <2>. QED
    BY <1>2, <2>3, <2>4 DEF Meant
<1>3. CASE worker.op = "register"
  <2>. DEFINE outcomes == RegisterOutcomes(worker.user)
  <2>1. i \in Intercepted(outcomes, TRUE)
    BY <1>3 DEF Outcomes
  <2>2. worker.user \in Names
    BY <1>3 DEF ClientInv, WorkerShape
  <2>3. \A o \in outcomes : Continues(o.server)
    BY <2>2, RegisterContinues
  <2>. HIDE DEF outcomes
  <2>4. Continues(i.server)
    BY <2>1, <2>3, InterceptedContinues
  <2>. QED
    BY <1>3, <2>4 DEF Meant
<1>4. CASE worker.op = "validate"
  <2>. DEFINE outcomes == ValidateOutcomes(worker.access)
              authorized == net.token # {} /\ Authorized
  <2>1. i \in Intercepted(outcomes, authorized) /\ authorized \in BOOLEAN
    BY <1>4 DEF Outcomes
  <2>2. worker.access \in server.issued
    BY <1>4 DEF ClientInv, WorkerShape
  <2>3. \A o \in outcomes : /\ Continues(o.server)
                            /\ o.reply.ok => o.reply.user = worker.access.user
    BY <2>2, ValidateContinues
  <2>. HIDE DEF outcomes, authorized
  <2>4. PICK o \in outcomes : Continues(i.server) /\ (i.reply.ok => i.reply = o.reply)
    BY <2>1, <2>3, InterceptedContinues
  <2>. QED
    BY <1>4, <2>3, <2>4 DEF Meant
<1>. QED
  BY <1>1, <1>2, <1>3, <1>4 DEF Ops

(* What the thread makes of the reply. *)
LEMMA RepliedStep ==
  ASSUME ServerShape, ClientInv, worker.step = "call", net.connected,
         server.issued \subseteq server'.issued, UNCHANGED <<ui, net, saved, results, past>>,
         NEW reply, Meant(reply, server'.issued), Replied(reply)
  PROVE  ClientInv'
<1>1. worker # Idle /\ ~Quiet /\ "step" \in DOMAIN worker /\ "op" \in DOMAIN worker
      /\ worker.op \in Ops
  BY DEF Idle, Quiet, ClientInv, WorkerShape
<1>2. NetShape' /\ SavedShape'
  BY DEF ClientInv, ClientShape, NetShape, SavedShape, Session
<1>3. CASE reply.ok /\ worker.op = "register"
  <2>. DEFINE r == [ok |-> TRUE, op |-> "register"]
  <2>1. r \in Result /\ r.op = "register" /\ Answers(r)
    BY <1>3 DEF Result, Replied
  <2>2. ~past.overlap => SettlesNext(r)
    BY <1>1, <1>3, <2>1 DEF ClientInv, OneCall, Busy, Nothing, SettlesNext
  <2>. HIDE DEF r
  <2>. QED
    BY <1>1, <1>2, <2>1, <2>2, Answered
<1>4. CASE reply.ok /\ worker.op = "login"
  <2>1. worker' = [step |-> "set", op |-> "login", user |-> worker.user,
                   access |-> reply.access, refresh |-> reply.refresh]
    BY <1>4 DEF Replied
  <2>2. worker.user \in Names /\ reply.access.user = worker.user
        /\ reply.access \in server'.issued /\ reply.refresh \in server'.issued
    BY <1>4 DEF ClientInv, WorkerShape, Meant
  <2>3. WorkerShape' /\ ~Quiet'
    BY <2>1, <2>2 DEF WorkerShape, Ops, StepsOf, Quiet, Idle
  <2>4. ClientShape'
    BY <1>1, <1>2, <2>3 DEF ClientInv, ClientShape, NetShape, SavedShape
  <2>5. ~past'.overlap => OneCall'
    BY <1>1, <1>4, <2>1, <2>3 DEF ClientInv, OneCall, Busy, Waiting, Entering, Nothing
  <2>. QED
    BY <2>3, <2>4, <2>5 DEF ClientInv
<1>5. CASE reply.ok /\ worker.op = "validate"
  <2>. DEFINE r == [ok |-> TRUE, op |-> "validate", user |-> reply.user]
  <2>1. Answers(r)
    BY <1>5 DEF Replied
  <2>2. reply.user = worker.access.user /\ worker.access \in server.issued
    BY <1>5 DEF Meant, ClientInv, WorkerShape
  <2>3. reply.user \in Names
    BY <2>2 DEF ServerShape, AnyServer, Token
  <2>4. r \in Result /\ r.ok = TRUE /\ r.op = "validate" /\ r.user = reply.user
    BY <2>3 DEF Result
  <2>5. ~past.overlap => SettlesNext(r)
    BY <1>1, <1>5, <2>2, <2>4 DEF ClientInv, OneCall, Busy, SettlesNext
  <2>. HIDE DEF r
  <2>. QED
    BY <1>1, <1>2, <2>1, <2>4, <2>5, Answered
<1>6. CASE ~reply.ok /\ worker.op = "register"
  <2>1. ~past.overlap => SettlesNext(Failed)
    BY <1>1, <1>6, FailedIsResult DEF ClientInv, OneCall, Busy, Nothing, SettlesNext
  <2>. QED
    BY <1>1, <1>2, <1>6, <2>1, FailedIsResult, Answered DEF Replied
<1>7. CASE ~reply.ok /\ worker.op # "register"
  <2>1. /\ worker' # Idle /\ worker'.step = "fail" /\ DOMAIN worker' = DOMAIN worker
        /\ worker'.op = worker.op
    BY <1>1, <1>7, GoesOn DEF ClientInv, Replied
  <2>2. worker.op \in {"login", "validate"} /\ "fail" \in StepsOf(worker.op)
    BY <1>1, <1>7 DEF Ops, StepsOf
  <2>3. WorkerShape'
    BY <1>1, <2>1, <2>2 DEF WorkerShape
  <2>4. ClientShape'
    BY <1>1, <1>2, <2>1 DEF ClientInv, ClientShape, NetShape, SavedShape, Quiet
  <2>5. ~past'.overlap => OneCall'
    BY <1>1, <1>7, <2>1 DEF ClientInv, OneCall, Busy, Quiet, Waiting, Entering, Nothing
  <2>. QED
    BY <2>3, <2>4, <2>5 DEF ClientInv
<1>. QED
  BY <1>1, <1>3, <1>4, <1>5, <1>6, <1>7 DEF Ops

(* The call, answered, or lost before or after it had its effect. *)
LEMMA CallStep ==
  ASSUME ServerShape, Ended, ClientInv, Call
  PROVE  ServerShape' /\ Ended' /\ ClientInv'
<1>1. worker.step = "call" /\ net.connected /\ UNCHANGED <<others, ui, net, saved, results, past>>
  BY DEF Call, At
<1>2. Meant(NoReply, server'.issued)
  BY DEF Meant, NoReply
<1>3. ASSUME NEW o \in Outcomes, server' = o.server, Replied(o.reply) \/ Replied(NoReply)
      PROVE  ServerShape' /\ Ended' /\ ClientInv'
  <2>1. Continues(server') /\ Meant(o.reply, server'.issued)
    BY <1>1, <1>3, OutcomesContinue
  <2>2. others' \in [calls : 0..MaxOthers, ended : SUBSET server'.issued]
    BY <1>1, <2>1 DEF ServerShape, Continues
  <2>3. ServerShape' /\ Ended' /\ server.issued \subseteq server'.issued
    BY <1>1, <2>1, <2>2, ServerContinues
  <2>. QED
    BY <1>1, <1>2, <1>3, <2>1, <2>3, RepliedStep
<1>4. CASE UNCHANGED server /\ Replied(NoReply)
  BY <1>1, <1>2, <1>4, SameServer, RepliedStep
<1>. QED
  BY <1>3, <1>4 DEF Call

-----------------------------------------------------------------------------
(* The scenes *)

UiShape ==
  /\ ui \in [scene : {"login", "menu"}, at : {"enter", "poll", "buttons"},
             mode : {"login", "register"}, user : Names \union {Nobody}]
  /\ ui.scene = "menu" => ui.user # Nobody

(* Counting a call or a start. *)
LEMMA PastChanges ==
  ASSUME NEW p \in PastShape, NEW n \in Nat, NEW o \in BOOLEAN
  PROVE  /\ [p EXCEPT !.calls = n, !.overlap = o] \in PastShape
         /\ [p EXCEPT !.calls = n, !.overlap = o].calls = n
         /\ [p EXCEPT !.calls = n, !.overlap = o].overlap = o
         /\ [p EXCEPT !.starts = n, !.overlap = o] \in PastShape
BY DEF PastShape

(* A call may start when nothing is held that it would have to drop. *)
LEMMA Started ==
  ASSUME ClientInv, NEW call, ~InFlight, Starts(call), UNCHANGED <<server, net, saved, results>>,
         WorkerShape', worker' # Idle, worker'.step = "connect",
         UiShape', Waiting',
         Waiting \/ (Entering /\ worker'.op = "validate")
  PROVE  ClientInv'
<1>1. worker = Idle /\ Quiet /\ ~Quiet'
  BY DEF InFlight, Quiet
<1>2. past' = [past EXCEPT !.calls = @ + 1, !.overlap = @ \/ results # <<>>]
  BY DEF Starts
<1>. DEFINE overlap == past.overlap \/ results # <<>>
<1>3. past \in PastShape
  BY DEF ClientInv, ClientShape
<1>4. overlap \in BOOLEAN /\ (~overlap => ~past.overlap /\ results = <<>>)
  BY <1>3 DEF PastShape
<1>5. /\ past' \in PastShape
      /\ past'.calls = past.calls + 1 /\ (~past'.overlap => ~past.overlap /\ results = <<>>)
  <2>1. past' = [past EXCEPT !.calls = past.calls + 1, !.overlap = overlap]
    BY <1>2
  <2>2. past.calls + 1 \in Nat
    BY <1>3 DEF PastShape
  <2>. HIDE DEF overlap
  <2>. QED
    BY <1>3, <1>4, <2>1, <2>2, PastChanges
<1>6. Len(results) \in Nat /\ Len(results) <= past.calls /\ past.calls \in Nat
  BY <1>1 DEF ClientInv, ClientShape, PastShape
<1>7. ClientShape'
  BY <1>1, <1>5, <1>6 DEF ClientInv, ClientShape, UiShape, Session
<1>8. ~past'.overlap => OneCall'
  <2>1. SUFFICES ASSUME ~past'.overlap PROVE OneCall'
    OBVIOUS
  <2>2. ~past.overlap /\ results = <<>> /\ OneCall
    BY <1>5, <2>1 DEF ClientInv
  <2>3. net.token = {} /\ (worker'.op # "validate" => saved = {})
    BY <1>1, <2>2 DEF OneCall, Nothing
  <2>. QED
    BY <1>1, <2>2, <2>3 DEF OneCall, Busy, Waiting, Entering
<1>. QED
  BY <1>7, <1>8 DEF ClientInv

(* And so does each step of the scenes. *)
LEMMA AutoLoginStep == ASSUME ServerShape, ClientInv, AutoLogin PROVE ClientInv'
<1>1. /\ Entering /\ Waiting' /\ UiShape'
      /\ ui'.scene = "login" /\ UNCHANGED <<server, net, saved, results>>
  BY DEF AutoLogin, InLogin, Entering, Waiting, UiShape, ClientInv, ClientShape
<1>2. ASSUME UNCHANGED <<worker, past>>, ~past.overlap => Nothing
      PROVE  ClientInv'
  <2>1. WorkerShape' /\ ClientShape'
    BY <1>1, <1>2 DEF ClientInv, WorkerShape, ClientShape, UiShape, Quiet, Session
  <2>2. ~past'.overlap => OneCall'
    BY <1>1, <1>2 DEF ClientInv, OneCall, Quiet, Waiting, Entering, Nothing
  <2>. QED
    BY <2>1, <2>2 DEF ClientInv
<1>3. CASE saved = {} /\ UNCHANGED <<worker, past>>
  <2>1. ~past.overlap => Nothing
    BY <1>1, <1>3 DEF ClientInv, OneCall, Nothing
  <2>. QED
    BY <1>2, <1>3, <2>1
<1>4. ASSUME NEW s \in saved,
             Starts([step |-> "connect", op |-> "validate", access |-> s.access])
      PROVE  ClientInv'
  <2>1. CASE InFlight
    <3>1. UNCHANGED <<worker, past>> /\ worker # Idle
      BY <1>4, <2>1 DEF Starts, InFlight
    <3>2. past.overlap
      BY <1>1, <1>4, <3>1 DEF ClientInv, OneCall
    <3>. QED
      BY <1>2, <3>1, <3>2
  <2>2. CASE ~InFlight
    <3>1. worker' = [step |-> "connect", op |-> "validate", access |-> s.access]
      BY <1>4, <2>2 DEF Starts
    <3>2. s.access \in server.issued
      BY <1>4 DEF ClientInv, ClientShape, Session
    <3>3. WorkerShape' /\ worker' # Idle /\ worker'.step = "connect" /\ worker'.op = "validate"
      BY <1>1, <3>1, <3>2 DEF WorkerShape, Idle, Ops, StepsOf
    <3>. QED
      BY <1>1, <1>4, <2>2, <3>3, Started
  <2>. QED
    BY <2>1, <2>2
<1>. QED
  BY <1>3, <1>4 DEF AutoLogin

LEMMA PressLoginStep == ASSUME ServerShape, ClientInv, PressLogin PROVE ClientInv'
<1>1. PICK user \in Names, right \in BOOLEAN :
        Presses([step |-> "connect", op |-> "login", user |-> user, right |-> right])
  BY DEF PressLogin
<1>. DEFINE call == [step |-> "connect", op |-> "login", user |-> user, right |-> right]
<1>2. /\ Waiting /\ Waiting' /\ UiShape' /\ ~InFlight /\ Starts(call)
      /\ UNCHANGED <<server, net, saved, results>>
  BY <1>1 DEF Presses, InLogin, Ready, Waiting, UiShape, ClientInv, ClientShape
<1>3. worker' = call
  BY <1>2 DEF Starts
<1>4. WorkerShape' /\ worker' # Idle /\ worker'.step = "connect"
  BY <1>3 DEF WorkerShape, Idle, Ops, StepsOf
<1>. HIDE DEF call
<1>. QED
  BY <1>2, <1>4, Started

LEMMA PressRegisterStep == ASSUME ServerShape, ClientInv, PressRegister PROVE ClientInv'
<1>1. PICK user \in Names : Presses([step |-> "connect", op |-> "register", user |-> user])
  BY DEF PressRegister
<1>. DEFINE call == [step |-> "connect", op |-> "register", user |-> user]
<1>2. /\ Waiting /\ Waiting' /\ UiShape' /\ ~InFlight /\ Starts(call)
      /\ UNCHANGED <<server, net, saved, results>>
  BY <1>1 DEF Presses, InLogin, Ready, Waiting, UiShape, ClientInv, ClientShape
<1>3. worker' = call
  BY <1>2 DEF Starts
<1>4. WorkerShape' /\ worker' # Idle /\ worker'.step = "connect"
  BY <1>3 DEF WorkerShape, Idle, Ops, StepsOf
<1>. HIDE DEF call
<1>. QED
  BY <1>2, <1>4, Started

(* The frame goes on, or the form changes. *)
LEMMA FrameStep ==
  ASSUME ServerShape, ClientInv, Waiting, Waiting', UiShape',
         UNCHANGED <<server, net, saved, worker, results, past>>
  PROVE  ClientInv'
<1>1. WorkerShape' /\ ClientShape'
  BY DEF ClientInv, WorkerShape, ClientShape, UiShape, Quiet, Session
<1>2. ~past'.overlap => OneCall'
  BY DEF ClientInv, OneCall, Quiet, Waiting, Entering, Nothing, Settles, SignedIn, Busy
<1>. QED
  BY <1>1, <1>2 DEF ClientInv

LEMMA EndFrameStep == ASSUME ServerShape, ClientInv, EndFrame PROVE ClientInv'
BY FrameStep DEF EndFrame, InLogin, Waiting, UiShape, ClientInv, ClientShape

LEMMA SwitchModeStep == ASSUME ServerShape, ClientInv, SwitchMode PROVE ClientInv'
BY FrameStep DEF SwitchMode, InLogin, Waiting, UiShape, ClientInv, ClientShape

LEMMA PollStep == ASSUME ServerShape, ClientInv, Poll PROVE ClientInv'
<1>1. Waiting /\ UNCHANGED <<server, net, saved, worker, past>>
  BY DEF Poll, InLogin, Waiting
<1>2. CASE results = <<>>
  BY <1>1, <1>2, FrameStep DEF Poll, InLogin, Waiting, UiShape, ClientInv, ClientShape
<1>3. CASE results # <<>>
  <2>. DEFINE r == Head(results)
  <2>1. results \in Seq(Result)
    BY DEF ClientInv, ClientShape
  <2>2. r \in Result /\ results' \in Seq(Result) /\ Len(results') = Len(results) - 1
    BY <1>3, <2>1 DEF Poll
  <2>3. Len(results') <= Len(results) /\ (Len(results) = 1 => results' = <<>>)
    BY <1>3, <2>1, <2>2 DEF Poll
  <2>. HIDE DEF r
  <2>4. ui' = Show(r)
    BY <1>3 DEF Poll, r
  <2>5. /\ r.ok \in BOOLEAN /\ (r.ok /\ r.op # "register" => r.user \in Names)
    BY <2>2 DEF Result
  <2>6. /\ UiShape'
        /\ IF r.ok /\ r.op # "register" THEN ui'.scene = "menu" /\ ui'.user = r.user ELSE Waiting'
    BY <1>1, <2>4, <2>5, NobodyHasNoName
       DEF Show, UiShape, ClientInv, ClientShape, Waiting
  <2>7. WorkerShape'
    BY <1>1 DEF ClientInv, WorkerShape
  <2>8. ClientShape'
    BY <1>1, <2>1, <2>2, <2>3, <2>6 DEF ClientInv, ClientShape, PastShape, UiShape, Quiet,
                                        Session
  <2>9. ~past'.overlap => OneCall'
    <3>1. SUFFICES ASSUME ~past.overlap PROVE OneCall'
      BY <1>1
    <3>2. Quiet /\ Settles(r) /\ results' = <<>>
      BY <1>3, <2>3, <3>1 DEF ClientInv, OneCall, r
    <3>3. Quiet' /\ (Waiting' => Nothing')
          /\ (ui'.scene = "menu" => SignedIn(ui.user)' /\ ~Waiting')
      BY <1>1, <2>6, <3>2 DEF Settles, Quiet, SignedIn, Nothing, Waiting
    <3>. QED
      BY <2>6, <3>2, <3>3 DEF OneCall, Waiting, Entering
  <2>. QED
    BY <2>7, <2>8, <2>9 DEF ClientInv
<1>. QED
  BY <1>2, <1>3

LEMMA LogoutStep == ASSUME ServerShape, ClientInv, Logout PROVE ClientInv'
<1>1. /\ ui' = LoginScene /\ net' = NotConnected /\ saved' = {}
      /\ UNCHANGED <<server, worker, results, past>> /\ ui.scene = "menu"
  BY DEF Logout
<1>2. WorkerShape'
  BY <1>1 DEF ClientInv, WorkerShape
<1>3. ClientShape'
  BY <1>1 DEF ClientInv, ClientShape, LoginScene, NotConnected, Quiet, Session
<1>4. ~past'.overlap => OneCall'
  BY <1>1 DEF ClientInv, OneCall, Quiet, Waiting, Entering, LoginScene, NotConnected
<1>. QED
  BY <1>2, <1>3, <1>4 DEF ClientInv

LEMMA RestartStep == ASSUME ServerShape, ClientInv, Restart PROVE ClientInv'
<1>1. /\ ui' = LoginScene /\ net' = NotConnected /\ worker' = Idle /\ results' = <<>>
      /\ UNCHANGED <<server, saved>>
      /\ past' = [past EXCEPT !.starts = @ + 1, !.overlap = FALSE]
  BY DEF Restart
<1>2. WorkerShape'
  BY <1>1 DEF WorkerShape, Idle
<1>3. ClientShape'
  <2>1. past' \in PastShape /\ past'.calls \in Nat
    <3>1. past \in PastShape /\ past.starts + 1 \in Nat
      BY DEF ClientInv, ClientShape, PastShape
    <3>2. past' \in PastShape
      BY <1>1, <3>1, PastChanges
    <3>. QED
      BY <3>2 DEF PastShape
  <2>2. results' \in Seq(Result) /\ Len(results') = 0 /\ Quiet'
    BY <1>1 DEF Quiet
  <2>. QED
    BY <1>1, <2>1, <2>2 DEF ClientInv, ClientShape, LoginScene, NotConnected, Session
<1>4. OneCall'
  BY <1>1 DEF OneCall, Quiet, Waiting, Entering, LoginScene, NotConnected
<1>. QED
  BY <1>2, <1>3, <1>4 DEF ClientInv

-----------------------------------------------------------------------------
(* The theorems *)

(* The invariant holds at first. *)
LEMMA InitSignInInv == Init => SignInInv
<1>1. SUFFICES ASSUME Init PROVE SignInInv
  OBVIOUS
<1>2. ServerShape /\ Ended
  BY <1>1, RateIsPositive, BoundsAreNumbers DEF Init, AccountsInit, ServerShape, AnyServer, Ended
<1>3. WorkerShape
  BY <1>1 DEF Init, WorkerShape, Idle
<1>4. ClientShape
  BY <1>1 DEF Init, ClientShape, PastShape, LoginScene, NotConnected, Quiet
<1>5. OneCall
  BY <1>1 DEF Init, OneCall, Quiet, Waiting, Entering, LoginScene, NotConnected, Idle
<1>. QED
  BY <1>2, <1>3, <1>4, <1>5 DEF SignInInv, ClientInv

(* Every step keeps the invariant. *)
LEMMA NextSignInInv == SignInInv /\ [Next]_vars => SignInInv'
<1>1. SUFFICES ASSUME SignInInv, [Next]_vars PROVE SignInInv'
  OBVIOUS
<1>. USE <1>1 DEF SignInInv
<1>2. CASE AccountsNext /\ UNCHANGED client
  <2>1. ServerShape' /\ Ended' /\ server.issued \subseteq server'.issued
    BY <1>2, OthersStep
  <2>. QED
    BY <1>2, <2>1, SameClient DEF ClientInv
<1>3. CASE Call
  BY <1>3, CallStep
<1>4. CASE Connect \/ SetSavedToken \/ NoStub \/ SetToken \/ Save \/ Fail \/ Forget
           \/ Push \/ Release
  <2>1. UNCHANGED <<server, others>>
    BY <1>4 DEF Connect, SetSavedToken, NoStub, SetToken, Save, Fail, Forget, Push, Release
  <2>2. ClientInv'
    BY <1>4, ConnectStep, SetSavedTokenStep, NoStubStep, SetTokenStep, SaveStep, FailStep,
       ForgetStep, PushStep, ReleaseStep
  <2>. QED
    BY <2>1, <2>2, SameServer
<1>5. CASE AutoLogin \/ Poll \/ EndFrame \/ PressLogin \/ PressRegister \/ SwitchMode
           \/ Logout \/ Restart
  <2>1. UNCHANGED <<server, others>>
    BY <1>5 DEF AutoLogin, Poll, EndFrame, PressLogin, PressRegister, Presses, SwitchMode,
                Logout, Restart
  <2>2. ClientInv'
    BY <1>5, AutoLoginStep, PollStep, EndFrameStep, PressLoginStep, PressRegisterStep,
       SwitchModeStep, LogoutStep, RestartStep
  <2>. QED
    BY <2>1, <2>2, SameServer
<1>6. CASE UNCHANGED vars
  <2>1. UNCHANGED <<server, others>> /\ UNCHANGED client
    BY <1>6 DEF vars
  <2>. QED
    BY <2>1, SameServer, SameClient DEF ClientInv
<1>. QED
  BY <1>2, <1>3, <1>4, <1>5, <1>6 DEF Next, Worker

(* The inductive invariant holds in every reachable state. *)
THEOREM SignInInvariant == Spec => []SignInInv
BY InitSignInInv, NextSignInInv, PTL DEF Spec

(* A set with no element or one. *)
LEMMA AtMostOne ==
  ASSUME NEW S, NEW T \in {{}} \union {{x} : x \in S}
  PROVE  T \subseteq S /\ Cardinality(T) <= 1
<1>1. CASE T = {}
  BY <1>1, FS_EmptySet
<1>2. ASSUME NEW x \in S, T = {x} PROVE T \subseteq S /\ Cardinality(T) <= 1
  <2>1. Cardinality({x}) = 1
    BY FS_Singleton
  <2>. QED
    BY <1>2, <2>1
<1>. QED
  BY <1>1, <1>2

(* Types: the tokens that the client holds and saves were issued by the server,
   and it never has more results than calls (Auth_Client, Net_Client). *)
THEOREM SignInTypeCorrect == Spec => []TypeOK
<1>1. SignInInv => TypeOK
  <2>1. SUFFICES ASSUME SignInInv PROVE TypeOK
    OBVIOUS
  <2>. USE <2>1 DEF SignInInv
  <2>2. ServerOK
    BY DEF ServerShape, AnyServer, ServerOK
  <2>3. /\ net.token \subseteq server.issued /\ Cardinality(net.token) <= 1
        /\ net.connected \in BOOLEAN
    <3>1. net.token \in {{}} \union {{t} : t \in server.issued} /\ net.connected \in BOOLEAN
      BY DEF ClientInv, ClientShape
    <3>. QED
      BY <3>1, AtMostOne
  <2>4. saved \subseteq Session /\ Cardinality(saved) <= 1
    BY AtMostOne DEF ClientInv, ClientShape
  <2>5. Len(results) <= past.calls
    BY DEF ClientInv, ClientShape, PastShape, Quiet
  <2>6. UiShape
    BY DEF ClientInv, ClientShape, UiShape
  <2>. QED
    BY <2>2, <2>3, <2>4, <2>5, <2>6 DEF TypeOK, UiShape
<1>. QED
  BY <1>1, SignInInvariant, PTL

(* A token whose Logout succeeded is never accepted again, however Redis and
   the clock behave in between (JwtManager, RedisClient). *)
THEOREM LogoutIsFinal == Spec => []EndedStaysEnded
<1>1. SignInInv => EndedStaysEnded
  <2>1. SUFFICES ASSUME SignInInv, NEW t \in others.ended, Accepts(t) PROVE FALSE
    BY DEF EndedStaysEnded
  <2>2. PICK r \in server.revoked : r.token = t /\ t.at + AccessTtl <= r.until
    BY <2>1 DEF SignInInv, Ended, Gone
  <2>3. t \in Token /\ t.type = "access" /\ r.until \in Nat /\ server.now \in Nat
    BY <2>1, <2>2, BoundsAreNumbers DEF SignInInv, Ended, Gone, ServerShape, AnyServer
  <2>4. server.now < t.at + AccessTtl /\ t.at \in Nat
    BY <2>1, <2>3, BoundsAreNumbers DEF Accepts, Alive, Ttl, Token
  <2>5. server.now < r.until
    BY <2>2, <2>3, <2>4, LivesArePositive
  <2>. QED
    BY <2>1, <2>2, <2>5 DEF Accepts, IsRevoked
<1>. QED
  BY <1>1, SignInInvariant, PTL

(* The menu shows the user whose token the calls carry, and the login scene
   waits only when nothing is held or saved, unless two calls overlapped
   (Scene_Login, Scene_Main_Menu, Auth_Client). *)
THEOREM SceneShowsSession == Spec => []SceneFitsSession
<1>1. SignInInv => SceneFitsSession
  BY DEF SignInInv, ClientInv, OneCall, SceneFitsSession, ShownIsHeld, WaitingHoldsNothing,
         SignedIn, Waiting, Quiet, Nothing
<1>. QED
  BY <1>1, SignInInvariant, PTL

=============================================================================
