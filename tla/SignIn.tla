------------------------------- MODULE SignIn -------------------------------
(***************************************************************************)
(* How the client signs in and out: the scenes Login and Main_Menu in the  *)
(* thread of the user interface, Auth_Client's calls in threads of their   *)
(* own, the connection and token they share (Net_Client) and the session   *)
(* that is saved on disk (Token_Store).                                    *)
(*                                                                         *)
(* A call's thread reports through a queue and only then gives the flag    *)
(* in_flight_ back; the scene polls the queue once per frame, before it    *)
(* draws its buttons.  Auth_Client::Refresh and Logout are never called.   *)
(* What the menu offers apart from Logout and Quit is left out.            *)
(***************************************************************************)
EXTENDS Accounts, Sequences

CONSTANTS MaxCalls,   \* bound of the model: calls that the client makes
          MaxStarts,  \* bound of the model: how often the client is started
          Nobody      \* user_id 0

ASSUME NobodyHasNoName == Nobody \notin Names

VARIABLES
  ui,        \* the scene, the step of its frame, and who is shown as signed in
  net,       \* Net_Client: whether it is connected, and the token
  saved,     \* Token_Store's file: a set of at most one session
  worker,    \* the thread of the call that is under way
  results,   \* Auth_Client::results_
  past       \* calls made, starts, and whether two calls overlapped

client == <<ui, net, saved, worker, results, past>>
vars == <<server, others, client>>

Idle == [step |-> "idle"]

\* Auth_Client::in_flight_, set for as long as there is a thread.
InFlight == worker # Idle

NotConnected == [connected |-> FALSE, token |-> {}]
Connected == [connected |-> TRUE, token |-> {}]

\* Scene_Login is entered with everything forgotten that it keeps itself.
LoginScene == [scene |-> "login", at |-> "enter", mode |-> "login", user |-> Nobody]

Init ==
  /\ AccountsInit
  /\ ui = LoginScene /\ net = NotConnected /\ saved = {}
  /\ worker = Idle /\ results = <<>>
  /\ past = [calls |-> 0, starts |-> 1, overlap |-> FALSE]

-----------------------------------------------------------------------------
(* Auth_Client *)

\* Starts a call's thread, unless one is still under way.  An answer that was
\* not polled yet makes the two calls overlap.
Starts(call) ==
  IF InFlight THEN UNCHANGED <<worker, past>>
  ELSE /\ worker' = call
       /\ past' = [past EXCEPT !.calls = @ + 1, !.overlap = @ \/ results # <<>>]

At(step) == worker.step = step

Goes(step) == worker' = [worker EXCEPT !.step = step]

Answers(result) == worker' = [step |-> "push", result |-> result]

Failed == [ok |-> FALSE, op |-> worker.op]

\* Net_Client::Connect drops the token; Validate puts the saved one there.
Connect ==
  /\ At("connect") /\ net' = Connected
  /\ Goes(IF worker.op = "validate" THEN "token" ELSE "call")
  /\ UNCHANGED <<server, others, ui, saved, results, past>>

SetSavedToken ==
  /\ At("token") /\ net' = [net EXCEPT !.token = {worker.access}] /\ Goes("call")
  /\ UNCHANGED <<server, others, ui, saved, results, past>>

Authorized == \A t \in net.token : Accepts(t)

\* What the server makes of the call.
Outcomes ==
  CASE worker.op = "login" -> Intercepted(LoginOutcomes(worker.user, worker.right), TRUE)
    [] worker.op = "register" -> Intercepted(RegisterOutcomes(worker.user), TRUE)
    [] worker.op = "validate" ->
         Intercepted(ValidateOutcomes(worker.access), net.token # {} /\ Authorized)

Replied(reply) ==
  IF reply.ok
  THEN IF worker.op = "register"
       THEN Answers([ok |-> TRUE, op |-> "register"])
       ELSE IF worker.op = "login"
       THEN worker' = [step |-> "set", op |-> "login", user |-> worker.user,
                       access |-> reply.access, refresh |-> reply.refresh]
       ELSE Answers([ok |-> TRUE, op |-> "validate", user |-> reply.user])
  ELSE IF worker.op = "register" THEN Answers(Failed) ELSE Goes("fail")

\* The call is answered, or its answer or the call itself is lost.
Call ==
  /\ At("call") /\ net.connected
  /\ \/ \E o \in Outcomes : server' = o.server /\ (Replied(o.reply) \/ Replied(NoReply))
     \/ UNCHANGED server /\ Replied(NoReply)
  /\ UNCHANGED <<others, ui, net, saved, results, past>>

\* The user interface has disconnected before there was a stub.
NoStub ==
  /\ At("call") /\ ~net.connected /\ Answers(Failed)
  /\ UNCHANGED <<server, others, ui, net, saved, results, past>>

\* Faulty variant: the token of a login is saved, but not put to use.
SkipToken ==
  /\ At("set") /\ Goes("save")
  /\ UNCHANGED <<server, others, ui, net, saved, results, past>>

SetToken ==
  /\ At("set") /\ net' = [net EXCEPT !.token = {worker.access}] /\ Goes("save")
  /\ UNCHANGED <<server, others, ui, saved, results, past>>

\* The session is saved, or the file cannot be written, which nobody is told.
Save ==
  /\ At("save")
  /\ saved' \in {{[access |-> worker.access, refresh |-> worker.refresh]}, saved}
  /\ Answers([ok |-> TRUE, op |-> "login", user |-> worker.user])
  /\ UNCHANGED <<server, others, ui, net, results, past>>

\* A failed login disconnects.  So does a failed validation, whatever the
\* reason, and then it removes the saved session.
Fail ==
  /\ At("fail") /\ net' = NotConnected
  /\ IF worker.op = "validate" THEN Goes("forget") ELSE Answers(Failed)
  /\ UNCHANGED <<server, others, ui, saved, results, past>>

Forgotten == {}

Forget ==
  /\ At("forget") /\ saved' = Forgotten /\ Answers(Failed)
  /\ UNCHANGED <<server, others, ui, net, results, past>>

Push ==
  /\ At("push") /\ results' = Append(results, worker.result) /\ Goes("release")
  /\ UNCHANGED <<server, others, ui, net, saved, past>>

Release ==
  /\ At("release") /\ worker' = Idle
  /\ UNCHANGED <<server, others, ui, net, saved, results, past>>

Worker ==
  \/ Connect \/ SetSavedToken \/ Call \/ NoStub \/ SetToken \/ Save \/ Fail
  \/ Forget \/ Push \/ Release

-----------------------------------------------------------------------------
(* Scene_Login *)

InLogin(step) == ui.scene = "login" /\ ui.at = step

\* The first frame tries the saved session.
AutoLogin ==
  /\ InLogin("enter") /\ ui' = [ui EXCEPT !.at = "poll"]
  /\ \/ saved = {} /\ UNCHANGED <<worker, past>>
     \/ /\ past.calls < MaxCalls
        /\ \E s \in saved : Starts([step |-> "connect", op |-> "validate", access |-> s.access])
  /\ UNCHANGED <<server, others, net, saved, results>>

\* A result of a login or of a saved session leads to the menu.
Show(r) ==
  IF r.ok /\ r.op # "register"
  THEN [ui EXCEPT !.scene = "menu", !.at = "buttons", !.user = r.user]
  ELSE [ui EXCEPT !.at = "buttons", !.mode = IF r.ok THEN "login" ELSE @]

Poll ==
  /\ InLogin("poll")
  /\ IF results = <<>> THEN ui' = [ui EXCEPT !.at = "buttons"] /\ UNCHANGED results
     ELSE ui' = Show(Head(results)) /\ results' = Tail(results)
  /\ UNCHANGED <<server, others, net, saved, worker, past>>

\* The frame ends; while a call is under way there are no buttons to press.
EndFrame ==
  /\ InLogin("buttons") /\ ui' = [ui EXCEPT !.at = "poll"]
  /\ UNCHANGED <<server, others, net, saved, worker, results, past>>

Ready == ~InFlight

Presses(call) ==
  /\ InLogin("buttons") /\ Ready /\ past.calls < MaxCalls
  /\ ui' = [ui EXCEPT !.at = "poll"] /\ Starts(call)
  /\ UNCHANGED <<server, others, net, saved, results>>

PressLogin ==
  /\ ui.mode = "login"
  /\ \E user \in Names, right \in BOOLEAN :
       Presses([step |-> "connect", op |-> "login", user |-> user, right |-> right])

PressRegister ==
  /\ ui.mode = "register"
  /\ \E user \in Names : Presses([step |-> "connect", op |-> "register", user |-> user])

SwitchMode ==
  /\ InLogin("buttons") /\ Ready
  /\ ui' = [ui EXCEPT !.at = "poll", !.mode = IF @ = "login" THEN "register" ELSE "login"]
  /\ UNCHANGED <<server, others, net, saved, worker, results, past>>

-----------------------------------------------------------------------------
(* The menu, and the end of the program *)

\* Logout forgets the session here; the server is not told.
Logout ==
  /\ ui.scene = "menu"
  /\ saved' = {} /\ net' = NotConnected /\ ui' = LoginScene
  /\ UNCHANGED <<server, others, worker, results, past>>

\* Quit, a crash or a kill, at any step of a call; then the next start.
Restart ==
  /\ past.starts < MaxStarts
  /\ past' = [past EXCEPT !.starts = @ + 1, !.overlap = FALSE]
  /\ ui' = LoginScene /\ net' = NotConnected
  /\ worker' = Idle /\ results' = <<>>
  /\ UNCHANGED <<server, others, saved>>

Next ==
  \/ AccountsNext /\ UNCHANGED client
  \/ Worker
  \/ AutoLogin \/ Poll \/ EndFrame \/ PressLogin \/ PressRegister \/ SwitchMode
  \/ Logout \/ Restart

Spec == Init /\ [][Next]_vars

-----------------------------------------------------------------------------
(* Properties *)

Session == [access : server.issued, refresh : server.issued]

\* Type invariant of the server, of Auth_Client, Net_Client and Token_Store.
TypeOK ==
  /\ ServerOK
  /\ ui.scene \in {"login", "menu"} /\ ui.at \in {"enter", "poll", "buttons"}
  /\ ui.mode \in {"login", "register"} /\ ui.user \in Names \union {Nobody}
  /\ ui.scene = "menu" => ui.user # Nobody
  /\ net.connected \in BOOLEAN /\ net.token \subseteq server.issued
  /\ Cardinality(net.token) <= 1
  /\ saved \subseteq Session /\ Cardinality(saved) <= 1
  /\ Len(results) <= past.calls

\* Whoever the menu shows as signed in is the one whose token the calls carry,
\* unless a second call was started before the answer to the first was seen.
ShownIsHeld ==
  ui.scene = "menu" /\ ~past.overlap =>
    net.connected /\ \E t \in net.token : t.user = ui.user

\* When the login scene waits for its player, with no call under way and no
\* answer to come, nobody's token is held and no session is saved (a restart
\* would not sign anybody in), with the same exception.
WaitingHoldsNothing ==
  /\ ui.scene = "login" /\ ui.at # "enter"
  /\ worker = Idle /\ results = <<>> /\ ~past.overlap
  => net.token = {} /\ saved = {}

\* What the scenes show fits the token and the session that are held.
SceneFitsSession == ShownIsHeld /\ WaitingHoldsNothing
=============================================================================
