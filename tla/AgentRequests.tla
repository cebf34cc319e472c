---------------------------- MODULE AgentRequests ----------------------------
(***************************************************************************)
(* Calls that Core makes on agents (agents/registry.ts): a call waits for  *)
(* an offline machine, is sent over the registered socket and kept in a    *)
(* pending map with a timer until the answer, the timer, an abort, or the  *)
(* loss of the connection ends it.                                         *)
(***************************************************************************)
EXTENDS AgentConnections

CONSTANT Requests

VARIABLE call

requestVars == <<connVars, call>>

(* exec waits for the machine and is cancelled there; file operations wait *)
(* and are not cancelled; the rest (http, git, vpn, dev processes) do      *)
(* neither.                                                                *)
CallKinds == {"exec", "file", "plain"}

(* sock: where the request went; atwork: the agent has it and has not      *)
(* answered; stopped: the agent was told to cancel; aborted: the signal of *)
(* the caller.                                                             *)
Call ==
  [pc : {"free", "waiting", "pending", "ended"}, kind : CallKinds, agent : Agents,
   sock : Sockets \cup {NoSocket}, atwork : BOOLEAN, stopped : BOOLEAN, aborted : BOOLEAN]

NewCall(kind, a, pc) ==
  [pc |-> pc, kind |-> kind, agent |-> a, sock |-> NoSocket,
   atwork |-> FALSE, stopped |-> FALSE, aborted |-> FALSE]

RequestInit ==
  /\ ConnInit
  /\ call = [r \in Requests |-> NewCall("plain", CHOOSE a \in Agents : TRUE, "free")]

Ended(c) == [c EXCEPT !.pc = "ended"]

(* send() to a socket that is not open loses the message.                  *)
Sent(c, s) ==
  IF c.aborted THEN Ended(c)
  ELSE [c EXCEPT !.pc = "pending", !.sock = s, !.atwork = (sock[s].link = "open")]

(* Mutation: the agent is not told.                                        *)
CancelledHere(c) == Ended(c)

(* exec.cancel goes to the socket that is registered now.                  *)
Cancelled(c) ==
  [Ended(c) EXCEPT !.stopped =
     c.kind = "exec" /\ online[c.agent] = c.sock /\ sock[c.sock].link = "open"]

(* unregister() rejects what the agent has not answered.                   *)
RejectedCalls(a) ==
  [r \in Requests |->
     IF call[r].pc = "pending" /\ call[r].agent = a THEN Ended(call[r]) ELSE call[r]]

(* The calls that waitForOnline resolves run before any other event.       *)
Woken(a, s) ==
  [r \in Requests |->
     IF call[r].pc = "waiting" /\ call[r].agent = a THEN Sent(call[r], s)
     ELSE RejectedCalls(a)[r]]

StartCall(r, kind, a) ==
  LET new == NewCall(kind, a, "ended") IN
  /\ call[r].pc = "free"
  /\ call' = [call EXCEPT ![r] =
       IF online[a] # NoSocket THEN Sent(new, online[a])
       ELSE IF kind = "plain" THEN new ELSE NewCall(kind, a, "waiting")]
  /\ UNCHANGED connVars

OnlineGraceOver(r) ==
  /\ call[r].pc = "waiting"
  /\ call' = [call EXCEPT ![r] = Ended(@)]
  /\ UNCHANGED connVars

(* Only a pending call takes notice of an answer.                          *)
Answered(c) ==
  IF c.pc = "pending" THEN [Ended(c) EXCEPT !.atwork = FALSE] ELSE [c EXCEPT !.atwork = FALSE]

(* The answer of an agent, over a socket whose close event has not come.   *)
AgentAnswers(r) ==
  /\ call[r].atwork /\ sock[call[r].sock].link \in {"open", "closing"}
  /\ call' = [call EXCEPT ![r] = Answered(@)]
  /\ UNCHANGED connVars

CallTimeout(r) ==
  /\ call[r].pc = "pending"
  /\ call' = [call EXCEPT ![r] = Cancelled(@)]
  /\ UNCHANGED connVars

(* The caller's signal: a command that still waits learns of it only when  *)
(* the machine is back.                                                    *)
AbortCall(r) ==
  /\ call[r].kind = "exec" /\ ~call[r].aborted
  /\ call[r].pc \in {"waiting", "pending"}
  /\ call' = [call EXCEPT ![r] =
       [IF call[r].pc = "pending" THEN Cancelled(@) ELSE @ EXCEPT !.aborted = TRUE]]
  /\ UNCHANGED connVars

CancelAll(a) ==
  /\ \E r \in Requests : call[r].pc = "pending" /\ call[r].agent = a /\ call[r].kind = "exec"
  /\ call' = [r \in Requests |->
       IF call[r].pc = "pending" /\ call[r].agent = a /\ call[r].kind = "exec"
       THEN Cancelled(call[r]) ELSE call[r]]
  /\ UNCHANGED connVars

(* The handlers of a connection with what they do to the calls.            *)
Register(s) == Registered(s) /\ call' = Woken(Owner[s], s)
(* Mutation: the pending calls are not rejected.                           *)
UnregisterOnly(s) == Unregistered(s) /\ UNCHANGED call

Unregister(s) == Unregistered(s) /\ call' = RejectedCalls(Owner[s])
Disconnect(a) == Disconnected(a) /\ call' = RejectedCalls(a)
Connect(s) == (Open(s) \/ Present(s) \/ Deny(s) \/ Closed(s)) /\ UNCHANGED call
AdmitAgent(s) == Admit(s) /\ UNCHANGED call

(* Mutation: a call that was sent has no timer.                            *)
TimersOfWaiting(r) == OnlineGraceOver(r)

Timers(r) == OnlineGraceOver(r) \/ CallTimeout(r)
Handlers(s) == AdmitAgent(s) \/ Register(s) \/ Unregister(s)

RequestNext ==
  \/ \E s \in Sockets : Connect(s) \/ Handlers(s)
  \/ \E a \in Agents : Disconnect(a) \/ CancelAll(a)
  \/ \E r \in Requests : Timers(r) \/ AgentAnswers(r) \/ AbortCall(r)
  \/ \E r \in Requests, kind \in CallKinds, a \in Agents : StartCall(r, kind, a)

RequestSpec == RequestInit /\ [][RequestNext]_requestVars

(* Timers fire and the database answers.                                   *)
RequestFairness ==
  /\ \A r \in Requests : WF_requestVars(Timers(r))
  /\ \A s \in Sockets : WF_requestVars(Handlers(s))

-----------------------------------------------------------------------------
RequestTypeOK ==
  /\ sock \in [Sockets -> Connection]
  /\ online \in [Agents -> Sockets \cup {NoSocket}]
  /\ call \in [Requests -> Call]

(* A pending call hangs on the connection that is registered for its       *)
(* machine: whatever takes that connection off the map, the close of an    *)
(* older one included, rejects the call at once, so no caller waits for an *)
(* answer that goes to a connection Core has given up.                     *)
PendingOnline ==
  \A r \in Requests : call[r].pc = "pending" =>
    call[r].sock # NoSocket /\ online[call[r].agent] = call[r].sock

(* A call waits for its machine only while the machine is off the map: a   *)
(* registration wakes every waiter, also the one of an evicting socket.    *)
WaitingOffline ==
  \A r \in Requests : call[r].pc = "waiting" => online[call[r].agent] = NoSocket

(* A command whose caller has gone (timer, abort, cancelAll) does not go   *)
(* on unnoticed: while its connection is the registered one, the agent     *)
(* answered it or was told to cancel it.                                   *)
NoOrphanCommand ==
  \A r \in Requests :
    call[r].kind = "exec" /\ call[r].pc = "ended" /\ call[r].atwork
      => \/ call[r].stopped
         \/ online[call[r].agent] # call[r].sock
         \/ sock[call[r].sock].link # "open"

(* Every call is answered or refused in the end, whatever the connections  *)
(* do: also when a dead socket is registered.                              *)
CallsEnd ==
  \A r \in Requests : call[r].pc \in {"waiting", "pending"} ~> call[r].pc = "ended"

(* The machine that connected last is online while its socket is open.     *)
ConnectedIsOnline ==
  \A s \in Sockets :
    sock[s].reg = "done" /\ sock[s].link = "open" => online[Owner[s]] = s
=============================================================================
