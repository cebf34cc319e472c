---------------------------- MODULE AgentProofs -----------------------------
(***************************************************************************)
(* Calls on agents and terminals, for any number of machines, sockets,     *)
(* calls, browser connections and terminal ids: the types, the connection  *)
(* of a pending call, the machine of a waiting one, that no command goes   *)
(* on unnoticed, the idle timer of a terminal nobody watches, and who      *)
(* watches.                                                                *)
(***************************************************************************)
EXTENDS AgentRequests, AgentTerminals, TLAPS

-----------------------------------------------------------------------------
(* Calls on agents.                                                        *)

(* What a call promises, given the connections it may hang on.             *)
CallWith(c, on, so) ==
  /\ c.pc = "pending" => c.sock # NoSocket /\ on[c.agent] = c.sock
  /\ c.pc = "waiting" => on[c.agent] = NoSocket /\ ~c.atwork
  /\ c.atwork => c.sock # NoSocket
  /\ c.sock # NoSocket => so[c.sock].reg = "done"
  /\ c.kind = "exec" /\ c.pc = "ended" /\ c.atwork =>
       c.stopped \/ on[c.agent] # c.sock \/ so[c.sock].link # "open"

CallOK(c) == CallWith(c, online, sock)

(* Only a socket that has registered is in the map, and it never registers *)
(* again.                                                                  *)
SocketsOK ==
  /\ \A s \in Sockets : sock[s].reg # "none" => sock[s].link # "unused"
  /\ \A a \in Agents : online[a] # NoSocket => sock[online[a]].reg = "done"

RequestInv == RequestTypeOK /\ SocketsOK /\ \A r \in Requests : CallOK(call[r])

LEMMA RequestInitial == RequestInit => RequestInv
<1> SUFFICES ASSUME RequestInit PROVE RequestInv
  OBVIOUS
<1>1. sock \in [Sockets -> Connection] /\ \A s \in Sockets : sock[s].reg = "none"
  BY DEF RequestInit, ConnInit, Unused, Connection
<1>2. online \in [Agents -> Sockets \cup {NoSocket}] /\ \A a \in Agents : online[a] = NoSocket
  BY DEF RequestInit, ConnInit
<1>3. ASSUME NEW a \in Agents
      PROVE  LET c == NewCall("plain", a, "free") IN
             c \in Call /\ c.pc = "free" /\ c.sock = NoSocket /\ ~c.atwork
  BY DEF NewCall, Call, CallKinds
<1>4. (CHOOSE a \in Agents : TRUE) \in Agents
  BY ConnectionAssumption
<1>5. \A r \in Requests : /\ call[r] \in Call /\ call[r].pc = "free"
                          /\ call[r].sock = NoSocket /\ ~call[r].atwork
  BY <1>3, <1>4 DEF RequestInit
<1>6. RequestTypeOK
  BY <1>1, <1>2, <1>5 DEF RequestTypeOK, RequestInit
<1> QED
  BY <1>1, <1>2, <1>5, <1>6 DEF RequestInv, SocketsOK, CallOK, CallWith

(* What the helpers make of a call.                                        *)
LEMMA EndedCall ==
  ASSUME NEW c \in Call
  PROVE  /\ Ended(c) \in Call /\ Ended(c).pc = "ended" /\ Ended(c).kind = c.kind
         /\ Ended(c).agent = c.agent /\ Ended(c).sock = c.sock
         /\ Ended(c).atwork = c.atwork /\ Ended(c).stopped = c.stopped
BY DEF Ended, Call

LEMMA SentCall ==
  ASSUME NEW c \in Call, NEW s \in Sockets
  PROVE  /\ Sent(c, s) \in Call /\ Sent(c, s).agent = c.agent
         /\ \/ Sent(c, s) = Ended(c)
            \/ Sent(c, s).pc = "pending" /\ Sent(c, s).sock = s
<1>1. (sock[s].link = "open") \in BOOLEAN
  OBVIOUS
<1> DEFINE new == [c EXCEPT !.pc = "pending", !.sock = s, !.atwork = (sock[s].link = "open")]
<1>2. new \in Call /\ new.agent = c.agent /\ new.pc = "pending" /\ new.sock = s
  BY <1>1 DEF Call
<1> HIDE DEF new
<1>3. Sent(c, s) = IF c.aborted THEN Ended(c) ELSE new
  BY DEF Sent, new
<1> QED
  BY <1>2, <1>3, EndedCall

LEMMA CancelledCall ==
  ASSUME NEW c \in Call
  PROVE  /\ Cancelled(c) \in Call /\ Cancelled(c).pc = "ended" /\ Cancelled(c).kind = c.kind
         /\ Cancelled(c).agent = c.agent /\ Cancelled(c).sock = c.sock
         /\ Cancelled(c).atwork = c.atwork
         /\ Cancelled(c).stopped =
              (c.kind = "exec" /\ online[c.agent] = c.sock /\ sock[c.sock].link = "open")
<1> DEFINE told == c.kind = "exec" /\ online[c.agent] = c.sock /\ sock[c.sock].link = "open"
<1>1. told \in BOOLEAN
  OBVIOUS
<1>2. Cancelled(c) = [Ended(c) EXCEPT !.stopped = told]
  BY DEF Cancelled
<1> HIDE DEF told
<1>3. [Ended(c) EXCEPT !.stopped = told] \in Call
  BY <1>1, EndedCall DEF Call
<1>4. LET d == [Ended(c) EXCEPT !.stopped = told] IN
      /\ d.pc = "ended" /\ d.kind = c.kind /\ d.agent = c.agent /\ d.sock = c.sock
      /\ d.atwork = c.atwork /\ d.stopped = told
  BY EndedCall DEF Call
<1> QED
  BY <1>2, <1>3, <1>4 DEF told

(* A cancelled call is told, or its connection is no longer the one.       *)
LEMMA CancelledOK ==
  ASSUME RequestInv, NEW c \in Call, CallOK(c), c.pc = "pending"
  PROVE  Cancelled(c) \in Call /\ CallOK(Cancelled(c))
<1> DEFINE d == Cancelled(c)
<1>1. /\ d \in Call /\ d.pc = "ended" /\ d.agent = c.agent /\ d.sock = c.sock
      /\ d.atwork = c.atwork /\ d.kind = c.kind
      /\ d.stopped = (c.kind = "exec" /\ online[c.agent] = c.sock /\ sock[c.sock].link = "open")
  BY CancelledCall
<1> HIDE DEF d
<1>2. CallOK(d)
  BY <1>1 DEF CallOK, CallWith
<1> QED
  BY <1>1, <1>2 DEF d

(* Steps that leave the connections alone.                                 *)
LEMMA CallsKeep ==
  ASSUME RequestInv, UNCHANGED connVars, call' \in [Requests -> Call],
         \A r \in Requests : CallOK(call'[r])
  PROVE  RequestInv'
BY DEF RequestInv, RequestTypeOK, SocketsOK, CallOK, CallWith, connVars

LEMMA OneCallKeeps ==
  ASSUME RequestInv, UNCHANGED connVars, NEW r \in Requests, NEW new \in Call,
         CallOK(new), call' = [call EXCEPT ![r] = new]
  PROVE  RequestInv'
<1>1. call' \in [Requests -> Call] /\ \A q \in Requests : call'[q] = IF q = r THEN new ELSE call[q]
  BY DEF RequestInv, RequestTypeOK
<1>2. \A q \in Requests : CallOK(call'[q])
  BY <1>1 DEF RequestInv
<1> QED
  BY <1>1, <1>2, CallsKeep

LEMMA StartCallStep ==
  ASSUME RequestInv, NEW r \in Requests, NEW kind \in CallKinds, NEW a \in Agents,
         StartCall(r, kind, a)
  PROVE  RequestInv'
<1>0. online[a] \in Sockets \cup {NoSocket}
  BY DEF RequestInv, RequestTypeOK
<1>1. \A pc \in {"waiting", "ended"} :
        /\ NewCall(kind, a, pc) \in Call /\ NewCall(kind, a, pc).sock = NoSocket
        /\ NewCall(kind, a, pc).pc = pc /\ NewCall(kind, a, pc).agent = a
        /\ ~NewCall(kind, a, pc).atwork
  BY DEF NewCall, Call
<1> DEFINE new == IF online[a] # NoSocket THEN Sent(NewCall(kind, a, "ended"), online[a])
                  ELSE IF kind = "plain" THEN NewCall(kind, a, "ended")
                  ELSE NewCall(kind, a, "waiting")
<1>2. call' = [call EXCEPT ![r] = new] /\ UNCHANGED connVars
  BY DEF StartCall
<1>3. new \in Call /\ CallOK(new)
  <2>1. CASE online[a] # NoSocket
    <3>1. online[a] \in Sockets /\ sock[online[a]].reg = "done"
      BY <1>0, <2>1 DEF RequestInv, SocketsOK
    <3> DEFINE c == NewCall(kind, a, "ended")
    <3>2. c \in Call /\ c.sock = NoSocket /\ c.pc = "ended" /\ c.agent = a /\ ~c.atwork
      BY <1>1
    <3> HIDE DEF c
    <3>3. /\ Sent(c, online[a]) \in Call /\ Sent(c, online[a]).agent = a
          /\ \/ Sent(c, online[a]) = Ended(c)
             \/ Sent(c, online[a]).pc = "pending" /\ Sent(c, online[a]).sock = online[a]
      BY <3>1, <3>2, SentCall
    <3>4. Ended(c).pc = "ended" /\ Ended(c).sock = NoSocket /\ ~Ended(c).atwork
      BY <3>2, EndedCall
    <3>5. CallOK(Sent(c, online[a]))
      BY <3>1, <3>3, <3>4, <2>1 DEF CallOK, CallWith
    <3>6. new = Sent(c, online[a])
      BY <2>1 DEF c
    <3> HIDE DEF new
    <3> QED
      BY <3>3, <3>5, <3>6
  <2>2. CASE online[a] = NoSocket /\ kind = "plain"
    BY <1>1, <2>2 DEF CallOK, CallWith
  <2>3. CASE online[a] = NoSocket /\ kind # "plain"
    BY <1>1, <2>3 DEF CallOK, CallWith
  <2> QED
    BY <2>1, <2>2, <2>3
<1> HIDE DEF new
<1> QED
  BY <1>2, <1>3, OneCallKeeps

LEMMA TimersStep ==
  ASSUME RequestInv, NEW r \in Requests, Timers(r)
  PROVE  RequestInv'
<1>0. call[r] \in Call /\ CallOK(call[r])
  BY DEF RequestInv, RequestTypeOK
<1>1. CASE OnlineGraceOver(r)
  <2>1. Ended(call[r]) \in Call /\ CallOK(Ended(call[r]))
    BY <1>0, <1>1, EndedCall DEF OnlineGraceOver, CallOK, CallWith
  <2> QED
    BY <1>1, <2>1, OneCallKeeps DEF OnlineGraceOver
<1>2. CASE CallTimeout(r)
  <2>1. Cancelled(call[r]) \in Call /\ CallOK(Cancelled(call[r]))
    BY <1>0, <1>2, CancelledOK DEF CallTimeout
  <2> QED
    BY <1>2, <2>1, OneCallKeeps DEF CallTimeout
<1> QED
  BY <1>1, <1>2 DEF Timers

LEMMA AgentAnswersStep ==
  ASSUME RequestInv, NEW r \in Requests, AgentAnswers(r)
  PROVE  RequestInv'
<1>0. call[r] \in Call /\ CallOK(call[r])
  BY DEF RequestInv, RequestTypeOK
<1>1. Answered(call[r]) \in Call /\ CallOK(Answered(call[r]))
  <2>1. CASE call[r].pc = "pending"
    <3> DEFINE c == Ended(call[r])
    <3>1. c \in Call /\ CallOK([c EXCEPT !.atwork = FALSE])
      BY <1>0, EndedCall DEF CallOK, CallWith, Call
    <3>2. Answered(call[r]) = [c EXCEPT !.atwork = FALSE]
      BY <2>1 DEF Answered
    <3> HIDE DEF c
    <3> QED
      BY <3>1, <3>2 DEF Call
  <2>2. CASE call[r].pc # "pending"
    BY <1>0, <2>2 DEF CallOK, CallWith, Call, Answered
  <2> QED
    BY <2>1, <2>2
<1> QED
  BY <1>1, OneCallKeeps DEF AgentAnswers

LEMMA AbortCallStep ==
  ASSUME RequestInv, NEW r \in Requests, AbortCall(r)
  PROVE  RequestInv'
<1>0. call[r] \in Call /\ CallOK(call[r]) /\ call[r].pc \in {"waiting", "pending"}
  BY DEF RequestInv, RequestTypeOK, AbortCall
<1> DEFINE c == IF call[r].pc = "pending" THEN Cancelled(call[r]) ELSE call[r]
           new == [c EXCEPT !.aborted = TRUE]
<1>1. c \in Call /\ CallOK(c)
  BY <1>0, CancelledOK
<1>2. call' = [call EXCEPT ![r] = new] /\ UNCHANGED connVars
  BY DEF AbortCall
<1> HIDE DEF c
<1>3. /\ new \in Call /\ new.pc = c.pc /\ new.kind = c.kind /\ new.agent = c.agent
      /\ new.sock = c.sock /\ new.atwork = c.atwork /\ new.stopped = c.stopped
  BY <1>1 DEF Call
<1> HIDE DEF new
<1>4. CallOK(new)
  BY <1>1, <1>3 DEF CallOK, CallWith
<1> QED
  BY <1>2, <1>3, <1>4, OneCallKeeps

LEMMA CancelAllStep ==
  ASSUME RequestInv, NEW a \in Agents, CancelAll(a)
  PROVE  RequestInv'
<1>0. \A r \in Requests : call[r] \in Call /\ CallOK(call[r])
  BY DEF RequestInv, RequestTypeOK
<1>1. \A r \in Requests : call[r].pc = "pending" =>
        Cancelled(call[r]) \in Call /\ CallOK(Cancelled(call[r]))
  BY <1>0, CancelledOK
<1>2. \A r \in Requests : call'[r] = call[r] \/ (call[r].pc = "pending" /\ call'[r] = Cancelled(call[r]))
  BY DEF CancelAll
<1>3. call' = [r \in Requests |-> call'[r]]
  BY DEF CancelAll
<1>4. call' \in [Requests -> Call] /\ \A r \in Requests : CallOK(call'[r])
  BY <1>0, <1>1, <1>2, <1>3
<1> QED
  BY <1>4, CallsKeep DEF CancelAll

(* Steps of the connections: a socket that registered stays so and does    *)
(* not open again; the machine of the call keeps its connection, or loses  *)
(* it when the call is over or waits for it no more.                       *)
SocketsKept ==
  \A s \in Sockets : sock[s].reg = "done" =>
    sock'[s].reg = "done" /\ (sock'[s].link = "open" => sock[s].link = "open")

LEMMA CallKept ==
  ASSUME RequestInv, SocketsKept, NEW c \in Call, CallOK(c),
         \/ online'[c.agent] = online[c.agent]
         \/ c.pc \notin {"pending", "waiting"} /\ online'[c.agent] = NoSocket
         \/ c.pc \notin {"pending", "waiting"} /\ online'[c.agent] # c.sock
  PROVE  CallWith(c, online', sock')
<1>1. c.sock # NoSocket => c.sock \in Sockets
  BY DEF Call
<1> QED
  BY <1>1 DEF CallOK, CallWith, SocketsKept

LEMMA ConnectionsKeep ==
  ASSUME RequestInv, sock' \in [Sockets -> Connection],
         online' \in [Agents -> Sockets \cup {NoSocket}], call' \in [Requests -> Call],
         SocketsOK', \A r \in Requests : CallWith(call'[r], online', sock')
  PROVE  RequestInv'
BY DEF RequestInv, RequestTypeOK, CallOK

LEMMA ConnectStep ==
  ASSUME RequestInv, NEW s \in Sockets, Connect(s) \/ AdmitAgent(s)
  PROVE  RequestInv'
<1>0. sock \in [Sockets -> Connection] /\ online' = online /\ call' = call
  BY DEF RequestInv, RequestTypeOK, Connect, AdmitAgent, Open, Present, Deny, Closed, Admit
<1>1. PICK new \in Connection :
        /\ sock' = [sock EXCEPT ![s] = new]
        /\ sock[s].reg = "done" => new.reg = "done"
        /\ new.link = "open" => sock[s].link \in {"unused", "open"}
        /\ new.reg # "none" => new.link # "unused"
  <2>0. /\ sock[s] \in Connection /\ (sock[s].reg # "none" => sock[s].link # "unused")
    BY <1>0 DEF RequestInv, SocketsOK
  <2>1. CASE Open(s)
    <3> DEFINE new == [sock[s] EXCEPT !.link = "open"]
    <3>1. new \in Connection /\ new.reg = sock[s].reg /\ new.link = "open"
      BY <2>0 DEF Connection
    <3>2. sock' = [sock EXCEPT ![s] = new] /\ sock[s].link = "unused"
      BY <1>0, <2>1 DEF Open
    <3> QED
      BY <2>0, <3>1, <3>2
  <2>2. CASE Present(s)
    <3> DEFINE new == [sock[s] EXCEPT !.reg = "find"]
    <3>1. new \in Connection /\ new.reg = "find" /\ new.link = sock[s].link
      BY <2>0 DEF Connection
    <3>2. sock' = [sock EXCEPT ![s] = new] /\ sock[s].link = "open" /\ sock[s].reg = "none"
      BY <1>0, <2>2 DEF Present
    <3> QED
      BY <2>0, <3>1, <3>2
  <2>3. CASE Deny(s)
    <3> DEFINE new == [Closing(sock[s]) EXCEPT !.reg = "denied"]
    <3>1. /\ Closing(sock[s]) \in Connection /\ Closing(sock[s]).link # "open"
          /\ (Closing(sock[s]).link = "unused" => sock[s].link = "unused")
      BY <2>0 DEF Connection, Closing
    <3>2. new \in Connection /\ new.reg = "denied" /\ new.link = Closing(sock[s]).link
      BY <3>1 DEF Connection
    <3>3. sock' = [sock EXCEPT ![s] = new] /\ sock[s].reg = "find"
      BY <1>0, <2>3 DEF Deny
    <3> QED
      BY <2>0, <3>1, <3>2, <3>3
  <2>4. CASE Closed(s)
    <3> DEFINE end == IF sock[s].reg \in {"admit", "done"} THEN "touch" ELSE "over"
               new == [sock[s] EXCEPT !.link = "closed", !.end = end]
    <3>0. end \in {"touch", "over"}
      OBVIOUS
    <3>2. sock' = [sock EXCEPT ![s] = new]
      BY <1>0, <2>4 DEF Closed
    <3> HIDE DEF end
    <3>1. new \in Connection /\ new.reg = sock[s].reg /\ new.link = "closed"
      BY <2>0, <3>0 DEF Connection
    <3> QED
      BY <2>0, <3>1, <3>2
  <2>5. CASE Admit(s)
    <3> DEFINE new == [sock[s] EXCEPT !.reg = "admit"]
    <3>1. new \in Connection /\ new.reg = "admit" /\ new.link = sock[s].link
      BY <2>0 DEF Connection
    <3>2. sock' = [sock EXCEPT ![s] = new] /\ sock[s].reg = "find"
      BY <1>0, <2>5 DEF Admit
    <3> QED
      BY <2>0, <3>1, <3>2
  <2> QED
    BY <2>1, <2>2, <2>3, <2>4, <2>5 DEF Connect, AdmitAgent
<1>2. sock' \in [Sockets -> Connection] /\ \A t \in Sockets : sock'[t] = IF t = s THEN new ELSE sock[t]
  BY <1>0, <1>1
<1>3. SocketsKept
  BY <1>1, <1>2 DEF RequestInv, SocketsOK, SocketsKept
<1>4. SocketsOK'
  BY <1>0, <1>1, <1>2 DEF RequestInv, SocketsOK, RequestTypeOK
<1>5. \A r \in Requests : CallWith(call[r], online', sock')
  BY <1>0, <1>3, CallKept DEF RequestInv, RequestTypeOK
<1> QED
  BY <1>0, <1>2, <1>4, <1>5, ConnectionsKeep DEF RequestInv, RequestTypeOK

(* What unregister() makes of the calls.                                   *)
LEMMA RejectedKept ==
  ASSUME RequestInv, SocketsKept, NEW a \in Agents,
         \A b \in Agents : b # a => online'[b] = online[b],
         \/ online'[a] = NoSocket
         \/ online'[a] \in Sockets /\ sock[online'[a]].reg # "done"
  PROVE  \A r \in Requests :
           /\ RejectedCalls(a)[r] \in Call
           /\ (call[r].pc = "waiting" /\ call[r].agent = a)
              \/ CallWith(RejectedCalls(a)[r], online', sock')
<1> TAKE r \in Requests
<1>0. call[r] \in Call /\ CallOK(call[r]) /\ call[r].agent \in Agents
  BY DEF RequestInv, RequestTypeOK, Call
<1>1. CASE call[r].pc = "pending" /\ call[r].agent = a
  <2> DEFINE c == Ended(call[r])
  <2>1. RejectedCalls(a)[r] = c
    BY <1>1 DEF RejectedCalls
  <2>2. /\ c \in Call /\ c.pc = "ended" /\ c.agent = a /\ c.sock = call[r].sock
        /\ c.sock # NoSocket /\ sock[c.sock].reg = "done" /\ c.sock \in Sockets
    BY <1>0, <1>1, EndedCall DEF CallOK, CallWith, Call
  <2> HIDE DEF c
  <2>3. CallWith(c, online', sock')
    BY <2>2 DEF CallWith, SocketsKept
  <2> QED
    BY <2>1, <2>2, <2>3
<1>2. CASE ~(call[r].pc = "pending" /\ call[r].agent = a)
  <2>1. RejectedCalls(a)[r] = call[r]
    BY <1>2 DEF RejectedCalls
  <2>2. CASE call[r].agent # a
    BY <2>1, <2>2, <1>0, CallKept
  <2>3. CASE call[r].agent = a /\ call[r].pc # "waiting"
    <3>1. online'[a] = NoSocket \/ online'[a] # call[r].sock
      BY <1>0 DEF CallOK, CallWith
    <3> QED
      BY <2>1, <2>3, <1>0, <1>2, <3>1, CallKept
  <2>4. CASE call[r].agent = a /\ call[r].pc = "waiting"
    BY <2>1, <2>4, <1>0
  <2> QED
    BY <2>2, <2>3, <2>4
<1> QED
  BY <1>1, <1>2

(* A machine whose socket leaves the map.                                  *)
LEMMA OfflineKeeps ==
  ASSUME RequestInv, SocketsKept, SocketsOK', sock' \in [Sockets -> Connection],
         NEW a \in Agents, online' = [online EXCEPT ![a] = NoSocket],
         call' = RejectedCalls(a)
  PROVE  RequestInv'
<1>1. /\ online' \in [Agents -> Sockets \cup {NoSocket}] /\ online'[a] = NoSocket
      /\ \A b \in Agents : b # a => online'[b] = online[b]
  BY DEF RequestInv, RequestTypeOK
<1>2. \A r \in Requests :
        /\ call'[r] \in Call
        /\ (call[r].pc = "waiting" /\ call[r].agent = a) \/ CallWith(call'[r], online', sock')
  BY <1>1, RejectedKept
<1>3. call' \in [Requests -> Call]
  BY <1>2 DEF RejectedCalls
<1>4. ASSUME NEW r \in Requests, call[r].pc = "waiting", call[r].agent = a
      PROVE  CallWith(call'[r], online', sock')
  <2>1. call'[r] = call[r] /\ call[r] \in Call /\ CallOK(call[r])
    BY <1>4 DEF RejectedCalls, RequestInv, RequestTypeOK
  <2>2. call[r].sock # NoSocket => call[r].sock \in Sockets
    BY <2>1 DEF Call
  <2> QED
    BY <1>1, <1>4, <2>1, <2>2 DEF CallOK, CallWith, SocketsKept
<1> QED
  BY <1>1, <1>2, <1>3, <1>4, ConnectionsKeep

LEMMA UnregisterStep ==
  ASSUME RequestInv, NEW s \in Sockets, Unregister(s)
  PROVE  RequestInv'
<1>0. sock \in [Sockets -> Connection] /\ sock[s] \in Connection /\ Owner[s] \in Agents
  BY ConnectionAssumption DEF RequestInv, RequestTypeOK
<1> DEFINE new == [sock[s] EXCEPT !.end = "over"]
<1>1. new \in Connection /\ new.reg = sock[s].reg /\ new.link = sock[s].link
  BY <1>0 DEF Connection
<1>2. sock' = [sock EXCEPT ![s] = new]
  BY <1>0 DEF Unregister, Unregistered
<1> HIDE DEF new
<1>3. sock' \in [Sockets -> Connection]
      /\ \A t \in Sockets : sock'[t].reg = sock[t].reg /\ sock'[t].link = sock[t].link
  BY <1>0, <1>1, <1>2
<1>4. online' = [online EXCEPT ![Owner[s]] = NoSocket] /\ call' = RejectedCalls(Owner[s])
  BY DEF Unregister, Unregistered
<1>5. SocketsKept /\ SocketsOK'
  BY <1>0, <1>3, <1>4 DEF SocketsKept, SocketsOK, RequestInv, RequestTypeOK
<1> QED
  BY <1>0, <1>3, <1>4, <1>5, OfflineKeeps

LEMMA DisconnectStep ==
  ASSUME RequestInv, NEW a \in Agents, Disconnect(a)
  PROVE  RequestInv'
<1>0. sock \in [Sockets -> Connection] /\ online[a] \in Sockets /\ sock[online[a]] \in Connection
  BY DEF RequestInv, RequestTypeOK, Disconnect, Disconnected
<1> DEFINE new == Closing(sock[online[a]])
<1>1. /\ new \in Connection /\ new.reg = sock[online[a]].reg /\ new.link # "open"
      /\ new.link = "unused" => sock[online[a]].link = "unused"
  BY <1>0 DEF Connection, Closing
<1>2. sock' = [sock EXCEPT ![online[a]] = new]
  BY <1>0 DEF Disconnect, Disconnected
<1> HIDE DEF new
<1>3. /\ sock' \in [Sockets -> Connection]
      /\ \A t \in Sockets : /\ sock'[t].reg = sock[t].reg
                            /\ sock'[t].link = "open" => sock[t].link = "open"
                            /\ sock'[t].link = "unused" => sock[t].link = "unused"
  BY <1>0, <1>1, <1>2
<1>4. online' = [online EXCEPT ![a] = NoSocket] /\ call' = RejectedCalls(a)
  BY DEF Disconnect, Disconnected
<1>5. SocketsKept /\ SocketsOK'
  BY <1>0, <1>3, <1>4 DEF SocketsKept, SocketsOK, RequestInv, RequestTypeOK
<1> QED
  BY <1>3, <1>4, <1>5, OfflineKeeps

LEMMA RegisterStep ==
  ASSUME RequestInv, NEW s \in Sockets, Register(s)
  PROVE  RequestInv'
<1> DEFINE a == Owner[s]
<1>0. sock \in [Sockets -> Connection] /\ sock[s] \in Connection /\ a \in Agents /\ s # NoSocket
      /\ sock[s].reg = "admit"
  BY ConnectionAssumption DEF RequestInv, RequestTypeOK, Register, Registered
<1>1. online' = [online EXCEPT ![a] = s] /\ call' = Woken(a, s)
  BY DEF Register, Registered
<1>2. ASSUME NEW t \in Sockets
      PROVE  /\ sock'[t] \in Connection
             /\ t # s => sock'[t].reg = sock[t].reg
             /\ t = s => sock'[t].reg = "done"
             /\ sock'[t].link = "open" => sock[t].link = "open"
             /\ sock'[t].link = "unused" => sock[t].link = "unused"
  <2>1. CASE t = s
    <3> DEFINE new == [sock[s] EXCEPT !.reg = "done"]
    <3>1. new \in Connection /\ new.reg = "done" /\ new.link = sock[s].link
      BY <1>0 DEF Connection
    <3>2. sock'[t] = new
      BY <2>1 DEF Register, Registered
    <3> QED
      BY <2>1, <3>1, <3>2
  <2>2. CASE t # s
    <3>1. sock'[t] = sock[t] \/ sock'[t] = Closing(sock[t])
      BY <2>2 DEF Register, Registered
    <3>2. sock[t] \in Connection
      BY <1>0
    <3> QED
      BY <2>2, <3>1, <3>2 DEF Closing, Connection
  <2> QED
    BY <2>1, <2>2
<1>3. sock' \in [Sockets -> Connection]
  BY <1>2 DEF Register, Registered
<1> HIDE DEF a
<1>4. /\ online' \in [Agents -> Sockets \cup {NoSocket}] /\ online'[a] = s
      /\ \A b \in Agents : b # a => online'[b] = online[b]
  BY <1>0, <1>1 DEF RequestInv, RequestTypeOK
<1>5. SocketsKept
  BY <1>0, <1>2 DEF SocketsKept
<1>6. SocketsOK'
  BY <1>0, <1>2, <1>4 DEF SocketsOK, RequestInv, RequestTypeOK
<1>7. \A r \in Requests :
        /\ RejectedCalls(a)[r] \in Call
        /\ (call[r].pc = "waiting" /\ call[r].agent = a)
           \/ CallWith(RejectedCalls(a)[r], online', sock')
  BY <1>0, <1>4, <1>5, RejectedKept
<1>8. ASSUME NEW r \in Requests
      PROVE  call'[r] \in Call /\ CallWith(call'[r], online', sock')
  <2>1. CASE call[r].pc = "waiting" /\ call[r].agent = a
    <3> DEFINE c == Sent(call[r], s)
    <3>0. call[r] \in Call /\ ~call[r].atwork /\ call[r].pc = "waiting"
          /\ (call[r].sock # NoSocket => call[r].sock \in Sockets /\ sock[call[r].sock].reg = "done")
      BY <2>1 DEF RequestInv, RequestTypeOK, CallOK, CallWith, Call
    <3>1. call'[r] = c
      BY <1>1, <2>1 DEF Woken
    <3>2. /\ c \in Call /\ c.agent = a
          /\ c = Ended(call[r]) \/ (c.pc = "pending" /\ c.sock = s)
      BY <3>0, <2>1, SentCall
    <3>3. /\ Ended(call[r]).pc = "ended" /\ ~Ended(call[r]).atwork
          /\ Ended(call[r]).sock = call[r].sock
      BY <3>0, EndedCall
    <3> HIDE DEF c
    <3>4. CallWith(c, online', sock')
      BY <1>0, <1>2, <1>4, <1>5, <3>0, <3>2, <3>3 DEF CallWith, SocketsKept
    <3> QED
      BY <3>1, <3>2, <3>4
  <2>2. CASE ~(call[r].pc = "waiting" /\ call[r].agent = a)
    <3>1. call'[r] = RejectedCalls(a)[r]
      BY <1>1, <2>2 DEF Woken
    <3> QED
      BY <1>7, <2>2, <3>1
  <2> QED
    BY <2>1, <2>2
<1>9. call' \in [Requests -> Call]
  BY <1>1, <1>8 DEF Woken
<1> QED
  BY <1>3, <1>4, <1>6, <1>8, <1>9, ConnectionsKeep

LEMMA RequestStep ==
  ASSUME RequestInv, [RequestNext]_requestVars
  PROVE  RequestInv'
<1>1. CASE UNCHANGED requestVars
  <2>1. UNCHANGED connVars /\ call' = call
    BY <1>1 DEF requestVars
  <2>2. call' \in [Requests -> Call] /\ \A r \in Requests : CallOK(call'[r])
    BY <2>1 DEF RequestInv, RequestTypeOK
  <2> QED
    BY <2>1, <2>2, CallsKeep
<1>2. CASE \E s \in Sockets : Connect(s) \/ Handlers(s)
  BY <1>2, ConnectStep, RegisterStep, UnregisterStep DEF Handlers
<1>3. CASE \E a \in Agents : Disconnect(a) \/ CancelAll(a)
  BY <1>3, DisconnectStep, CancelAllStep
<1>4. CASE \E r \in Requests : Timers(r) \/ AgentAnswers(r) \/ AbortCall(r)
  BY <1>4, TimersStep, AgentAnswersStep, AbortCallStep
<1>5. CASE \E r \in Requests, kind \in CallKinds, a \in Agents : StartCall(r, kind, a)
  BY <1>5, StartCallStep
<1> QED
  BY <1>1, <1>2, <1>3, <1>4, <1>5 DEF RequestNext

LEMMA RequestInvariant == RequestSpec => []RequestInv
  BY RequestInitial, RequestStep, PTL DEF RequestSpec

(* Sockets, the map of online machines and calls stay of their types.      *)
THEOREM RequestTypeCorrect == RequestSpec => []RequestTypeOK
<1>1. RequestInv => RequestTypeOK
  BY DEF RequestInv
<1> QED
  BY <1>1, RequestInvariant, PTL

(* No caller waits for an answer over a connection that Core has given up. *)
THEOREM PendingOnlineKept == RequestSpec => []PendingOnline
<1>1. RequestInv => PendingOnline
  BY DEF RequestInv, CallOK, CallWith, PendingOnline
<1> QED
  BY <1>1, RequestInvariant, PTL

(* A registration wakes every call that waits for the machine.             *)
THEOREM WaitingOfflineKept == RequestSpec => []WaitingOffline
<1>1. RequestInv => WaitingOffline
  BY DEF RequestInv, CallOK, CallWith, WaitingOffline
<1> QED
  BY <1>1, RequestInvariant, PTL

(* A command nobody waits for was answered or cancelled, or its connection *)
(* is lost.                                                                *)
THEOREM NoOrphanCommandKept == RequestSpec => []NoOrphanCommand
<1>1. RequestInv => NoOrphanCommand
  BY DEF RequestInv, CallOK, CallWith, NoOrphanCommand
<1> QED
  BY <1>1, RequestInvariant, PTL

-----------------------------------------------------------------------------
(* Terminals.                                                              *)

(* The subscriber has the terminal among the ids it will detach, or his    *)
(* request outlived his connection; a connection asks after it opened.     *)
Subscribed ==
  /\ \A p \in Terms : pty[p].live /\ pty[p].emit # NoTab =>
       \/ tab[pty[p].emit].ws = "open" /\ p \in tab[pty[p].emit].ids
       \/ tab[pty[p].emit].late
  /\ \A v \in Tabs : tab[v].asking # {} => tab[v].ws # "new"

TerminalInv == TerminalTypeOK /\ IdleTimed /\ Subscribed

LEMMA TerminalInitial == TerminalInit => TerminalInv
<1> SUFFICES ASSUME TerminalInit PROVE TerminalInv
  OBVIOUS
<1>1. NoPty \in Pty /\ ~NoPty.live
  BY DEF NoPty, Pty
<1>2. TerminalTypeOK
  BY <1>1 DEF TerminalInit, TerminalTypeOK, Tab
<1> QED
  BY <1>1, <1>2 DEF TerminalInit, TerminalInv, IdleTimed, Subscribed, LiveTerms

(* A terminal that is killed disturbs no other.                            *)
LEMMA KilledKeeps ==
  ASSUME TerminalInv, NEW p \in Terms, Killed(p), UNCHANGED <<tab, machineUp, watcher>>,
         leftover' \subseteq Terms
  PROVE  TerminalInv'
<1>0. pty \in [Terms -> Pty] /\ NoPty \in Pty /\ ~NoPty.live
  BY DEF TerminalInv, TerminalTypeOK, NoPty, Pty
<1>1. pty' \in [Terms -> Pty] /\ ~pty'[p].live /\ \A q \in Terms : q # p => pty'[q] = pty[q]
  BY <1>0 DEF Killed
<1> QED
  BY <1>1 DEF TerminalInv, TerminalTypeOK, IdleTimed, Subscribed, LiveTerms

(* A step of one connection that gives it no terminal and takes none.      *)
LEMMA TabKeeps ==
  ASSUME TerminalInv, NEW v \in Tabs, NEW new \in Tab, tab' = [tab EXCEPT ![v] = new],
         UNCHANGED <<pty, leftover, machineUp, watcher>>,
         new.ids = tab[v].ids, new.late = tab[v].late,
         new.ws = tab[v].ws \/ (tab[v].ws = "new" /\ new.ws = "open"),
         new.asking # {} => new.ws # "new"
  PROVE  TerminalInv'
<1>0. tab \in [Tabs -> Tab] /\ tab' \in [Tabs -> Tab] /\ tab'[v] = new
      /\ \A u \in Tabs : u # v => tab'[u] = tab[u]
  BY DEF TerminalInv, TerminalTypeOK
<1>1. \A p \in Terms : pty[p].emit \in Tabs \cup {NoTab}
  BY DEF TerminalInv, TerminalTypeOK, Pty
<1>2. TerminalTypeOK' /\ IdleTimed'
  BY <1>0 DEF TerminalInv, TerminalTypeOK, IdleTimed, LiveTerms
<1>3. \A u \in Tabs : /\ tab'[u].ids = tab[u].ids /\ tab'[u].late = tab[u].late
                     /\ tab[u].ws = "open" => tab'[u].ws = "open"
  BY <1>0
<1>4. ASSUME NEW p \in Terms, pty'[p].live, pty'[p].emit # NoTab
      PROVE  \/ tab'[pty'[p].emit].ws = "open" /\ p \in tab'[pty'[p].emit].ids
             \/ tab'[pty'[p].emit].late
  BY <1>1, <1>3, <1>4 DEF TerminalInv, Subscribed
<1>5. \A u \in Tabs : tab'[u].asking # {} => tab'[u].ws # "new"
  BY <1>0 DEF TerminalInv, Subscribed
<1> QED
  BY <1>2, <1>4, <1>5 DEF TerminalInv, Subscribed

LEMMA PtyStartStep ==
  ASSUME TerminalInv, NEW v \in Tabs, NEW p \in Terms, PtyStart(v, p)
  PROVE  TerminalInv'
<1>0. /\ tab \in [Tabs -> Tab] /\ pty \in [Terms -> Pty] /\ tab[v].ws \in {"new", "open", "closed"}
      /\ tab[v].ws # "new" /\ v # NoTab
  BY TerminalAssumption DEF TerminalInv, TerminalTypeOK, Subscribed, PtyStart, Tab
<1> DEFINE new == [tab[v] EXCEPT !.asking = @ \ {p}, !.ids = @ \cup {p},
                                 !.late = @ \/ tab[v].ws = "closed"]
<1>1. new \in Tab /\ new.ws = tab[v].ws /\ new.asking = tab[v].asking \ {p}
      /\ new.ids = tab[v].ids \cup {p} /\ new.late = (tab[v].late \/ tab[v].ws = "closed")
  BY <1>0 DEF Tab
<1> HIDE DEF new
<1>2. tab' = [tab EXCEPT ![v] = new]
  BY <1>0 DEF PtyStart, new
<1>3. tab' \in [Tabs -> Tab] /\ tab'[v] = new /\ \A u \in Tabs : u # v => tab'[u] = tab[u]
  BY <1>0, <1>1, <1>2
<1>4. PICK t \in Pty : /\ pty' = [pty EXCEPT ![p] = t]
                       /\ t.live => t.emit = v /\ ~t.idle
  <2>1. CASE pty[p].live
    <3> DEFINE t == [pty[p] EXCEPT !.emit = v, !.idle = FALSE]
    <3>1. t \in Pty /\ t.emit = v /\ ~t.idle
      BY <1>0 DEF Pty
    <3> HIDE DEF t
    <3>2. pty' = [pty EXCEPT ![p] = t]
      BY <2>1, <1>0 DEF PtyStart, t
    <3> QED
      BY <3>1, <3>2
  <2>2. CASE ~pty[p].live
    <3> DEFINE fresh == [live |-> TRUE, emit |-> v, idle |-> FALSE, input |-> TRUE]
    <3>1. fresh \in Pty /\ fresh.emit = v /\ ~fresh.idle /\ pty[p] \in Pty
      BY <1>0 DEF Pty
    <3> HIDE DEF fresh
    <3>2. pty' = [pty EXCEPT ![p] = fresh] \/ pty' = [pty EXCEPT ![p] = pty[p]]
      BY <2>2 DEF PtyStart, fresh
    <3> QED
      BY <3>1, <3>2, <2>2
  <2> QED
    BY <2>1, <2>2
<1>5. pty' \in [Terms -> Pty] /\ pty'[p] = t /\ \A q \in Terms : q # p => pty'[q] = pty[q]
  BY <1>0, <1>4
<1>6. TerminalTypeOK'
  BY <1>0, <1>3, <1>5 DEF TerminalInv, TerminalTypeOK, PtyStart
<1>7. IdleTimed'
  BY <1>0, <1>4, <1>5 DEF TerminalInv, IdleTimed, LiveTerms, Pty
<1>8. \A q \in Terms : pty[q].emit \in Tabs \cup {NoTab}
  BY <1>0 DEF Pty
<1>9. \A u \in Tabs : tab'[u].ws = tab[u].ws /\ tab[u].ids \subseteq tab'[u].ids
                      /\ (tab[u].late => tab'[u].late) /\ tab'[u].asking \subseteq tab[u].asking
  BY <1>1, <1>3
<1>10. (tab'[v].ws = "open" /\ p \in tab'[v].ids) \/ tab'[v].late
  BY <1>0, <1>1, <1>3
<1>11. ASSUME NEW q \in Terms, pty'[q].live, pty'[q].emit # NoTab
       PROVE  \/ tab'[pty'[q].emit].ws = "open" /\ q \in tab'[pty'[q].emit].ids
              \/ tab'[pty'[q].emit].late
  <2>1. CASE q = p
    BY <2>1, <1>4, <1>5, <1>10, <1>11
  <2>2. CASE q # p
    BY <2>2, <1>5, <1>8, <1>9, <1>11 DEF TerminalInv, Subscribed
  <2> QED
    BY <2>1, <2>2
<1>12. \A u \in Tabs : tab'[u].asking # {} => tab'[u].ws # "new"
  BY <1>9 DEF TerminalInv, Subscribed
<1> QED
  BY <1>6, <1>7, <1>11, <1>12 DEF TerminalInv, Subscribed

LEMMA CloseTabStep ==
  ASSUME TerminalInv, NEW v \in Tabs, CloseTab(v)
  PROVE  TerminalInv'
<1>0. tab \in [Tabs -> Tab] /\ pty \in [Terms -> Pty] /\ tab[v].ws = "open"
  BY DEF TerminalInv, TerminalTypeOK, CloseTab
<1> DEFINE new == [tab[v] EXCEPT !.ws = "closed", !.ids = {}]
<1>1. new \in Tab /\ new.ws = "closed" /\ new.late = tab[v].late
  BY <1>0 DEF Tab
<1> HIDE DEF new
<1>2. tab' = [tab EXCEPT ![v] = new]
  BY <1>0 DEF CloseTab, new
<1>3. tab' \in [Tabs -> Tab] /\ tab'[v] = new /\ \A u \in Tabs : u # v => tab'[u] = tab[u]
  BY <1>0, <1>1, <1>2
<1>4. ASSUME NEW q \in Terms
      PROVE  /\ Detached(pty[q]) \in Pty /\ Detached(pty[q]).live = pty[q].live
             /\ \/ Detached(pty[q]) = pty[q] /\ (pty[q].live => pty[q].emit = NoTab)
                \/ Detached(pty[q]).emit = NoTab /\ Detached(pty[q]).idle
  BY <1>0 DEF Detached, Pty
<1>5. \A q \in Terms : pty'[q] = IF q \in tab[v].ids THEN Detached(pty[q]) ELSE pty[q]
  BY DEF CloseTab
<1>6. pty' \in [Terms -> Pty]
  BY <1>0, <1>4 DEF CloseTab
<1>7. TerminalTypeOK'
  BY <1>3, <1>6 DEF TerminalInv, TerminalTypeOK, CloseTab
<1>8. IdleTimed'
  BY <1>4, <1>5, <1>6 DEF TerminalInv, IdleTimed, LiveTerms, Pty
<1>9. \A q \in Terms : pty[q].emit \in Tabs \cup {NoTab}
  BY <1>0 DEF Pty
<1>10. ASSUME NEW q \in Terms, pty'[q].live, pty'[q].emit # NoTab
       PROVE  \/ tab'[pty'[q].emit].ws = "open" /\ q \in tab'[pty'[q].emit].ids
              \/ tab'[pty'[q].emit].late
  <2>1. pty'[q] = pty[q] /\ q \notin tab[v].ids
    BY <1>4, <1>5, <1>10
  <2>2. CASE pty[q].emit = v
    BY <2>1, <2>2, <1>1, <1>3, <1>10 DEF TerminalInv, Subscribed
  <2>3. CASE pty[q].emit # v
    BY <2>1, <2>3, <1>3, <1>9, <1>10 DEF TerminalInv, Subscribed
  <2> QED
    BY <2>2, <2>3
<1>11. \A u \in Tabs : tab'[u].asking # {} => tab'[u].ws # "new"
  BY <1>1, <1>3 DEF TerminalInv, Subscribed
<1> QED
  BY <1>7, <1>8, <1>10, <1>11 DEF TerminalInv, Subscribed

LEMMA KillPtyStep ==
  ASSUME TerminalInv, NEW v \in Tabs, NEW p \in Terms, KillPty(v, p)
  PROVE  TerminalInv'
<1>0. /\ tab \in [Tabs -> Tab] /\ pty \in [Terms -> Pty] /\ NoPty \in Pty /\ ~NoPty.live
      /\ leftover' = leftover /\ machineUp' = machineUp /\ watcher' = watcher
  BY DEF TerminalInv, TerminalTypeOK, KillPty, NoPty, Pty
<1> DEFINE new == [tab[v] EXCEPT !.ids = @ \ {p}]
<1>1. new \in Tab /\ new.ws = tab[v].ws /\ new.asking = tab[v].asking
      /\ new.ids = tab[v].ids \ {p} /\ new.late = tab[v].late
  BY <1>0 DEF Tab
<1> HIDE DEF new
<1>2. tab' = [tab EXCEPT ![v] = new]
  BY <1>0 DEF KillPty, new
<1>3. tab' \in [Tabs -> Tab] /\ tab'[v] = new /\ \A u \in Tabs : u # v => tab'[u] = tab[u]
  BY <1>0, <1>1, <1>2
<1>4. pty' \in [Terms -> Pty] /\ ~pty'[p].live /\ \A q \in Terms : q # p => pty'[q] = pty[q]
  BY <1>0 DEF KillPty, Killed
<1>5. TerminalTypeOK' /\ IdleTimed'
  BY <1>0, <1>3, <1>4 DEF TerminalInv, TerminalTypeOK, IdleTimed, LiveTerms
<1>6. \A q \in Terms : pty[q].emit \in Tabs \cup {NoTab}
  BY <1>0 DEF Pty
<1>7. \A u \in Tabs : tab'[u].ws = tab[u].ws /\ tab'[u].late = tab[u].late
                      /\ tab'[u].asking = tab[u].asking
                      /\ \A q \in Terms : q # p /\ q \in tab[u].ids => q \in tab'[u].ids
  BY <1>1, <1>3
<1>8. ASSUME NEW q \in Terms, pty'[q].live, pty'[q].emit # NoTab
      PROVE  \/ tab'[pty'[q].emit].ws = "open" /\ q \in tab'[pty'[q].emit].ids
             \/ tab'[pty'[q].emit].late
  <2>1. q # p /\ pty'[q] = pty[q]
    BY <1>4, <1>8
  <2> QED
    BY <2>1, <1>6, <1>7, <1>8 DEF TerminalInv, Subscribed
<1> QED
  BY <1>5, <1>7, <1>8 DEF TerminalInv, Subscribed

LEMMA MachineGoneStep ==
  ASSUME TerminalInv, MachineGone
  PROVE  TerminalInv'
<1>1. NoPty \in Pty /\ ~NoPty.live
  BY DEF NoPty, Pty
<1>2. pty' \in [Terms -> Pty] /\ \A p \in Terms : ~pty'[p].live
  BY <1>1 DEF MachineGone
<1>3. leftover' \subseteq Terms
  BY DEF MachineGone, LiveTerms, TerminalInv, TerminalTypeOK
<1> QED
  BY <1>2, <1>3 DEF MachineGone, TerminalInv, TerminalTypeOK, IdleTimed, Subscribed, LiveTerms

LEMMA TabStep ==
  ASSUME TerminalInv, NEW v \in Tabs,
         OpenTab(v) \/ \E p \in Terms : AskPty(v, p) \/ RefusePty(v, p)
  PROVE  TerminalInv'
<1>0. tab \in [Tabs -> Tab] /\ tab[v] \in Tab
  BY DEF TerminalInv, TerminalTypeOK
<1>1. CASE OpenTab(v)
  <2> DEFINE new == [tab[v] EXCEPT !.ws = "open"]
  <2>1. new \in Tab /\ new.ids = tab[v].ids /\ new.late = tab[v].late /\ new.ws = "open"
    BY <1>0 DEF Tab
  <2> HIDE DEF new
  <2>2. tab' = [tab EXCEPT ![v] = new] /\ tab[v].ws = "new" /\ UNCHANGED <<pty, leftover, machineUp, watcher>>
    BY <1>0, <1>1 DEF OpenTab, new
  <2> QED
    BY <2>1, <2>2, TabKeeps
<1>2. ASSUME NEW p \in Terms, AskPty(v, p)
      PROVE  TerminalInv'
  <2> DEFINE new == [tab[v] EXCEPT !.asking = @ \cup {p}]
  <2>1. new \in Tab /\ new.ids = tab[v].ids /\ new.late = tab[v].late /\ new.ws = tab[v].ws
    BY <1>0 DEF Tab
  <2> HIDE DEF new
  <2>2. tab' = [tab EXCEPT ![v] = new] /\ tab[v].ws = "open" /\ UNCHANGED <<pty, leftover, machineUp, watcher>>
    BY <1>0, <1>2 DEF AskPty, new
  <2> QED
    BY <2>1, <2>2, TabKeeps
<1>3. ASSUME NEW p \in Terms, RefusePty(v, p)
      PROVE  TerminalInv'
  <2> DEFINE new == [tab[v] EXCEPT !.asking = @ \ {p}]
  <2>1. new \in Tab /\ new.ids = tab[v].ids /\ new.late = tab[v].late /\ new.ws = tab[v].ws
    BY <1>0 DEF Tab
  <2> HIDE DEF new
  <2>2. tab' = [tab EXCEPT ![v] = new] /\ tab[v].asking # {} /\ UNCHANGED <<pty, leftover, machineUp, watcher>>
    BY <1>0, <1>3 DEF RefusePty, new
  <2>3. tab[v].ws # "new"
    BY <2>2 DEF TerminalInv, Subscribed
  <2> QED
    BY <2>1, <2>2, <2>3, TabKeeps
<1> QED
  BY <1>1, <1>2, <1>3

LEMMA TimerStep ==
  ASSUME TerminalInv, NEW p \in Terms,
         IdleOver(p) \/ InputOver(p) \/ LeftoverOver(p) \/ PtyExit(p)
  PROVE  TerminalInv'
<1>1. Killed(p) /\ UNCHANGED <<tab, machineUp, watcher>>
  BY DEF IdleOver, InputOver, LeftoverOver, PtyExit
<1>2. leftover' \subseteq Terms
  BY DEF IdleOver, InputOver, LeftoverOver, PtyExit, TerminalInv, TerminalTypeOK
<1> QED
  BY <1>1, <1>2, KilledKeeps

LEMMA TerminalInvStep ==
  ASSUME TerminalInv, [TerminalNext]_terminalVars
  PROVE  TerminalInv'
<1>1. CASE UNCHANGED terminalVars
  BY <1>1 DEF terminalVars, TerminalInv, TerminalTypeOK, IdleTimed, Subscribed, LiveTerms
<1>2. CASE MachineBack
  BY <1>2 DEF MachineBack, TerminalInv, TerminalTypeOK, IdleTimed, Subscribed, LiveTerms
<1> QED
  BY <1>1, <1>2, TabStep, PtyStartStep, CloseTabStep, KillPtyStep, MachineGoneStep, TimerStep
  DEF TerminalNext

LEMMA TerminalInvariant == TerminalSpec => []TerminalInv
  BY TerminalInitial, TerminalInvStep, PTL DEF TerminalSpec

(* Browser connections, terminals and timers stay of their types.          *)
THEOREM TerminalTypeCorrect == TerminalSpec => []TerminalTypeOK
<1>1. TerminalInv => TerminalTypeOK
  BY DEF TerminalInv
<1> QED
  BY <1>1, TerminalInvariant, PTL

(* A terminal is timed while nobody is subscribed, and whoever is          *)
(* subscribed is open or asked before his connection closed, for any       *)
(* number of connections that start, close and take over terminals.        *)
THEOREM ForgottenTimedKept == TerminalSpec => []ForgottenTimed
<1>1. TerminalInv => ForgottenTimed
  BY DEF TerminalInv, ForgottenTimed, Subscribed, SubscriberOpen, LiveTerms
<1> QED
  BY <1>1, TerminalInvariant, PTL
=============================================================================
