-------------------------- MODULE AgentConnections --------------------------
(***************************************************************************)
(* Connections of companion agents (apps/server/src/agents/wsAgent.ts) and *)
(* the map "online" of AgentRegistry.  The message handler of a socket     *)
(* awaits the database while it registers, and the close handler awaits    *)
(* touchAgent before it takes the agent off the map; the two run side by   *)
(* side, for every socket the machine has opened.                          *)
(***************************************************************************)
EXTENDS Naturals, FiniteSets

CONSTANTS
  Agents,     \* machines with a token
  Sockets,    \* connections they may open
  Owner,      \* the machine that opens a socket
  NoSocket    \* the machine is not in the map

ASSUME ConnectionAssumption ==
  /\ Agents # {} /\ Owner \in [Sockets -> Agents]
  /\ NoSocket \notin Sockets

VARIABLES
  sock,       \* a socket and its two handlers
  online      \* AgentRegistry.online: the registered socket of a machine

connVars == <<sock, online>>

(* link: "closing" is a close() of ours whose event has not come.  reg: the *)
(* message handler, at findAgentByTokenHash ("find"), at the calls before  *)
(* register() ("admit"), refused, or through.  end: the close handler, at  *)
(* touchAgent, or through.                                                 *)
Connection ==
  [link : {"unused", "open", "closing", "closed"},
   reg : {"none", "find", "admit", "denied", "done"},
   end : {"none", "touch", "over"}]

Unused == [link |-> "unused", reg |-> "none", end |-> "none"]

ConnInit ==
  /\ sock = [s \in Sockets |-> Unused]
  /\ online = [a \in Agents |-> NoSocket]

(* close() of a socket that is already closed does nothing.                *)
Closing(c) == IF c.link = "open" THEN [c EXCEPT !.link = "closing"] ELSE c

Open(s) ==
  /\ sock[s].link = "unused"
  /\ sock' = [sock EXCEPT ![s].link = "open"]
  /\ UNCHANGED online

Present(s) ==
  /\ sock[s].link = "open" /\ sock[s].reg = "none"
  /\ sock' = [sock EXCEPT ![s].reg = "find"]
  /\ UNCHANGED online

(* The token is known; from here the close handler knows the agent.        *)
Admit(s) ==
  /\ sock[s].reg = "find"
  /\ sock' = [sock EXCEPT ![s].reg = "admit"]
  /\ UNCHANGED online

Deny(s) ==
  /\ sock[s].reg = "find"
  /\ sock' = [sock EXCEPT ![s] = [Closing(@) EXCEPT !.reg = "denied"]]
  /\ UNCHANGED online

(* register() puts the socket in the map whatever became of it during the  *)
(* awaits, and closes the connection it evicts.                            *)
Registered(s) ==
  LET prev == online[Owner[s]] IN
  /\ sock[s].reg = "admit"
  /\ sock' = [t \in Sockets |->
       IF t = s THEN [sock[s] EXCEPT !.reg = "done"]
       ELSE IF t = prev THEN Closing(sock[t]) ELSE sock[t]]
  /\ online' = [online EXCEPT ![Owner[s]] = s]

(* The close event: the peer is gone or has answered our close().          *)
Closed(s) ==
  /\ sock[s].link \in {"open", "closing"}
  /\ sock' = [sock EXCEPT ![s] =
       [@ EXCEPT !.link = "closed",
                 !.end = IF sock[s].reg \in {"admit", "done"} THEN "touch" ELSE "over"]]
  /\ UNCHANGED online

(* The close handler goes on: unregister(agentId), whichever socket the    *)
(* map holds by now.                                                       *)
Unregistered(s) ==
  /\ sock[s].end = "touch"
  /\ sock' = [sock EXCEPT ![s].end = "over"]
  /\ online' = [online EXCEPT ![Owner[s]] = NoSocket]

(* The machine is deleted.                                                 *)
Disconnected(a) ==
  /\ online[a] # NoSocket
  /\ sock' = [sock EXCEPT ![online[a]] = Closing(@)]
  /\ online' = [online EXCEPT ![a] = NoSocket]
=============================================================================
