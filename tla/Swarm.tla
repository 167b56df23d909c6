-------------------------------- MODULE Swarm --------------------------------
(* The whole control plane: the test manager and the hub of the server, the  *)
(* test control of every agent, and the connections between them.            *)
(*                                                                           *)
(* An agent keeps its reports in an outbox that outlives its connections and *)
(* opens a new connection when one is lost.  Each connection carries frames  *)
(* in order in both directions until one end gives up; the two ends notice   *)
(* at different times, and what was on the way is lost.  The send queue of   *)
(* the server's end (AgentConn.send) and what its socket holds are one       *)
(* bounded sequence.                                                         *)
EXTENDS TestManager, AgentTest, Hub, Sequences

CONSTANTS SendCap,     \* room in a connection's send queue (64 in the code)
          MaxStops     \* bound: calls of Stop that find an active test

ASSUME SwarmBounds == /\ SendCap \in Nat \ {0}
                      /\ MaxStops \in Nat

VARIABLES
  dialled,  \* how many connections each agent has opened; the last is the current one
  session,  \* whether the agent's session on its last connection is open
  outbox,   \* agent.out.items: the tests whose final reports are not written yet
  up,       \* reports written to each connection and not read by the server
  down,     \* frames queued for the agent on its current connection
  calls     \* calls of Stop so far that found an active test

linkVars == <<dialled, session, outbox, up, down>>
vars == <<tmVars, agentVars, hubVars, linkVars, calls>>

Frames  == [type : {"start", "stop"}, test : Tests]

TypeOK ==
  /\ TMTypeOK /\ AgentTypeOK /\ HubTypeOK
  /\ dialled \in [Agents -> 0..MaxConns]
  /\ session \in [Agents -> BOOLEAN]
  /\ outbox \in [Agents -> Seq(Tests)]
  /\ up \in [Agents -> [Conns -> Seq(Tests)]]
  /\ down \in [Agents -> Seq(Frames)]
  /\ calls \in 0..MaxStops

Init ==
  /\ TMInit /\ AgentInit /\ HubInit
  /\ dialled = [a \in Agents |-> 0]
  /\ session = [a \in Agents |-> FALSE]
  /\ outbox = [a \in Agents |-> << >>]
  /\ up = [a \in Agents |-> [c \in Conns |-> << >>]]
  /\ down = [a \in Agents |-> << >>]
  /\ calls = 0

-----------------------------------------------------------------------------
(* What the server sends.                                                    *)

(* The agent still reads what is sent on this connection.                    *)
Connected(a, c) == session[a] /\ c = dialled[a]

(* Hub.Send: false without a connection, on one that is closed, and on one   *)
(* whose queue is full; true is no promise that the frame arrives.           *)
CanSend(a) == /\ Online(a)
              /\ hubConn[a] \notin closed[a]
              /\ Connected(a, hubConn[a]) => Len(down[a]) < SendCap

Send(a, frame) ==
  down' = IF CanSend(a) /\ Connected(a, hubConn[a])
          THEN [down EXCEPT ![a] = Append(@, frame)]
          ELSE down

ServerStart(s) ==
  /\ \/ StartCheck(s)
     \/ StartReject(s)
     \/ \E ids \in SUBSET {a \in Agents : Online(a)} : StartPrepare(s, ids)
  /\ UNCHANGED <<agentVars, hubVars, linkVars, calls>>

ServerPublishes(s) ==
  /\ StartPublish(s)
  /\ UNCHANGED <<agentVars, hubVars, linkVars, calls>>

ServerSendStart(s, a) ==
  /\ StartSend(s, a, CanSend(a))
  /\ Send(a, [type |-> "start", test |-> start[s].test])
  /\ UNCHANGED <<agentVars, hubVars, dialled, session, outbox, up, calls>>

ServerStop(p, t) ==
  /\ calls < MaxStops
  /\ StopMark(p, t)
  /\ calls' = calls + 1
  /\ UNCHANGED <<agentVars, hubVars, linkVars>>

ServerSendStop(p, a) ==
  /\ StopSend(p, a)
  /\ Send(a, [type |-> "stop", test |-> stop[p].test])
  /\ UNCHANGED <<agentVars, hubVars, dialled, session, outbox, up, calls>>

ServerCloses(t) ==
  /\ TickFinish(t)
  /\ UNCHANGED <<agentVars, hubVars, linkVars, calls>>

ServerClock(t) ==
  /\ PassDuration(t) \/ PassGrace(t)
  /\ UNCHANGED <<agentVars, hubVars, linkVars, calls>>

-----------------------------------------------------------------------------
(* The server's end of a connection.                                         *)

(* The hello of a connection the agent has opened is read, or never will be. *)
ServerHello(a, c) ==
  /\ c <= dialled[a]
  /\ Register(a, c)
  /\ UNCHANGED <<tmVars, agentVars, linkVars, calls>>

ServerHelloFails(a, c) ==
  /\ c <= dialled[a]
  /\ c = dialled[a] => ~session[a]
  /\ HelloFails(a, c)
  /\ UNCHANGED <<tmVars, agentVars, linkVars, calls>>

(* The handler reads a report, also one left in the buffer of a connection   *)
(* that has been closed under it.                                            *)
ServerRead(a, c) ==
  /\ handler[a][c] = "reading"
  /\ up[a][c] # << >>
  /\ OnReport(a, Head(up[a][c]))
  /\ up' = [up EXCEPT ![a][c] = Tail(@)]
  /\ UNCHANGED <<agentVars, hubVars, dialled, session, outbox, down, calls>>

(* The connection breaks, or stays silent for 20 s: what the agent wrote and *)
(* the server has not read is lost.                                          *)
ServerDrops(a, c) ==
  /\ Unregister(a, c)
  /\ up' = [up EXCEPT ![a][c] = << >>]
  /\ UNCHANGED <<tmVars, agentVars, dialled, session, outbox, down, calls>>

ServerWriteFails(a, c) ==
  /\ WriteFails(a, c)
  /\ UNCHANGED <<tmVars, agentVars, linkVars, calls>>

-----------------------------------------------------------------------------
(* The agent's end.                                                          *)

(* runForever dials again, and session sends its hello.                      *)
AgentDials(a) ==
  /\ ~session[a]
  /\ dialled[a] < MaxConns
  /\ dialled' = [dialled EXCEPT ![a] = @ + 1]
  /\ session' = [session EXCEPT ![a] = TRUE]
  /\ UNCHANGED <<tmVars, agentVars, hubVars, outbox, up, down, calls>>

(* A read or a write fails: the session returns and closes its socket.       *)
AgentHangsUp(a) ==
  /\ session[a]
  /\ session' = [session EXCEPT ![a] = FALSE]
  /\ down' = [down EXCEPT ![a] = << >>]
  /\ UNCHANGED <<tmVars, agentVars, hubVars, dialled, outbox, up, calls>>

(* The session's writer takes the oldest report of the outbox.  On a         *)
(* connection the server has left, the write succeeds and the report is lost.*)
AgentWrites(a) ==
  /\ session[a]
  /\ outbox[a] # << >>
  /\ outbox' = [outbox EXCEPT ![a] = Tail(@)]
  /\ up' = IF handler[a][dialled[a]] = "gone" THEN up
           ELSE [up EXCEPT ![a][dialled[a]] = Append(@, Head(outbox[a]))]
  /\ UNCHANGED <<tmVars, agentVars, hubVars, dialled, session, down, calls>>

AgentReads(a) ==
  /\ session[a]
  /\ down[a] # << >>
  /\ LET frame == Head(down[a])
     IN \/ frame.type = "start" /\ HandleStart(a, frame.test)
        \/ frame.type = "stop" /\ HandleStop(a, frame.test)
  /\ down' = [down EXCEPT ![a] = Tail(@)]
  /\ UNCHANGED <<tmVars, hubVars, dialled, session, outbox, up, calls>>

AgentInstalls(a) ==
  /\ InstallTest(a)
  /\ UNCHANGED <<tmVars, hubVars, linkVars, calls>>

(* AgentReport, if it were pushed before the workers have returned.          *)
AgentReportEarly(a, t) ==
  /\ engine[a][t] = "running"
  /\ outbox[a] = << >>
  /\ outbox' = [outbox EXCEPT ![a] = Append(@, t)]
  /\ UNCHANGED <<tmVars, agentVars, hubVars, dialled, session, up, down, calls>>

(* The final report and test_done go out one after the other and tell the    *)
(* server the same here; the pair is one entry of the outbox, which arrives  *)
(* with the first of the two that does.                                      *)
AgentReport(a, t) ==
  /\ EngineReport(a, t)
  /\ outbox' = [outbox EXCEPT ![a] = Append(@, t)]
  /\ UNCHANGED <<tmVars, hubVars, dialled, session, up, down, calls>>

AgentExit(a, t) ==
  /\ EngineExit(a, t)
  /\ UNCHANGED <<tmVars, hubVars, linkVars, calls>>

(* The agent's process dies and restarts: engines, outbox and session go.    *)
(* One that has used up the bound on connections could not come back, so it  *)
(* bounds the crashes too.                                                   *)
AgentCrash(a) ==
  /\ dialled[a] < MaxConns
  /\ Crash(a)
  /\ session' = [session EXCEPT ![a] = FALSE]
  /\ outbox' = [outbox EXCEPT ![a] = << >>]
  /\ down' = [down EXCEPT ![a] = << >>]
  /\ UNCHANGED <<tmVars, hubVars, dialled, up, calls>>

-----------------------------------------------------------------------------
ServerNext ==
  \/ \E s \in Starters : \/ ServerStart(s) \/ ServerPublishes(s)
                         \/ \E a \in Agents : ServerSendStart(s, a)
  \/ \E p \in Stoppers : \/ \E t \in Tests : ServerStop(p, t)
                         \/ \E a \in Agents : ServerSendStop(p, a)
  \/ \E t \in Tests : ServerCloses(t) \/ ServerClock(t)
  \/ \E a \in Agents, c \in Conns :
       \/ ServerHello(a, c)
       \/ ServerHelloFails(a, c)
       \/ ServerRead(a, c)
       \/ ServerDrops(a, c)
       \/ ServerWriteFails(a, c)

AgentsNext ==
  \E a \in Agents :
    \/ AgentDials(a)
    \/ AgentHangsUp(a)
    \/ AgentWrites(a)
    \/ AgentReads(a)
    \/ AgentInstalls(a)
    \/ AgentCrash(a)
    \/ \E t \in Tests : AgentReport(a, t) \/ AgentExit(a, t)

Next == ServerNext \/ AgentsNext

Safety == Init /\ [][Next]_vars

(* What goroutines the runtime schedules get done, as far as a stop needs it: *)
(* a call of Stop that is sending goes on, the session's reader handles what *)
(* has arrived, and an engine whose context is cancelled winds up and        *)
(* reports.  Nothing makes a connection live, a stop come, an engine that    *)
(* nobody cancels end, or the clock reach a deadline.                        *)
Progress ==
  /\ \A p \in Stoppers : WF_vars(\E a \in Agents : ServerSendStop(p, a))
  /\ \A a \in Agents :
       /\ WF_vars(AgentReads(a) \/ AgentInstalls(a))
       /\ WF_vars(\E t \in cancelled[a] : AgentReport(a, t))

Spec == Safety /\ Progress

-----------------------------------------------------------------------------
(* Properties.                                                               *)

(* The start of a test is on its way to the agent, or being acted on.        *)
StartPending(a, t) ==
  \/ starting[a] = t
  \/ \E i \in DOMAIN down[a] : down[a][i] = [type |-> "start", test |-> t]

(* An agent's part in a test is over: nothing runs, and nothing will.        *)
Over(a, t) == engine[a][t] # "running" /\ ~StartPending(a, t)

(* When the server counts an agent as done with a test, it is: whether the   *)
(* start could not be sent or a report said so, the agent is not loading the *)
(* network for that test and no start on its way will make it.               *)
DoneMeansOver == \A t \in Tests : \A a \in arDone[t] : Over(a, t)

(* A test that closes before its deadline and without a stop whose grace     *)
(* ran out is over on every agent in it, so the next test that Start lets in *)
(* does not share the network with what is left of this one.                 *)
ClosedMeansOver ==
  \A t \in Tests :
    status[t] = "done" /\ t \notin overdue /\ stopRequested[t] # "old" =>
      \A a \in members[t] : Over(a, t)

(* A test is cancelled on an agent only because a stop was asked for that    *)
(* test, or because a later one took its place (protocol.StopTest: "tells an *)
(* agent to stop a running test early"; it carries the test's id).           *)
CancelledForAReason ==
  \A a \in Agents : \A t \in cancelled[a] :
    \/ stopRequested[t] # "never"
    \/ \E u \in Tests : u > t /\ (starting[a] = u \/ engine[a][u] # "none")

(* The agent's connection is not the one the server would send on, or is     *)
(* gone at one end.                                                          *)
Cut(a) == ~session[a] \/ hubConn[a] # dialled[a] \/ hubConn[a] \in closed[a]

(* A stop works: once a call of Stop is about to send to an agent, that      *)
(* agent ends its part in the test without waiting for the test's duration,  *)
(* unless its connection is cut or its send queue is full at some later      *)
(* moment (a stop_test lost with the connection, or dropped, is not sent     *)
(* again).                                                                   *)
StopReaches ==
  \A p \in Stoppers, a \in Agents, t \in Tests :
    stop[p].test = t /\ a \in stop[p].todo ~> Over(a, t) \/ Cut(a) \/ Len(down[a]) = SendCap
=============================================================================
