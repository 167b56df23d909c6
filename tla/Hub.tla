--------------------------------- MODULE Hub ---------------------------------
(* The server's registry of agents (internal/server/hub.go) and the life of  *)
(* the goroutine that serves one connection (handleAgent in server.go).      *)
(*                                                                           *)
(* Connections of an agent are numbered in the order the agent opens them;   *)
(* the server may see their hello frames in another order, and the handler   *)
(* of an old connection may outlive the registration of a newer one.         *)
EXTENDS SwarmBase

CONSTANT MaxConns   \* bound: connections an agent opens in a behaviour

ASSUME MaxConnsAssumption == MaxConns \in Nat \ {0}

Conns  == 1..MaxConns
NoConn == 0

VARIABLES
  hubConn,  \* agentState.conn, nil being NoConn; an agent with one is online
  handler,  \* where the handler of each connection is
  closed    \* the connections whose AgentConn.Close has run

hubVars == <<hubConn, handler, closed>>

HubTypeOK ==
  /\ hubConn \in [Agents -> Conns \cup {NoConn}]
  /\ handler \in [Agents -> [Conns -> {"none", "reading", "gone"}]]
  /\ closed \in [Agents -> SUBSET Conns]

HubInit ==
  /\ hubConn = [a \in Agents |-> NoConn]
  /\ handler = [a \in Agents |-> [c \in Conns |-> "none"]]
  /\ closed = [a \in Agents |-> {}]

Online(a) == hubConn[a] # NoConn

(* Register, if it closed the older connection without asking for one.       *)
RegisterUnchecked(a, c) ==
  /\ handler[a][c] = "none"
  /\ hubConn' = [hubConn EXCEPT ![a] = c]
  /\ closed' = [closed EXCEPT ![a] = @ \cup {hubConn[a]}]
  /\ handler' = [handler EXCEPT ![a][c] = "reading"]

(* Register, at the hello frame: the new connection takes the agent's entry  *)
(* and the older socket is closed.  The read loop follows.                   *)
Register(a, c) ==
  /\ handler[a][c] = "none"
  /\ hubConn' = [hubConn EXCEPT ![a] = c]
  /\ closed' = [closed EXCEPT ![a] = @ \cup ({hubConn[a]} \ {NoConn})]
  /\ handler' = [handler EXCEPT ![a][c] = "reading"]

(* The connection fails before its hello is read: handleAgent returns with   *)
(* nothing registered.                                                       *)
HelloFails(a, c) ==
  /\ handler[a][c] = "none"
  /\ handler' = [handler EXCEPT ![a][c] = "gone"]
  /\ UNCHANGED <<hubConn, closed>>

(* Unregister, if it cleared the entry whoever holds it.                     *)
UnregisterUnchecked(a, c) ==
  /\ handler[a][c] = "reading"
  /\ hubConn' = [hubConn EXCEPT ![a] = NoConn]
  /\ closed' = [closed EXCEPT ![a] = @ \cup {c}]
  /\ handler' = [handler EXCEPT ![a][c] = "gone"]

(* Unregister, if it left the entry to a connection already closed.          *)
UnregisterOpenOnly(a, c) ==
  /\ handler[a][c] = "reading"
  /\ hubConn' = IF hubConn[a] = c /\ c \notin closed[a]
                THEN [hubConn EXCEPT ![a] = NoConn] ELSE hubConn
  /\ closed' = [closed EXCEPT ![a] = @ \cup {c}]
  /\ handler' = [handler EXCEPT ![a][c] = "gone"]

(* A read fails, and Unregister runs: the agent goes offline only if this    *)
(* connection still is its entry.                                            *)
Unregister(a, c) ==
  /\ handler[a][c] = "reading"
  /\ hubConn' = IF hubConn[a] = c THEN [hubConn EXCEPT ![a] = NoConn] ELSE hubConn
  /\ closed' = [closed EXCEPT ![a] = @ \cup {c}]
  /\ handler' = [handler EXCEPT ![a][c] = "gone"]

(* A write fails: writeLoop closes the connection, which the reader notices. *)
WriteFails(a, c) ==
  /\ handler[a][c] = "reading"
  /\ closed' = [closed EXCEPT ![a] = @ \cup {c}]
  /\ UNCHANGED <<hubConn, handler>>

-----------------------------------------------------------------------------
(* The hub on its own: hellos in any order, failures at any time.            *)
HubNext ==
  \E a \in Agents, c \in Conns :
    \/ Register(a, c)
    \/ HelloFails(a, c)
    \/ Unregister(a, c)
    \/ WriteFails(a, c)

HubSpec == HubInit /\ [][HubNext]_hubVars

-----------------------------------------------------------------------------
(* Properties.                                                               *)

Serving(a, c) == handler[a][c] = "reading"

(* An agent that is listed online has a handler that will take it off the    *)
(* list: no entry is left behind by handlers that leave in any order.        *)
OnlineIsServed == \A a \in Agents : Online(a) => Serving(a, hubConn[a])

(* Every connection the hub no longer lists has been closed, so its handler  *)
(* cannot go on reading for ever beside the connection that replaced it.     *)
SupersededIsClosed ==
  \A a \in Agents, c \in Conns : Serving(a, c) /\ hubConn[a] # c => c \in closed[a]
=============================================================================
