------------------------------- MODULE Presence -------------------------------
(* The presence callbacks of the hub and what the test manager notes of them  *)
(* (Hub.Register and Unregister, TestManager.OnPresence).  The hub changes    *)
(* its entry under its lock and calls back after releasing it, so callbacks   *)
(* of different connections run in any order; a handler makes its own calls   *)
(* one after the other.  The events of an agent's link share the list and its *)
(* cap with those of its presence; Figures says when there is one.            *)
EXTENDS Hub, Sequences

CONSTANT maxEvents   \* AgentResult.Events keeps at most so many (200 in the code)

ASSUME MaxEventsAssumption == maxEvents \in Nat \ {0}

VARIABLES
  joining,   \* connections registered whose presence(true) is still due
  leaving,   \* connections unregistered whose presence(false) is still due
  noting,    \* whether the current test has the agent and still waits for it
  startedOn, \* whether the agent was online when that test was published
  events     \* the kinds in its AgentResult.Events of that test, a link's as one

presenceVars == <<joining, leaving, noting, startedOn, events>>
vars == <<hubVars, presenceVars>>

EventKinds == {"online", "offline", "link"}

TypeOK ==
  /\ HubTypeOK
  /\ joining \in [Agents -> SUBSET Conns]
  /\ leaving \in [Agents -> SUBSET Conns]
  /\ noting \in [Agents -> BOOLEAN]
  /\ startedOn \in [Agents -> BOOLEAN]
  /\ events \in [Agents -> Seq(EventKinds)]
  /\ \A a \in Agents : Len(events[a]) <= maxEvents

Init ==
  /\ HubInit
  /\ joining = [a \in Agents |-> {}]
  /\ leaving = [a \in Agents |-> {}]
  /\ noting = [a \in Agents |-> FALSE]
  /\ startedOn = [a \in Agents |-> FALSE]
  /\ events = [a \in Agents |-> << >>]

(* The entry of a connection: registered under the lock, announced after it. *)
HandlerJoins(a, c) ==
  /\ Register(a, c)
  /\ joining' = [joining EXCEPT ![a] = @ \cup {c}]
  /\ UNCHANGED <<leaving, noting, startedOn, events>>

(* HandlerLeaves, if a connection closed by its writer left unannounced.      *)
HandlerLeavesQuietly(a, c) ==
  /\ c \notin joining[a]
  /\ Unregister(a, c)
  /\ leaving' = IF hubConn[a] = c /\ c \notin closed[a]
                THEN [leaving EXCEPT ![a] = @ \cup {c}] ELSE leaving
  /\ UNCHANGED <<joining, noting, startedOn, events>>

(* Its exit, once its own callback has returned; only a connection that was  *)
(* still current has a departure to announce.                                *)
HandlerLeaves(a, c) ==
  /\ c \notin joining[a]
  /\ Unregister(a, c)
  /\ leaving' = IF hubConn[a] = c THEN [leaving EXCEPT ![a] = @ \cup {c}] ELSE leaving
  /\ UNCHANGED <<joining, noting, startedOn, events>>

(* addEvent: the oldest entry makes room for the newest.                     *)
AddEvent(list, kind) ==
  Append(IF Len(list) < maxEvents THEN list ELSE Tail(list), kind)

(* TestManager.OnPresence: noted while the current test has the agent and    *)
(* still waits for it.                                                       *)
OnPresence(a, kind) ==
  events' = IF noting[a] THEN [events EXCEPT ![a] = AddEvent(@, kind)] ELSE events

AnnounceJoin(a, c) ==
  /\ c \in joining[a]
  /\ OnPresence(a, "online")
  /\ joining' = [joining EXCEPT ![a] = @ \ {c}]
  /\ UNCHANGED <<hubVars, leaving, noting, startedOn>>

AnnounceLeave(a, c) ==
  /\ c \in leaving[a]
  /\ OnPresence(a, "offline")
  /\ leaving' = [leaving EXCEPT ![a] = @ \ {c}]
  /\ UNCHANGED <<hubVars, joining, noting, startedOn>>

ConnectionFails(a, c) ==
  /\ HelloFails(a, c) \/ WriteFails(a, c)
  /\ UNCHANGED presenceVars

(* A test that has the agent is published: the agent was online when Start   *)
(* looked, so it has or had a connection, which may have gone since.         *)
TestPublished(a) ==
  /\ ~noting[a]
  /\ Online(a) \/ closed[a] # {}
  /\ noting' = [noting EXCEPT ![a] = TRUE]
  /\ startedOn' = [startedOn EXCEPT ![a] = Online(a)]
  /\ UNCHANGED <<hubVars, joining, leaving, events>>

(* The test or the agent's part in it is done; the next one has events of its *)
(* own.                                                                      *)
TestOver(a) ==
  /\ noting[a]
  /\ noting' = [noting EXCEPT ![a] = FALSE]
  /\ startedOn' = [startedOn EXCEPT ![a] = FALSE]
  /\ events' = [events EXCEPT ![a] = << >>]
  /\ UNCHANGED <<hubVars, joining, leaving>>

(* A report of the agent has news of its link (noteWifi).                    *)
LinkNoted(a) ==
  /\ noting[a]
  /\ events' = [events EXCEPT ![a] = AddEvent(@, "link")]
  /\ UNCHANGED <<hubVars, joining, leaving, noting, startedOn>>

Next ==
  \E a \in Agents :
    \/ TestPublished(a)
    \/ LinkNoted(a)
    \/ TestOver(a)
    \/ \E c \in Conns :
         \/ HandlerJoins(a, c)
         \/ HandlerLeaves(a, c)
         \/ AnnounceJoin(a, c)
         \/ AnnounceLeave(a, c)
         \/ ConnectionFails(a, c)

Spec == Init /\ [][Next]_vars

-----------------------------------------------------------------------------
(* Properties.                                                               *)

(* No callback is due for the agent.                                         *)
Settled(a) == joining[a] = {} /\ leaving[a] = {}

(* An outage during a test is never missed: an agent that was online when    *)
(* the test began, is offline now and has no callback due has an offline     *)
(* event, however its connections replaced one another and failed, as long   *)
(* as the list of events, shared with those of the link, has room.           *)
OutageIsNoted ==
  \A a \in Agents :
    noting[a] /\ startedOn[a] /\ ~Online(a) /\ Settled(a) =>
      \/ \E i \in DOMAIN events[a] : events[a][i] = "offline"
      \/ Len(events[a]) = maxEvents

PresenceEvents(a) == SelectSeq(events[a], LAMBDA kind : kind # "link")

(* With no callback due, the last event of its presence tells whether the    *)
(* agent is connected (OnPresence "notes an agent's control connection       *)
(* dropping or returning while a test that includes it is running").         *)
LastEventIsTrue ==
  \A a \in Agents :
    LET noted == PresenceEvents(a) IN
    noting[a] /\ Settled(a) /\ noted # << >> =>
      (noted[Len(noted)] = "online" <=> Online(a))
=============================================================================
