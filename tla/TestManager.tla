----------------------------- MODULE TestManager -----------------------------
(* The server's test manager (internal/server/tests.go): the life of a test  *)
(* from the POST that creates it to the tick that closes it.                 *)
(*                                                                           *)
(* Start and Stop run on the goroutine of the HTTP request that called them, *)
(* reports arrive on the goroutine of each agent's connection, and every     *)
(* published test has a tickLoop of its own.  They share tm.mu, which Start  *)
(* and Stop release before they send to the agents: each critical section is *)
(* one action here, and so is each Hub.Send in between.                      *)
(*                                                                           *)
(* Time is two facts about the clock that a tick reads: whether the test is  *)
(* past its duration plus 90 s, and whether 10 s have passed since the last  *)
(* stop request.                                                             *)
EXTENDS SwarmBase

CONSTANTS Starters,  \* HTTP goroutines that may be inside Start at once
          Stoppers   \* HTTP goroutines that may be inside Stop at once

VARIABLES
  start,         \* where each call of Start is: its pc, test id, ids, and ids left to send to
  nextTest,      \* the id newID returns next
  status,        \* Test.Status; "unborn" until tm.tests has the test
  members,       \* Test.AgentIDs
  arDone,        \* the agents whose AgentResult.Done is set
  current,       \* tm.current
  stop,          \* where each call of Stop is: its test and the ids left to send to
  stopRequested, \* Test.stopRequested: never, within its 10 s of grace, or before them
  overdue        \* the tests past StartedAt + DurationS + 90 s

tmVars == <<start, nextTest, status, members, arDone, current, stop,
            stopRequested, overdue>>

Idle == [pc |-> "idle", test |-> NoTest, ids |-> {}, todo |-> {}]
NotStopping == [test |-> NoTest, todo |-> {}]

TMTypeOK ==
  /\ start \in [Starters -> [pc : {"idle", "checked", "sending"}, test : Tests \cup {NoTest},
                             ids : SUBSET Agents, todo : SUBSET Agents]]
  /\ nextTest \in 1..(MaxTests + 1)
  /\ status \in [Tests -> {"unborn", "running", "stopping", "done"}]
  /\ members \in [Tests -> SUBSET Agents]
  /\ arDone \in [Tests -> SUBSET Agents]
  /\ current \in Tests \cup {NoTest}
  /\ stop \in [Stoppers -> [test : Tests \cup {NoTest}, todo : SUBSET Agents]]
  /\ stopRequested \in [Tests -> {"never", "recent", "old"}]
  /\ overdue \in SUBSET Tests

TMInit ==
  /\ start = [s \in Starters |-> Idle]
  /\ nextTest = 1
  /\ status = [t \in Tests |-> "unborn"]
  /\ members = [t \in Tests |-> {}]
  /\ arDone = [t \in Tests |-> {}]
  /\ current = NoTest
  /\ stop = [p \in Stoppers |-> NotStopping]
  /\ stopRequested = [t \in Tests |-> "never"]
  /\ overdue = {}

Published(t) == status[t] # "unborn"
Active(t)    == status[t] \in {"running", "stopping"}

-----------------------------------------------------------------------------
(* Start, one action per critical section.                                   *)

(* The check for a test that is running; a caller it turns away with         *)
(* ErrTestRunning changes nothing.                                           *)
StartCheck(s) ==
  /\ start[s].pc = "idle"
  /\ nextTest <= MaxTests
  /\ current # NoTest => status[current] = "done"
  /\ start' = [start EXCEPT ![s].pc = "checked"]
  /\ UNCHANGED <<nextTest, status, members, arDone, current, stop,
                 stopRequested, overdue>>

(* A bad mode or list, negative rates, no agents, or an agent that is        *)
(* unknown or offline when Hub.Get is asked.                                 *)
StartReject(s) ==
  /\ start[s].pc = "checked"
  /\ start' = [start EXCEPT ![s] = Idle]
  /\ UNCHANGED <<nextTest, status, members, arDone, current, stop,
                 stopRequested, overdue>>

(* Every agent of the request is online: the test gets its id and its        *)
(* results, still private to this caller.  The ids are a set: requests are   *)
(* assumed to name each agent once.  The code sends start_test, and later    *)
(* stop_test, as often as a request names the agent.                         *)
StartPrepare(s, ids) ==
  /\ start[s].pc = "checked"
  /\ ids # {}
  /\ nextTest <= MaxTests
  /\ start' = [start EXCEPT ![s] = [pc |-> "sending", test |-> nextTest,
                                    ids |-> ids, todo |-> ids]]
  /\ nextTest' = nextTest + 1
  /\ UNCHANGED <<status, members, arDone, current, stop, stopRequested, overdue>>

(* One iteration of the send loop; ok is what Hub.Send returned.             *)
StartSend(s, a, ok) ==
  /\ start[s].pc = "sending"
  /\ a \in start[s].todo
  /\ start' = [start EXCEPT ![s].todo = @ \ {a}]
  /\ arDone' = IF ok THEN arDone
                     ELSE [arDone EXCEPT ![start[s].test] = @ \cup {a}]
  /\ UNCHANGED <<nextTest, status, members, current, stop, stopRequested, overdue>>

(* Every frame is out: the test is entered in tm.tests and becomes current,  *)
(* and its tickLoop starts.                                                  *)
StartPublish(s) ==
  /\ start[s].pc = "sending"
  /\ start[s].todo = {}
  /\ status' = [status EXCEPT ![start[s].test] = "running"]
  /\ members' = [members EXCEPT ![start[s].test] = start[s].ids]
  /\ current' = start[s].test
  /\ start' = [start EXCEPT ![s] = Idle]
  /\ UNCHANGED <<nextTest, arDone, stop, stopRequested, overdue>>

-----------------------------------------------------------------------------
(* Stop.                                                                     *)

(* The critical section: an unknown or finished test returns here.  A test   *)
(* that is already stopping gets a new grace period.                         *)
StopMark(p, t) ==
  /\ stop[p] = NotStopping
  /\ Active(t)
  /\ status' = [status EXCEPT ![t] = "stopping"]
  /\ stopRequested' = [stopRequested EXCEPT ![t] = "recent"]
  /\ stop' = [stop EXCEPT ![p] = [test |-> t, todo |-> members[t]]]
  /\ UNCHANGED <<start, nextTest, members, arDone, current, overdue>>

(* One stop_test frame; what Hub.Send returns is not looked at.              *)
StopSend(p, a) ==
  /\ a \in stop[p].todo
  /\ stop' = [stop EXCEPT ![p] = IF @.todo = {a} THEN NotStopping
                                 ELSE [test |-> @.test, todo |-> @.todo \ {a}]]
  /\ UNCHANGED <<start, nextTest, status, members, arDone, current,
                 stopRequested, overdue>>

-----------------------------------------------------------------------------
(* Reports from the agents.  A test that is not published yet, or does not   *)
(* have the agent, loses the report; a test that is done still takes it.     *)
(* Reports without Done change only the figures, which are not kept here.    *)
Known(a, t) == Published(t) /\ a \in members[t]

(* MarkDone, if a report counted for the test that is current.               *)
MarkDoneCurrent(a, t) ==
  /\ arDone' = IF current # NoTest /\ Known(a, current)
               THEN [arDone EXCEPT ![current] = @ \cup {a}] ELSE arDone
  /\ UNCHANGED <<start, nextTest, status, members, current, stop, stopRequested, overdue>>

MarkDone(a, t) ==
  /\ arDone' = IF Known(a, t) THEN [arDone EXCEPT ![t] = @ \cup {a}] ELSE arDone
  /\ UNCHANGED <<start, nextTest, status, members, current, stop, stopRequested, overdue>>

OnProgress(a, t) == MarkDone(a, t)   \* the report that has Done set
OnDone(a, t)     == MarkDone(a, t)   \* test_done

OnReport(a, t) == OnProgress(a, t) \/ OnDone(a, t)

-----------------------------------------------------------------------------
(* The clock, and the tick that closes a test.  A tick that finds nothing    *)
(* finished changes none of the state kept here.                             *)
AnyDone(t) == members[t] \cap arDone[t] # {}   \* AllDone, if one agent were enough
AllDone(t) == members[t] \subseteq arDone[t]

(* Finished, if only the agents and a stop could end a test.                 *)
FinishedWithoutDeadline(t) ==
  \/ AllDone(t)
  \/ status[t] = "stopping" /\ stopRequested[t] = "old"

Finished(t) ==
  \/ AllDone(t)
  \/ t \in overdue
  \/ status[t] = "stopping" /\ stopRequested[t] = "old"

TickFinish(t) ==
  /\ Active(t)
  /\ Finished(t)
  /\ status' = [status EXCEPT ![t] = "done"]
  /\ UNCHANGED <<start, nextTest, members, arDone, current, stop,
                 stopRequested, overdue>>

PassDuration(t) ==
  /\ Active(t)
  /\ t \notin overdue
  /\ overdue' = overdue \cup {t}
  /\ UNCHANGED <<start, nextTest, status, members, arDone, current, stop,
                 stopRequested>>

PassGrace(t) ==
  /\ status[t] = "stopping"
  /\ stopRequested[t] = "recent"
  /\ stopRequested' = [stopRequested EXCEPT ![t] = "old"]
  /\ UNCHANGED <<start, nextTest, status, members, arDone, current, stop, overdue>>

-----------------------------------------------------------------------------
(* The manager on its own: any agent may be online, any Send may fail, any   *)
(* report may arrive at any time.                                            *)
TMStart(s) ==
  \/ StartCheck(s)
  \/ StartReject(s)
  \/ \E ids \in SUBSET Agents : StartPrepare(s, ids)
  \/ \E a \in Agents, ok \in BOOLEAN : StartSend(s, a, ok)
  \/ StartPublish(s)

TMStop(p) ==
  \/ \E t \in Tests : StopMark(p, t)
  \/ \E a \in Agents : StopSend(p, a)

TMTick(t) == TickFinish(t) \/ PassDuration(t) \/ PassGrace(t)

TMNext ==
  \/ \E s \in Starters : TMStart(s)
  \/ \E p \in Stoppers : TMStop(p)
  \/ \E a \in Agents, t \in Tests : OnReport(a, t)
  \/ \E t \in Tests : TMTick(t)

(* The ticker of a test fires every half second and the wall clock moves on, *)
(* so a test passes its deadline and its closing tick is taken.  Nothing is  *)
(* assumed of the agents, of the callers, or of the grace period, which a    *)
(* caller can renew for ever.                                                *)
TMFairness == \A t \in Tests : WF_tmVars(TickFinish(t)) /\ WF_tmVars(PassDuration(t))

TMSafety == TMInit /\ [][TMNext]_tmVars

TMSpec == TMSafety /\ TMFairness

-----------------------------------------------------------------------------
(* Properties.                                                               *)

(* At most one test is running or stopping: what ErrTestRunning and the      *)
(* comment on TestManager promise.  True while Start calls do not overlap;   *)
(* Start checks under one hold of the lock and publishes under another.      *)
AtMostOneActive == \A t, u \in Tests : Active(t) /\ Active(u) => t = u

(* Whatever is still active is the current test, so presence events and the  *)
(* next Start's check look at the right one.                                 *)
ActiveIsCurrent == \A t \in Tests : Active(t) => t = current

(* A test that is done stays done: a late Stop, report or publish never      *)
(* brings it back, where no tickLoop would be left to close it.              *)
DoneIsFinal == [][\A t \in Tests : status[t] = "done" => status'[t] = "done"]_tmVars

(* A test that closes before its deadline, and without a stop whose grace    *)
(* ran out, has been reported done for every agent in it: no agent is left   *)
(* out, whatever sends failed and whichever reports came before the test was *)
(* published or are missing.                                                 *)
ClosedIsReported ==
  \A t \in Tests :
    status[t] = "done" /\ t \notin overdue /\ stopRequested[t] # "old" =>
      members[t] \subseteq arDone[t]

(* Every published test is closed in the end, whatever the agents and the    *)
(* callers of Stop do: a lost start, a crashed agent or a stop repeated for  *)
(* ever only delay it to its deadline.                                       *)
EveryTestCloses == \A t \in Tests : Published(t) ~> status[t] = "done"
=============================================================================
