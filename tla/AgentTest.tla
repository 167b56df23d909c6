------------------------------ MODULE AgentTest ------------------------------
(* The test control of an agent (cmd/agent/agent.go): which test it says it  *)
(* runs, whose cancel function it holds, and the goroutines running engines. *)
(*                                                                           *)
(* Frames from the server are handled one at a time by the session's reader; *)
(* each engine runs on a goroutine of its own, which a new test cancels but  *)
(* does not wait for, so an old engine winds down while the next one runs.   *)
(* The id and the cancel function are guarded by a.mu, taken once to clear   *)
(* them and once more to install the new test.                               *)
EXTENDS SwarmBase

VARIABLES
  testID,     \* agent.testID, "" being NoTest
  testCancel, \* the test whose context agent.testCancel cancels, or NoTest for nil
  starting,   \* the test the reader is inside startTest for, or NoTest
  engine,     \* where the goroutine of each test is
  cancelled   \* the tests whose context has been cancelled

agentVars == <<testID, testCancel, starting, engine, cancelled>>

(* none: no goroutine.  running: in Engine.Run.  reported: Run has returned  *)
(* and its report is pushed, the id not cleared yet.  exited: the goroutine  *)
(* is gone.  killed: the process died under it.                              *)
EngineStates == {"none", "running", "reported", "exited", "killed"}

AgentTypeOK ==
  /\ testID \in [Agents -> Tests \cup {NoTest}]
  /\ testCancel \in [Agents -> Tests \cup {NoTest}]
  /\ starting \in [Agents -> Tests \cup {NoTest}]
  /\ engine \in [Agents -> [Tests -> EngineStates]]
  /\ cancelled \in [Agents -> SUBSET Tests]

AgentInit ==
  /\ testID = [a \in Agents |-> NoTest]
  /\ testCancel = [a \in Agents |-> NoTest]
  /\ starting = [a \in Agents |-> NoTest]
  /\ engine = [a \in Agents |-> [t \in Tests |-> "none"]]
  /\ cancelled = [a \in Agents |-> {}]

-----------------------------------------------------------------------------
(* StopTest, if testCancel were called without asking whether there is one.  *)
StopTestUnchecked(a) ==
  /\ testID' = [testID EXCEPT ![a] = NoTest]
  /\ testCancel' = [testCancel EXCEPT ![a] = NoTest]
  /\ cancelled' = [cancelled EXCEPT ![a] = @ \cup {testCancel[a]}]

(* StopTest, if it dropped the cancel function uncalled.                     *)
StopTestForgets(a) ==
  /\ testID' = [testID EXCEPT ![a] = NoTest]
  /\ testCancel' = [testCancel EXCEPT ![a] = NoTest]
  /\ UNCHANGED cancelled

(* stopTest: forget the test and cancel its context.                         *)
StopTest(a) ==
  /\ testID' = [testID EXCEPT ![a] = NoTest]
  /\ testCancel' = [testCancel EXCEPT ![a] = NoTest]
  /\ cancelled' = [cancelled EXCEPT ![a] = @ \cup ({testCancel[a]} \ {NoTest})]

(* handle, stop_test: the frame's test id is logged, never compared.         *)
HandleStop(a, t) ==
  /\ starting[a] = NoTest
  /\ StopTest(a)
  /\ UNCHANGED <<starting, engine>>

(* handle, start_test, to the end of the call of stopTest.  A duplicate of   *)
(* the running test is ignored.                                              *)
HandleStart(a, t) ==
  /\ starting[a] = NoTest
  /\ IF testID[a] = t
     THEN UNCHANGED agentVars
     ELSE /\ StopTest(a)
          /\ starting' = [starting EXCEPT ![a] = t]
          /\ UNCHANGED engine

(* The rest of startTest: install the id and the cancel function, and start  *)
(* the engine's goroutine.                                                   *)
InstallTest(a) ==
  /\ starting[a] # NoTest
  /\ testID' = [testID EXCEPT ![a] = starting[a]]
  /\ testCancel' = [testCancel EXCEPT ![a] = starting[a]]
  /\ engine' = [engine EXCEPT ![a][starting[a]] = "running"]
  /\ starting' = [starting EXCEPT ![a] = NoTest]
  /\ UNCHANGED cancelled

(* Every worker has returned, for the duration or a cancelled context: the   *)
(* report that has Done set is pushed, and test_done after it.               *)
EngineReport(a, t) ==
  /\ engine[a][t] = "running"
  /\ engine' = [engine EXCEPT ![a][t] = "reported"]
  /\ UNCHANGED <<testID, testCancel, starting, cancelled>>

(* EngineExit, if the goroutine did not look whose test it clears.           *)
EngineExitUnchecked(a, t) ==
  /\ engine[a][t] = "reported"
  /\ engine' = [engine EXCEPT ![a][t] = "exited"]
  /\ testID' = [testID EXCEPT ![a] = NoTest]
  /\ testCancel' = [testCancel EXCEPT ![a] = NoTest]
  /\ UNCHANGED <<starting, cancelled>>

(* The goroutine clears the agent's test, if it still is its own.            *)
EngineExit(a, t) ==
  /\ engine[a][t] = "reported"
  /\ engine' = [engine EXCEPT ![a][t] = "exited"]
  /\ testID' = IF testID[a] = t THEN [testID EXCEPT ![a] = NoTest] ELSE testID
  /\ testCancel' = IF testID[a] = t THEN [testCancel EXCEPT ![a] = NoTest] ELSE testCancel
  /\ UNCHANGED <<starting, cancelled>>

(* The process dies and comes back with nothing; runForever starts over.     *)
Crash(a) ==
  /\ testID' = [testID EXCEPT ![a] = NoTest]
  /\ testCancel' = [testCancel EXCEPT ![a] = NoTest]
  /\ starting' = [starting EXCEPT ![a] = NoTest]
  /\ engine' = [engine EXCEPT ![a] =
                  [t \in Tests |-> IF @[t] \in {"running", "reported"}
                                   THEN "killed" ELSE @[t]]]
  /\ UNCHANGED cancelled

-----------------------------------------------------------------------------
(* The agent on its own: any frame may come at any time, except the start of *)
(* a test that the agent has been in and does not run.  Start sends one      *)
(* start_test for each time a request names the agent; a repeat that comes   *)
(* while the test runs is ignored, and one that came after its end would     *)
(* start it again under the same id, which is assumed not to happen.         *)
AgentNext ==
  \E a \in Agents :
    \/ Crash(a)
    \/ InstallTest(a)
    \/ \E t \in Tests :
         \/ HandleStop(a, t)
         \/ (engine[a][t] = "none" \/ testID[a] = t) /\ HandleStart(a, t)
         \/ EngineReport(a, t)
         \/ EngineExit(a, t)

AgentSpec == AgentInit /\ [][AgentNext]_agentVars

-----------------------------------------------------------------------------
(* Properties.                                                               *)

Live(a, t) == engine[a][t] = "running" /\ t \notin cancelled[a]

(* A stop reaches whatever runs: an engine that nobody has cancelled is the  *)
(* one whose cancel function the agent holds, however many older engines     *)
(* are still winding down beside it and whenever they exit.  So at most one  *)
(* engine generates load that a stop_test could not end.                     *)
LiveIsCancellable ==
  \A a \in Agents, t \in Tests : Live(a, t) => testID[a] = t /\ testCancel[a] = t

(* While startTest is between its two critical sections no test is           *)
(* installed, so nothing is overwritten without having been cancelled.       *)
StartingIsClear ==
  \A a \in Agents : starting[a] # NoTest => testID[a] = NoTest /\ testCancel[a] = NoTest

(* The id and the cancel function come and go together: an agent that says   *)
(* it runs nothing holds nothing to cancel.                                  *)
CancelMatchesID == \A a \in Agents : testCancel[a] = testID[a]
=============================================================================
