-------------------------- MODULE TestManager_proofs --------------------------
(* Theorems about the test manager, for any number of agents, tests and calls *)
(* of Start and Stop, and any order of reports and ticks.                     *)
EXTENDS TestManager, TLAPS

LEMMA NoTestIsNoTest == NoTest \notin Tests
BY DEF NoTest, Tests

-----------------------------------------------------------------------------
(* Types.                                                                     *)

LEMMA TypeStep ==
  ASSUME TMTypeOK, [TMNext]_tmVars
  PROVE  TMTypeOK'
<1> USE DEF TMTypeOK
<1>1. ASSUME NEW s \in Starters, TMStart(s)
      PROVE  TMTypeOK'
  <2>1. CASE StartCheck(s)
    BY <2>1 DEF StartCheck
  <2>2. CASE StartReject(s)
    BY <2>2 DEF StartReject, Idle
  <2>3. ASSUME NEW ids \in SUBSET Agents, StartPrepare(s, ids)
        PROVE  TMTypeOK'
    <3>1. nextTest \in Tests /\ nextTest + 1 \in 1..(MaxTests + 1)
      BY <2>3, MaxTestsAssumption DEF StartPrepare, Tests, MaxTestsAssumption
    <3> QED
      BY <2>3, <3>1 DEF StartPrepare
  <2>4. ASSUME NEW a \in Agents, NEW ok \in BOOLEAN, StartSend(s, a, ok)
        PROVE  TMTypeOK'
    <3>1. arDone' \in [Tests -> SUBSET Agents]
      BY <2>4 DEF StartSend
    <3>2. start[s].todo \ {a} \in SUBSET Agents
      OBVIOUS
    <3>3. start' \in [Starters -> [pc : {"idle", "checked", "sending"},
                                   test : Tests \cup {NoTest},
                                   ids : SUBSET Agents, todo : SUBSET Agents]]
      BY <2>4, <3>2 DEF StartSend
    <3> QED
      BY <2>4, <3>1, <3>3 DEF StartSend
  <2>5. CASE StartPublish(s)
    BY <2>5 DEF StartPublish, Idle
  <2> QED
    BY <1>1, <2>1, <2>2, <2>3, <2>4, <2>5 DEF TMStart
<1>2. ASSUME NEW p \in Stoppers, TMStop(p)
      PROVE  TMTypeOK'
  <2>1. ASSUME NEW t \in Tests, StopMark(p, t)
        PROVE  TMTypeOK'
    BY <2>1 DEF StopMark
  <2>2. ASSUME NEW a \in Agents, StopSend(p, a)
        PROVE  TMTypeOK'
    <3>1. stop[p].todo \ {a} \in SUBSET Agents
      OBVIOUS
    <3>2. stop' \in [Stoppers -> [test : Tests \cup {NoTest}, todo : SUBSET Agents]]
      <4>1. CASE stop[p].todo = {a}
        BY <2>2, <4>1 DEF StopSend, NotStopping
      <4>2. CASE stop[p].todo # {a}
        <5>1. stop' = [stop EXCEPT ![p] = [test |-> @.test, todo |-> @.todo \ {a}]]
          BY <2>2, <4>2 DEF StopSend
        <5> QED
          BY <3>1, <5>1
      <4> QED
        BY <4>1, <4>2
    <3> QED
      BY <2>2, <3>2 DEF StopSend
  <2> QED
    BY <1>2, <2>1, <2>2 DEF TMStop
<1>3. ASSUME NEW a \in Agents, NEW t \in Tests, OnReport(a, t)
      PROVE  TMTypeOK'
  BY <1>3 DEF OnReport, OnProgress, OnDone, MarkDone
<1>4. ASSUME NEW t \in Tests, TMTick(t)
      PROVE  TMTypeOK'
  BY <1>4 DEF TMTick, TickFinish, PassDuration, PassGrace
<1>5. CASE UNCHANGED tmVars
  BY <1>5 DEF tmVars
<1> QED
  BY <1>1, <1>2, <1>3, <1>4, <1>5 DEF TMNext

LEMMA TypeInit == ASSUME TMInit PROVE TMTypeOK
BY MaxTestsAssumption DEF TMInit, TMTypeOK, Idle, NotStopping, MaxTestsAssumption

(* Every variable of the manager keeps its type.                              *)
THEOREM TMTypeCorrect == TMSafety => []TMTypeOK
<1>1. TMInit => TMTypeOK
  BY TypeInit
<1>2. TMTypeOK /\ [TMNext]_tmVars => TMTypeOK'
  BY TypeStep
<1> QED
  BY <1>1, <1>2, PTL DEF TMSafety

-----------------------------------------------------------------------------
(* A test that is done stays done.  The one action that could bring it back   *)
(* is a publish, so the invariant says that the test a call of Start is       *)
(* sending for is its own, and not published.                                 *)

Sending(s) == start[s].pc = "sending"

FreshInv ==
  /\ \A t \in Tests : t >= nextTest => status[t] = "unborn"
  /\ \A s \in Starters : Sending(s) =>
       /\ start[s].test \in Tests
       /\ start[s].test < nextTest
       /\ status[start[s].test] = "unborn"
  /\ \A r, s \in Starters : Sending(r) /\ Sending(s) /\ start[r].test = start[s].test => r = s

LEMMA FreshStep ==
  ASSUME TMTypeOK, FreshInv, [TMNext]_tmVars
  PROVE  FreshInv'
<1> USE DEF TMTypeOK, FreshInv, Sending
<1>0. nextTest \in Nat /\ Tests \subseteq Nat
  BY DEF Tests
<1>1. ASSUME NEW s \in Starters, TMStart(s)
      PROVE  FreshInv'
  <2>1. CASE StartCheck(s)
    BY <2>1 DEF StartCheck
  <2>2. CASE StartReject(s)
    BY <2>2 DEF StartReject, Idle
  <2>3. ASSUME NEW ids \in SUBSET Agents, StartPrepare(s, ids)
        PROVE  FreshInv'
    <3>1. nextTest \in Tests
      BY <2>3, MaxTestsAssumption DEF StartPrepare, Tests, MaxTestsAssumption
    <3>2. /\ start' = [start EXCEPT ![s] = [pc |-> "sending", test |-> nextTest,
                                            ids |-> ids, todo |-> ids]]
          /\ nextTest' = nextTest + 1 /\ status' = status
      BY <2>3 DEF StartPrepare
    <3>3. \A t \in Tests : t >= nextTest' => status'[t] = "unborn"
      BY <1>0, <3>2
    <3>4. start'[s].test = nextTest /\ status[nextTest] = "unborn"
      BY <1>0, <3>1, <3>2
    <3>5. \A r \in Starters : r # s => start'[r] = start[r]
      BY <3>2
    <3>6. ASSUME NEW r \in Starters, Sending(r)'
          PROVE  start'[r].test \in Tests /\ start'[r].test < nextTest'
                   /\ status'[start'[r].test] = "unborn"
      <4>1. CASE r = s
        BY <1>0, <3>1, <3>2, <3>4, <4>1
      <4>2. CASE r # s
        <5>1. Sending(r) /\ start'[r].test = start[r].test
          BY <3>5, <3>6, <4>2
        <5>2. /\ start[r].test \in Tests /\ start[r].test < nextTest
              /\ status[start[r].test] = "unborn"
          BY <5>1
        <5>3. \A n, m \in Nat : n < m => n < m + 1
          OBVIOUS
        <5>4. start[r].test < nextTest + 1
          BY <1>0, <5>2, <5>3
        <5> QED
          BY <3>2, <5>1, <5>2, <5>4
      <4> QED
        BY <4>1, <4>2
    <3>7. \A q, r \in Starters :
            Sending(q)' /\ Sending(r)' /\ start'[q].test = start'[r].test => q = r
      BY <1>0, <3>4, <3>5
    <3> QED
      BY <3>3, <3>6, <3>7
  <2>4. ASSUME NEW a \in Agents, NEW ok \in BOOLEAN, StartSend(s, a, ok)
        PROVE  FreshInv'
    BY <2>4 DEF StartSend
  <2>5. CASE StartPublish(s)
    <3>1. /\ start' = [start EXCEPT ![s] = Idle]
          /\ status' = [status EXCEPT ![start[s].test] = "running"]
          /\ nextTest' = nextTest
          /\ start[s].test \in Tests /\ start[s].test < nextTest
      BY <2>5 DEF StartPublish
    <3>2. \A t \in Tests : t >= nextTest' => status'[t] = "unborn"
      BY <1>0, <3>1
    <3>3. \A r \in Starters : Sending(r)' => r # s /\ Sending(r) /\ start'[r] = start[r]
      BY <3>1 DEF Idle
    <3>4. \A r \in Starters : Sending(r)' =>
            start'[r].test \in Tests /\ start'[r].test < nextTest'
              /\ status'[start'[r].test] = "unborn"
      BY <2>5, <3>1, <3>3 DEF StartPublish
    <3>5. \A q, r \in Starters :
            Sending(q)' /\ Sending(r)' /\ start'[q].test = start'[r].test => q = r
      BY <3>3
    <3> QED
      BY <3>2, <3>4, <3>5
  <2> QED
    BY <1>1, <2>1, <2>2, <2>3, <2>4, <2>5 DEF TMStart
<1>2. ASSUME NEW p \in Stoppers, TMStop(p)
      PROVE  FreshInv'
  <2>1. ASSUME NEW t \in Tests, StopMark(p, t)
        PROVE  FreshInv'
    BY <2>1 DEF StopMark, Active
  <2>2. ASSUME NEW a \in Agents, StopSend(p, a)
        PROVE  FreshInv'
    BY <2>2 DEF StopSend
  <2> QED
    BY <1>2, <2>1, <2>2 DEF TMStop
<1>3. ASSUME NEW a \in Agents, NEW t \in Tests, OnReport(a, t)
      PROVE  FreshInv'
  BY <1>3 DEF OnReport, OnProgress, OnDone, MarkDone
<1>4. ASSUME NEW t \in Tests, TMTick(t)
      PROVE  FreshInv'
  BY <1>4 DEF TMTick, TickFinish, PassDuration, PassGrace, Active
<1>5. CASE UNCHANGED tmVars
  BY <1>5 DEF tmVars
<1> QED
  BY <1>1, <1>2, <1>3, <1>4, <1>5 DEF TMNext

LEMMA Fresh == TMSafety => [](TMTypeOK /\ FreshInv)
<1>1. TMInit => FreshInv
  BY DEF TMInit, FreshInv, Sending, Idle
<1>2. TMTypeOK /\ FreshInv /\ [TMNext]_tmVars => FreshInv'
  BY FreshStep
<1> QED
  BY <1>1, <1>2, TMTypeCorrect, PTL DEF TMSafety

LEMMA DoneStep ==
  ASSUME TMTypeOK, FreshInv, TMNext, NEW t \in Tests, status[t] = "done"
  PROVE  status'[t] = "done"
<1> USE DEF TMTypeOK
<1>1. ASSUME NEW s \in Starters, TMStart(s)
      PROVE  status'[t] = "done"
  <2>1. CASE StartPublish(s)
    <3>1. start[s].test # t
      BY <2>1 DEF StartPublish, FreshInv, Sending
    <3> QED
      BY <2>1, <3>1 DEF StartPublish
  <2> QED
    BY <1>1, <2>1 DEF TMStart, StartCheck, StartReject, StartPrepare, StartSend
<1>2. ASSUME NEW p \in Stoppers, TMStop(p)
      PROVE  status'[t] = "done"
  BY <1>2 DEF TMStop, StopMark, StopSend, Active
<1>3. ASSUME NEW a \in Agents, NEW u \in Tests, OnReport(a, u)
      PROVE  status'[t] = "done"
  BY <1>3 DEF OnReport, OnProgress, OnDone, MarkDone
<1>4. ASSUME NEW u \in Tests, TMTick(u)
      PROVE  status'[t] = "done"
  BY <1>4 DEF TMTick, TickFinish, PassDuration, PassGrace
<1> QED
  BY <1>1, <1>2, <1>3, <1>4 DEF TMNext

(* A closed test is never reopened, even when calls of Start overlap and a    *)
(* Stop for it comes late: there would be no tickLoop left to close it again. *)
THEOREM DoneStaysDone == TMSafety => DoneIsFinal
<1>1. TMTypeOK /\ FreshInv /\ [TMNext]_tmVars =>
        [\A t \in Tests : status[t] = "done" => status'[t] = "done"]_tmVars
  BY DoneStep
<1> QED
  BY <1>1, Fresh, PTL DEF TMSafety, DoneIsFinal

-----------------------------------------------------------------------------
(* Why a test closed.                                                         *)

LEMMA ClosedStep ==
  ASSUME TMTypeOK, ClosedIsReported, [TMNext]_tmVars
  PROVE  ClosedIsReported'
<1> USE DEF TMTypeOK, ClosedIsReported, AllDone
<1>1. ASSUME NEW s \in Starters, TMStart(s)
      PROVE  ClosedIsReported'
  <2>1. ASSUME NEW ids \in SUBSET Agents, StartPrepare(s, ids)
        PROVE  ClosedIsReported'
    BY <2>1 DEF StartPrepare
  <2>2. ASSUME NEW a \in Agents, NEW ok \in BOOLEAN, StartSend(s, a, ok)
        PROVE  ClosedIsReported'
    BY <2>2 DEF StartSend
  <2>3. CASE StartPublish(s)
    BY <2>3 DEF StartPublish
  <2> QED
    BY <1>1, <2>1, <2>2, <2>3 DEF TMStart, StartCheck, StartReject
<1>2. ASSUME NEW p \in Stoppers, TMStop(p)
      PROVE  ClosedIsReported'
  BY <1>2 DEF TMStop, StopMark, StopSend, Active
<1>3. ASSUME NEW a \in Agents, NEW t \in Tests, OnReport(a, t)
      PROVE  ClosedIsReported'
  BY <1>3 DEF OnReport, OnProgress, OnDone, MarkDone
<1>4. ASSUME NEW t \in Tests, TMTick(t)
      PROVE  ClosedIsReported'
  <2>1. CASE TickFinish(t)
    BY <2>1 DEF TickFinish, Finished
  <2>2. CASE PassDuration(t)
    BY <2>2 DEF PassDuration
  <2>3. CASE PassGrace(t)
    BY <2>3 DEF PassGrace
  <2> QED
    BY <1>4, <2>1, <2>2, <2>3 DEF TMTick
<1>5. CASE UNCHANGED tmVars
  BY <1>5 DEF tmVars
<1> QED
  BY <1>1, <1>2, <1>3, <1>4, <1>5 DEF TMNext

(* A test that closed on its own closed over agents that are all done.        *)
THEOREM ClosedOnReports == TMSafety => []ClosedIsReported
<1>1. TMInit => ClosedIsReported
  BY DEF TMInit, ClosedIsReported
<1>2. TMTypeOK /\ ClosedIsReported /\ [TMNext]_tmVars => ClosedIsReported'
  BY ClosedStep
<1> QED
  BY <1>1, <1>2, TMTypeCorrect, PTL DEF TMSafety

-----------------------------------------------------------------------------
(* One test at a time, as long as calls of Start do not overlap.  While a     *)
(* call is past its check nothing is active; otherwise what is active is the  *)
(* current test, which the next check looks at.                               *)

OneStarter == \A r, s \in Starters : r = s

SerialInv ==
  /\ ActiveIsCurrent
  /\ \A s \in Starters : start[s].pc # "idle" => \A t \in Tests : ~Active(t)

LEMMA SerialStep ==
  ASSUME OneStarter, TMTypeOK, SerialInv, [TMNext]_tmVars
  PROVE  SerialInv'
<1> USE NoTestIsNoTest DEF TMTypeOK, SerialInv, ActiveIsCurrent, Active
<1>1. ASSUME NEW s \in Starters, TMStart(s)
      PROVE  SerialInv'
  <2>1. CASE StartCheck(s)
    BY <2>1 DEF StartCheck, OneStarter
  <2>2. CASE StartReject(s)
    BY <2>2 DEF StartReject, OneStarter, Idle
  <2>3. ASSUME NEW ids \in SUBSET Agents, StartPrepare(s, ids)
        PROVE  SerialInv'
    BY <2>3 DEF StartPrepare, OneStarter
  <2>4. ASSUME NEW a \in Agents, NEW ok \in BOOLEAN, StartSend(s, a, ok)
        PROVE  SerialInv'
    BY <2>4 DEF StartSend, OneStarter
  <2>5. CASE StartPublish(s)
    BY <2>5 DEF StartPublish, OneStarter, Idle
  <2> QED
    BY <1>1, <2>1, <2>2, <2>3, <2>4, <2>5 DEF TMStart
<1>2. ASSUME NEW p \in Stoppers, TMStop(p)
      PROVE  SerialInv'
  BY <1>2 DEF TMStop, StopMark, StopSend
<1>3. ASSUME NEW a \in Agents, NEW t \in Tests, OnReport(a, t)
      PROVE  SerialInv'
  BY <1>3 DEF OnReport, OnProgress, OnDone, MarkDone
<1>4. ASSUME NEW t \in Tests, TMTick(t)
      PROVE  SerialInv'
  BY <1>4 DEF TMTick, TickFinish, PassDuration, PassGrace
<1>5. CASE UNCHANGED tmVars
  BY <1>5 DEF tmVars
<1> QED
  BY <1>1, <1>2, <1>3, <1>4, <1>5 DEF TMNext

(* With calls of Start one after the other there is never more than one       *)
(* active test, for any number of agents and overlapping calls of Stop.  The  *)
(* run two_starts shows why the hypothesis is needed.                         *)
THEOREM OneActiveTest ==
  ASSUME OneStarter
  PROVE  TMSafety => []AtMostOneActive
<1>1. TMInit => SerialInv
  BY DEF TMInit, SerialInv, ActiveIsCurrent, Active, Idle
<1>2. TMTypeOK /\ SerialInv /\ [TMNext]_tmVars => SerialInv'
  BY SerialStep
<1>3. SerialInv => AtMostOneActive
  BY DEF SerialInv, ActiveIsCurrent, AtMostOneActive
<1> QED
  BY <1>1, <1>2, <1>3, TMTypeCorrect, PTL DEF TMSafety
=============================================================================
