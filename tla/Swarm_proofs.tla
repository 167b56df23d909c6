----------------------------- MODULE Swarm_proofs -----------------------------
(* Theorems about an agent's test control, about the hub and about the whole  *)
(* control plane, for any number of agents, tests, connections and callers:   *)
(* what the server calls done is done on the agent.  Those about the whole    *)
(* rest on those about the components, each of which takes the steps of the   *)
(* composition for its own or does not see them.                              *)
EXTENDS Swarm, TestManager_proofs, SequenceTheorems, TLAPS

-----------------------------------------------------------------------------
(* An agent's test control, in any order of frames, exits and crashes.        *)

(* The invariant: what the theorems say, and that the pieces a handler leaves *)
(* between its critical sections fit together.                                *)
ControlInv == AgentTypeOK /\ CancelMatchesID /\ StartingIsClear /\ LiveIsCancellable

LEMMA EmptyIdIsNoTest == NoTest \notin Tests
BY DEF NoTest, Tests

LEMMA ControlInit == ASSUME AgentInit PROVE ControlInv
BY DEF AgentInit, ControlInv, AgentTypeOK, CancelMatchesID, StartingIsClear,
       LiveIsCancellable, Live, EngineStates

(* stopTest leaves no engine that is not cancelled.                           *)
LEMMA StopTestClears ==
  ASSUME ControlInv, NEW a \in Agents, StopTest(a), engine' = engine
  PROVE  /\ testID' \in [Agents -> Tests \cup {NoTest}]
         /\ testCancel' \in [Agents -> Tests \cup {NoTest}]
         /\ cancelled' \in [Agents -> SUBSET Tests]
         /\ CancelMatchesID' /\ LiveIsCancellable'
         /\ testID'[a] = NoTest /\ testCancel'[a] = NoTest
<1> USE EmptyIdIsNoTest DEF ControlInv, AgentTypeOK
<1>1. /\ testID' \in [Agents -> Tests \cup {NoTest}]
      /\ testCancel' \in [Agents -> Tests \cup {NoTest}]
      /\ cancelled' \in [Agents -> SUBSET Tests]
      /\ testID'[a] = NoTest /\ testCancel'[a] = NoTest
  BY DEF StopTest
<1>2. CancelMatchesID'
  BY <1>1 DEF StopTest, CancelMatchesID
<1>3. ASSUME NEW b \in Agents, NEW t \in Tests, Live(b, t)'
      PROVE  testID'[b] = t /\ testCancel'[b] = t
  <2>1. Live(b, t)
    BY <1>3 DEF StopTest, Live
  <2>2. b # a
    BY <1>3, <2>1 DEF StopTest, Live, LiveIsCancellable
  <2> QED
    BY <2>1, <2>2 DEF StopTest, LiveIsCancellable
<1> QED
  BY <1>1, <1>2, <1>3 DEF LiveIsCancellable

LEMMA ControlStep ==
  ASSUME ControlInv, [AgentNext]_agentVars
  PROVE  ControlInv'
<1> USE EmptyIdIsNoTest DEF ControlInv, AgentTypeOK, EngineStates
<1>1. ASSUME NEW a \in Agents, NEW t \in Tests, HandleStop(a, t)
      PROVE  ControlInv'
  <2>1. StopTest(a) /\ engine' = engine /\ starting' = starting
    BY <1>1 DEF HandleStop
  <2>2. StartingIsClear'
    BY <2>1, StopTestClears DEF StartingIsClear, StopTest
  <2> QED
    BY <2>1, <2>2, StopTestClears
<1>2. ASSUME NEW a \in Agents, NEW t \in Tests, HandleStart(a, t)
      PROVE  ControlInv'
  <2>1. CASE testID[a] = t
    BY <1>2, <2>1 DEF HandleStart, agentVars, CancelMatchesID, StartingIsClear,
                      LiveIsCancellable, Live
  <2>2. CASE testID[a] # t
    <3>1. /\ StopTest(a) /\ engine' = engine
          /\ starting' = [starting EXCEPT ![a] = t]
      BY <1>2, <2>2 DEF HandleStart
    <3>2. StartingIsClear'
      BY <3>1, StopTestClears DEF StartingIsClear, StopTest
    <3> QED
      BY <3>1, <3>2, StopTestClears
  <2> QED
    BY <2>1, <2>2
<1>3. ASSUME NEW a \in Agents, InstallTest(a)
      PROVE  ControlInv'
  <2>1. starting[a] \in Tests
    BY <1>3 DEF InstallTest
  <2>2. AgentTypeOK' /\ CancelMatchesID' /\ StartingIsClear'
    BY <1>3, <2>1 DEF InstallTest, CancelMatchesID, StartingIsClear
  <2>3. LiveIsCancellable'
    BY <1>3, <2>1 DEF InstallTest, LiveIsCancellable, Live, StartingIsClear
  <2> QED
    BY <2>2, <2>3
<1>4. ASSUME NEW a \in Agents, NEW t \in Tests, EngineReport(a, t)
      PROVE  ControlInv'
  BY <1>4 DEF EngineReport, CancelMatchesID, StartingIsClear, LiveIsCancellable, Live
<1>5. ASSUME NEW a \in Agents, NEW t \in Tests, EngineExit(a, t)
      PROVE  ControlInv'
  <2>1. AgentTypeOK' /\ CancelMatchesID' /\ StartingIsClear'
    BY <1>5 DEF EngineExit, CancelMatchesID, StartingIsClear
  <2>2. LiveIsCancellable'
    BY <1>5 DEF EngineExit, CancelMatchesID, LiveIsCancellable, Live
  <2> QED
    BY <2>1, <2>2
<1>6. ASSUME NEW a \in Agents, Crash(a)
      PROVE  ControlInv'
  BY <1>6 DEF Crash, CancelMatchesID, StartingIsClear, LiveIsCancellable, Live
<1>7. CASE UNCHANGED agentVars
  BY <1>7 DEF agentVars, CancelMatchesID, StartingIsClear, LiveIsCancellable, Live
<1> QED
  BY <1>1, <1>2, <1>3, <1>4, <1>5, <1>6, <1>7 DEF AgentNext

LEMMA Control == AgentSpec => []ControlInv
<1>1. AgentInit => ControlInv
  BY ControlInit
<1>2. ControlInv /\ [AgentNext]_agentVars => ControlInv'
  BY ControlStep
<1> QED
  BY <1>1, <1>2, PTL DEF AgentSpec

(* Every variable of the agent keeps its type.                                *)
THEOREM AgentTypeCorrect == AgentSpec => []AgentTypeOK
<1>1. ControlInv => AgentTypeOK
  BY DEF ControlInv
<1> QED
  BY <1>1, Control, PTL

(* However frames, exits of old engines and crashes interleave, an engine     *)
(* that nobody has cancelled is the one whose cancel function the agent       *)
(* holds: no stop can miss it.                                                *)
THEOREM NoStrayEngine == AgentSpec => []LiveIsCancellable
<1>1. ControlInv => LiveIsCancellable
  BY DEF ControlInv
<1> QED
  BY <1>1, Control, PTL

(* It follows that an agent never has two engines running uncancelled.        *)
THEOREM OneLiveEngine ==
  AgentSpec => [](\A a \in Agents, t, u \in Tests : Live(a, t) /\ Live(a, u) => t = u)
<1>1. LiveIsCancellable =>
        \A a \in Agents, t, u \in Tests : Live(a, t) /\ Live(a, u) => t = u
  BY DEF LiveIsCancellable
<1> QED
  BY <1>1, NoStrayEngine, PTL

-----------------------------------------------------------------------------
(* The hub, whatever the order in which connections are registered, fail and  *)
(* leave.                                                                     *)

HubInv == HubTypeOK /\ OnlineIsServed /\ SupersededIsClosed

LEMMA NoConnIsNoConn == NoConn \notin Conns
BY DEF NoConn, Conns

LEMMA HubInvInit == ASSUME HubInit PROVE HubInv
BY NoConnIsNoConn DEF HubInit, HubInv, HubTypeOK, OnlineIsServed, SupersededIsClosed,
                      Online, Serving

LEMMA HubInvStep ==
  ASSUME HubInv, [HubNext]_hubVars
  PROVE  HubInv'
<1> USE NoConnIsNoConn DEF HubInv, HubTypeOK, Online, Serving
<1>1. ASSUME NEW a \in Agents, NEW c \in Conns, Register(a, c)
      PROVE  HubInv'
  <2>1. HubTypeOK'
    BY <1>1 DEF Register
  <2>2. OnlineIsServed'
    BY <1>1 DEF Register, OnlineIsServed
  <2>3. SupersededIsClosed'
    BY <1>1 DEF Register, SupersededIsClosed
  <2> QED
    BY <2>1, <2>2, <2>3
<1>2. ASSUME NEW a \in Agents, NEW c \in Conns, HelloFails(a, c)
      PROVE  HubInv'
  BY <1>2 DEF HelloFails, OnlineIsServed, SupersededIsClosed
<1>3. ASSUME NEW a \in Agents, NEW c \in Conns, Unregister(a, c)
      PROVE  HubInv'
  <2>1. HubTypeOK'
    BY <1>3 DEF Unregister
  <2>2. OnlineIsServed'
    BY <1>3 DEF Unregister, OnlineIsServed
  <2>3. SupersededIsClosed'
    BY <1>3 DEF Unregister, OnlineIsServed, SupersededIsClosed
  <2> QED
    BY <2>1, <2>2, <2>3
<1>4. ASSUME NEW a \in Agents, NEW c \in Conns, WriteFails(a, c)
      PROVE  HubInv'
  BY <1>4 DEF WriteFails, OnlineIsServed, SupersededIsClosed
<1>5. CASE UNCHANGED hubVars
  BY <1>5 DEF hubVars, OnlineIsServed, SupersededIsClosed
<1> QED
  BY <1>1, <1>2, <1>3, <1>4, <1>5 DEF HubNext

LEMMA HubInvariant == HubSpec => []HubInv
<1>1. HubInit => HubInv
  BY HubInvInit
<1>2. HubInv /\ [HubNext]_hubVars => HubInv'
  BY HubInvStep
<1> QED
  BY <1>1, <1>2, PTL DEF HubSpec

(* An agent listed online always has a handler that will take it off the      *)
(* list, in whatever order its connections come and go.                       *)
THEOREM OnlineAlwaysServed == HubSpec => []OnlineIsServed
<1>1. HubInv => OnlineIsServed
  BY DEF HubInv
<1> QED
  BY <1>1, HubInvariant, PTL

(* A handler whose connection is no longer the agent's entry has had that     *)
(* connection closed under it.                                                *)
THEOREM SupersededAlwaysClosed == HubSpec => []SupersededIsClosed
<1>1. HubInv => SupersededIsClosed
  BY DEF HubInv
<1> QED
  BY <1>1, HubInvariant, PTL

-----------------------------------------------------------------------------
(* Queues.                                                                    *)
LEMMA QueueTail ==
  ASSUME NEW S, NEW q \in Seq(S), q # << >>
  PROVE  /\ Tail(q) \in Seq(S) /\ Head(q) \in S
         /\ 1 \in DOMAIN q /\ q[1] = Head(q)
         /\ \A i \in DOMAIN Tail(q) : i \in Nat /\ i # 0 /\ i + 1 \in DOMAIN q /\ Tail(q)[i] = q[i + 1]
<1>1. /\ Tail(q) \in Seq(S) /\ Head(q) \in S /\ Len(Tail(q)) = Len(q) - 1
      /\ \A i \in 1..Len(Tail(q)) : Tail(q)[i] = q[i + 1]
  BY HeadTailProperties
<1>2. Len(q) \in Nat \ {0} /\ DOMAIN q = 1..Len(q) /\ DOMAIN Tail(q) = 1..Len(Tail(q))
  BY <1>1, EmptySeq, LenProperties
<1>3. q[1] = Head(q)
  BY <1>2
<1> QED
  BY <1>1, <1>2, <1>3

LEMMA QueueAppend ==
  ASSUME NEW S, NEW q \in Seq(S), NEW e \in S
  PROVE  /\ Append(q, e) \in Seq(S)
         /\ \A i \in DOMAIN Append(q, e) :
              \/ i \in DOMAIN q /\ Append(q, e)[i] = q[i]
              \/ i = Len(q) + 1 /\ Append(q, e)[i] = e
<1>1. /\ Append(q, e) \in Seq(S) /\ Len(Append(q, e)) = Len(q) + 1
      /\ \A i \in 1..Len(q) : Append(q, e)[i] = q[i]
      /\ Append(q, e)[Len(q) + 1] = e
  BY AppendProperties
<1>2. Len(q) \in Nat /\ DOMAIN q = 1..Len(q) /\ DOMAIN Append(q, e) = 1..(Len(q) + 1)
  BY <1>1, LenProperties
<1> QED
  BY <1>1, <1>2

-----------------------------------------------------------------------------
(* The components within the composition.                                     *)

LEMMA ManagerSteps ==
  ASSUME TypeOK, [Next]_vars
  PROVE  [TMNext]_tmVars
<1> USE DEF TMNext, TMStart, TMStop, TMTick
<1>1. ASSUME NEW s \in Starters, ServerStart(s) PROVE TMNext
  <2>1. StartCheck(s) \/ StartReject(s) \/ \E ids \in SUBSET Agents : StartPrepare(s, ids)
    BY <1>1 DEF ServerStart
  <2> QED
    BY <2>1
<1>2. ASSUME NEW s \in Starters, NEW a \in Agents, ServerSendStart(s, a) PROVE TMNext
  <2>1. CanSend(a) \in BOOLEAN
    BY DEF CanSend
  <2> QED
    BY <1>2, <2>1 DEF ServerSendStart
<1>3. ASSUME NEW a \in Agents, NEW c \in Conns, ServerRead(a, c) PROVE TMNext
  <2>1. up[a][c] \in Seq(Tests) /\ up[a][c] # << >>
    BY <1>3 DEF TypeOK, ServerRead
  <2>2. Head(up[a][c]) \in Tests
    BY <2>1, QueueTail
  <2> QED
    BY <1>3, <2>2 DEF ServerRead
<1>4. ASSUME NEW s \in Starters, ServerPublishes(s) PROVE TMNext
  BY <1>4 DEF ServerPublishes
<1>5. ASSUME NEW p \in Stoppers, NEW t \in Tests, ServerStop(p, t) PROVE TMNext
  BY <1>5 DEF ServerStop
<1>6. ASSUME NEW p \in Stoppers, NEW a \in Agents, ServerSendStop(p, a) PROVE TMNext
  BY <1>6 DEF ServerSendStop
<1>7. ASSUME NEW t \in Tests, ServerCloses(t) \/ ServerClock(t) PROVE TMNext
  BY <1>7 DEF ServerCloses, ServerClock
<1>8. ASSUME NEW a \in Agents, NEW c \in Conns,
             ServerHello(a, c) \/ ServerHelloFails(a, c) \/ ServerDrops(a, c) \/ ServerWriteFails(a, c)
      PROVE  UNCHANGED tmVars
  BY <1>8 DEF ServerHello, ServerHelloFails, ServerDrops, ServerWriteFails
<1>9. CASE AgentsNext
  BY <1>9 DEF AgentsNext, AgentDials, AgentHangsUp, AgentWrites, AgentReads, AgentInstalls,
              AgentCrash, AgentReport, AgentExit
<1>10. CASE UNCHANGED vars
  BY <1>10 DEF vars
<1> QED
  BY <1>1, <1>2, <1>3, <1>4, <1>5, <1>6, <1>7, <1>8, <1>9, <1>10 DEF Next, ServerNext

LEMMA HubSteps ==
  ASSUME [Next]_vars
  PROVE  [HubNext]_hubVars
<1>1. ASSUME NEW a \in Agents, NEW c \in Conns, ServerHello(a, c) PROVE HubNext
  BY <1>1 DEF ServerHello, HubNext
<1>2. ASSUME NEW a \in Agents, NEW c \in Conns, ServerHelloFails(a, c) PROVE HubNext
  BY <1>2 DEF ServerHelloFails, HubNext
<1>3. ASSUME NEW a \in Agents, NEW c \in Conns, ServerDrops(a, c) PROVE HubNext
  BY <1>3 DEF ServerDrops, HubNext
<1>4. ASSUME NEW a \in Agents, NEW c \in Conns, ServerWriteFails(a, c) PROVE HubNext
  BY <1>4 DEF ServerWriteFails, HubNext
<1>5. ASSUME NEW a \in Agents, NEW c \in Conns, ServerRead(a, c) PROVE UNCHANGED hubVars
  BY <1>5 DEF ServerRead
<1>6. ASSUME NEW s \in Starters,
             \/ ServerStart(s) \/ ServerPublishes(s)
             \/ \E a \in Agents : ServerSendStart(s, a)
      PROVE  UNCHANGED hubVars
  BY <1>6 DEF ServerStart, ServerPublishes, ServerSendStart
<1>7. ASSUME NEW p \in Stoppers,
             \/ \E t \in Tests : ServerStop(p, t)
             \/ \E a \in Agents : ServerSendStop(p, a)
      PROVE  UNCHANGED hubVars
  BY <1>7 DEF ServerStop, ServerSendStop
<1>8. ASSUME NEW t \in Tests, ServerCloses(t) \/ ServerClock(t) PROVE UNCHANGED hubVars
  BY <1>8 DEF ServerCloses, ServerClock
<1>9. CASE AgentsNext
  BY <1>9 DEF AgentsNext, AgentDials, AgentHangsUp, AgentWrites, AgentReads, AgentInstalls,
              AgentCrash, AgentReport, AgentExit
<1>10. CASE UNCHANGED vars
  BY <1>10 DEF vars
<1> QED
  BY <1>1, <1>2, <1>3, <1>4, <1>5, <1>6, <1>7, <1>8, <1>9, <1>10 DEF Next, ServerNext

-----------------------------------------------------------------------------
(* One test on one agent, from the call of Start to its Done.                 *)

StartFrame(t) == [type |-> "start", test |-> t]

(* The start has still to be sent.                                            *)
Waiting(a, t) ==
  \/ t >= nextTest
  \/ \E s \in Starters : Sending(s) /\ start[s].test = t /\ a \in start[s].todo

(* The start is on its way.                                                   *)
InDown(a, t) == \E i \in DOMAIN down[a] : down[a][i] = StartFrame(t)

(* The server has been told that the test is done, or is about to be.         *)
Ended(a, t) ==
  \/ a \in arDone[t]
  \/ \E i \in DOMAIN outbox[a] : outbox[a][i] = t
  \/ \E c \in Conns : \E i \in DOMAIN up[a][c] : up[a][c][i] = t

(* These follow one another, and none is entered twice.                       *)
Pair(a, t) ==
  /\ Waiting(a, t) => ~InDown(a, t)
  /\ Waiting(a, t) \/ InDown(a, t) => starting[a] # t
  /\ Waiting(a, t) \/ InDown(a, t) \/ starting[a] = t => engine[a][t] = "none" /\ ~Ended(a, t)
  /\ Ended(a, t) => engine[a][t] # "running"

Once(a, t) ==
  \A i, j \in DOMAIN down[a] : down[a][i] = StartFrame(t) /\ down[a][j] = StartFrame(t) => i = j

PairInv == \A a \in Agents, t \in Tests : Pair(a, t) /\ Once(a, t)

(* A pair goes on in order if it enters nothing anew.                         *)
LEMMA PairKeeps ==
  ASSUME NEW a, NEW t, Pair(a, t),
         Waiting(a, t)' => Waiting(a, t),
         InDown(a, t)' => InDown(a, t),
         starting'[a] = t => starting[a] = t,
         Ended(a, t)' => Ended(a, t),
         engine[a][t] = "none" => engine'[a][t] = "none",
         engine'[a][t] = "running" => engine[a][t] = "running"
  PROVE  Pair(a, t)'
BY DEF Pair

(* The manager never has a start to send that it did not have before.         *)
LEMMA WaitingShrinks ==
  ASSUME TMTypeOK, [TMNext]_tmVars, NEW a \in Agents, NEW t \in Tests, Waiting(a, t)'
  PROVE  Waiting(a, t)
<1> USE DEF TMTypeOK, Waiting, Sending
<1>0. nextTest \in Nat /\ Tests \subseteq Nat
  BY DEF Tests
<1>1. ASSUME NEW s \in Starters, TMStart(s)
      PROVE  Waiting(a, t)
  <2>1. CASE StartCheck(s)
    BY <2>1 DEF StartCheck
  <2>2. CASE StartReject(s)
    BY <2>2 DEF StartReject, Idle
  <2>3. ASSUME NEW ids \in SUBSET Agents, StartPrepare(s, ids)
        PROVE  Waiting(a, t)
    BY <1>0, <2>3 DEF StartPrepare
  <2>4. ASSUME NEW b \in Agents, NEW ok \in BOOLEAN, StartSend(s, b, ok)
        PROVE  Waiting(a, t)
    BY <2>4 DEF StartSend
  <2>5. CASE StartPublish(s)
    BY <2>5 DEF StartPublish, Idle
  <2> QED
    BY <1>1, <2>1, <2>2, <2>3, <2>4, <2>5 DEF TMStart
<1>2. CASE UNCHANGED <<start, nextTest>>
  BY <1>2
<1>3. TMNext => (\E s \in Starters : TMStart(s)) \/ UNCHANGED <<start, nextTest>>
  BY DEF TMNext, TMStop, TMTick, StopMark, StopSend, TickFinish, PassDuration, PassGrace,
         OnReport, OnProgress, OnDone, MarkDone
<1> QED
  BY <1>1, <1>2, <1>3 DEF tmVars

(* What the queues hold is something that was put there.                      *)
LEMMA TailHolds ==
  ASSUME NEW S, NEW q \in Seq(S), q # << >>, NEW e, \E i \in DOMAIN Tail(q) : Tail(q)[i] = e
  PROVE  \E i \in DOMAIN q : q[i] = e
BY QueueTail

LEMMA AppendHolds ==
  ASSUME NEW S, NEW q \in Seq(S), NEW d \in S, NEW e,
         \E i \in DOMAIN Append(q, d) : Append(q, d)[i] = e
  PROVE  d = e \/ \E i \in DOMAIN q : q[i] = e
BY QueueAppend

LEMMA EmptyHolds == \A i \in DOMAIN << >> : FALSE
OBVIOUS

(* A call of Stop that is sending sends for a test.                           *)
StopInv == \A p \in Stoppers : stop[p].todo # {} => stop[p].test \in Tests

(* The states the proofs start from.                                          *)
SwarmInv == TypeOK /\ FreshInv /\ ControlInv /\ HubInv /\ StopInv /\ PairInv

-----------------------------------------------------------------------------
(* Steps, seen by each pair.                                                  *)

(* A step of the server that sends nothing and reads no report.               *)
LEMMA QuietServer ==
  ASSUME SwarmInv, [TMNext]_tmVars, UNCHANGED <<agentVars, down, outbox, arDone>>,
         \A a \in Agents, c \in Conns : up'[a][c] \in {up[a][c], << >>}
  PROVE  PairInv'
<1> SUFFICES ASSUME NEW a \in Agents, NEW t \in Tests PROVE Pair(a, t)' /\ Once(a, t)'
  BY DEF PairInv
<1>1. Pair(a, t) /\ Once(a, t) /\ TMTypeOK
  BY DEF SwarmInv, PairInv, TypeOK
<1>2. Waiting(a, t)' => Waiting(a, t)
  BY <1>1, WaitingShrinks
<1>3. Ended(a, t)' => Ended(a, t)
  BY EmptyHolds DEF Ended
<1>4. InDown(a, t)' => InDown(a, t)
  BY DEF InDown
<1>5. starting' = starting /\ engine' = engine
  BY DEF agentVars
<1>6. Once(a, t)'
  BY <1>1 DEF Once
<1> QED
  BY <1>1, <1>2, <1>3, <1>4, <1>5, <1>6, PairKeeps

LEMMA PairSendStart ==
  ASSUME SwarmInv, [TMNext]_tmVars, NEW s \in Starters, NEW b \in Agents, ServerSendStart(s, b)
  PROVE  PairInv'
<1> SUFFICES ASSUME NEW a \in Agents, NEW t \in Tests PROVE Pair(a, t)' /\ Once(a, t)'
  BY DEF PairInv
<1>1. Pair(a, t) /\ Once(a, t) /\ TMTypeOK /\ down[a] \in Seq(Frames) /\ down \in [Agents -> Seq(Frames)]
  BY DEF SwarmInv, PairInv, TypeOK
<1>2. Waiting(a, t)' => Waiting(a, t)
  BY <1>1, WaitingShrinks
<1>3. /\ StartSend(s, b, CanSend(b))
      /\ starting' = starting /\ engine' = engine /\ outbox' = outbox /\ up' = up
      /\ Send(b, StartFrame(start[s].test))
  BY DEF ServerSendStart, agentVars, StartFrame
<1>4. /\ start[s].pc = "sending" /\ b \in start[s].todo
      /\ start' = [start EXCEPT ![s].todo = @ \ {b}] /\ nextTest' = nextTest
      /\ arDone' = IF CanSend(b) THEN arDone
                   ELSE [arDone EXCEPT ![start[s].test] = @ \cup {b}]
  BY <1>3 DEF StartSend
<1>5. /\ start[s].test \in Tests /\ start[s].test < nextTest
      /\ \A r \in Starters : Sending(r) /\ start[r].test = start[s].test => r = s
  BY <1>4 DEF SwarmInv, FreshInv, Sending
<1>6. CASE a = b /\ t = start[s].test
  <2>1. Waiting(a, t)
    BY <1>4, <1>6 DEF Waiting, Sending
  <2>2. ~InDown(a, t) /\ starting[a] # t /\ engine[a][t] = "none" /\ ~Ended(a, t)
    BY <1>1, <2>1 DEF Pair
  <2>3. ~Waiting(a, t)'
    <3>1. ~(t >= nextTest')
      BY <1>4, <1>5, <1>6, <1>1 DEF TMTypeOK, Tests
    <3>2. ASSUME NEW r \in Starters, Sending(r)', start'[r].test = t, a \in start'[r].todo
          PROVE  FALSE
      <4>1. r # s
        BY <1>4, <1>6, <1>1, <3>2 DEF TMTypeOK
      <4>2. start'[r] = start[r]
        BY <1>4, <1>1, <4>1 DEF TMTypeOK
      <4> QED
        BY <1>5, <1>6, <3>2, <4>1, <4>2 DEF Sending
    <3> QED
      BY <3>1, <3>2 DEF Waiting
  <2>4. CASE CanSend(b)
    <3>1. ~Ended(a, t)'
      BY <1>3, <1>4, <2>2, <2>4 DEF Ended
    <3>2. Once(a, t)'
      <4>1. CASE down' = down
        BY <1>1, <4>1 DEF Once
      <4>2. CASE down' = [down EXCEPT ![b] = Append(@, StartFrame(t))]
        <5>1. down'[a] = Append(down[a], StartFrame(t)) /\ StartFrame(t) \in Frames
          BY <1>1, <1>6, <4>2 DEF StartFrame, Frames
        <5>2. \A i \in DOMAIN down'[a] : down'[a][i] = StartFrame(t) => i = Len(down[a]) + 1
          BY <1>1, <2>2, <5>1, QueueAppend DEF InDown
        <5> QED
          BY <5>2 DEF Once
      <4> QED
        BY <1>3, <1>6, <4>1, <4>2 DEF Send
    <3> QED
      BY <1>3, <2>2, <2>3, <3>1, <3>2 DEF Pair
  <2>5. CASE ~CanSend(b)
    <3>1. down' = down
      BY <1>3, <2>5 DEF Send
    <3>2. ~InDown(a, t)' /\ Once(a, t)'
      BY <1>1, <2>2, <3>1 DEF InDown, Once
    <3> QED
      BY <1>3, <2>2, <2>3, <3>2 DEF Pair
  <2> QED
    BY <2>4, <2>5
<1>7. CASE ~(a = b /\ t = start[s].test)
  <2>1. arDone'[t] = arDone[t] \/ (a # b /\ arDone'[t] = arDone[t] \cup {b})
    BY <1>1, <1>4, <1>5, <1>7 DEF TMTypeOK
  <2>2. Ended(a, t)' => Ended(a, t)
    BY <1>3, <2>1 DEF Ended
  <2>3. (InDown(a, t)' => InDown(a, t)) /\ Once(a, t)'
    <3>1. CASE down'[a] = down[a]
      BY <1>1, <3>1 DEF InDown, Once
    <3>2. CASE a = b /\ down'[a] = Append(down[a], StartFrame(start[s].test))
      <4>1. StartFrame(start[s].test) \in Frames /\ StartFrame(start[s].test) # StartFrame(t)
        BY <1>5, <1>7, <3>2 DEF StartFrame, Frames
      <4>2. \A i \in DOMAIN down'[a] : down'[a][i] = StartFrame(t) =>
              i \in DOMAIN down[a] /\ down[a][i] = StartFrame(t)
        BY <1>1, <3>2, <4>1, QueueAppend
      <4> QED
        BY <1>1, <4>2 DEF InDown, Once
    <3> QED
      BY <1>1, <1>3, <3>1, <3>2 DEF Send
  <2> QED
    BY <1>1, <1>2, <1>3, <2>2, <2>3, PairKeeps
<1> QED
  BY <1>6, <1>7

LEMMA PairSendStop ==
  ASSUME SwarmInv, [TMNext]_tmVars, NEW p \in Stoppers, NEW b \in Agents, ServerSendStop(p, b)
  PROVE  PairInv'
<1> SUFFICES ASSUME NEW a \in Agents, NEW t \in Tests PROVE Pair(a, t)' /\ Once(a, t)'
  BY DEF PairInv
<1>1. Pair(a, t) /\ Once(a, t) /\ TMTypeOK /\ down \in [Agents -> Seq(Frames)]
  BY DEF SwarmInv, PairInv, TypeOK
<1>2. Waiting(a, t)' => Waiting(a, t)
  BY <1>1, WaitingShrinks
<1> DEFINE frame == [type |-> "stop", test |-> stop[p].test]
<1>3. /\ b \in stop[p].todo /\ arDone' = arDone /\ outbox' = outbox /\ up' = up
      /\ starting' = starting /\ engine' = engine
      /\ down' = down \/ down' = [down EXCEPT ![b] = Append(@, frame)]
  BY DEF ServerSendStop, StopSend, agentVars, Send
<1>4. Ended(a, t)' => Ended(a, t)
  BY <1>3 DEF Ended
<1>5. (InDown(a, t)' => InDown(a, t)) /\ Once(a, t)'
  <2>1. CASE down'[a] = down[a]
    BY <1>1, <2>1 DEF InDown, Once
  <2>2. CASE down'[a] = Append(down[a], frame)
    <3>1. frame # StartFrame(t)
      BY DEF StartFrame
    <3>2. down[a] \in Seq(Frames \cup {frame})
      BY <1>1, SeqMonotonic
    <3>3. \A i \in DOMAIN down'[a] : down'[a][i] = StartFrame(t) =>
            i \in DOMAIN down[a] /\ down[a][i] = StartFrame(t)
      BY <2>2, <3>1, <3>2, QueueAppend
    <3> QED
      BY <1>1, <3>3 DEF InDown, Once
  <2> QED
    BY <1>1, <1>3, <2>1, <2>2
<1> QED
  BY <1>1, <1>2, <1>3, <1>4, <1>5, PairKeeps

(* The report that is read was in the queue before.                           *)
LEMMA PairRead ==
  ASSUME SwarmInv, [TMNext]_tmVars, NEW b \in Agents, NEW c \in Conns, ServerRead(b, c)
  PROVE  PairInv'
<1> SUFFICES ASSUME NEW a \in Agents, NEW t \in Tests PROVE Pair(a, t)' /\ Once(a, t)'
  BY DEF PairInv
<1>1. Pair(a, t) /\ Once(a, t) /\ TMTypeOK /\ up \in [Agents -> [Conns -> Seq(Tests)]]
  BY DEF SwarmInv, PairInv, TypeOK
<1>2. Waiting(a, t)' => Waiting(a, t)
  BY <1>1, WaitingShrinks
<1>3. /\ OnReport(b, Head(up[b][c])) /\ up[b][c] # << >>
      /\ up' = [up EXCEPT ![b][c] = Tail(@)]
      /\ UNCHANGED <<starting, engine, outbox, down>>
  BY DEF ServerRead, agentVars
<1>4. up[b][c] \in Seq(Tests)
  BY <1>1
<1>5. Head(up[b][c]) \in Tests /\ 1 \in DOMAIN up[b][c] /\ up[b][c][1] = Head(up[b][c])
  BY <1>3, <1>4, QueueTail
<1>6. ASSUME Ended(a, t)'
      PROVE  Ended(a, t)
  <2>1. CASE a \in arDone'[t]
    <3>1. a \in arDone[t] \/ (a = b /\ t = Head(up[b][c]))
      BY <1>1, <1>3, <1>5, <2>1 DEF OnReport, OnProgress, OnDone, MarkDone, TMTypeOK
    <3> QED
      BY <1>5, <3>1 DEF Ended
  <2>2. CASE \E i \in DOMAIN outbox'[a] : outbox'[a][i] = t
    BY <1>3, <2>2 DEF Ended
  <2>3. ASSUME NEW d \in Conns, \E i \in DOMAIN up'[a][d] : up'[a][d][i] = t
        PROVE  Ended(a, t)
    <3>1. CASE up'[a][d] = up[a][d]
      BY <2>3, <3>1 DEF Ended
    <3>2. CASE a = b /\ d = c /\ up'[a][d] = Tail(up[b][c])
      <4>1. \E i \in DOMAIN up[b][c] : up[b][c][i] = t
        BY <1>3, <1>4, <2>3, <3>2, TailHolds
      <4> QED
        BY <3>2, <4>1 DEF Ended
    <3> QED
      BY <1>1, <1>3, <3>1, <3>2
  <2> QED
    BY <1>6, <2>1, <2>2, <2>3 DEF Ended
<1>7. (InDown(a, t)' => InDown(a, t)) /\ Once(a, t)'
  BY <1>1, <1>3 DEF InDown, Once
<1> QED
  BY <1>1, <1>2, <1>3, <1>6, <1>7, PairKeeps

(* A step of an agent that starts and reports nothing, and at most loses what *)
(* it had to read, or to write.                                               *)
LEMMA QuietAgent ==
  ASSUME SwarmInv, UNCHANGED <<tmVars, up>>,
         \A a \in Agents : down'[a] \in {down[a], << >>} /\ outbox'[a] \in {outbox[a], << >>},
         \A a \in Agents, t \in Tests :
           /\ starting'[a] = t => starting[a] = t
           /\ engine'[a][t] = "none" <=> engine[a][t] = "none"
           /\ engine'[a][t] = "running" => engine[a][t] = "running"
  PROVE  PairInv'
<1> SUFFICES ASSUME NEW a \in Agents, NEW t \in Tests PROVE Pair(a, t)' /\ Once(a, t)'
  BY DEF PairInv
<1>1. Pair(a, t) /\ Once(a, t)
  BY DEF SwarmInv, PairInv
<1>2. Waiting(a, t)' => Waiting(a, t)
  BY DEF Waiting, Sending, tmVars
<1>3. Ended(a, t)' => Ended(a, t)
  BY EmptyHolds DEF Ended, tmVars
<1>4. (InDown(a, t)' => InDown(a, t)) /\ Once(a, t)'
  BY <1>1, EmptyHolds DEF InDown, Once
<1> QED
  BY <1>1, <1>2, <1>3, <1>4, PairKeeps

LEMMA PairWrites ==
  ASSUME SwarmInv, NEW b \in Agents, AgentWrites(b)
  PROVE  PairInv'
<1> SUFFICES ASSUME NEW a \in Agents, NEW t \in Tests PROVE Pair(a, t)' /\ Once(a, t)'
  BY DEF PairInv
<1>1. /\ Pair(a, t) /\ Once(a, t)
      /\ up \in [Agents -> [Conns -> Seq(Tests)]] /\ outbox \in [Agents -> Seq(Tests)]
  BY DEF SwarmInv, PairInv, TypeOK
<1>2. /\ outbox[b] # << >> /\ outbox' = [outbox EXCEPT ![b] = Tail(@)]
      /\ \/ up' = up
         \/ up' = [up EXCEPT ![b][dialled[b]] = Append(@, Head(outbox[b]))]
      /\ UNCHANGED <<start, nextTest, arDone, starting, engine, down>>
  BY DEF AgentWrites, tmVars, agentVars
<1>3. outbox[b] \in Seq(Tests)
  BY <1>1
<1>4. Head(outbox[b]) \in Tests /\ 1 \in DOMAIN outbox[b] /\ outbox[b][1] = Head(outbox[b])
  BY <1>2, <1>3, QueueTail
<1>5. ASSUME Ended(a, t)'
      PROVE  Ended(a, t)
  <2>1. CASE a \in arDone'[t]
    BY <1>2, <2>1 DEF Ended
  <2>2. CASE \E i \in DOMAIN outbox'[a] : outbox'[a][i] = t
    <3>1. CASE a # b
      BY <1>1, <1>2, <2>2, <3>1 DEF Ended
    <3>2. CASE a = b
      <4>1. \E i \in DOMAIN Tail(outbox[b]) : Tail(outbox[b])[i] = t
        BY <1>1, <1>2, <2>2, <3>2
      <4>2. \E i \in DOMAIN outbox[b] : outbox[b][i] = t
        BY <1>2, <1>3, <4>1, TailHolds
      <4> QED
        BY <3>2, <4>2 DEF Ended
    <3> QED
      BY <3>1, <3>2
  <2>3. ASSUME NEW d \in Conns, \E i \in DOMAIN up'[a][d] : up'[a][d][i] = t
        PROVE  Ended(a, t)
    <3>1. CASE up'[a][d] = up[a][d]
      BY <2>3, <3>1 DEF Ended
    <3>2. CASE a = b /\ up'[a][d] = Append(up[a][d], Head(outbox[b]))
      <4>1. up[a][d] \in Seq(Tests)
        BY <1>1
      <4>2. \E i \in DOMAIN Append(up[a][d], Head(outbox[b])) :
              Append(up[a][d], Head(outbox[b]))[i] = t
        BY <2>3, <3>2
      <4>3. Head(outbox[b]) = t \/ \E i \in DOMAIN up[a][d] : up[a][d][i] = t
        BY <1>4, <4>1, <4>2, AppendHolds
      <4> QED
        BY <1>4, <3>2, <4>3 DEF Ended
    <3> QED
      BY <1>1, <1>2, <3>1, <3>2
  <2> QED
    BY <1>5, <2>1, <2>2, <2>3 DEF Ended
<1>6. Waiting(a, t)' => Waiting(a, t)
  BY <1>2 DEF Waiting, Sending
<1>7. (InDown(a, t)' => InDown(a, t)) /\ Once(a, t)'
  BY <1>1, <1>2 DEF InDown, Once
<1> QED
  BY <1>1, <1>2, <1>5, <1>6, <1>7, PairKeeps

LEMMA PairReads ==
  ASSUME SwarmInv, NEW b \in Agents, AgentReads(b)
  PROVE  PairInv'
<1> SUFFICES ASSUME NEW a \in Agents, NEW t \in Tests PROVE Pair(a, t)' /\ Once(a, t)'
  BY DEF PairInv
<1>1. /\ Pair(a, t) /\ Once(a, t) /\ down \in [Agents -> Seq(Frames)]
      /\ starting \in [Agents -> Tests \cup {NoTest}]
  BY DEF SwarmInv, PairInv, TypeOK, AgentTypeOK
<1>2. /\ down[b] # << >> /\ down' = [down EXCEPT ![b] = Tail(@)]
      /\ UNCHANGED <<start, nextTest, arDone, outbox, up, engine>>
      /\ \/ starting' = starting
         \/ /\ Head(down[b]).type = "start"
            /\ starting' = [starting EXCEPT ![b] = Head(down[b]).test]
  BY DEF AgentReads, HandleStart, HandleStop, tmVars, agentVars
<1>3. down[b] \in Seq(Frames)
  BY <1>1
<1>4. /\ Head(down[b]) \in Frames /\ 1 \in DOMAIN down[b] /\ down[b][1] = Head(down[b])
      /\ \A i \in DOMAIN Tail(down[b]) :
           i \in Nat /\ i # 0 /\ i + 1 \in DOMAIN down[b] /\ Tail(down[b])[i] = down[b][i + 1]
  BY <1>2, <1>3, QueueTail
<1>5. Waiting(a, t)' => Waiting(a, t)
  BY <1>2 DEF Waiting, Sending
<1>6. Ended(a, t)' => Ended(a, t)
  BY <1>2 DEF Ended
<1>7. InDown(a, t)' => InDown(a, t)
  <2>1. CASE a # b
    BY <1>1, <1>2, <2>1 DEF InDown
  <2>2. CASE a = b
    BY <1>1, <1>2, <1>4, <2>2 DEF InDown
  <2> QED
    BY <2>1, <2>2
<1>8. Once(a, t)'
  <2>1. CASE a # b
    BY <1>1, <1>2, <2>1 DEF Once
  <2>2. CASE a = b
    <3>1. ASSUME NEW i \in DOMAIN Tail(down[b]), NEW j \in DOMAIN Tail(down[b]),
                 Tail(down[b])[i] = StartFrame(t), Tail(down[b])[j] = StartFrame(t)
          PROVE  i = j
      <4>1. i + 1 = j + 1
        BY <1>1, <1>4, <2>2, <3>1 DEF Once
      <4> QED
        BY <1>4, <4>1
    <3> QED
      BY <1>1, <1>2, <2>2, <3>1 DEF Once
  <2> QED
    BY <2>1, <2>2
<1>9. CASE starting'[a] = starting[a]
  BY <1>1, <1>2, <1>5, <1>6, <1>7, <1>8, <1>9, PairKeeps
<1>10. CASE a = b /\ Head(down[b]).type = "start" /\ starting'[a] = Head(down[b]).test
  <2>1. Head(down[b]) = StartFrame(Head(down[b]).test)
    BY <1>4, <1>10 DEF Frames, StartFrame
  <2>2. CASE t # Head(down[b]).test
    BY <1>1, <1>2, <1>5, <1>6, <1>7, <1>8, <1>10, <2>2, PairKeeps
  <2>3. CASE t = Head(down[b]).test
    <3>1. InDown(a, t)
      BY <1>4, <1>10, <2>1, <2>3 DEF InDown
    <3>2. ~InDown(a, t)'
      <4>1. \A i \in DOMAIN Tail(down[b]) : Tail(down[b])[i] # StartFrame(t)
        <5>1. ASSUME NEW i \in DOMAIN Tail(down[b]), Tail(down[b])[i] = StartFrame(t) PROVE FALSE
          <6>1. i + 1 = 1
            BY <1>1, <1>4, <1>10, <2>1, <2>3, <5>1 DEF Once
          <6> QED
            BY <1>4, <6>1
        <5> QED
          BY <5>1
      <4> QED
        BY <1>1, <1>2, <1>10, <4>1 DEF InDown
    <3>3. ~Waiting(a, t) /\ engine[a][t] = "none" /\ ~Ended(a, t)
      BY <1>1, <3>1 DEF Pair
    <3> QED
      BY <1>2, <1>5, <1>6, <1>8, <3>2, <3>3 DEF Pair
  <2> QED
    BY <2>2, <2>3
<1> QED
  BY <1>1, <1>2, <1>9, <1>10

LEMMA PairInstalls ==
  ASSUME SwarmInv, NEW b \in Agents, AgentInstalls(b)
  PROVE  PairInv'
<1> SUFFICES ASSUME NEW a \in Agents, NEW t \in Tests PROVE Pair(a, t)' /\ Once(a, t)'
  BY DEF PairInv
<1>1. /\ Pair(a, t) /\ Once(a, t) /\ NoTest \notin Tests
      /\ starting \in [Agents -> Tests \cup {NoTest}]
      /\ engine \in [Agents -> [Tests -> EngineStates]]
  BY EmptyIdIsNoTest DEF SwarmInv, PairInv, TypeOK, AgentTypeOK
<1>2. /\ starting[b] # NoTest /\ starting' = [starting EXCEPT ![b] = NoTest]
      /\ engine' = [engine EXCEPT ![b][starting[b]] = "running"]
      /\ UNCHANGED <<start, nextTest, arDone, down, outbox, up>>
  BY DEF AgentInstalls, InstallTest, tmVars, linkVars
<1>3. (Waiting(a, t)' <=> Waiting(a, t)) /\ (Ended(a, t)' <=> Ended(a, t))
  BY <1>2 DEF Waiting, Sending, Ended
<1>4. (InDown(a, t)' <=> InDown(a, t)) /\ Once(a, t)'
  BY <1>1, <1>2 DEF InDown, Once
<1>5. starting'[a] # t \/ (a # b /\ starting'[a] = starting[a])
  BY <1>1, <1>2
<1>6. CASE a = b /\ t = starting[b]
  <2>1. ~Waiting(a, t) /\ ~InDown(a, t) /\ ~Ended(a, t)
    BY <1>1, <1>6 DEF Pair
  <2>2. starting'[a] # t
    BY <1>5, <1>6
  <2> QED
    BY <1>3, <1>4, <2>1, <2>2 DEF Pair
<1>7. CASE ~(a = b /\ t = starting[b])
  <2>1. engine'[a][t] = engine[a][t]
    BY <1>1, <1>2, <1>7
  <2>2. starting'[a] = t => starting[a] = t
    BY <1>5
  <2> QED
    BY <1>1, <1>3, <1>4, <2>1, <2>2, PairKeeps
<1> QED
  BY <1>6, <1>7

LEMMA PairReports ==
  ASSUME SwarmInv, NEW b \in Agents, NEW u \in Tests, AgentReport(b, u)
  PROVE  PairInv'
<1> SUFFICES ASSUME NEW a \in Agents, NEW t \in Tests PROVE Pair(a, t)' /\ Once(a, t)'
  BY DEF PairInv
<1>1. /\ Pair(a, t) /\ Once(a, t) /\ outbox \in [Agents -> Seq(Tests)]
      /\ engine \in [Agents -> [Tests -> EngineStates]]
  BY DEF SwarmInv, PairInv, TypeOK, AgentTypeOK
<1>2. /\ engine[b][u] = "running" /\ engine' = [engine EXCEPT ![b][u] = "reported"]
      /\ outbox' = [outbox EXCEPT ![b] = Append(@, u)]
      /\ UNCHANGED <<start, nextTest, arDone, down, starting, up>>
  BY DEF AgentReport, EngineReport, tmVars
<1>3. Waiting(a, t)' <=> Waiting(a, t)
  BY <1>2 DEF Waiting, Sending
<1>4. (InDown(a, t)' <=> InDown(a, t)) /\ Once(a, t)'
  BY <1>1, <1>2 DEF InDown, Once
<1>5. CASE a = b /\ t = u
  <2>1. ~Waiting(a, t) /\ ~InDown(a, t) /\ starting[a] # t
    BY <1>1, <1>2, <1>5 DEF Pair
  <2>2. engine'[a][t] = "reported"
    BY <1>1, <1>2, <1>5
  <2> QED
    BY <1>2, <1>3, <1>4, <2>1, <2>2 DEF Pair
<1>6. CASE ~(a = b /\ t = u)
  <2>1. engine'[a][t] = engine[a][t]
    BY <1>1, <1>2, <1>6
  <2>2. Ended(a, t)' => Ended(a, t)
    <3>1. CASE outbox'[a] = outbox[a]
      BY <1>2, <3>1 DEF Ended
    <3>2. CASE a = b /\ outbox'[a] = Append(outbox[a], u)
      <4>1. (\E i \in DOMAIN outbox'[a] : outbox'[a][i] = t) => \E i \in DOMAIN outbox[a] : outbox[a][i] = t
        BY <1>1, <1>6, <3>2, AppendHolds
      <4> QED
        BY <1>2, <4>1 DEF Ended
    <3> QED
      BY <1>1, <1>2, <3>1, <3>2
  <2> QED
    BY <1>1, <1>2, <1>3, <1>4, <2>1, <2>2, PairKeeps
<1> QED
  BY <1>5, <1>6

LEMMA PairStep ==
  ASSUME SwarmInv, [Next]_vars
  PROVE  PairInv'
<1>0. [TMNext]_tmVars
  BY ManagerSteps DEF SwarmInv
<1> DEFINE Same == UNCHANGED <<agentVars, down, outbox, arDone>>
<1>1. ASSUME NEW s \in Starters, ServerStart(s) \/ ServerPublishes(s)
      PROVE  PairInv'
  <2>1. Same /\ up' = up
    BY <1>1 DEF ServerStart, ServerPublishes, StartCheck, StartReject, StartPrepare, StartPublish, linkVars
  <2> QED
    BY <1>0, <2>1, QuietServer
<1>2. ASSUME NEW s \in Starters, NEW a \in Agents, ServerSendStart(s, a)
      PROVE  PairInv'
  BY <1>0, <1>2, PairSendStart
<1>3. ASSUME NEW p \in Stoppers, NEW t \in Tests, ServerStop(p, t)
      PROVE  PairInv'
  <2>1. Same /\ up' = up
    BY <1>3 DEF ServerStop, StopMark, linkVars
  <2> QED
    BY <1>0, <2>1, QuietServer
<1>4. ASSUME NEW p \in Stoppers, NEW a \in Agents, ServerSendStop(p, a)
      PROVE  PairInv'
  BY <1>0, <1>4, PairSendStop
<1>5. ASSUME NEW t \in Tests, ServerCloses(t) \/ ServerClock(t)
      PROVE  PairInv'
  <2>1. Same /\ up' = up
    BY <1>5 DEF ServerCloses, ServerClock, TickFinish, PassDuration, PassGrace, linkVars
  <2> QED
    BY <1>0, <2>1, QuietServer
<1>6. ASSUME NEW a \in Agents, NEW c \in Conns,
             ServerHello(a, c) \/ ServerHelloFails(a, c) \/ ServerWriteFails(a, c)
      PROVE  PairInv'
  <2>1. Same /\ up' = up
    BY <1>6 DEF ServerHello, ServerHelloFails, ServerWriteFails, linkVars, tmVars
  <2> QED
    BY <1>0, <2>1, QuietServer
<1>7. ASSUME NEW a \in Agents, NEW c \in Conns, ServerDrops(a, c)
      PROVE  PairInv'
  <2>1. Same /\ up' = [up EXCEPT ![a][c] = << >>]
    BY <1>7 DEF ServerDrops, tmVars
  <2>2. \A b \in Agents, d \in Conns : up'[b][d] \in {up[b][d], << >>}
    BY <2>1 DEF SwarmInv, TypeOK
  <2> QED
    BY <1>0, <2>1, <2>2, QuietServer
<1>8. ASSUME NEW a \in Agents, NEW c \in Conns, ServerRead(a, c)
      PROVE  PairInv'
  BY <1>0, <1>8, PairRead
<1>9. ASSUME NEW a \in Agents, AgentDials(a)
      PROVE  PairInv'
  BY <1>9, QuietAgent DEF AgentDials, agentVars
<1>10. ASSUME NEW a \in Agents, AgentHangsUp(a)
       PROVE  PairInv'
  <2>1. \A b \in Agents : down'[b] \in {down[b], << >>}
    BY <1>10 DEF AgentHangsUp, SwarmInv, TypeOK
  <2> QED
    BY <1>10, <2>1, QuietAgent DEF AgentHangsUp, agentVars
<1>11. ASSUME NEW a \in Agents, AgentCrash(a)
       PROVE  PairInv'
  <2>1. \A b \in Agents : down'[b] \in {down[b], << >>} /\ outbox'[b] \in {outbox[b], << >>}
    BY <1>11 DEF AgentCrash, SwarmInv, TypeOK
  <2>2. ASSUME NEW b \in Agents, NEW t \in Tests
        PROVE  /\ starting'[b] = t => starting[b] = t
               /\ engine'[b][t] = "none" <=> engine[b][t] = "none"
               /\ engine'[b][t] = "running" => engine[b][t] = "running"
    BY <1>11, EmptyIdIsNoTest DEF AgentCrash, Crash, SwarmInv, TypeOK, AgentTypeOK
  <2> QED
    BY <1>11, <2>1, <2>2, QuietAgent DEF AgentCrash
<1>12. ASSUME NEW a \in Agents, NEW t \in Tests, AgentExit(a, t)
       PROVE  PairInv'
  <2>1. ASSUME NEW b \in Agents, NEW u \in Tests
        PROVE  /\ engine'[b][u] = "none" <=> engine[b][u] = "none"
               /\ engine'[b][u] = "running" => engine[b][u] = "running"
    BY <1>12 DEF AgentExit, EngineExit, SwarmInv, TypeOK, AgentTypeOK
  <2> QED
    BY <1>12, <2>1, QuietAgent DEF AgentExit, EngineExit, linkVars
<1>13. CASE UNCHANGED vars
  <2>1. Same /\ up' = up
    BY <1>13 DEF vars, tmVars, linkVars
  <2> QED
    BY <1>0, <2>1, QuietServer
<1> QED
  BY <1>1, <1>2, <1>3, <1>4, <1>5, <1>6, <1>7, <1>8, <1>9, <1>10, <1>11, <1>12, <1>13,
     PairWrites, PairReads, PairInstalls, PairReports DEF Next, ServerNext, AgentsNext

-----------------------------------------------------------------------------
(* The agent within the composition.  StartPrepare's requests name each agent *)
(* once, so an agent that has been in a test gets no other start of it.       *)
LEMMA AgentSteps ==
  ASSUME SwarmInv, [Next]_vars
  PROVE  [AgentNext]_agentVars
<1> USE DEF AgentNext
<1>1. ASSUME NEW a \in Agents, AgentReads(a)
      PROVE  AgentNext
  <2>1. down[a] \in Seq(Frames) /\ down[a] # << >>
    BY <1>1 DEF SwarmInv, TypeOK, AgentReads
  <2>2. Head(down[a]) \in Frames /\ 1 \in DOMAIN down[a] /\ down[a][1] = Head(down[a])
    BY <2>1, QueueTail
  <2>3. Head(down[a]).test \in Tests
    BY <2>2 DEF Frames
  <2>4. CASE Head(down[a]).type = "start"
    <3>1. InDown(a, Head(down[a]).test)
      BY <2>2, <2>4 DEF InDown, StartFrame, Frames
    <3>2. engine[a][Head(down[a]).test] = "none"
      BY <2>3, <3>1 DEF SwarmInv, PairInv, Pair
    <3>3. HandleStart(a, Head(down[a]).test)
      BY <1>1, <2>4 DEF AgentReads
    <3> QED
      BY <2>3, <3>2, <3>3
  <2>5. CASE Head(down[a]).type = "stop"
    BY <1>1, <2>3, <2>5 DEF AgentReads
  <2> QED
    BY <1>1, <2>4, <2>5 DEF AgentReads
<1>2. ASSUME NEW a \in Agents, AgentInstalls(a)
      PROVE  AgentNext
  BY <1>2 DEF AgentInstalls
<1>3. ASSUME NEW a \in Agents, AgentCrash(a)
      PROVE  AgentNext
  BY <1>3 DEF AgentCrash
<1>4. ASSUME NEW a \in Agents, NEW t \in Tests, AgentReport(a, t) \/ AgentExit(a, t)
      PROVE  AgentNext
  BY <1>4 DEF AgentReport, AgentExit
<1>5. ASSUME NEW a \in Agents, AgentDials(a) \/ AgentHangsUp(a) \/ AgentWrites(a)
      PROVE  UNCHANGED agentVars
  BY <1>5 DEF AgentDials, AgentHangsUp, AgentWrites
<1>6. ASSUME ServerNext
      PROVE  UNCHANGED agentVars
  BY <1>6 DEF ServerNext, ServerStart, ServerPublishes, ServerSendStart, ServerStop, ServerSendStop,
              ServerCloses, ServerClock, ServerHello, ServerHelloFails, ServerRead, ServerDrops,
              ServerWriteFails
<1>7. CASE UNCHANGED vars
  BY <1>7 DEF vars
<1> QED
  BY <1>1, <1>2, <1>3, <1>4, <1>5, <1>6, <1>7 DEF Next, AgentsNext

-----------------------------------------------------------------------------
(* Types.                                                                     *)

LinkTypeOK ==
  /\ dialled \in [Agents -> 0..MaxConns]
  /\ session \in [Agents -> BOOLEAN]
  /\ outbox \in [Agents -> Seq(Tests)]
  /\ up \in [Agents -> [Conns -> Seq(Tests)]]
  /\ down \in [Agents -> Seq(Frames)]
  /\ calls \in 0..MaxStops

LEMMA SendTyped ==
  ASSUME LinkTypeOK, NEW a \in Agents, NEW frame \in Frames, Send(a, frame)
  PROVE  down' \in [Agents -> Seq(Frames)]
<1>1. down[a] \in Seq(Frames)
  BY DEF LinkTypeOK
<1>2. Append(down[a], frame) \in Seq(Frames)
  BY <1>1, QueueAppend
<1> QED
  BY <1>2 DEF Send, LinkTypeOK

LEMMA StopStep ==
  ASSUME TMTypeOK, StopInv, [TMNext]_tmVars
  PROVE  StopInv'
<1> USE DEF TMTypeOK, StopInv
<1>1. ASSUME NEW p \in Stoppers, TMStop(p)
      PROVE  StopInv'
  <2>1. ASSUME NEW t \in Tests, StopMark(p, t)
        PROVE  StopInv'
    BY <2>1 DEF StopMark
  <2>2. ASSUME NEW a \in Agents, StopSend(p, a)
        PROVE  StopInv'
    <3>1. /\ a \in stop[p].todo
          /\ stop' = [stop EXCEPT ![p] = IF @.todo = {a} THEN NotStopping
                                         ELSE [test |-> @.test, todo |-> @.todo \ {a}]]
      BY <2>2 DEF StopSend
    <3>2. stop'[p].todo # {} => stop'[p].test = stop[p].test
      BY <3>1 DEF NotStopping
    <3>3. \A q \in Stoppers : q # p => stop'[q] = stop[q]
      BY <3>1
    <3> QED
      BY <3>1, <3>2, <3>3
  <2> QED
    BY <1>1, <2>1, <2>2 DEF TMStop
<1>2. CASE UNCHANGED stop
  BY <1>2
<1>3. TMNext => (\E p \in Stoppers : TMStop(p)) \/ UNCHANGED stop
  BY DEF TMNext, TMStart, StartCheck, StartReject, StartPrepare, StartSend, StartPublish,
         TMTick, TickFinish, PassDuration, PassGrace, OnReport, OnProgress, OnDone, MarkDone
<1> QED
  BY <1>1, <1>2, <1>3 DEF tmVars

(* The queues and bounds keep their types in the steps that change them.      *)
LEMMA LinkTypeStep ==
  ASSUME SwarmInv, [Next]_vars
  PROVE  LinkTypeOK'
<1>0. LinkTypeOK
  BY DEF SwarmInv, TypeOK, LinkTypeOK
<1>1. CASE UNCHANGED <<linkVars, calls>>
  BY <1>0, <1>1 DEF LinkTypeOK, linkVars
<1>2. ASSUME NEW s \in Starters, NEW a \in Agents, ServerSendStart(s, a)
      PROVE  LinkTypeOK'
  <2>1. start[s].test \in Tests
    BY <1>2 DEF ServerSendStart, StartSend, SwarmInv, FreshInv, Sending
  <2>2. [type |-> "start", test |-> start[s].test] \in Frames
    BY <2>1 DEF Frames
  <2>3. down' \in [Agents -> Seq(Frames)]
    BY <1>0, <1>2, <2>2, SendTyped DEF ServerSendStart
  <2> QED
    BY <1>0, <1>2, <2>3 DEF ServerSendStart, LinkTypeOK
<1>3. ASSUME NEW p \in Stoppers, NEW a \in Agents, ServerSendStop(p, a)
      PROVE  LinkTypeOK'
  <2>1. stop[p].test \in Tests
    BY <1>3 DEF ServerSendStop, StopSend, SwarmInv, StopInv
  <2>2. [type |-> "stop", test |-> stop[p].test] \in Frames
    BY <2>1 DEF Frames
  <2>3. down' \in [Agents -> Seq(Frames)]
    BY <1>0, <1>3, <2>2, SendTyped DEF ServerSendStop
  <2> QED
    BY <1>0, <1>3, <2>3 DEF ServerSendStop, LinkTypeOK
<1>4. ASSUME NEW p \in Stoppers, NEW t \in Tests, ServerStop(p, t)
      PROVE  LinkTypeOK'
  <2>1. calls' \in 0..MaxStops
    BY <1>0, <1>4, SwarmBounds DEF ServerStop, LinkTypeOK, SwarmBounds
  <2> QED
    BY <1>0, <1>4, <2>1 DEF ServerStop, LinkTypeOK, linkVars
<1>5. ASSUME NEW a \in Agents, NEW c \in Conns, ServerRead(a, c)
      PROVE  LinkTypeOK'
  <2>1. up[a][c] \in Seq(Tests) /\ up[a][c] # << >>
    BY <1>0, <1>5 DEF ServerRead, LinkTypeOK
  <2>2. Tail(up[a][c]) \in Seq(Tests)
    BY <2>1, QueueTail
  <2>3. up' \in [Agents -> [Conns -> Seq(Tests)]]
    BY <1>0, <1>5, <2>2 DEF ServerRead, LinkTypeOK
  <2> QED
    BY <1>0, <1>5, <2>3 DEF ServerRead, LinkTypeOK
<1>6. ASSUME NEW a \in Agents, NEW c \in Conns, ServerDrops(a, c)
      PROVE  LinkTypeOK'
  <2>1. up' \in [Agents -> [Conns -> Seq(Tests)]]
    BY <1>0, <1>6, EmptySeq DEF ServerDrops, LinkTypeOK
  <2> QED
    BY <1>0, <1>6, <2>1 DEF ServerDrops, LinkTypeOK
<1>7. ASSUME NEW a \in Agents, AgentDials(a)
      PROVE  LinkTypeOK'
  <2>1. dialled' \in [Agents -> 0..MaxConns]
    BY <1>0, <1>7, MaxConnsAssumption DEF AgentDials, LinkTypeOK, MaxConnsAssumption
  <2>2. session' \in [Agents -> BOOLEAN]
    BY <1>0, <1>7 DEF AgentDials, LinkTypeOK
  <2> QED
    BY <1>0, <1>7, <2>1, <2>2 DEF AgentDials, LinkTypeOK
<1>8. ASSUME NEW a \in Agents, AgentHangsUp(a)
      PROVE  LinkTypeOK'
  <2>1. down' \in [Agents -> Seq(Frames)]
    BY <1>0, <1>8, EmptySeq DEF AgentHangsUp, LinkTypeOK
  <2>2. session' \in [Agents -> BOOLEAN]
    BY <1>0, <1>8 DEF AgentHangsUp, LinkTypeOK
  <2> QED
    BY <1>0, <1>8, <2>1, <2>2 DEF AgentHangsUp, LinkTypeOK
<1>9. ASSUME NEW a \in Agents, AgentWrites(a)
      PROVE  LinkTypeOK'
  <2>1. outbox[a] \in Seq(Tests) /\ outbox[a] # << >>
    BY <1>0, <1>9 DEF AgentWrites, LinkTypeOK
  <2>2. Head(outbox[a]) \in Tests /\ Tail(outbox[a]) \in Seq(Tests)
    BY <2>1, QueueTail
  <2>3. outbox' \in [Agents -> Seq(Tests)]
    BY <1>0, <1>9, <2>2 DEF AgentWrites, LinkTypeOK
  <2>4. up' \in [Agents -> [Conns -> Seq(Tests)]]
    <3>1. CASE dialled[a] \in Conns
      <4>1. up[a][dialled[a]] \in Seq(Tests)
        BY <1>0, <3>1 DEF LinkTypeOK
      <4>2. Append(up[a][dialled[a]], Head(outbox[a])) \in Seq(Tests)
        BY <2>2, <4>1, QueueAppend
      <4> QED
        BY <1>0, <1>9, <3>1, <4>2 DEF AgentWrites, LinkTypeOK
    <3>2. CASE dialled[a] \notin Conns
      BY <1>0, <1>9, <3>2 DEF AgentWrites, LinkTypeOK
    <3> QED
      BY <3>1, <3>2
  <2> QED
    BY <1>0, <1>9, <2>3, <2>4 DEF AgentWrites, LinkTypeOK
<1>10. ASSUME NEW a \in Agents, AgentReads(a)
       PROVE  LinkTypeOK'
  <2>1. down[a] \in Seq(Frames) /\ down[a] # << >>
    BY <1>0, <1>10 DEF AgentReads, LinkTypeOK
  <2>2. Tail(down[a]) \in Seq(Frames)
    BY <2>1, QueueTail
  <2>3. down' \in [Agents -> Seq(Frames)]
    BY <1>0, <1>10, <2>2 DEF AgentReads, LinkTypeOK
  <2> QED
    BY <1>0, <1>10, <2>3 DEF AgentReads, LinkTypeOK
<1>11. ASSUME NEW a \in Agents, NEW t \in Tests, AgentReport(a, t)
       PROVE  LinkTypeOK'
  <2>1. outbox[a] \in Seq(Tests)
    BY <1>0 DEF LinkTypeOK
  <2>2. Append(outbox[a], t) \in Seq(Tests)
    BY <2>1, QueueAppend
  <2>3. outbox' \in [Agents -> Seq(Tests)]
    BY <1>0, <1>11, <2>2 DEF AgentReport, LinkTypeOK
  <2> QED
    BY <1>0, <1>11, <2>3 DEF AgentReport, LinkTypeOK
<1>12. ASSUME NEW a \in Agents, AgentCrash(a)
       PROVE  LinkTypeOK'
  <2>1. down' \in [Agents -> Seq(Frames)] /\ outbox' \in [Agents -> Seq(Tests)]
    BY <1>0, <1>12, EmptySeq DEF AgentCrash, LinkTypeOK
  <2>2. session' \in [Agents -> BOOLEAN]
    BY <1>0, <1>12 DEF AgentCrash, LinkTypeOK
  <2> QED
    BY <1>0, <1>12, <2>1, <2>2 DEF AgentCrash, LinkTypeOK
<1>13. ASSUME NEW s \in Starters, ServerStart(s) \/ ServerPublishes(s)
       PROVE  UNCHANGED <<linkVars, calls>>
  BY <1>13 DEF ServerStart, ServerPublishes
<1>14. ASSUME NEW t \in Tests, ServerCloses(t) \/ ServerClock(t)
       PROVE  UNCHANGED <<linkVars, calls>>
  BY <1>14 DEF ServerCloses, ServerClock
<1>15. ASSUME NEW a \in Agents, NEW c \in Conns,
              ServerHello(a, c) \/ ServerHelloFails(a, c) \/ ServerWriteFails(a, c)
       PROVE  UNCHANGED <<linkVars, calls>>
  BY <1>15 DEF ServerHello, ServerHelloFails, ServerWriteFails
<1>16. ASSUME NEW a \in Agents, AgentInstalls(a) \/ \E t \in Tests : AgentExit(a, t)
       PROVE  UNCHANGED <<linkVars, calls>>
  BY <1>16 DEF AgentInstalls, AgentExit
<1>17. CASE UNCHANGED vars
  BY <1>1, <1>17 DEF vars
<1> QED
  BY <1>1, <1>2, <1>3, <1>4, <1>5, <1>6, <1>7, <1>8, <1>9, <1>10, <1>11, <1>12, <1>13, <1>14,
     <1>15, <1>16, <1>17 DEF Next, ServerNext, AgentsNext

-----------------------------------------------------------------------------
(* The invariant of the composition.                                          *)

LEMMA SwarmInit == ASSUME Init PROVE SwarmInv
<1>1. TMTypeOK /\ FreshInv /\ StopInv
  BY TypeInit DEF Init, TMInit, FreshInv, Sending, Idle, StopInv, NotStopping
<1>2. ControlInv
  BY ControlInit DEF Init
<1>3. HubInv
  BY HubInvInit DEF Init
<1>4. TypeOK
  <2>1. dialled \in [Agents -> 0..MaxConns] /\ calls \in 0..MaxStops
    BY MaxConnsAssumption, SwarmBounds DEF Init, MaxConnsAssumption, SwarmBounds
  <2>2. /\ outbox \in [Agents -> Seq(Tests)] /\ down \in [Agents -> Seq(Frames)]
        /\ up \in [Agents -> [Conns -> Seq(Tests)]]
    BY EmptySeq DEF Init
  <2>3. session \in [Agents -> BOOLEAN]
    BY DEF Init
  <2> QED
    BY <1>1, <1>2, <1>3, <2>1, <2>2, <2>3 DEF TypeOK, ControlInv, HubInv
<1>5. ASSUME NEW a \in Agents, NEW t \in Tests
      PROVE  Pair(a, t) /\ Once(a, t)
  <2>1. ~InDown(a, t) /\ Once(a, t)
    BY EmptyHolds DEF Init, InDown, Once
  <2>2. ~Ended(a, t)
    BY EmptyHolds DEF Init, TMInit, Ended
  <2>3. starting[a] # t /\ engine[a][t] = "none"
    BY EmptyIdIsNoTest DEF Init, AgentInit
  <2> QED
    BY <2>1, <2>2, <2>3 DEF Pair
<1> QED
  BY <1>1, <1>2, <1>3, <1>4, <1>5 DEF SwarmInv, PairInv

LEMMA SwarmStep ==
  ASSUME SwarmInv, [Next]_vars
  PROVE  SwarmInv'
<1>1. [TMNext]_tmVars /\ TMTypeOK /\ FreshInv /\ StopInv
  BY ManagerSteps DEF SwarmInv, TypeOK
<1>2. TMTypeOK' /\ FreshInv' /\ StopInv'
  BY <1>1, TypeStep, FreshStep, StopStep
<1>3. ControlInv'
  BY AgentSteps, ControlStep DEF SwarmInv
<1>4. HubInv'
  BY HubSteps, HubInvStep DEF SwarmInv
<1>5. TypeOK'
  BY <1>2, <1>3, <1>4, LinkTypeStep DEF TypeOK, LinkTypeOK, ControlInv, HubInv
<1> QED
  BY <1>2, <1>3, <1>4, <1>5, PairStep DEF SwarmInv

LEMMA SwarmInvariant == Safety => []SwarmInv
<1>1. Init => SwarmInv
  BY SwarmInit
<1>2. SwarmInv /\ [Next]_vars => SwarmInv'
  BY SwarmStep
<1> QED
  BY <1>1, <1>2, PTL DEF Safety

-----------------------------------------------------------------------------
(* The theorems.                                                              *)

(* Every variable of the composition keeps its type.                          *)
THEOREM SwarmTypeCorrect == Safety => []TypeOK
<1>1. SwarmInv => TypeOK
  BY DEF SwarmInv
<1> QED
  BY <1>1, SwarmInvariant, PTL

(* When the server counts an agent as done with a test, nothing of that test  *)
(* runs on the agent or is on its way to it, over any number of connections   *)
(* that are lost and replaced, crashes, stops, and calls of Start that        *)
(* overlap.                                                                   *)
THEOREM DoneAlwaysOver == Safety => []DoneMeansOver
<1>1. SwarmInv => DoneMeansOver
  <2> SUFFICES ASSUME SwarmInv, NEW t \in Tests, NEW a \in arDone[t] PROVE Over(a, t)
    BY DEF DoneMeansOver
  <2>1. a \in Agents
    BY DEF SwarmInv, TypeOK, TMTypeOK
  <2>2. Ended(a, t) /\ Pair(a, t)
    BY <2>1 DEF SwarmInv, PairInv, Ended
  <2> QED
    BY <2>2 DEF Pair, Over, StartPending, InDown, StartFrame
<1> QED
  BY <1>1, SwarmInvariant, PTL

(* The composition implements the test manager of TestManager and the hub of  *)
(* Hub: what is proved of each of them on its own holds in the whole system.  *)
THEOREM SwarmImplementsManager == Safety => TMSafety
<1>1. Init => TMInit
  BY DEF Init
<1>2. SwarmInv /\ [Next]_vars => [TMNext]_tmVars
  BY ManagerSteps DEF SwarmInv
<1> QED
  BY <1>1, <1>2, SwarmInvariant, PTL DEF Safety, TMSafety

(* Reconnects, crashes and frames that are lost are connections that come and *)
(* go for the hub: the composition takes only the hub's steps.                *)
THEOREM SwarmImplementsHub == Safety => HubSpec
<1>1. Init => HubInit
  BY DEF Init
<1>2. [Next]_vars => [HubNext]_hubVars
  BY HubSteps
<1> QED
  BY <1>1, <1>2, PTL DEF Safety, HubSpec

(* A closed test is never reopened, whatever comes over late connections and  *)
(* whichever calls of Start and Stop overlap.                                 *)
THEOREM SwarmDoneStaysDone == Safety => DoneIsFinal
BY SwarmImplementsManager, DoneStaysDone

(* So a test that closes by its reports, not by a deadline or a grace period, *)
(* is over on every agent that was in it.                                     *)
THEOREM ClosedAlwaysOver == Safety => []ClosedMeansOver
<1>1. Safety => []ClosedIsReported
  BY SwarmImplementsManager, ClosedOnReports
<1>2. ClosedIsReported /\ DoneMeansOver => ClosedMeansOver
  BY DEF ClosedIsReported, DoneMeansOver, ClosedMeansOver
<1> QED
  BY <1>1, <1>2, DoneAlwaysOver, PTL

(* The composition implements the agent of AgentTest, since its requests name *)
(* each agent once and a connection brings no frame twice.                    *)
LEMMA SwarmImplementsAgent == Safety => AgentSpec
<1>1. Init => AgentInit
  BY DEF Init
<1>2. SwarmInv /\ [Next]_vars => [AgentNext]_agentVars
  BY AgentSteps
<1> QED
  BY <1>1, <1>2, SwarmInvariant, PTL DEF Safety, AgentSpec

(* Hence no stop can miss an engine that runs, in the whole system too.       *)
THEOREM SwarmLiveIsCancellable == Safety => []LiveIsCancellable
BY SwarmImplementsAgent, NoStrayEngine
=============================================================================
