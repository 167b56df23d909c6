----------------------------- MODULE Tabs_proofs -----------------------------
(* Theorems about the presence events of a test and about the tabs that       *)
(* follow the hub, for any number of agents and connections, any room in the  *)
(* tab's queue and any order of callbacks, broadcasts and frames.             *)
EXTENDS Tabs, FiniteSetTheorems, SequenceTheorems, TLAPS

-----------------------------------------------------------------------------
(* Presence: what the test manager notes.                                     *)

LEMMA NoConnIsNoConn == NoConn \notin Conns
BY DEF NoConn, Conns

(* What addEvent does to a list: it stays within the cap, a full one stays     *)
(* full, and one with room keeps its entries and ends with the new one.        *)
LEMMA AddEventKeeps ==
  ASSUME NEW s \in Seq(EventKinds), Len(s) <= maxEvents, NEW e \in EventKinds
  PROVE  /\ AddEvent(s, e) \in Seq(EventKinds) /\ Len(AddEvent(s, e)) <= maxEvents
         /\ Len(s) = maxEvents => Len(AddEvent(s, e)) = maxEvents
         /\ Len(s) # maxEvents =>
              /\ \A i \in DOMAIN s : i \in DOMAIN AddEvent(s, e) /\ AddEvent(s, e)[i] = s[i]
              /\ Len(s) + 1 \in DOMAIN AddEvent(s, e)
              /\ AddEvent(s, e)[Len(s) + 1] = e
<1>1. /\ maxEvents \in Nat /\ maxEvents > 0
      /\ Len(s) \in Nat /\ Len(s) <= maxEvents /\ DOMAIN s = 1..Len(s)
  BY MaxEventsAssumption, LenProperties
<1>2. CASE Len(s) = maxEvents
  <2>1. AddEvent(s, e) = Append(Tail(s), e)
    BY <1>1, <1>2 DEF AddEvent
  <2>2. s # << >>
    BY <1>1, <1>2, EmptySeq
  <2>3. Tail(s) \in Seq(EventKinds) /\ Len(Tail(s)) = Len(s) - 1
    BY <2>2, HeadTailProperties
  <2>4. Append(Tail(s), e) \in Seq(EventKinds) /\ Len(Append(Tail(s), e)) = Len(s) - 1 + 1
    BY <2>3, AppendProperties
  <2> QED
    BY <1>1, <1>2, <2>1, <2>4
<1>3. CASE Len(s) # maxEvents
  <2>0. Len(s) < maxEvents
    <3>1. \A m, n \in Nat : m <= n /\ m # n => m < n
      OBVIOUS
    <3> QED
      BY <1>1, <1>3, <3>1
  <2>1. AddEvent(s, e) = Append(s, e) /\ Len(s) + 1 <= maxEvents
    <3>1. (IF Len(s) < maxEvents THEN s ELSE Tail(s)) = s
      BY <2>0
    <3>2. Len(s) + 1 <= maxEvents
      BY <1>1, <2>0
    <3> QED
      BY <3>1, <3>2 DEF AddEvent
  <2>2. /\ Append(s, e) \in Seq(EventKinds) /\ Len(Append(s, e)) = Len(s) + 1
        /\ DOMAIN Append(s, e) = 1..(Len(s) + 1)
        /\ \A i \in 1..Len(s) : Append(s, e)[i] = s[i]
        /\ Append(s, e)[Len(s) + 1] = e
    BY AppendProperties, LenProperties
  <2> DEFINE t == Append(s, e)
  <2> HIDE DEF t
  <2>3. /\ t \in Seq(EventKinds) /\ Len(t) = Len(s) + 1 /\ DOMAIN t = 1..(Len(s) + 1)
        /\ \A i \in 1..Len(s) : t[i] = s[i]
        /\ t[Len(s) + 1] = e
    BY <2>2 DEF t
  <2>4. AddEvent(s, e) = t
    BY <2>1 DEF t
  <2>5. Len(s) + 1 \in DOMAIN t /\ \A i \in DOMAIN s : i \in DOMAIN t /\ t[i] = s[i]
    BY <1>1, <2>3
  <2> QED
    BY <1>3, <2>1, <2>3, <2>4, <2>5
<1> QED
  BY <1>2, <1>3

(* An agent's events have an offline one, or have been full.                   *)
Noted(a) ==
  \/ \E i \in DOMAIN events[a] : events[a][i] = "offline"
  \/ Len(events[a]) = maxEvents

(* An outage is noted, or its callback is still due.  This is what a step      *)
(* keeps; OutageIsNoted is the case where no callback is due.                  *)
OutageIsDue ==
  \A a \in Agents :
    noting[a] /\ startedOn[a] /\ ~Online(a) => leaving[a] # {} \/ Noted(a)

Inv == /\ TypeOK
       /\ OutageIsDue

LEMMA InvInit == ASSUME Init PROVE Inv
<1>1. << >> \in Seq(EventKinds) /\ Len(<< >>) = 0 /\ 0 <= maxEvents
  BY EmptySeq, MaxEventsAssumption
<1> QED
  BY <1>1 DEF Init, HubInit, Inv, TypeOK, HubTypeOK, OutageIsDue

(* What a new event of an agent does to the events.                            *)
LEMMA EventNotes ==
  ASSUME TypeOK, NEW a \in Agents, NEW kind \in EventKinds,
         events' = [events EXCEPT ![a] = AddEvent(@, kind)]
  PROVE  /\ events' \in [Agents -> Seq(EventKinds)]
         /\ \A b \in Agents : Len(events'[b]) <= maxEvents
         /\ \A b \in Agents : Noted(b) => Noted(b)'
         /\ kind = "offline" => Noted(a)'
<1> USE DEF TypeOK
<1> DEFINE s == events[a]
           t == AddEvent(s, kind)
<1>1. s \in Seq(EventKinds) /\ Len(s) <= maxEvents
  OBVIOUS
<1>2. /\ t \in Seq(EventKinds) /\ Len(t) <= maxEvents
      /\ Len(s) = maxEvents => Len(t) = maxEvents
      /\ Len(s) # maxEvents =>
           /\ \A i \in DOMAIN s : i \in DOMAIN t /\ t[i] = s[i]
           /\ Len(s) + 1 \in DOMAIN t /\ t[Len(s) + 1] = kind
  BY <1>1, AddEventKeeps
<1>3. events'[a] = t /\ \A b \in Agents \ {a} : events'[b] = events[b]
  OBVIOUS
<1> HIDE DEF t
<1>4. events' \in [Agents -> Seq(EventKinds)]
  BY <1>2 DEF t
<1>5. \A b \in Agents : Len(events'[b]) <= maxEvents
  BY <1>2, <1>3
<1>6. ASSUME NEW b \in Agents, Noted(b)
      PROVE  Noted(b)'
  <2>1. CASE b = a
    BY <1>2, <1>3, <1>6, <2>1 DEF Noted
  <2>2. CASE b # a
    BY <1>3, <1>6, <2>2 DEF Noted
  <2> QED
    BY <2>1, <2>2
<1>7. kind = "offline" => Noted(a)'
  BY <1>2, <1>3 DEF Noted
<1> QED
  BY <1>4, <1>5, <1>6, <1>7

(* And a callback.                                                             *)
LEMMA CallbackNotes ==
  ASSUME TypeOK, NEW a \in Agents, NEW kind \in EventKinds, OnPresence(a, kind)
  PROVE  /\ events' \in [Agents -> Seq(EventKinds)]
         /\ \A b \in Agents : Len(events'[b]) <= maxEvents
         /\ \A b \in Agents : Noted(b) => Noted(b)'
         /\ kind = "offline" /\ noting[a] => Noted(a)'
<1>1. CASE noting[a]
  <2>1. events' = [events EXCEPT ![a] = AddEvent(@, kind)]
    BY <1>1 DEF OnPresence
  <2> QED
    BY <2>1, EventNotes
<1>2. CASE ~noting[a]
  BY <1>2 DEF OnPresence, Noted, TypeOK
<1> QED
  BY <1>1, <1>2

LEMMA InvStep == ASSUME Inv, [Next]_vars PROVE Inv'
<1> USE NoConnIsNoConn DEF Inv, TypeOK, HubTypeOK, Online
<1>1. ASSUME NEW a \in Agents, TestPublished(a)
      PROVE  Inv'
  BY <1>1 DEF TestPublished, hubVars, OutageIsDue, Noted
<1>2. ASSUME NEW a \in Agents, TestOver(a)
      PROVE  Inv'
  <2>1. << >> \in Seq(EventKinds) /\ Len(<< >>) = 0 /\ 0 <= maxEvents
    BY EmptySeq, MaxEventsAssumption
  <2>2. TypeOK'
    BY <1>2, <2>1 DEF TestOver, hubVars
  <2>3. /\ ~noting'[a] /\ UNCHANGED <<hubConn, leaving>>
        /\ \A b \in Agents \ {a} : /\ events'[b] = events[b]
                                   /\ noting'[b] = noting[b] /\ startedOn'[b] = startedOn[b]
    BY <1>2 DEF TestOver, hubVars
  <2>4. ASSUME NEW b \in Agents, noting'[b], startedOn'[b], ~Online(b)'
        PROVE  leaving'[b] # {} \/ Noted(b)'
    <3>1. b # a /\ noting[b] /\ startedOn[b] /\ ~Online(b)
      BY <2>3, <2>4
    <3>2. leaving[b] # {} \/ Noted(b)
      BY <3>1 DEF OutageIsDue
    <3> QED
      BY <2>3, <3>1, <3>2 DEF Noted
  <2> QED
    BY <2>2, <2>4 DEF OutageIsDue
<1>9. ASSUME NEW a \in Agents, LinkNoted(a)
      PROVE  Inv'
  <2>1. "link" \in EventKinds /\ events' = [events EXCEPT ![a] = AddEvent(@, "link")]
    BY <1>9 DEF EventKinds, LinkNoted
  <2>2. /\ events' \in [Agents -> Seq(EventKinds)]
        /\ \A b \in Agents : Len(events'[b]) <= maxEvents
        /\ \A b \in Agents : Noted(b) => Noted(b)'
    BY <2>1, EventNotes
  <2> QED
    BY <1>9, <2>2 DEF LinkNoted, hubVars, OutageIsDue
<1>3. ASSUME NEW a \in Agents, NEW c \in Conns, HandlerJoins(a, c)
      PROVE  Inv'
  <2>1. TypeOK'
    BY <1>3 DEF HandlerJoins, Register
  <2>2. OutageIsDue'
    BY <1>3 DEF HandlerJoins, Register, OutageIsDue, Noted
  <2> QED
    BY <2>1, <2>2
<1>4. ASSUME NEW a \in Agents, NEW c \in Conns, HandlerLeaves(a, c)
      PROVE  Inv'
  <2>1. TypeOK'
    BY <1>4 DEF HandlerLeaves, Unregister
  <2>2. OutageIsDue'
    BY <1>4 DEF HandlerLeaves, Unregister, OutageIsDue, Noted
  <2> QED
    BY <2>1, <2>2
<1>5. ASSUME NEW a \in Agents, NEW c \in Conns, AnnounceJoin(a, c)
      PROVE  Inv'
  <2>0. {"online", "offline"} \subseteq EventKinds
    BY DEF EventKinds
  <2>1. /\ events' \in [Agents -> Seq(EventKinds)]
        /\ \A b \in Agents : Len(events'[b]) <= maxEvents
        /\ \A b \in Agents : Noted(b) => Noted(b)'
    BY <1>5, <2>0, CallbackNotes DEF AnnounceJoin
  <2>2. joining' \in [Agents -> SUBSET Conns] /\ UNCHANGED <<hubVars, leaving, noting, startedOn>>
    BY <1>5 DEF AnnounceJoin
  <2> QED
    BY <2>1, <2>2 DEF hubVars, OutageIsDue
<1>6. ASSUME NEW a \in Agents, NEW c \in Conns, AnnounceLeave(a, c)
      PROVE  Inv'
  <2>0. {"online", "offline"} \subseteq EventKinds
    BY DEF EventKinds
  <2>1. /\ events' \in [Agents -> Seq(EventKinds)]
        /\ \A b \in Agents : Len(events'[b]) <= maxEvents
        /\ \A b \in Agents : Noted(b) => Noted(b)'
        /\ noting[a] => Noted(a)'
    BY <1>6, <2>0, CallbackNotes DEF AnnounceLeave
  <2>2. /\ leaving' \in [Agents -> SUBSET Conns]
        /\ \A b \in Agents \ {a} : leaving'[b] = leaving[b]
        /\ UNCHANGED <<hubVars, joining, noting, startedOn>>
    BY <1>6 DEF AnnounceLeave
  <2> QED
    BY <2>1, <2>2 DEF hubVars, OutageIsDue
<1>7. ASSUME NEW a \in Agents, NEW c \in Conns, ConnectionFails(a, c)
      PROVE  Inv'
  <2>1. HubTypeOK' /\ hubConn' = hubConn
    <3>1. CASE HelloFails(a, c)
      BY <3>1 DEF HelloFails
    <3>2. CASE WriteFails(a, c)
      BY <3>2 DEF WriteFails
    <3> QED
      BY <1>7, <3>1, <3>2 DEF ConnectionFails
  <2>2. UNCHANGED presenceVars
    BY <1>7 DEF ConnectionFails
  <2> QED
    BY <2>1, <2>2 DEF presenceVars, OutageIsDue, Noted
<1>8. CASE UNCHANGED vars
  BY <1>8 DEF vars, hubVars, presenceVars, OutageIsDue, Noted
<1> QED
  BY <1>1, <1>2, <1>3, <1>4, <1>5, <1>6, <1>7, <1>8, <1>9 DEF Next

(* No outage of a test is missed: an agent that was online when the test       *)
(* began and is offline now, with no callback due, has an offline event.       *)
THEOREM OutageAlwaysNoted == Spec => []OutageIsNoted
<1>1. Init => Inv
  BY InvInit
<1>2. Inv /\ [Next]_vars => Inv'
  BY InvStep
<1>3. Inv => OutageIsNoted
  BY DEF Inv, OutageIsDue, OutageIsNoted, Settled, Noted
<1> QED
  BY <1>1, <1>2, <1>3, PTL DEF Spec

-----------------------------------------------------------------------------
(* Tabs.  What they add to the hub and its callbacks disturbs neither.        *)

LEMMA HandlerSteps ==
  ASSUME [TabsNext]_allVars
  PROVE  [Next]_vars
<1>1. CASE Page
  BY <1>1 DEF Page, TabOpens, TakeSnapshot, SendSnapshot, TabRemoved, NoTab, WriteFrame,
              WriteFrameFails, BrowserLeaves, hubSide
<1>2. ASSUME NEW a \in Agents, TestFollows(a)
      PROVE  Next
  BY <1>2 DEF TestFollows, Next
<1>3. ASSUME NEW a \in Agents, NEW c \in Conns, Joins(a, c) \/ Leaves(a, c)
      PROVE  Next
  BY <1>3 DEF Joins, Leaves, Next
<1>4. ASSUME NEW a \in Agents, NEW c \in Conns, Callback(a, c)
      PROVE  [Next]_vars
  BY <1>4 DEF Callback, Announces, ListAgents, Broadcast, Next
<1>5. ASSUME NEW a \in Agents, NEW c \in Conns, ConnectionFails(a, c)
      PROVE  Next
  BY <1>5 DEF Next
<1>6. CASE UNCHANGED allVars
  BY <1>6 DEF allVars
<1> QED
  BY <1>1, <1>2, <1>3, <1>4, <1>5, <1>6 DEF TabsNext

(* Tabs that open, stall, fail and leave change nothing in what the hub and   *)
(* the test manager do: every behaviour with them is one without them.        *)
THEOREM TabsImplementPresence == TabsSpec => Spec
<1>1. TabsInit => Init
  BY DEF TabsInit
<1>2. [TabsNext]_allVars => [Next]_vars
  BY HandlerSteps
<1> QED
  BY <1>1, <1>2, PTL DEF TabsSpec, Spec

(* So the presence events miss no outage whatever tabs do.                    *)
THEOREM OutageNotedWithTabs == TabsSpec => []OutageIsNoted
BY TabsImplementPresence, OutageAlwaysNoted, PTL

(* And the hub's own theorems hold of it: its entries, handlers and sockets   *)
(* take only steps of the hub on its own, through callbacks and broadcasts.   *)
THEOREM TabsImplementHub == TabsSpec => HubSpec
<1>1. Init => HubInit
  BY DEF Init
<1>2. ASSUME [Next]_vars
      PROVE  [HubNext]_hubVars
  <2>1. ASSUME NEW a \in Agents, TestPublished(a) \/ LinkNoted(a) \/ TestOver(a)
        PROVE  UNCHANGED hubVars
    BY <2>1 DEF TestPublished, LinkNoted, TestOver
  <2>2. ASSUME NEW a \in Agents, NEW c \in Conns,
               HandlerJoins(a, c) \/ HandlerLeaves(a, c) \/ ConnectionFails(a, c)
        PROVE  HubNext
    BY <2>2 DEF HandlerJoins, HandlerLeaves, ConnectionFails, HubNext
  <2>3. ASSUME NEW a \in Agents, NEW c \in Conns, AnnounceJoin(a, c) \/ AnnounceLeave(a, c)
        PROVE  UNCHANGED hubVars
    BY <2>3 DEF AnnounceJoin, AnnounceLeave
  <2>4. CASE UNCHANGED vars
    BY <2>4 DEF vars
  <2> QED
    BY <1>2, <2>1, <2>2, <2>3, <2>4 DEF Next
<1>3. [Next]_vars => [HubNext]_hubVars
  BY <1>2
<1> QED
  BY <1>1, <1>3, TabsImplementPresence, PTL DEF Spec, HubSpec

-----------------------------------------------------------------------------
(* How many changes the hub can have seen.                                    *)

Entered  == {p \in Agents \X Conns : handler[p[1]][p[2]] # "none"}
Departed == {p \in Agents \X Conns : handler[p[1]][p[2]] = "gone"}

(* A connection changes the hub's entry at most when it enters and when it    *)
(* leaves.                                                                    *)
VersionCounted == version <= Cardinality(Entered) + Cardinality(Departed)

LEMMA PairsBounded ==
  ASSUME NEW S \in SUBSET (Agents \X Conns)
  PROVE  /\ IsFiniteSet(S) /\ Cardinality(S) \in Nat
         /\ Cardinality(S) <= MaxConns * Cardinality(Agents)
<1>1. IsFiniteSet(Agents) /\ Cardinality(Agents) \in Nat
  BY AgentsAssumption, FS_CardinalityType
<1>2. IsFiniteSet(Conns) /\ Cardinality(Conns) = MaxConns /\ MaxConns \in Nat
  BY MaxConnsAssumption, FS_Interval DEF Conns
<1>3. /\ IsFiniteSet(Agents \X Conns)
      /\ Cardinality(Agents \X Conns) = Cardinality(Agents) * MaxConns
  BY <1>1, <1>2, FS_Product
<1>4. IsFiniteSet(S) /\ Cardinality(S) <= Cardinality(Agents \X Conns)
  BY <1>3, FS_Subset
<1>5. Cardinality(S) \in Nat
  BY <1>4, FS_CardinalityType
<1>6. Cardinality(Agents) * MaxConns = MaxConns * Cardinality(Agents)
  BY <1>1, <1>2
<1> QED
  BY <1>3, <1>4, <1>5, <1>6

LEMMA PairsGrow ==
  ASSUME NEW S \in SUBSET (Agents \X Conns), NEW T \in SUBSET (Agents \X Conns), S \subseteq T
  PROVE  /\ Cardinality(S) \in Nat /\ Cardinality(T) \in Nat /\ Cardinality(S) <= Cardinality(T)
         /\ S # T => Cardinality(S) + 1 <= Cardinality(T)
<1>1. IsFiniteSet(T) /\ Cardinality(S) \in Nat /\ Cardinality(T) \in Nat
  BY PairsBounded
<1>2. Cardinality(S) <= Cardinality(T) /\ (Cardinality(T) = Cardinality(S) => T = S)
  BY <1>1, FS_Subset
<1> QED
  BY <1>1, <1>2

(* Handlers only go forward.                                                  *)
LEMMA HandlersAdvance ==
  ASSUME TypeOK, [Next]_vars
  PROVE  Entered \subseteq Entered' /\ Departed \subseteq Departed'
<1> USE DEF TypeOK, HubTypeOK
<1>1. ASSUME NEW a \in Agents, NEW c \in Conns, NEW s \in {"reading", "gone"},
             handler[a][c] # "gone", handler' = [handler EXCEPT ![a][c] = s]
      PROVE  Entered \subseteq Entered' /\ Departed \subseteq Departed'
  <2>1. \A b \in Agents, d \in Conns :
          handler'[b][d] = IF b = a /\ d = c THEN s ELSE handler[b][d]
    BY <1>1
  <2> QED
    BY <1>1, <2>1 DEF Entered, Departed
<1>2. CASE handler' = handler
  BY <1>2 DEF Entered, Departed
<1>3. ASSUME NEW a \in Agents, TestPublished(a) \/ LinkNoted(a) \/ TestOver(a)
      PROVE  handler' = handler
  BY <1>3 DEF TestPublished, LinkNoted, TestOver, hubVars
<1>4. ASSUME NEW a \in Agents, NEW c \in Conns, HandlerJoins(a, c)
      PROVE  handler[a][c] # "gone" /\ handler' = [handler EXCEPT ![a][c] = "reading"]
  BY <1>4 DEF HandlerJoins, Register
<1>5. ASSUME NEW a \in Agents, NEW c \in Conns, HandlerLeaves(a, c)
      PROVE  handler[a][c] # "gone" /\ handler' = [handler EXCEPT ![a][c] = "gone"]
  BY <1>5 DEF HandlerLeaves, Unregister
<1>6. ASSUME NEW a \in Agents, NEW c \in Conns, AnnounceJoin(a, c) \/ AnnounceLeave(a, c)
      PROVE  handler' = handler
  BY <1>6 DEF AnnounceJoin, AnnounceLeave, hubVars
<1>7. ASSUME NEW a \in Agents, NEW c \in Conns, ConnectionFails(a, c)
      PROVE  \/ handler' = handler
             \/ handler[a][c] # "gone" /\ handler' = [handler EXCEPT ![a][c] = "gone"]
  BY <1>7 DEF ConnectionFails, HelloFails, WriteFails
<1> DEFINE Moves(a, c, s) == /\ handler[a][c] # "gone"
                             /\ handler' = [handler EXCEPT ![a][c] = s]
<1>8. \/ handler' = handler
      \/ \E a \in Agents, c \in Conns : Moves(a, c, "reading") \/ Moves(a, c, "gone")
  <2>1. CASE UNCHANGED vars
    BY <2>1 DEF vars, hubVars
  <2>2. CASE Next
    <3>1. PICK a \in Agents :
            \/ TestPublished(a) \/ LinkNoted(a) \/ TestOver(a)
            \/ \E c \in Conns :
                 \/ HandlerJoins(a, c) \/ HandlerLeaves(a, c)
                 \/ AnnounceJoin(a, c) \/ AnnounceLeave(a, c) \/ ConnectionFails(a, c)
      BY <2>2 DEF Next
    <3>2. CASE TestPublished(a) \/ LinkNoted(a) \/ TestOver(a)
      BY <1>3, <3>2
    <3>3. CASE \E c \in Conns :
                 \/ HandlerJoins(a, c) \/ HandlerLeaves(a, c)
                 \/ AnnounceJoin(a, c) \/ AnnounceLeave(a, c) \/ ConnectionFails(a, c)
      BY <1>4, <1>5, <1>6, <1>7, <3>3
    <3> QED
      BY <3>1, <3>2, <3>3
  <2> QED
    BY <2>1, <2>2
<1>9. ASSUME NEW a \in Agents, NEW c \in Conns, Moves(a, c, "reading") \/ Moves(a, c, "gone")
      PROVE  Entered \subseteq Entered' /\ Departed \subseteq Departed'
  BY <1>1, <1>9
<1> QED
  BY <1>2, <1>8, <1>9

LEMMA VersionStep ==
  ASSUME TypeOK, TypeOK', [TabsNext]_allVars, version \in Nat, VersionCounted
  PROVE  version' \in Nat /\ version <= version' /\ VersionCounted'
<1>1. /\ Entered \in SUBSET (Agents \X Conns) /\ Departed \in SUBSET (Agents \X Conns)
      /\ Entered' \in SUBSET (Agents \X Conns) /\ Departed' \in SUBSET (Agents \X Conns)
  BY DEF Entered, Departed
<1>2. Entered \subseteq Entered' /\ Departed \subseteq Departed'
  BY HandlerSteps, HandlersAdvance
<1> DEFINE e == Cardinality(Entered)
           d == Cardinality(Departed)
           e1 == Cardinality(Entered')
           d1 == Cardinality(Departed')
<1>3. /\ e \in Nat /\ e1 \in Nat /\ e <= e1 /\ (Entered # Entered' => e + 1 <= e1)
      /\ d \in Nat /\ d1 \in Nat /\ d <= d1 /\ (Departed # Departed' => d + 1 <= d1)
  BY <1>1, <1>2, PairsGrow
<1>4. VersionCounted' <=> version' <= e1 + d1
  BY DEF VersionCounted
<1>5. version <= e + d
  BY DEF VersionCounted
<1> HIDE DEF e, d, e1, d1
<1>6. ASSUME NEW a \in Agents, NEW c \in Conns, Joins(a, c)
      PROVE  version' = version + 1 /\ Entered # Entered'
  <2>1. handler[a][c] = "none" /\ handler'[a][c] = "reading"
    BY <1>6 DEF Joins, HandlerJoins, Register, TypeOK, HubTypeOK
  <2>2. <<a, c>> \notin Entered /\ <<a, c>> \in Entered'
    BY <2>1 DEF Entered
  <2> QED
    BY <1>6, <2>2 DEF Joins
<1>7. ASSUME NEW a \in Agents, NEW c \in Conns, Leaves(a, c)
      PROVE  version' \in {version, version + 1} /\ Departed # Departed'
  <2>1. handler[a][c] = "reading" /\ handler'[a][c] = "gone"
    BY <1>7 DEF Leaves, HandlerLeaves, Unregister, TypeOK, HubTypeOK
  <2>2. <<a, c>> \notin Departed /\ <<a, c>> \in Departed'
    BY <2>1 DEF Departed
  <2> QED
    BY <1>7, <2>2 DEF Leaves
<1>8. CASE version' = version
  BY <1>3, <1>4, <1>5, <1>8
<1>9. CASE version' \in {version, version + 1} /\ (Entered # Entered' \/ Departed # Departed')
  BY <1>3, <1>4, <1>5, <1>9
<1>10. CASE Page \/ UNCHANGED allVars
  BY <1>8, <1>10 DEF Page, TabOpens, TakeSnapshot, SendSnapshot, TabRemoved, NoTab, WriteFrame,
                     WriteFrameFails, BrowserLeaves, hubSide, allVars, tabVars
<1>11. ASSUME NEW a \in Agents, TestFollows(a)
       PROVE  version' = version
  BY <1>11 DEF TestFollows, tabVars
<1>12. ASSUME NEW a \in Agents, NEW c \in Conns,
              Callback(a, c) \/ (ConnectionFails(a, c) /\ UNCHANGED tabVars)
       PROVE  version' = version
  BY <1>12 DEF Callback, Announces, ListAgents, Broadcast, tabVars
<1> QED
  BY <1>6, <1>7, <1>8, <1>9, <1>10, <1>11, <1>12 DEF TabsNext

LEMMA VersionTypes ==
  /\ Versions \subseteq Nat /\ 0 \in Versions
  /\ \A v \in Nat : \A S, T \in SUBSET (Agents \X Conns) :
       v <= Cardinality(S) + Cardinality(T) => v \in Versions
<1> DEFINE n == Cardinality(Agents)
           m == MaxConns * n
<1>1. n \in Nat /\ MaxConns \in Nat
  BY AgentsAssumption, FS_CardinalityType, MaxConnsAssumption
<1>2. m \in Nat /\ 2 * MaxConns * n = m + m
  BY <1>1
<1>3. Versions = 0..(m + m)
  BY <1>2 DEF Versions
<1>4. ASSUME NEW v \in Nat, NEW S \in SUBSET (Agents \X Conns), NEW T \in SUBSET (Agents \X Conns),
             v <= Cardinality(S) + Cardinality(T)
      PROVE  v \in Versions
  <2>1. /\ Cardinality(S) \in Nat /\ Cardinality(S) <= m
        /\ Cardinality(T) \in Nat /\ Cardinality(T) <= m
    BY PairsBounded
  <2> HIDE DEF m
  <2> QED
    BY <1>2, <1>3, <1>4, <2>1
<1>5. Versions \subseteq Nat /\ 0 \in Versions
  <2> HIDE DEF m
  <2> QED
    BY <1>2, <1>3
<1> QED
  BY <1>4, <1>5

-----------------------------------------------------------------------------
(* No list is newer than the hub, and the newest is always coming.            *)

NotAhead ==
  /\ snapshot <= version /\ shown <= version
  /\ \A i \in DOMAIN queue : queue[i] <= version
  /\ \A l \in listed : l[3] <= version

(* The newest list, on its way to a tab that has its snapshot: a handler has  *)
(* yet to list the agents or to broadcast what it listed, or the page has it. *)
NewestIsComing ==
  \/ \E a \in Agents : joining[a] \cup leaving[a] # {}
  \/ due # {}
  \/ \E l \in listed : l[3] = version
  \/ tab = "sending" /\ snapshot = version
  \/ \E i \in DOMAIN queue : queue[i] = version
  \/ shown = version

Followed == tab \in {"sending", "reading"} /\ ~shut /\ ~dropped => NewestIsComing

TabsInv == TabsTypeOK /\ VersionCounted /\ NotAhead /\ Followed

(* What the steps of the page and of a broadcast do to a queue of versions.   *)
LEMMA QueueOfVersions ==
  ASSUME NEW q \in Seq(Versions)
  PROVE  /\ Len(q) \in Nat /\ DOMAIN q = 1..Len(q)
         /\ \A i \in DOMAIN q : q[i] \in Nat
         /\ \A v \in Versions :
              /\ Append(q, v) \in Seq(Versions) /\ Len(Append(q, v)) = Len(q) + 1
              /\ \A i \in DOMAIN q : i \in DOMAIN Append(q, v) /\ Append(q, v)[i] = q[i]
              /\ Len(q) + 1 \in DOMAIN Append(q, v) /\ Append(q, v)[Len(q) + 1] = v
              /\ \A i \in DOMAIN Append(q, v) : i \in DOMAIN q \/ i = Len(q) + 1
         /\ q # << >> =>
              /\ Head(q) \in Versions /\ Tail(q) \in Seq(Versions) /\ Len(Tail(q)) = Len(q) - 1
              /\ 1 \in DOMAIN q /\ Head(q) = q[1]
              /\ \A i \in DOMAIN q : i # 1 => i - 1 \in DOMAIN Tail(q) /\ Tail(q)[i - 1] = q[i]
              /\ \A i \in DOMAIN Tail(q) : i + 1 \in DOMAIN q /\ Tail(q)[i] = q[i + 1]
<1>1. /\ Len(q) \in Nat /\ DOMAIN q = 1..Len(q)
      /\ \A i \in DOMAIN q : q[i] \in Nat
  BY LenProperties, VersionTypes
<1>2. ASSUME NEW v \in Versions
      PROVE  /\ Append(q, v) \in Seq(Versions) /\ Len(Append(q, v)) = Len(q) + 1
             /\ DOMAIN Append(q, v) = 1..(Len(q) + 1)
             /\ \A i \in DOMAIN q : Append(q, v)[i] = q[i]
             /\ Append(q, v)[Len(q) + 1] = v
  BY <1>1, AppendProperties, LenProperties
<1>3. ASSUME q # << >>
      PROVE  /\ Head(q) \in Versions /\ Tail(q) \in Seq(Versions) /\ Len(Tail(q)) = Len(q) - 1
             /\ DOMAIN Tail(q) = 1..(Len(q) - 1)
             /\ 1 \in DOMAIN q /\ Head(q) = q[1]
             /\ \A i \in 1..(Len(q) - 1) : Tail(q)[i] = q[i + 1]
  BY <1>1, <1>3, EmptySeq, HeadTailProperties, LenProperties
<1>4. ASSUME q # << >>
      PROVE  /\ \A i \in DOMAIN q : i # 1 => i - 1 \in DOMAIN Tail(q) /\ Tail(q)[i - 1] = q[i]
             /\ \A i \in DOMAIN Tail(q) : i + 1 \in DOMAIN q /\ Tail(q)[i] = q[i + 1]
  BY <1>1, <1>3, <1>4
<1>5. ASSUME NEW v \in Versions
      PROVE  /\ \A i \in DOMAIN q : i \in DOMAIN Append(q, v)
             /\ Len(q) + 1 \in DOMAIN Append(q, v)
             /\ \A i \in DOMAIN Append(q, v) : i \in DOMAIN q \/ i = Len(q) + 1
  BY <1>1, <1>2, <1>5
<1> QED
  BY <1>1, <1>2, <1>3, <1>4, <1>5

LEMMA TabsInvInit == ASSUME TabsInit PROVE TabsInv
<1>1. TypeOK /\ << >> \in Seq(Versions) /\ 0 \in Versions
  BY InvInit, EmptySeq, VersionTypes DEF Inv, TabsInit
<1>2. Len(<< >>) <= QueueSize
  BY EmptySeq, QueueSizeAssumption
<1>3. TabsTypeOK
  BY <1>1, <1>2 DEF TabsInit, TabsTypeOK
<1>4. VersionCounted
  <2>1. Entered \in SUBSET (Agents \X Conns) /\ Departed \in SUBSET (Agents \X Conns)
    BY DEF Entered, Departed
  <2>2. Cardinality(Entered) \in Nat /\ Cardinality(Departed) \in Nat
    BY <2>1, PairsBounded
  <2> QED
    BY <2>2 DEF TabsInit, VersionCounted
<1> QED
  BY <1>3, <1>4 DEF TabsInit, TabsInv, NotAhead, Followed

(* The handlers' steps up to the broadcast.                                   *)
LEMMA HandlersKeep ==
  ASSUME TabsInv, TypeOK', VersionCounted', version' \in Versions,
         NEW a \in Agents, NEW c \in Conns,
         \/ Joins(a, c)
         \/ Leaves(a, c)
         \/ Announces(a, c)
         \/ ListAgents(a, c)
         \/ ConnectionFails(a, c) /\ UNCHANGED tabVars
  PROVE  TabsInv'
<1> USE DEF TabsInv, TabsTypeOK
<1>0. version \in Nat /\ \A l \in listed : l[3] \in Nat /\ snapshot \in Nat /\ shown \in Nat
  BY VersionTypes
<1>1. \A i \in DOMAIN queue : queue[i] \in Nat
  BY QueueOfVersions
<1>2. CASE Joins(a, c) \/ (Leaves(a, c) /\ version' # version)
  <2>1. version' = version + 1 /\ UNCHANGED <<due, listed, pageVars>>
    BY <1>2 DEF Joins, Leaves
  <2>2. c \in joining'[a] \cup leaving'[a]
    BY <1>2 DEF Joins, Leaves, HandlerJoins, HandlerLeaves, Unregister, TypeOK
  <2>3. TabsTypeOK'
    BY <2>1 DEF pageVars
  <2>4. NotAhead'
    BY <1>0, <1>1, <2>1 DEF NotAhead, pageVars
  <2>5. NewestIsComing'
    BY <2>2 DEF NewestIsComing
  <2> QED
    BY <2>3, <2>4, <2>5 DEF Followed
<1>3. CASE Leaves(a, c) /\ version' = version
  <2>1. version' = version /\ UNCHANGED <<due, listed, pageVars>>
    BY <1>3 DEF Leaves
  <2>2. joining' = joining /\ \A b \in Agents : leaving[b] \subseteq leaving'[b]
    BY <1>3 DEF Leaves, HandlerLeaves, TypeOK
  <2>3. TabsTypeOK' /\ NotAhead'
    BY <2>1 DEF pageVars, NotAhead
  <2>4. NewestIsComing => NewestIsComing'
    BY <2>1, <2>2 DEF NewestIsComing, pageVars
  <2> QED
    BY <2>1, <2>3, <2>4 DEF Followed, pageVars
<1>4. CASE Announces(a, c)
  <2>1. due' = due \cup {<<a, c>>} /\ UNCHANGED <<version, listed, pageVars>>
    BY <1>4 DEF Announces
  <2>2. TabsTypeOK' /\ NotAhead'
    BY <2>1 DEF pageVars, NotAhead
  <2>3. NewestIsComing'
    BY <2>1 DEF NewestIsComing
  <2> QED
    BY <2>2, <2>3 DEF Followed
<1>5. CASE ListAgents(a, c)
  <2>1. /\ listed' = listed \cup {<<a, c, version>>} /\ due' \subseteq due
        /\ UNCHANGED <<vars, version, pageVars>>
    BY <1>5 DEF ListAgents
  <2>2. TabsTypeOK'
    BY <2>1 DEF pageVars
  <2>3. NotAhead'
    BY <1>0, <2>1 DEF pageVars, NotAhead
  <2>4. NewestIsComing'
    <3>1. <<a, c, version>> \in listed' /\ <<a, c, version>>[3] = version'
      BY <2>1
    <3> QED
      BY <3>1 DEF NewestIsComing
  <2> QED
    BY <2>2, <2>3, <2>4 DEF Followed
<1>6. CASE ConnectionFails(a, c) /\ UNCHANGED tabVars
  <2>1. UNCHANGED <<joining, leaving, tabVars>>
    BY <1>6 DEF ConnectionFails, presenceVars
  <2>2. TabsTypeOK' /\ NotAhead'
    BY <2>1 DEF tabVars, NotAhead
  <2>3. NewestIsComing => NewestIsComing'
    BY <2>1 DEF NewestIsComing, tabVars
  <2> QED
    BY <2>1, <2>2, <2>3 DEF Followed, tabVars
<1> QED
  BY <1>2, <1>3, <1>4, <1>5, <1>6

LEMMA BroadcastKeeps ==
  ASSUME TabsInv, TypeOK', VersionCounted',
         NEW a \in Agents, NEW c \in Conns, NEW v \in Versions, Broadcast(a, c, v)
  PROVE  TabsInv'
<1> USE DEF TabsInv, TabsTypeOK
<1>0. /\ version \in Nat /\ snapshot \in Nat /\ shown \in Nat
      /\ QueueSize \in Nat
      /\ v <= version
  BY VersionTypes, QueueSizeAssumption DEF NotAhead, Broadcast
<1>1. /\ listed' = listed \ {<<a, c, v>>} /\ <<a, c, v>> \in listed
      /\ UNCHANGED <<vars, version, due, tab, snapshot, shut, left, shown>>
  BY DEF Broadcast
<1>2. UNCHANGED <<joining, leaving>>
  BY <1>1 DEF vars, presenceVars
<1>3. CASE Subscribed /\ Len(queue) < QueueSize
  <2>1. queue' = Append(queue, v) /\ dropped' \in BOOLEAN /\ (~dropped' => ~dropped)
    BY <1>3 DEF Broadcast
  <2>2. /\ queue' \in Seq(Versions) /\ Len(queue') <= QueueSize
        /\ \A i \in DOMAIN queue : i \in DOMAIN queue' /\ queue'[i] = queue[i]
        /\ Len(queue) + 1 \in DOMAIN queue' /\ queue'[Len(queue) + 1] = v
        /\ \A i \in DOMAIN queue' : i \in DOMAIN queue \/ i = Len(queue) + 1
    BY <1>0, <1>3, <2>1, QueueOfVersions
  <2>3. TabsTypeOK'
    BY <1>1, <2>1, <2>2
  <2>4. NotAhead'
    BY <1>0, <1>1, <2>2 DEF NotAhead
  <2>5. NewestIsComing => NewestIsComing'
    <3>1. ASSUME NEW l \in listed, l[3] = version
          PROVE  NewestIsComing'
      <4>1. CASE l = <<a, c, v>>
        <5>1. queue'[Len(queue) + 1] = version'
          BY <1>1, <2>2, <3>1, <4>1
        <5> QED
          BY <2>2, <5>1 DEF NewestIsComing
      <4>2. CASE l # <<a, c, v>>
        BY <1>1, <3>1, <4>2 DEF NewestIsComing
      <4> QED
        BY <4>1, <4>2
    <3>2. ASSUME NEW i \in DOMAIN queue, queue[i] = version
          PROVE  NewestIsComing'
      BY <1>1, <2>2, <3>2 DEF NewestIsComing
    <3> QED
      BY <1>1, <1>2, <3>1, <3>2 DEF NewestIsComing
  <2> QED
    BY <1>1, <2>1, <2>3, <2>4, <2>5 DEF Followed
<1>4. CASE ~(Subscribed /\ Len(queue) < QueueSize)
  <2>1. queue' = queue /\ dropped' \in BOOLEAN /\ (Subscribed => dropped')
    <3>1. Subscribed => Len(queue) = QueueSize
      BY <1>0, <1>4, QueueOfVersions
    <3> QED
      BY <1>4, <3>1 DEF Broadcast
  <2>2. TabsTypeOK'
    BY <1>1, <2>1
  <2>3. NotAhead'
    BY <1>1, <2>1 DEF NotAhead
  <2>4. Followed'
    BY <1>1, <2>1 DEF Followed, Subscribed
  <2> QED
    BY <2>2, <2>3, <2>4
<1> QED
  BY <1>3, <1>4

LEMMA PageKeeps ==
  ASSUME TabsInv, TypeOK', VersionCounted', Page
  PROVE  TabsInv'
<1> USE DEF TabsInv, TabsTypeOK
<1>0. /\ version \in Nat /\ snapshot \in Nat /\ shown \in Nat /\ version \in Versions
      /\ QueueSize \in Nat
  BY VersionTypes, QueueSizeAssumption
<1>1. UNCHANGED <<joining, leaving, version, due, listed>>
  BY DEF Page, TabOpens, TakeSnapshot, SendSnapshot, TabRemoved, NoTab, WriteFrame,
         WriteFrameFails, BrowserLeaves, hubSide, vars, presenceVars
<1>2. CASE TabOpens
  BY <1>1, <1>2 DEF TabOpens, NotAhead, Followed
<1>3. CASE TakeSnapshot
  <2>1. TabsTypeOK' /\ NotAhead'
    BY <1>0, <1>1, <1>3 DEF TakeSnapshot, NotAhead
  <2>2. NewestIsComing'
    BY <1>1, <1>3 DEF TakeSnapshot, NewestIsComing
  <2> QED
    BY <2>1, <2>2 DEF Followed
<1>4. CASE SendSnapshot
  <2>1. /\ queue' = Append(queue, snapshot) /\ tab = "sending" /\ tab' = "reading"
        /\ Len(queue) < QueueSize
        /\ snapshot' = 0 /\ UNCHANGED <<shut, left, shown, dropped>>
    BY <1>4 DEF SendSnapshot
  <2>2. /\ queue' \in Seq(Versions) /\ Len(queue') <= QueueSize
        /\ \A i \in DOMAIN queue : i \in DOMAIN queue' /\ queue'[i] = queue[i]
        /\ Len(queue) + 1 \in DOMAIN queue' /\ queue'[Len(queue) + 1] = snapshot
        /\ \A i \in DOMAIN queue' : i \in DOMAIN queue \/ i = Len(queue) + 1
    BY <1>0, <2>1, QueueOfVersions
  <2>3. TabsTypeOK'
    BY <1>1, <2>1, <2>2, VersionTypes
  <2>4. NotAhead'
    BY <1>0, <1>1, <2>1, <2>2 DEF NotAhead
  <2>5. NewestIsComing => NewestIsComing'
    BY <1>1, <2>1, <2>2 DEF NewestIsComing
  <2> QED
    BY <2>1, <2>3, <2>4, <2>5 DEF Followed
<1>5. CASE TabRemoved
  <2>1. << >> \in Seq(Versions) /\ Len(<< >>) = 0 /\ DOMAIN << >> = {} /\ 0 \in Versions
    BY EmptySeq, VersionTypes
  <2>2. TabsTypeOK'
    <3>1. /\ tab' = "away" /\ snapshot' = 0 /\ queue' = << >> /\ shown' = 0
          /\ {shut', left', dropped'} \subseteq BOOLEAN
      BY <1>5 DEF TabRemoved, NoTab
    <3>2. Len(<< >>) <= QueueSize
      BY <1>0, <2>1
    <3> QED
      BY <1>0, <1>1, <2>1, <3>1, <3>2
  <2>3. NotAhead'
    BY <1>0, <1>1, <1>5, <2>1 DEF TabRemoved, NoTab, NotAhead
  <2> QED
    BY <1>5, <2>2, <2>3 DEF TabRemoved, NoTab, Followed
<1>6. CASE WriteFrame \/ WriteFrameFails
  <2>1. /\ Head(queue) \in Versions /\ Head(queue) \in Nat /\ queue' \in Seq(Versions)
        /\ Len(queue') <= QueueSize
        /\ 1 \in DOMAIN queue /\ Head(queue) = queue[1]
        /\ \A i \in DOMAIN queue : i # 1 => i - 1 \in DOMAIN queue' /\ queue'[i - 1] = queue[i]
        /\ \A i \in DOMAIN queue' : i + 1 \in DOMAIN queue /\ queue'[i] = queue[i + 1]
        /\ UNCHANGED <<tab, snapshot, left, dropped>>
    <3>1. queue # << >> /\ queue' = Tail(queue) /\ UNCHANGED <<tab, snapshot, left, dropped>>
      BY <1>6 DEF WriteFrame, WriteFrameFails
    <3>2. /\ Head(queue) \in Versions /\ Tail(queue) \in Seq(Versions)
          /\ Len(Tail(queue)) = Len(queue) - 1 /\ Len(queue) \in Nat
          /\ 1 \in DOMAIN queue /\ Head(queue) = queue[1]
          /\ \A i \in DOMAIN queue :
               i # 1 => i - 1 \in DOMAIN Tail(queue) /\ Tail(queue)[i - 1] = queue[i]
          /\ \A i \in DOMAIN Tail(queue) :
               i + 1 \in DOMAIN queue /\ Tail(queue)[i] = queue[i + 1]
      BY <3>1, QueueOfVersions
    <3>3. Len(queue) <= QueueSize /\ Head(queue) \in Nat
      BY <3>2, VersionTypes
    <3> QED
      BY <1>0, <3>1, <3>2, <3>3
  <2>2. Head(queue) <= version
    BY <2>1 DEF NotAhead
  <2>3. CASE WriteFrame
    <3>1. /\ shown' \in Versions /\ shown' <= version
          /\ (shown = version \/ Head(queue) = version) => shown' = version
          /\ shut' = shut
      BY <1>0, <2>1, <2>2, <2>3 DEF WriteFrame, NotAhead
    <3>2. TabsTypeOK'
      BY <1>1, <2>1, <3>1
    <3>3. NotAhead'
      BY <1>1, <2>1, <3>1 DEF NotAhead
    <3>4. NewestIsComing => NewestIsComing'
      <4>1. ASSUME NEW i \in DOMAIN queue, queue[i] = version
            PROVE  NewestIsComing'
        BY <1>1, <2>1, <3>1, <4>1 DEF NewestIsComing
      <4> QED
        BY <1>1, <2>1, <3>1, <4>1 DEF NewestIsComing
    <3> QED
      BY <2>1, <3>1, <3>2, <3>3, <3>4 DEF Followed
  <2>4. CASE WriteFrameFails
    <3>1. shut' = TRUE /\ shown' = shown
      BY <2>4 DEF WriteFrameFails
    <3>2. TabsTypeOK'
      BY <1>1, <2>1, <3>1
    <3>3. NotAhead'
      BY <1>1, <2>1, <3>1 DEF NotAhead
    <3> QED
      BY <3>1, <3>2, <3>3 DEF Followed
  <2> QED
    BY <1>6, <2>3, <2>4
<1>7. CASE BrowserLeaves
  BY <1>1, <1>7 DEF BrowserLeaves, NotAhead, Followed, NewestIsComing
<1> QED
  BY <1>2, <1>3, <1>4, <1>5, <1>6, <1>7 DEF Page

LEMMA TabsInvStep ==
  ASSUME TabsInv, TypeOK', [TabsNext]_allVars
  PROVE  TabsInv'
<1>1. version \in Nat /\ TypeOK /\ VersionCounted
  BY VersionTypes DEF TabsInv, TabsTypeOK
<1>2. version' \in Nat /\ VersionCounted'
  BY <1>1, VersionStep
<1>3. version' \in Versions
  <2>1. Entered' \in SUBSET (Agents \X Conns) /\ Departed' \in SUBSET (Agents \X Conns)
    BY DEF Entered, Departed
  <2>2. version' <= Cardinality(Entered') + Cardinality(Departed')
    BY <1>2 DEF VersionCounted
  <2> QED
    BY <1>2, <2>1, <2>2, VersionTypes
<1>4. CASE Page
  BY <1>2, <1>4, PageKeeps
<1>5. ASSUME NEW a \in Agents, TestFollows(a)
      PROVE  TabsInv'
  <2>1. UNCHANGED <<joining, leaving, tabVars>>
    BY <1>5 DEF TestFollows, TestPublished, LinkNoted, TestOver
  <2>2. TabsTypeOK' /\ NotAhead'
    BY <2>1 DEF tabVars, NotAhead, TabsInv, TabsTypeOK
  <2>3. Followed'
    BY <2>1 DEF tabVars, TabsInv, Followed, NewestIsComing
  <2> QED
    BY <1>2, <2>2, <2>3 DEF TabsInv
<1>6. ASSUME NEW a \in Agents, NEW c \in Conns,
             \/ Joins(a, c)
             \/ Leaves(a, c)
             \/ Callback(a, c)
             \/ ConnectionFails(a, c) /\ UNCHANGED tabVars
      PROVE  TabsInv'
  BY <1>2, <1>3, <1>6, HandlersKeep, BroadcastKeeps DEF Callback
<1>7. CASE UNCHANGED allVars
  <2>1. UNCHANGED <<joining, leaving, tabVars>>
    BY <1>7 DEF allVars, vars, presenceVars
  <2>2. TabsTypeOK' /\ NotAhead'
    BY <2>1 DEF tabVars, NotAhead, TabsInv, TabsTypeOK
  <2>3. Followed'
    BY <2>1 DEF tabVars, TabsInv, Followed, NewestIsComing
  <2> QED
    BY <1>2, <2>2, <2>3 DEF TabsInv
<1> QED
  BY <1>4, <1>5, <1>6, <1>7 DEF TabsNext

LEMMA TabsInvariant == TabsSpec => []TabsInv
<1>1. TabsInit => TabsInv
  BY TabsInvInit
<1>2. TabsInv /\ TypeOK' /\ [TabsNext]_allVars => TabsInv'
  BY TabsInvStep
<1>3. Spec => []Inv
  <2>1. Init => Inv
    BY InvInit
  <2>2. Inv /\ [Next]_vars => Inv'
    BY InvStep
  <2> QED
    BY <2>1, <2>2, PTL DEF Spec
<1>4. Inv => TypeOK
  BY DEF Inv
<1> QED
  BY <1>1, <1>2, <1>3, <1>4, TabsImplementPresence, PTL DEF TabsSpec

(* Every variable keeps its type; the hub changes at most twice for each      *)
(* connection, so the versions of its list stay in their bound.               *)
THEOREM TabsTypeCorrect == TabsSpec => []TabsTypeOK
<1>1. TabsInv => TabsTypeOK
  BY DEF TabsInv
<1> QED
  BY <1>1, TabsInvariant, PTL

(* A tab that lost no frame ends on the hub as it is: whenever nothing is on  *)
(* its way, the newest list was shown, whether the change came before, during *)
(* or after the tab subscribed, took its snapshot and sent it.                *)
THEOREM NewestAlwaysReachesTab == TabsSpec => []NewestReachesTab
<1>1. ASSUME TabsInv PROVE NewestReachesTab
  <2> SUFFICES ASSUME \A a \in Agents, c \in Conns : Free(a, c),
                      tab = "reading", ~shut, queue = << >>, ~dropped
               PROVE  shown = version
    BY DEF NewestReachesTab
  <2>1. NewestIsComing
    BY <1>1 DEF TabsInv, Followed
  <2>2. \A a \in Agents : joining[a] \cup leaving[a] = {}
    BY <1>1 DEF Free, TabsInv, TabsTypeOK, TypeOK
  <2>3. due = {}
    BY <1>1 DEF Free, TabsInv, TabsTypeOK
  <2>4. listed = {}
    <3> SUFFICES ASSUME NEW l \in listed
                 PROVE  FALSE
      OBVIOUS
    <3>1. l[1] \in Agents /\ l[2] \in Conns
      BY <1>1 DEF TabsInv, TabsTypeOK
    <3> QED
      BY <3>1 DEF Free
  <2> QED
    BY <2>1, <2>2, <2>3, <2>4 DEF NewestIsComing
<1>2. TabsInv => NewestReachesTab
  BY <1>1
<1> QED
  BY <1>2, TabsInvariant, PTL
=============================================================================
