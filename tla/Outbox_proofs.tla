---------------------------- MODULE Outbox_proofs ----------------------------
(* Theorems about Outbox for every size of the outbox and any number of       *)
(* frames and sessions: types, the bound on memory, no lost wakeup, order,    *)
(* and that it implements LossyQueue.                                         *)
EXTENDS Outbox, SequenceTheorems, TLAPS

-----------------------------------------------------------------------------
(* Counters, types and the writer's state, without the contents of the queues.*)

(* The writer holds a frame exactly while it writes.                          *)
HandWhenWriting == writer = "writing" <=> hand # NoFrame

(* Nothing has gone over a session that has not begun.                        *)
LaterAreEmpty ==
  \A c \in Sessions : c > sessions => wires[c] = << >> /\ received[c] = << >>

ShapeInv == TypeOK /\ HandWhenWriting /\ KeptIsBounded /\ NoLostWakeup /\ LaterAreEmpty

(* What a push makes of the outbox: its new length, and the limit it keeps.   *)
LEMMA PushedItems ==
  ASSUME TypeOK, Push, OutboxAssumption
  PROVE  /\ pushed + 1 \in Frames
         /\ (IF Len(items) >= OutboxMax THEN Tail(items) ELSE items) \in Seq(Frames)
         /\ items' \in Seq(Frames)
         /\ items' # << >>
         /\ Len(items') = IF Len(items) >= OutboxMax THEN Len(items) ELSE Len(items) + 1
<1> DEFINE rest == IF Len(items) >= OutboxMax THEN Tail(items) ELSE items
<1>1. pushed + 1 \in Frames
  BY DEF TypeOK, Push, OutboxAssumption, Frames
<1>2. items \in Seq(Frames) /\ Len(items) \in Nat
  BY LenProperties DEF TypeOK
<1>3. CASE Len(items) >= OutboxMax
  <2>1. items # << >>
    BY <1>2, <1>3, EmptySeq DEF OutboxAssumption
  <2>2. Tail(items) \in Seq(Frames) /\ Len(Tail(items)) = Len(items) - 1
    BY <1>2, <2>1, HeadTailProperties
  <2> QED
    BY <1>1, <1>2, <1>3, <2>2, AppendProperties DEF Push
<1>4. CASE ~(Len(items) >= OutboxMax)
  BY <1>1, <1>2, <1>4, AppendProperties DEF Push
<1> QED
  BY <1>1, <1>3, <1>4

LEMMA ShapeInit == ASSUME Init, OutboxAssumption PROVE ShapeInv
<1>0. << >> \in Seq(Frames)
  BY EmptySeq
<1>1. TypeOK
  <2>1. items \in Seq(Frames) /\ hand \in Frames \cup {NoFrame}
    BY <1>0 DEF Init
  <2>2. wires \in [Sessions -> Seq(Frames)] /\ received \in [Sessions -> Seq(Frames)]
    BY <1>0 DEF Init
  <2>3. /\ pushed \in 0..MaxFrames /\ sessions \in Sessions
        /\ signals \in Nat
    BY DEF Init, OutboxAssumption, Sessions
  <2>4. /\ writer \in {"off", "flush", "writing", "select"}
        /\ wake \in BOOLEAN /\ linkUp \in BOOLEAN
    BY DEF Init
  <2> QED
    BY <2>1, <2>2, <2>3, <2>4 DEF TypeOK
<1>2. HandWhenWriting /\ NoLostWakeup /\ LaterAreEmpty
  BY DEF Init, HandWhenWriting, NoLostWakeup, LaterAreEmpty
<1>3. KeptIsBounded
  BY EmptySeq DEF Init, KeptIsBounded, Held, OutboxAssumption
<1> QED
  BY <1>1, <1>2, <1>3 DEF ShapeInv

(* A step that leaves the two functions of sessions alone.                    *)
LEMMA SameSessions ==
  ASSUME LaterAreEmpty, UNCHANGED <<sessions, wires, received>>
  PROVE  LaterAreEmpty'
BY DEF LaterAreEmpty

LEMMA ShapeStep ==
  ASSUME ShapeInv, [Next]_vars, OutboxAssumption
  PROVE  ShapeInv'
<1> USE DEF ShapeInv, NoFrame
<1>0. /\ items \in Seq(Frames) /\ Len(items) \in Nat
      /\ wires \in [Sessions -> Seq(Frames)] /\ received \in [Sessions -> Seq(Frames)]
      /\ sessions \in Sessions /\ Sessions = 0..MaxSessions
      /\ OutboxMax \in Nat \ {0} /\ MaxSessions \in Nat
      /\ << >> \in Seq(Frames)
  BY LenProperties, EmptySeq DEF TypeOK, OutboxAssumption, Sessions
<1>1. CASE Push
  <2>1. TypeOK'
    BY <1>1, PushedItems DEF Push, TypeOK, Frames
  <2>2. HandWhenWriting' /\ NoLostWakeup'
    BY <1>1 DEF Push, TypeOK, HandWhenWriting, NoLostWakeup
  <2>3. KeptIsBounded'
    <3>1. Held' = Held /\ Held \in {0, 1}
      BY <1>1 DEF Push, Held
    <3>2. Len(items') = IF Len(items) >= OutboxMax THEN Len(items) ELSE Len(items) + 1
      BY <1>1, PushedItems
    <3> QED
      BY <1>0, <3>1, <3>2 DEF KeptIsBounded
  <2>4. LaterAreEmpty'
    BY <1>1, SameSessions DEF Push
  <2> QED
    BY <2>1, <2>2, <2>3, <2>4
<1>2. CASE Signal
  <2>1. LaterAreEmpty'
    BY <1>2, SameSessions DEF Signal
  <2> QED
    BY <1>2, <2>1 DEF Signal, TypeOK, HandWhenWriting, KeptIsBounded, Held, NoLostWakeup
<1>3. CASE OpenSession
  <2>1. sessions' = sessions + 1 /\ sessions' \in Sessions /\ UNCHANGED <<wires, received>>
    BY <1>0, <1>3 DEF OpenSession
  <2>2. LaterAreEmpty'
    BY <1>0, <2>1 DEF LaterAreEmpty
  <2> QED
    BY <1>3, <2>1, <2>2 DEF OpenSession, TypeOK, HandWhenWriting, KeptIsBounded, Held, NoLostWakeup
<1>4. CASE Pop
  <2>1. /\ Head(items) \in Frames /\ Head(items) # NoFrame
        /\ Tail(items) \in Seq(Frames)
        /\ Len(Tail(items)) = Len(items) - 1
    BY <1>0, <1>4, HeadTailProperties DEF Pop, Frames, OutboxAssumption
  <2>2. TypeOK' /\ HandWhenWriting' /\ NoLostWakeup'
    BY <1>4, <2>1 DEF Pop, TypeOK, HandWhenWriting, NoLostWakeup
  <2>3. hand = NoFrame
    BY <1>4 DEF Pop, HandWhenWriting
  <2>4. KeptIsBounded'
    BY <1>0, <1>4, <2>1, <2>3 DEF Pop, KeptIsBounded, Held
  <2>5. LaterAreEmpty'
    BY <1>4, SameSessions DEF Pop
  <2> QED
    BY <2>2, <2>4, <2>5
<1>5. CASE FlushReturns
  <2>1. LaterAreEmpty'
    BY <1>5, SameSessions DEF FlushReturns
  <2> QED
    BY <1>5, <2>1 DEF FlushReturns, TypeOK, HandWhenWriting, KeptIsBounded, Held, NoLostWakeup
<1>6. CASE WriteSucceeds
  <2>1. hand \in Frames
    BY <1>6 DEF WriteSucceeds, TypeOK, HandWhenWriting
  <2>2. wires' \in [Sessions -> Seq(Frames)]
    BY <1>0, <1>6, <2>1, AppendProperties DEF WriteSucceeds
  <2>3. TypeOK' /\ HandWhenWriting' /\ NoLostWakeup'
    BY <1>6, <2>2 DEF WriteSucceeds, TypeOK, HandWhenWriting, NoLostWakeup
  <2>4. KeptIsBounded'
    BY <1>0, <1>6 DEF WriteSucceeds, KeptIsBounded, Held
  <2>5. LaterAreEmpty'
    <3>1. \A c \in Sessions : c > sessions => wires'[c] = wires[c]
      BY <1>0, <1>6 DEF WriteSucceeds
    <3> QED
      BY <1>6, <3>1 DEF WriteSucceeds, LaterAreEmpty
  <2> QED
    BY <2>3, <2>4, <2>5
<1>7. CASE WriteFails
  <2>1. hand \in Frames /\ hand # NoFrame
    BY <1>7 DEF WriteFails, TypeOK, HandWhenWriting
  <2>2. <<hand>> \in Seq(Frames) /\ Len(<<hand>>) = 1
    BY <2>1
  <2>3. items' \in Seq(Frames) /\ Len(items') = 1 + Len(items)
    BY <1>0, <1>7, <2>2, ConcatProperties DEF WriteFails
  <2>4. TypeOK' /\ HandWhenWriting' /\ NoLostWakeup'
    BY <1>7, <2>3 DEF WriteFails, TypeOK, HandWhenWriting, NoLostWakeup
  <2>5. KeptIsBounded'
    BY <1>0, <1>7, <2>1, <2>3 DEF WriteFails, KeptIsBounded, Held
  <2>6. LaterAreEmpty'
    BY <1>7, SameSessions DEF WriteFails
  <2> QED
    BY <2>4, <2>5, <2>6
<1>8. CASE Wake
  <2>1. LaterAreEmpty'
    BY <1>8, SameSessions DEF Wake
  <2> QED
    BY <1>8, <2>1 DEF Wake, TypeOK, HandWhenWriting, KeptIsBounded, Held, NoLostWakeup
<1>9. CASE SessionEnds
  <2>1. LaterAreEmpty'
    BY <1>9, SameSessions DEF SessionEnds
  <2> QED
    BY <1>9, <2>1 DEF SessionEnds, TypeOK, HandWhenWriting, KeptIsBounded, Held, NoLostWakeup
<1>10. CASE LinkBreaks
  <2>1. LaterAreEmpty'
    BY <1>10, SameSessions DEF LinkBreaks
  <2> QED
    BY <1>10, <2>1 DEF LinkBreaks, TypeOK, HandWhenWriting, KeptIsBounded, Held, NoLostWakeup
<1>11. ASSUME NEW c \in Sessions, Server(c)
       PROVE  ShapeInv'
  <2>1. wires[c] # << >> /\ wires[c] \in Seq(Frames) /\ received[c] \in Seq(Frames)
    BY <1>0, <1>11 DEF Server, ServerReceives, HandlerEnds
  <2>2. /\ Tail(wires[c]) \in Seq(Frames)
        /\ Append(received[c], Head(wires[c])) \in Seq(Frames)
    BY <2>1, HeadTailProperties, AppendProperties
  <2>3. /\ wires' \in [Sessions -> Seq(Frames)] /\ received' \in [Sessions -> Seq(Frames)]
        /\ \A d \in Sessions : d # c => wires'[d] = wires[d] /\ received'[d] = received[d]
        /\ UNCHANGED <<pushed, items, wake, signals, writer, hand, linkUp, sessions>>
    BY <1>0, <1>11, <2>2 DEF Server, ServerReceives, HandlerEnds
  <2>4. c <= sessions
    BY <1>0, <2>1 DEF LaterAreEmpty
  <2>5. LaterAreEmpty'
    BY <1>0, <2>3, <2>4 DEF LaterAreEmpty
  <2> QED
    BY <2>3, <2>5 DEF TypeOK, HandWhenWriting, KeptIsBounded, Held, NoLostWakeup
<1>12. CASE UNCHANGED vars
  <2>1. LaterAreEmpty'
    BY <1>12, SameSessions DEF vars
  <2> QED
    BY <1>12, <2>1 DEF vars, TypeOK, HandWhenWriting, KeptIsBounded, Held, NoLostWakeup
<1> QED
  BY <1>1, <1>2, <1>3, <1>4, <1>5, <1>6, <1>7, <1>8, <1>9, <1>10, <1>11, <1>12
     DEF Next, Writer

LEMMA Shape == Spec => []ShapeInv
<1>1. Init => ShapeInv
  BY ShapeInit, OutboxAssumption
<1>2. ShapeInv /\ [Next]_vars => ShapeInv'
  BY ShapeStep, OutboxAssumption
<1> QED
  BY <1>1, <1>2, PTL DEF Spec

(* Every variable keeps its type.                                             *)
THEOREM TypeCorrect == Spec => []TypeOK
<1>1. ShapeInv => TypeOK
  BY DEF ShapeInv
<1> QED
  BY <1>1, Shape, PTL

(* For every limit, the frames kept never exceed it by more than the one that *)
(* unpop may put back: a long outage cannot exhaust the agent's memory.       *)
THEOREM MemoryBounded == Spec => []KeptIsBounded
<1>1. ShapeInv => KeptIsBounded
  BY DEF ShapeInv
<1> QED
  BY <1>1, Shape, PTL

(* A writer asleep on a queue that is not empty is always about to be woken,  *)
(* although push signals only after it has let go of the lock.                *)
THEOREM WakeupNeverLost == Spec => []NoLostWakeup
<1>1. ShapeInv => NoLostWakeup
  BY DEF ShapeInv
<1> QED
  BY <1>1, Shape, PTL

-----------------------------------------------------------------------------
(* Order.  What Append, Head, Tail and concatenation do to Increasing and     *)
(* Before, for sequences of numbers.                                          *)

LEMMA OneFrame ==
  ASSUME NEW e \in Nat
  PROVE  <<e>> \in Seq(Nat) /\ Len(<<e>>) = 1 /\ DOMAIN <<e>> = {1} /\ <<e>>[1] = e
OBVIOUS

LEMMA EmptyOrder ==
  ASSUME NEW s
  PROVE  Increasing(<< >>) /\ Before(<< >>, s) /\ Before(s, << >>)
BY DEF Increasing, Before

LEMMA AppendOrder ==
  ASSUME NEW s \in Seq(Nat), NEW e \in Nat, Before(s, <<e>>)
  PROVE  /\ Increasing(s) => Increasing(Append(s, e))
         /\ \A t \in Seq(Nat) : Before(t, s) /\ Before(t, <<e>>) => Before(t, Append(s, e))
         /\ \A t \in Seq(Nat) : Before(s, t) /\ Before(<<e>>, t) => Before(Append(s, e), t)
<1>1. /\ DOMAIN s = 1..Len(s) /\ Len(s) \in Nat
      /\ DOMAIN Append(s, e) = 1..(Len(s) + 1)
      /\ \A i \in 1..Len(s) : Append(s, e)[i] = s[i]
      /\ Append(s, e)[Len(s) + 1] = e
  BY LenProperties, AppendProperties
<1>2. \A i \in 1..Len(s) : s[i] < e
  BY <1>1, OneFrame DEF Before
<1>3. Increasing(s) => Increasing(Append(s, e))
  BY <1>1, <1>2 DEF Increasing
<1>4. ASSUME NEW t \in Seq(Nat), Before(t, s), Before(t, <<e>>)
      PROVE  Before(t, Append(s, e))
  BY <1>1, <1>4, OneFrame DEF Before
<1>5. ASSUME NEW t \in Seq(Nat), Before(s, t), Before(<<e>>, t)
      PROVE  Before(Append(s, e), t)
  BY <1>1, <1>5, OneFrame DEF Before
<1> QED
  BY <1>3, <1>4, <1>5

LEMMA HeadTailOrder ==
  ASSUME NEW s \in Seq(Nat), s # << >>
  PROVE  /\ Increasing(s) => Increasing(Tail(s)) /\ Before(<<Head(s)>>, Tail(s))
         /\ \A t \in Seq(Nat) : Before(t, s) => Before(t, Tail(s)) /\ Before(t, <<Head(s)>>)
         /\ \A t \in Seq(Nat) : Before(s, t) => Before(Tail(s), t) /\ Before(<<Head(s)>>, t)
<1>1. /\ DOMAIN s = 1..Len(s) /\ Len(s) \in Nat \ {0}
      /\ Tail(s) \in Seq(Nat) /\ DOMAIN Tail(s) = 1..(Len(s) - 1)
      /\ \A i \in 1..(Len(s) - 1) : Tail(s)[i] = s[i + 1]
      /\ Head(s) = s[1] /\ Head(s) \in Nat
  BY LenProperties, EmptySeq, HeadTailProperties
<1>2. ASSUME Increasing(s)
      PROVE  Increasing(Tail(s))
  <2> SUFFICES ASSUME NEW i \in 1..(Len(s) - 1), NEW j \in 1..(Len(s) - 1), i < j
               PROVE  Tail(s)[i] < Tail(s)[j]
    BY <1>1 DEF Increasing
  <2>1. i + 1 \in DOMAIN s /\ j + 1 \in DOMAIN s /\ i + 1 < j + 1
    BY <1>1
  <2>2. s[i + 1] < s[j + 1]
    BY <1>2, <2>1 DEF Increasing
  <2> QED
    BY <1>1, <2>2
<1>3. Increasing(s) => Before(<<Head(s)>>, Tail(s))
  BY <1>1, OneFrame DEF Increasing, Before
<1>a. 1 \in DOMAIN s /\ \A i \in 1..(Len(s) - 1) : i + 1 \in DOMAIN s /\ Tail(s)[i] = s[i + 1]
  BY <1>1
<1>b. DOMAIN <<Head(s)>> = {1} /\ <<Head(s)>>[1] = s[1]
  BY <1>1, OneFrame
<1>4. ASSUME NEW t \in Seq(Nat), Before(t, s)
      PROVE  Before(t, Tail(s)) /\ Before(t, <<Head(s)>>)
  <2>1. \A i \in DOMAIN t, j \in DOMAIN s : t[i] < s[j]
    BY <1>4 DEF Before
  <2>2. \A i \in DOMAIN t, j \in 1..(Len(s) - 1) : t[i] < Tail(s)[j]
    BY <1>a, <2>1
  <2>3. \A i \in DOMAIN t, j \in {1} : t[i] < <<Head(s)>>[j]
    BY <1>a, <1>b, <2>1
  <2> QED
    BY <1>1, <1>b, <2>2, <2>3 DEF Before
<1>5. ASSUME NEW t \in Seq(Nat), Before(s, t)
      PROVE  Before(Tail(s), t) /\ Before(<<Head(s)>>, t)
  <2>1. \A i \in DOMAIN s, j \in DOMAIN t : s[i] < t[j]
    BY <1>5 DEF Before
  <2>2. \A i \in 1..(Len(s) - 1), j \in DOMAIN t : Tail(s)[i] < t[j]
    BY <1>a, <2>1
  <2>3. \A i \in {1}, j \in DOMAIN t : <<Head(s)>>[i] < t[j]
    BY <1>a, <1>b, <2>1
  <2> QED
    BY <1>1, <1>b, <2>2, <2>3 DEF Before
<1> QED
  BY <1>2, <1>3, <1>4, <1>5

LEMMA BeforeFrame ==
  ASSUME NEW s \in Seq(Nat), NEW e \in Nat
  PROVE  /\ Before(s, <<e>>) <=> \A i \in DOMAIN s : s[i] < e
         /\ \A h \in Nat : Before(<<h>>, <<e>>) <=> h < e
<1>1. DOMAIN <<e>> = {1} /\ <<e>>[1] = e
  BY OneFrame
<1>2. \A h \in Nat : DOMAIN <<h>> = {1} /\ <<h>>[1] = h
  BY OneFrame
<1> QED
  BY <1>1, <1>2 DEF Before

LEMMA Cons ==
  ASSUME NEW s \in Seq(Nat), NEW e \in Nat
  PROVE  /\ DOMAIN s = 1..Len(s) /\ Len(s) \in Nat
         /\ DOMAIN (<<e>> \o s) = 1..(Len(s) + 1)
         /\ (<<e>> \o s)[1] = e
         /\ \A i \in 2..(Len(s) + 1) : (<<e>> \o s)[i] = s[i - 1]
BY LenProperties, ConcatProperties, OneFrame

LEMMA ConsOrder ==
  ASSUME NEW s \in Seq(Nat), NEW e \in Nat, Before(<<e>>, s)
  PROVE  /\ Increasing(s) => Increasing(<<e>> \o s)
         /\ \A t \in Seq(Nat) : Before(t, s) /\ Before(t, <<e>>) => Before(t, <<e>> \o s)
<1>1. /\ DOMAIN s = 1..Len(s) /\ Len(s) \in Nat
      /\ DOMAIN (<<e>> \o s) = 1..(Len(s) + 1)
      /\ (<<e>> \o s)[1] = e
      /\ \A i \in 2..(Len(s) + 1) : (<<e>> \o s)[i] = s[i - 1]
  BY Cons
<1>2. \A i \in 1..Len(s) : e < s[i]
  BY <1>1, OneFrame DEF Before
<1> DEFINE u == <<e>> \o s
<1>a. /\ DOMAIN u = 1..(Len(s) + 1) /\ u[1] = e
      /\ \A i \in 2..(Len(s) + 1) : u[i] = s[i - 1] /\ i - 1 \in DOMAIN s
  BY <1>1
<1> HIDE DEF u
<1>3. ASSUME Increasing(s)
      PROVE  Increasing(u)
  <2> SUFFICES ASSUME NEW i \in 1..(Len(s) + 1), NEW j \in 1..(Len(s) + 1), i < j
               PROVE  u[i] < u[j]
    BY <1>a DEF Increasing
  <2>1. j \in 2..(Len(s) + 1) /\ u[j] = s[j - 1] /\ j - 1 \in DOMAIN s
    BY <1>1, <1>a
  <2>2. CASE i = 1
    BY <1>1, <1>2, <1>a, <2>1, <2>2
  <2>3. CASE i # 1
    <3>1. u[i] = s[i - 1] /\ i - 1 \in DOMAIN s /\ i - 1 < j - 1
      BY <1>1, <1>a, <2>3
    <3> QED
      BY <1>3, <2>1, <3>1 DEF Increasing
  <2> QED
    BY <2>2, <2>3
<1>4. ASSUME NEW t \in Seq(Nat), Before(t, s), Before(t, <<e>>)
      PROVE  Before(t, u)
  <2>1. \A i \in DOMAIN t : t[i] < e /\ \A j \in DOMAIN s : t[i] < s[j]
    BY <1>4, OneFrame DEF Before
  <2>2. \A i \in DOMAIN t, j \in 1..(Len(s) + 1) : t[i] < u[j]
    <3> SUFFICES ASSUME NEW i \in DOMAIN t, NEW j \in 1..(Len(s) + 1)
                 PROVE  t[i] < u[j]
      OBVIOUS
    <3>1. j = 1 \/ j \in 2..(Len(s) + 1)
      BY <1>1
    <3> QED
      BY <1>a, <2>1, <3>1
  <2> QED
    BY <1>a, <2>2 DEF Before
<1> QED
  BY <1>3, <1>4 DEF u

(* Every frame there is was pushed, so the next one is after all of them.     *)
NextIsLast ==
  LET next == <<pushed + 1>>
  IN /\ \A c \in Sessions : Before(received[c], next) /\ Before(wires[c], next)
     /\ Before(items, next)
     /\ hand # NoFrame => Before(<<hand>>, next)

OrderInv == SessionsInOrder /\ BacklogInOrder /\ NextIsLast

LEMMA NatTypes ==
  ASSUME TypeOK, OutboxAssumption
  PROVE  /\ items \in Seq(Nat) /\ hand \in Nat /\ pushed \in Nat /\ sessions \in Sessions
         /\ wires \in [Sessions -> Seq(Nat)] /\ received \in [Sessions -> Seq(Nat)]
         /\ Sessions = 0..MaxSessions /\ MaxSessions \in Nat
<1>1. Frames \subseteq Nat
  BY DEF Frames, OutboxAssumption
<1>2. Seq(Frames) \subseteq Seq(Nat)
  BY <1>1, SeqMonotonic
<1>3. items \in Seq(Nat) /\ wires \in [Sessions -> Seq(Nat)] /\ received \in [Sessions -> Seq(Nat)]
  BY <1>2 DEF TypeOK
<1> QED
  BY <1>1, <1>3 DEF TypeOK, NoFrame, OutboxAssumption, Sessions

LEMMA OrderInit == ASSUME Init PROVE OrderInv
<1>1. /\ items = << >> /\ hand = NoFrame
      /\ \A c \in Sessions : wires[c] = << >> /\ received[c] = << >>
  BY DEF Init
<1> QED
  BY <1>1, EmptyOrder DEF OrderInv, SessionsInOrder, BacklogInOrder, NextIsLast

(* What the new frame and the one dropped for it do to the outbox.            *)
LEMMA PushOrder ==
  ASSUME ShapeInv, OrderInv, Push, OutboxAssumption
  PROVE  BacklogInOrder' /\ NextIsLast'
<1> DEFINE rest == IF Len(items) >= OutboxMax THEN Tail(items) ELSE items
<1>0. /\ items \in Seq(Nat) /\ hand \in Nat /\ pushed \in Nat
      /\ wires \in [Sessions -> Seq(Nat)] /\ received \in [Sessions -> Seq(Nat)]
      /\ <<hand>> \in Seq(Nat) /\ <<pushed + 1>> \in Seq(Nat) /\ <<pushed + 2>> \in Seq(Nat)
      /\ pushed + 1 \in Nat
  BY NatTypes, OneFrame DEF ShapeInv
<1>1. /\ rest \in Seq(Nat)
      /\ Increasing(items) => Increasing(rest)
      /\ \A s \in Seq(Nat) : Before(s, items) => Before(s, rest)
      /\ \A s \in Seq(Nat) : Before(items, s) => Before(rest, s)
  <2>1. CASE Len(items) >= OutboxMax
    <3>1. items # << >>
      BY <1>0, <2>1, EmptySeq DEF OutboxAssumption
    <3> QED
      BY <1>0, <2>1, <3>1, HeadTailOrder, HeadTailProperties
  <2>2. CASE ~(Len(items) >= OutboxMax)
    BY <1>0, <2>2
  <2> QED
    BY <2>1, <2>2
<1>2. items' = Append(rest, pushed + 1) /\ pushed' + 1 = pushed + 2
      /\ UNCHANGED <<hand, wires, received>>
  BY <1>0 DEF Push
<1> HIDE DEF rest
<1>3. /\ Increasing(items) /\ Before(items, <<pushed + 1>>)
      /\ hand # NoFrame => Before(<<hand>>, items) /\ Before(<<hand>>, <<pushed + 1>>)
      /\ \A c \in Sessions :
           /\ Before(received[c], items) /\ Before(received[c], <<pushed + 1>>)
           /\ Before(wires[c], items) /\ Before(wires[c], <<pushed + 1>>)
      /\ hand # NoFrame => \A c \in Sessions : Before(received[c], <<hand>>) /\ Before(wires[c], <<hand>>)
  BY DEF OrderInv, BacklogInOrder, NextIsLast
<1>4. ASSUME NEW s \in Seq(Nat), Before(s, items), Before(s, <<pushed + 1>>)
      PROVE  Before(s, items')
  BY <1>0, <1>1, <1>2, <1>3, <1>4, AppendOrder
<1>5. Increasing(items')
  BY <1>0, <1>1, <1>2, <1>3, AppendOrder
<1>6. ASSUME NEW s \in Seq(Nat), Before(s, <<pushed + 1>>)
      PROVE  Before(s, <<pushed + 2>>)
  <2>1. \A i \in DOMAIN s : s[i] \in Nat /\ s[i] < pushed + 1
    BY <1>0, <1>6, LenProperties, OneFrame DEF Before
  <2>2. \A i \in DOMAIN s : s[i] < pushed + 2
    BY <1>0, <2>1
  <2> QED
    BY <1>0, <2>2, OneFrame DEF Before
<1>7. Before(items', <<pushed + 2>>)
  <2>1. Before(rest, <<pushed + 1>>) /\ Before(rest, <<pushed + 2>>)
    BY <1>0, <1>1, <1>3, <1>6
  <2>2. Before(<<pushed + 1>>, <<pushed + 2>>)
    BY <1>0, OneFrame DEF Before
  <2> QED
    BY <1>0, <1>1, <1>2, <2>1, <2>2, AppendOrder
<1>8. \A c \in Sessions : received[c] \in Seq(Nat) /\ wires[c] \in Seq(Nat)
  BY <1>0
<1>9. BacklogInOrder'
  BY <1>0, <1>2, <1>3, <1>4, <1>5, <1>8 DEF BacklogInOrder
<1>10. NextIsLast'
  BY <1>0, <1>2, <1>3, <1>6, <1>7, <1>8 DEF NextIsLast
<1> QED
  BY <1>9, <1>10

(* The frame put back is before all that the outbox has.                      *)
LEMMA PutBackOrder ==
  ASSUME ShapeInv, OrderInv, WriteFails, OutboxAssumption
  PROVE  BacklogInOrder' /\ NextIsLast'
<1>0. /\ items \in Seq(Nat) /\ hand \in Nat /\ pushed \in Nat
      /\ wires \in [Sessions -> Seq(Nat)] /\ received \in [Sessions -> Seq(Nat)]
  BY NatTypes DEF ShapeInv
<1>1. /\ hand # NoFrame /\ hand' = NoFrame /\ items' = <<hand>> \o items
      /\ UNCHANGED <<pushed, wires, received>>
  BY DEF WriteFails, ShapeInv, HandWhenWriting
<1>2. Increasing(items')
  BY <1>0, <1>1, ConsOrder DEF OrderInv, BacklogInOrder
<1>3. ASSUME NEW c \in Sessions
      PROVE  Before(received[c], items') /\ Before(wires[c], items')
  <2>1. received[c] \in Seq(Nat) /\ wires[c] \in Seq(Nat)
    BY <1>0
  <2>2. /\ Before(received[c], items) /\ Before(received[c], <<hand>>)
        /\ Before(wires[c], items) /\ Before(wires[c], <<hand>>)
        /\ Before(<<hand>>, items)
    BY <1>1 DEF OrderInv, BacklogInOrder
  <2> QED
    BY <1>0, <1>1, <2>1, <2>2, ConsOrder
<1>4. Before(items', <<pushed + 1>>)
  <2>1. /\ DOMAIN items = 1..Len(items) /\ Len(items) \in Nat
        /\ DOMAIN items' = 1..(Len(items) + 1)
        /\ items'[1] = hand
        /\ \A i \in 2..(Len(items) + 1) : items'[i] = items[i - 1]
    BY <1>0, <1>1, Cons
  <2>2. hand < pushed + 1 /\ \A i \in 1..Len(items) : items[i] < pushed + 1
    <3>1. pushed + 1 \in Nat /\ hand \in Nat /\ items \in Seq(Nat)
      BY <1>0
    <3>2. Before(<<hand>>, <<pushed + 1>>) /\ Before(items, <<pushed + 1>>)
      BY <1>0, <1>1 DEF OrderInv, NextIsLast
    <3> QED
      BY <2>1, <3>1, <3>2, BeforeFrame
  <2>3. \A i \in 1..(Len(items) + 1) : items'[i] < pushed + 1
    <3> SUFFICES ASSUME NEW i \in 1..(Len(items) + 1)
                 PROVE  items'[i] < pushed + 1
      OBVIOUS
    <3>1. i = 1 \/ (i \in 2..(Len(items) + 1) /\ i - 1 \in 1..Len(items))
      BY <2>1
    <3> QED
      BY <2>1, <2>2, <3>1
  <2>4. pushed + 1 \in Nat /\ items' \in Seq(Nat)
    BY <1>0, <1>1, OneFrame, ConcatProperties
  <2> QED
    BY <2>1, <2>3, <2>4, BeforeFrame
<1>5. BacklogInOrder'
  BY <1>1, <1>2, <1>3 DEF BacklogInOrder
<1>6. NextIsLast'
  BY <1>1, <1>4 DEF OrderInv, NextIsLast
<1> QED
  BY <1>5, <1>6

(* The frame written is after all that was written in this session and the    *)
(* ones before it, and nothing has been written in a later one.               *)
LEMMA WriteOrder ==
  ASSUME ShapeInv, OrderInv, WriteSucceeds, OutboxAssumption
  PROVE  OrderInv'
<1> USE DEF OrderInv
<1>0. /\ items \in Seq(Nat) /\ hand \in Nat /\ pushed \in Nat
      /\ wires \in [Sessions -> Seq(Nat)] /\ received \in [Sessions -> Seq(Nat)]
      /\ sessions \in Sessions /\ Sessions = 0..MaxSessions /\ MaxSessions \in Nat
      /\ <<pushed + 1>> \in Seq(Nat)
  BY NatTypes, OneFrame DEF ShapeInv
<1>1. hand # NoFrame /\ hand' = NoFrame /\ UNCHANGED <<pushed, items, received>>
  BY DEF WriteSucceeds, ShapeInv, HandWhenWriting
<1>2. CASE ~linkUp
  <2>1. wires' = wires
    BY <1>2 DEF WriteSucceeds
  <2> QED
    BY <1>1, <2>1 DEF SessionsInOrder, BacklogInOrder, NextIsLast
<1>3. CASE linkUp
  <2> DEFINE c == sessions
             new == wires'[c]
  <2>1. /\ new = Append(wires[c], hand)
        /\ \A d \in Sessions : d # c => wires'[d] = wires[d]
        /\ wires[c] \in Seq(Nat) /\ received[c] \in Seq(Nat)
    BY <1>0, <1>3 DEF WriteSucceeds
  <2>2. /\ Increasing(wires[c]) /\ Before(wires[c], <<hand>>)
        /\ Before(received[c], wires[c]) /\ Before(received[c], <<hand>>)
        /\ Before(wires[c], items) /\ Before(<<hand>>, items)
        /\ Before(wires[c], <<pushed + 1>>) /\ Before(<<hand>>, <<pushed + 1>>)
    BY <1>0, <1>1 DEF SessionsInOrder, BacklogInOrder, NextIsLast
  <2>3. /\ Increasing(new) /\ Before(received[c], new)
        /\ Before(new, items) /\ Before(new, <<pushed + 1>>)
    BY <1>0, <2>1, <2>2, AppendOrder
  <2>4. ASSUME NEW d \in Sessions, d < c
        PROVE  Before(received[d], new) /\ Before(wires[d], new)
    <3>1. received[d] \in Seq(Nat) /\ wires[d] \in Seq(Nat)
      BY <1>0
    <3>2. /\ Before(received[d], wires[c]) /\ Before(wires[d], wires[c])
          /\ Before(received[d], <<hand>>) /\ Before(wires[d], <<hand>>)
      BY <1>0, <1>1, <2>4 DEF SessionsInOrder, BacklogInOrder
    <3>3. \A t \in Seq(Nat) : Before(t, wires[c]) /\ Before(t, <<hand>>) => Before(t, Append(wires[c], hand))
      BY <1>0, <2>1, <2>2, AppendOrder
    <3> QED
      BY <2>1, <3>1, <3>2, <3>3
  <2>5. ASSUME NEW d \in Sessions, c < d
        PROVE  Before(new, received[d]) /\ Before(new, wires[d])
    <3>1. received[d] = << >> /\ wires[d] = << >>
      BY <1>0, <2>5 DEF ShapeInv, LaterAreEmpty
    <3> QED
      BY <3>1, EmptyOrder
  <2> HIDE DEF new
  <2>6. \A d \in Sessions : wires'[d] = IF d = c THEN new ELSE wires[d]
    BY <2>1 DEF new
  <2>7. SessionsInOrder'
    <3>1. \A d \in Sessions : Increasing(wires'[d]) /\ Before(received[d], wires'[d])
      BY <2>3, <2>6 DEF SessionsInOrder
    <3>2. ASSUME NEW d \in Sessions, NEW e \in Sessions, d < e
          PROVE  /\ Before(received[d], wires'[e]) /\ Before(wires'[d], received[e])
                 /\ Before(wires'[d], wires'[e])
      <4>1. d \in Nat /\ e \in Nat /\ d # e
        BY <1>0, <3>2
      <4>2. CASE e = c
        BY <2>4, <2>6, <3>2, <4>1, <4>2 DEF SessionsInOrder
      <4>3. CASE d = c
        <5>1. wires'[e] = wires[e] /\ wires'[d] = new
          BY <2>6, <4>1, <4>3
        <5>2. Before(received[d], wires[e])
          BY <3>2 DEF SessionsInOrder
        <5> QED
          BY <2>5, <3>2, <4>3, <5>1, <5>2
      <4>4. CASE d # c /\ e # c
        BY <2>6, <3>2, <4>4 DEF SessionsInOrder
      <4> QED
        BY <4>2, <4>3, <4>4
    <3> QED
      BY <1>1, <3>1, <3>2 DEF SessionsInOrder
  <2>8. BacklogInOrder'
    BY <1>1, <2>3, <2>6 DEF BacklogInOrder
  <2>9. NextIsLast'
    BY <1>1, <2>3, <2>6 DEF NextIsLast
  <2> QED
    BY <2>7, <2>8, <2>9
<1> QED
  BY <1>2, <1>3

(* What is after all of a session is after it still when its handler has read *)
(* a frame or dropped the rest, and what is before it is still before it.     *)
LEMMA ServerOrder ==
  ASSUME ShapeInv, OrderInv, NEW c \in Sessions, Server(c), OutboxAssumption
  PROVE  OrderInv'
<1> USE DEF OrderInv
<1>0. /\ items \in Seq(Nat) /\ hand \in Nat /\ pushed \in Nat
      /\ wires \in [Sessions -> Seq(Nat)] /\ received \in [Sessions -> Seq(Nat)]
      /\ Sessions = 0..MaxSessions /\ MaxSessions \in Nat
      /\ <<pushed + 1>> \in Seq(Nat) /\ <<hand>> \in Seq(Nat)
      /\ wires[c] \in Seq(Nat) /\ received[c] \in Seq(Nat)
  BY NatTypes, OneFrame DEF ShapeInv
<1>1. UNCHANGED <<pushed, items, hand>>
  BY DEF Server, ServerReceives, HandlerEnds
<1> DEFINE r == received'[c]
           w == wires'[c]
<1>2. \A d \in Sessions : /\ received'[d] = IF d = c THEN r ELSE received[d]
                          /\ wires'[d] = IF d = c THEN w ELSE wires[d]
  BY <1>0 DEF Server, ServerReceives, HandlerEnds
<1>3. Increasing(received[c]) /\ Increasing(wires[c]) /\ Before(received[c], wires[c])
  BY DEF SessionsInOrder
<1>4. /\ Increasing(r) /\ Increasing(w) /\ Before(r, w)
      /\ \A s \in Seq(Nat) : Before(received[c], s) /\ Before(wires[c], s)
                             => Before(r, s) /\ Before(w, s)
      /\ \A s \in Seq(Nat) : Before(s, received[c]) /\ Before(s, wires[c])
                             => Before(s, r) /\ Before(s, w)
  <2>1. CASE ServerReceives(c)
    <3> DEFINE h == Head(wires[c])
    <3>1. /\ wires[c] # << >>
          /\ r = Append(received[c], h) /\ w = Tail(wires[c])
      BY <1>0, <2>1 DEF ServerReceives
    <3>2. h \in Nat /\ <<h>> \in Seq(Nat) /\ Tail(wires[c]) \in Seq(Nat)
      BY <1>0, <3>1, HeadTailProperties, OneFrame
    <3>3. /\ Increasing(Tail(wires[c])) /\ Before(<<h>>, Tail(wires[c]))
          /\ \A s \in Seq(Nat) : Before(s, wires[c]) => Before(s, Tail(wires[c])) /\ Before(s, <<h>>)
          /\ \A s \in Seq(Nat) : Before(wires[c], s) => Before(Tail(wires[c]), s) /\ Before(<<h>>, s)
      BY <1>0, <1>3, <3>1, HeadTailOrder
    <3> HIDE DEF h, r, w
    <3>4. Before(received[c], <<h>>) /\ Before(received[c], Tail(wires[c]))
      BY <1>0, <1>3, <3>3
    <3>5. Increasing(r) /\ Before(r, w)
      BY <1>0, <1>3, <3>1, <3>2, <3>3, <3>4, AppendOrder
    <3>6. ASSUME NEW s \in Seq(Nat), Before(received[c], s), Before(wires[c], s)
          PROVE  Before(r, s) /\ Before(w, s)
      BY <1>0, <3>1, <3>2, <3>3, <3>4, <3>6, AppendOrder
    <3>7. ASSUME NEW s \in Seq(Nat), Before(s, received[c]), Before(s, wires[c])
          PROVE  Before(s, r) /\ Before(s, w)
      BY <1>0, <3>1, <3>2, <3>3, <3>4, <3>7, AppendOrder
    <3> QED
      BY <3>1, <3>3, <3>5, <3>6, <3>7
  <2>2. CASE HandlerEnds(c)
    <3>1. r = received[c] /\ w = << >>
      BY <1>0, <2>2 DEF HandlerEnds
    <3> HIDE DEF r, w
    <3> QED
      BY <1>3, <3>1, EmptyOrder
  <2> QED
    BY <2>1, <2>2 DEF Server
<1> HIDE DEF r, w
<1>5. SessionsInOrder'
  <2>1. \A d \in Sessions : /\ Increasing(received'[d]) /\ Increasing(wires'[d])
                           /\ Before(received'[d], wires'[d])
    BY <1>2, <1>4 DEF SessionsInOrder
  <2>2. ASSUME NEW d \in Sessions, NEW e \in Sessions, d < e
        PROVE  /\ Before(received'[d], received'[e]) /\ Before(received'[d], wires'[e])
               /\ Before(wires'[d], received'[e]) /\ Before(wires'[d], wires'[e])
    <3>1. /\ Before(received[d], received[e]) /\ Before(received[d], wires[e])
          /\ Before(wires[d], received[e]) /\ Before(wires[d], wires[e])
          /\ received[d] \in Seq(Nat) /\ wires[d] \in Seq(Nat)
          /\ received[e] \in Seq(Nat) /\ wires[e] \in Seq(Nat)
          /\ d # e
      BY <1>0, <2>2 DEF SessionsInOrder
    <3>2. CASE d = c
      BY <1>2, <1>4, <3>1, <3>2
    <3>3. CASE e = c
      BY <1>2, <1>4, <3>1, <3>3
    <3>4. CASE d # c /\ e # c
      BY <1>2, <3>1, <3>4
    <3> QED
      BY <3>2, <3>3, <3>4
  <2> QED
    BY <2>1, <2>2 DEF SessionsInOrder
<1>6. BacklogInOrder'
  <2>1. \A d \in Sessions : Before(received'[d], items) /\ Before(wires'[d], items)
    BY <1>0, <1>2, <1>4 DEF BacklogInOrder
  <2>2. hand # NoFrame =>
          \A d \in Sessions : Before(received'[d], <<hand>>) /\ Before(wires'[d], <<hand>>)
    BY <1>0, <1>2, <1>4 DEF BacklogInOrder
  <2> QED
    BY <1>1, <2>1, <2>2 DEF BacklogInOrder
<1>7. NextIsLast'
  <2>1. \A d \in Sessions : Before(received'[d], <<pushed + 1>>) /\ Before(wires'[d], <<pushed + 1>>)
    BY <1>0, <1>2, <1>4 DEF NextIsLast
  <2> QED
    BY <1>1, <2>1 DEF NextIsLast
<1> QED
  BY <1>5, <1>6, <1>7

LEMMA OrderStep ==
  ASSUME ShapeInv, OrderInv, [Next]_vars, OutboxAssumption
  PROVE  OrderInv'
<1> USE DEF OrderInv
<1>1. CASE Push
  <2>1. UNCHANGED <<wires, received>>
    BY <1>1 DEF Push
  <2> QED
    BY <1>1, <2>1, PushOrder DEF SessionsInOrder
<1>2. CASE Signal \/ OpenSession \/ FlushReturns \/ Wake \/ SessionEnds \/ LinkBreaks \/ UNCHANGED vars
  <2>1. UNCHANGED <<pushed, items, hand, wires, received>>
    BY <1>2 DEF Signal, OpenSession, FlushReturns, Wake, SessionEnds, LinkBreaks, vars
  <2> QED
    BY <2>1 DEF SessionsInOrder, BacklogInOrder, NextIsLast
<1>3. CASE Pop
  <2>0. /\ items \in Seq(Nat) /\ pushed \in Nat /\ <<pushed + 1>> \in Seq(Nat)
        /\ wires \in [Sessions -> Seq(Nat)] /\ received \in [Sessions -> Seq(Nat)]
    BY NatTypes, OneFrame DEF ShapeInv
  <2>1. /\ items # << >> /\ hand' = Head(items) /\ items' = Tail(items)
        /\ UNCHANGED <<pushed, wires, received>>
    BY <1>3 DEF Pop
  <2>2. /\ Increasing(items') /\ Before(<<hand'>>, items')
        /\ Before(items', <<pushed + 1>>) /\ Before(<<hand'>>, <<pushed + 1>>)
    BY <2>0, <2>1, HeadTailOrder DEF BacklogInOrder, NextIsLast
  <2>3. ASSUME NEW c \in Sessions
        PROVE  /\ Before(received[c], items') /\ Before(received[c], <<hand'>>)
               /\ Before(wires[c], items') /\ Before(wires[c], <<hand'>>)
    <3>1. /\ received[c] \in Seq(Nat) /\ wires[c] \in Seq(Nat)
          /\ Before(received[c], items) /\ Before(wires[c], items)
      BY <2>0 DEF BacklogInOrder
    <3> QED
      BY <2>0, <2>1, <3>1, HeadTailOrder
  <2>4. SessionsInOrder'
    BY <2>1 DEF SessionsInOrder
  <2>5. BacklogInOrder'
    BY <2>1, <2>2, <2>3 DEF BacklogInOrder
  <2>6. NextIsLast'
    BY <2>1, <2>2 DEF NextIsLast
  <2> QED
    BY <2>4, <2>5, <2>6
<1>4. CASE WriteSucceeds
  BY <1>4, WriteOrder
<1>5. CASE WriteFails
  <2>1. UNCHANGED <<wires, received>>
    BY <1>5 DEF WriteFails
  <2> QED
    BY <1>5, <2>1, PutBackOrder DEF SessionsInOrder
<1>6. ASSUME NEW c \in Sessions, Server(c)
      PROVE  OrderInv'
  BY <1>6, ServerOrder
<1> QED
  BY <1>1, <1>2, <1>3, <1>4, <1>5, <1>6 DEF Next, Writer

(* For every number of frames and sessions, each handler reads frames in the  *)
(* order the engine pushed them, newer than all that were sent over earlier   *)
(* connections, and no frame is read twice, although a failed write puts its  *)
(* frame back and a full outbox drops from the same end.                      *)
THEOREM OrderKept == Spec => []InOrder
<1>1. Init => OrderInv
  BY OrderInit
<1>2. ShapeInv /\ OrderInv /\ [Next]_vars => OrderInv'
  BY OrderStep, OutboxAssumption
<1>3. OrderInv => InOrder
  BY DEF OrderInv, InOrder
<1> QED
  BY <1>1, <1>2, <1>3, Shape, PTL DEF Spec
-----------------------------------------------------------------------------
(* Refinement.  The lane of a session is what its connection has, followed,   *)
(* for the present one, by the frame in the writer's hand and the outbox;     *)
(* whatever a step loses of a lane is one stretch of it.                      *)

(* A queue that loses a stretch b survives it.                                *)
LEMMA StretchLost ==
  ASSUME NEW a \in Seq(Nat), NEW b \in Seq(Nat), NEW c \in Seq(Nat)
  PROVE  Abstract!Survives(a \o c, (a \o b) \o c)
<1> DEFINE s == a \o c
           q == (a \o b) \o c
           f == [i \in DOMAIN s |-> IF i <= Len(a) THEN i ELSE i + Len(b)]
<1>1. Len(a) \in Nat /\ Len(b) \in Nat /\ Len(c) \in Nat
  BY LenProperties
<1>2. a \o b \in Seq(Nat) /\ Len(a \o b) = Len(a) + Len(b)
  BY ConcatProperties
<1>3. s \in Seq(Nat) /\ Len(s) = Len(a) + Len(c) /\ DOMAIN s = 1..(Len(a) + Len(c))
  BY ConcatProperties, LenProperties
<1>4. /\ q \in Seq(Nat) /\ Len(q) = Len(a) + Len(b) + Len(c)
      /\ DOMAIN q = 1..(Len(a) + Len(b) + Len(c))
  BY <1>1, <1>2, ConcatProperties, LenProperties
<1>5. ASSUME NEW i \in DOMAIN s
      PROVE  f[i] \in DOMAIN q /\ s[i] = q[f[i]]
  <2>1. CASE i <= Len(a)
    <3>1. f[i] = i /\ i \in 1..Len(a)
      BY <1>1, <1>3, <2>1
    <3>2. s[i] = a[i]
      BY <1>1, <1>3, <3>1, ConcatProperties
    <3>3. (a \o b)[i] = a[i]
      BY <1>1, <3>1, ConcatProperties
    <3>4. q[i] = (a \o b)[i]
      BY <1>1, <1>2, <3>1, ConcatProperties
    <3> QED
      BY <1>1, <1>4, <3>1, <3>2, <3>3, <3>4
  <2>2. CASE ~(i <= Len(a))
    <3>1. f[i] = i + Len(b) /\ i \in (Len(a) + 1)..(Len(a) + Len(c))
      BY <1>1, <1>3, <2>2
    <3>2. s[i] = c[i - Len(a)]
      BY <1>1, <1>3, <3>1, ConcatProperties
    <3>3. /\ i + Len(b) \in 1..(Len(a \o b) + Len(c))
          /\ ~(i + Len(b) <= Len(a \o b))
          /\ i + Len(b) - Len(a \o b) = i - Len(a)
      BY <1>1, <1>2, <3>1
    <3>4. q[i + Len(b)] = c[i + Len(b) - Len(a \o b)]
      BY <1>2, <3>3, ConcatProperties
    <3> QED
      BY <1>1, <1>4, <3>1, <3>2, <3>3, <3>4
  <2> QED
    BY <2>1, <2>2
<1>6. f \in [DOMAIN s -> DOMAIN q]
  BY <1>5
<1>7. \A i, j \in DOMAIN s : i < j => f[i] < f[j]
  BY <1>1, <1>3
<1>8. \E g \in [DOMAIN s -> DOMAIN q] :
         /\ \A i \in DOMAIN s : s[i] = q[g[i]]
         /\ \A i, j \in DOMAIN s : i < j => g[i] < g[j]
  <2> HIDE DEF s, q, f
  <2> QED
    BY <1>5, <1>6, <1>7
<1> QED
  BY <1>8 DEF Abstract!Survives

LEMMA NothingLost == ASSUME NEW s \in Seq(Nat) PROVE Abstract!Survives(s, s)
<1>1. << >> \in Seq(Nat) /\ s \o << >> = s /\ << >> \o s = s
  BY EmptySeq, ConcatEmptySeq
<1>2. Abstract!Survives(<< >> \o s, (<< >> \o << >>) \o s)
  BY <1>1, StretchLost
<1>3. << >> \o << >> = << >>
  BY <1>1, ConcatEmptySeq
<1> QED
  BY <1>1, <1>2, <1>3

LEMMA ConcatAppend ==
  ASSUME NEW s \in Seq(Nat), NEW t \in Seq(Nat), NEW e \in Nat
  PROVE  s \o Append(t, e) = Append(s \o t, e)
<1>1. Append(t, e) = t \o <<e>> /\ s \o t \in Seq(Nat) /\ <<e>> \in Seq(Nat)
  BY AppendIsConcat, ConcatProperties, OneFrame
<1>2. Append(s \o t, e) = (s \o t) \o <<e>>
  BY <1>1, AppendIsConcat
<1> QED
  BY <1>1, <1>2, ConcatAssociative

LEMMA ConcatHeadTail ==
  ASSUME NEW s \in Seq(Nat), NEW t \in Seq(Nat), s # << >>
  PROVE  s \o t # << >> /\ Head(s \o t) = Head(s) /\ Tail(s \o t) = Tail(s) \o t
<1> DEFINE u == s \o t
<1>1. Len(s) \in Nat \ {0} /\ Len(t) \in Nat
  BY EmptySeq, LenProperties
<1>2. /\ u \in Seq(Nat) /\ Len(u) = Len(s) + Len(t)
      /\ \A i \in 1..(Len(s) + Len(t)) : u[i] = IF i <= Len(s) THEN s[i] ELSE t[i - Len(s)]
  BY ConcatProperties
<1>3. u # << >>
  BY <1>1, <1>2, EmptySeq
<1>4. Head(u) = u[1] /\ Head(s) = s[1]
  OBVIOUS
<1>5. /\ Tail(s) \in Seq(Nat) /\ Len(Tail(s)) = Len(s) - 1
      /\ \A i \in 1..(Len(s) - 1) : Tail(s)[i] = s[i + 1]
  BY HeadTailProperties
<1>6. /\ Tail(u) \in Seq(Nat) /\ Len(Tail(u)) = Len(s) + Len(t) - 1
      /\ \A i \in 1..(Len(s) + Len(t) - 1) : Tail(u)[i] = u[i + 1]
  BY <1>2, <1>3, HeadTailProperties
<1>7. /\ Tail(s) \o t \in Seq(Nat) /\ Len(Tail(s) \o t) = Len(s) - 1 + Len(t)
      /\ \A i \in 1..(Len(s) - 1 + Len(t)) :
           (Tail(s) \o t)[i] = IF i <= Len(s) - 1 THEN Tail(s)[i] ELSE t[i - (Len(s) - 1)]
  BY <1>5, ConcatProperties
<1>8. Tail(u) = Tail(s) \o t
  <2> SUFFICES ASSUME NEW i \in 1..(Len(s) + Len(t) - 1)
               PROVE  Tail(u)[i] = (Tail(s) \o t)[i]
    <3>1. Len(Tail(u)) = Len(Tail(s) \o t) /\ 1..Len(Tail(u)) = 1..(Len(s) + Len(t) - 1)
      BY <1>1, <1>6, <1>7
    <3>2. Tail(u) \in Seq(Nat) /\ Tail(s) \o t \in Seq(Nat)
      BY <1>6, <1>7
    <3> HIDE DEF u
    <3> QED
      BY <3>1, <3>2, SeqEqual
  <2>1. i + 1 \in 1..(Len(s) + Len(t)) /\ i - (Len(s) - 1) = i + 1 - Len(s)
    BY <1>1
  <2>2. Tail(u)[i] = IF i + 1 <= Len(s) THEN s[i + 1] ELSE t[i + 1 - Len(s)]
    BY <1>1, <1>2, <1>6, <2>1
  <2>3. (Tail(s) \o t)[i] = IF i <= Len(s) - 1 THEN s[i + 1] ELSE t[i + 1 - Len(s)]
    BY <1>1, <1>5, <1>7, <2>1
  <2> QED
    BY <1>1, <2>2, <2>3
<1> QED
  BY <1>1, <1>2, <1>3, <1>4, <1>8

LEMMA HeadAndTail ==
  ASSUME NEW s \in Seq(Nat), s # << >>
  PROVE  s = <<Head(s)>> \o Tail(s) /\ Head(s) \in Nat /\ Tail(s) \in Seq(Nat)
<1>1. Len(s) \in Nat \ {0} /\ Head(s) \in Nat /\ Tail(s) \in Seq(Nat) /\ Head(s) = s[1]
  BY EmptySeq, HeadTailProperties
<1>2. SubSeq(s, 1, Len(s)) = <<s[1]>> \o SubSeq(s, 2, Len(s))
  BY <1>1, SubSeqRecursiveFirst
<1>3. SubSeq(s, 1, Len(s)) = s /\ SubSeq(s, 2, Len(s)) = Tail(s)
  BY <1>1, SubSeqFull, TailIsSubSeq
<1> QED
  BY <1>1, <1>2, <1>3

(* A push onto a queue that has lost a stretch.                               *)
LEMMA PushOnto ==
  ASSUME NEW s \in Seq(Nat), NEW e \in Nat
  PROVE  LET t == Append(s, e)
         IN t # << >> /\ t[Len(t)] = e /\ SubSeq(t, 1, Len(t) - 1) = s
<1> DEFINE t == Append(s, e)
<1>1. /\ t \in Seq(Nat) /\ t # << >> /\ Len(t) = Len(s) + 1 /\ Len(s) \in Nat
      /\ \A i \in 1..Len(s) : t[i] = s[i]
      /\ t[Len(s) + 1] = e
  BY AppendProperties, LenProperties
<1>2. /\ SubSeq(t, 1, Len(s)) \in Seq(Nat) /\ Len(SubSeq(t, 1, Len(s))) = Len(s)
      /\ \A i \in 1..Len(s) : SubSeq(t, 1, Len(s))[i] = t[i]
  <2>1. \A i \in 1..Len(s) : t[i] \in Nat
    BY <1>1, ElementOfSeq
  <2>2. Len(s) \in Int /\ 1 \in Int
    BY <1>1
  <2> HIDE DEF t
  <2>3. /\ SubSeq(t, 1, Len(s)) \in Seq(Nat)
        /\ Len(SubSeq(t, 1, Len(s))) = IF 1 <= Len(s) THEN Len(s) - 1 + 1 ELSE 0
        /\ \A i \in 1..(Len(s) - 1 + 1) : SubSeq(t, 1, Len(s))[i] = t[1 + i - 1]
    BY <2>1, <2>2, SubSeqProperties
  <2> QED
    BY <1>1, <2>3
<1>3. SubSeq(t, 1, Len(s)) = s
  BY <1>1, <1>2, SeqEqual
<1> QED
  BY <1>1, <1>3

LEMMA ThreeParts ==
  ASSUME NEW s \in Seq(Nat), NEW t \in Seq(Nat), NEW u \in Seq(Nat)
  PROVE  (s \o t) \o u = s \o (t \o u)
<1> DEFINE l == (s \o t) \o u
           r == s \o (t \o u)
<1>1. s \o t \in Seq(Nat) /\ t \o u \in Seq(Nat)
  BY ConcatProperties
<1>2. l \in Seq(Nat) /\ r \in Seq(Nat)
  BY <1>1, ConcatProperties
<1> HIDE DEF l, r
<1> SUFFICES l = r
  BY DEF l, r
<1>3. Len(s) \in Nat /\ Len(t) \in Nat /\ Len(u) \in Nat
  BY LenProperties
<1>4. /\ Len(s \o t) = Len(s) + Len(t)
      /\ \A i \in 1..(Len(s) + Len(t)) :
           (s \o t)[i] = IF i <= Len(s) THEN s[i] ELSE t[i - Len(s)]
  BY ConcatProperties
<1>5. /\ Len(t \o u) = Len(t) + Len(u)
      /\ \A i \in 1..(Len(t) + Len(u)) :
           (t \o u)[i] = IF i <= Len(t) THEN t[i] ELSE u[i - Len(t)]
  BY ConcatProperties
<1>6. /\ Len(l) = Len(s) + Len(t) + Len(u)
      /\ \A i \in 1..(Len(s) + Len(t) + Len(u)) :
           l[i] = IF i <= Len(s) + Len(t) THEN (s \o t)[i] ELSE u[i - (Len(s) + Len(t))]
  BY <1>1, <1>3, <1>4, ConcatProperties DEF l
<1>7. /\ Len(r) = Len(s) + Len(t) + Len(u)
      /\ \A i \in 1..(Len(s) + Len(t) + Len(u)) :
           r[i] = IF i <= Len(s) THEN s[i] ELSE (t \o u)[i - Len(s)]
  BY <1>1, <1>3, <1>5, ConcatProperties DEF r
<1>8. ASSUME NEW i \in 1..(Len(s) + Len(t) + Len(u))
      PROVE  l[i] = r[i]
  <2>1. CASE i <= Len(s)
    <3>1. i \in 1..(Len(s) + Len(t)) /\ i <= Len(s) + Len(t)
      BY <1>3, <2>1
    <3>2. (s \o t)[i] = s[i]
      BY <1>4, <2>1, <3>1
    <3>3. l[i] = (s \o t)[i]
      BY <1>6, <3>1
    <3> QED
      BY <1>7, <2>1, <3>2, <3>3
  <2>2. CASE ~(i <= Len(s)) /\ i <= Len(s) + Len(t)
    <3>0. i \in 1..(Len(s) + Len(t))
      BY <1>3, <2>2
    <3>1. l[i] = t[i - Len(s)]
      BY <1>4, <1>6, <2>2, <3>0
    <3>2. i - Len(s) \in 1..(Len(t) + Len(u)) /\ i - Len(s) <= Len(t)
      BY <1>3, <2>2
    <3> QED
      BY <1>5, <1>7, <2>2, <3>1, <3>2
  <2>3. CASE ~(i <= Len(s) + Len(t))
    <3>1. l[i] = u[i - (Len(s) + Len(t))]
      BY <1>6, <2>3
    <3>2. /\ i - Len(s) \in 1..(Len(t) + Len(u)) /\ ~(i - Len(s) <= Len(t)) /\ ~(i <= Len(s))
          /\ (i - Len(s)) - Len(t) = i - (Len(s) + Len(t))
      BY <1>3, <2>3
    <3> QED
      BY <1>5, <1>7, <3>1, <3>2
  <2> QED
    BY <2>1, <2>2, <2>3
<1>9. Len(l) = Len(r) /\ \A i \in 1..Len(l) : l[i] = r[i]
  BY <1>6, <1>7, <1>8
<1> QED
  BY <1>2, <1>9, SeqEqual

(* A sequence cut where its second part begins.                               *)
LEMMA CutApart ==
  ASSUME NEW s \in Seq(Nat), NEW t \in Seq(Nat)
  PROVE  /\ Len(s) \in 0..Len(s \o t)
         /\ SubSeq(s \o t, 1, Len(s)) = s
         /\ SubSeq(s \o t, Len(s) + 1, Len(s \o t)) = t
<1> DEFINE u == s \o t
           l == SubSeq(u, 1, Len(s))
           r == SubSeq(u, Len(s) + 1, Len(s) + Len(t))
<1>1. Len(s) \in Nat /\ Len(t) \in Nat
  BY LenProperties
<1>2. /\ u \in Seq(Nat) /\ Len(u) = Len(s) + Len(t)
      /\ \A i \in 1..(Len(s) + Len(t)) : u[i] = IF i <= Len(s) THEN s[i] ELSE t[i - Len(s)]
  BY ConcatProperties
<1>3. \A i \in 1..(Len(s) + Len(t)) : u[i] \in Nat
  BY <1>2, ElementOfSeq
<1> HIDE DEF u
<1>4. l \in Seq(Nat) /\ Len(l) = Len(s) /\ \A i \in 1..Len(s) : l[i] = u[i]
  <2>1. \A i \in 1..Len(s) : u[i] \in Nat
    BY <1>1, <1>3
  <2>2. /\ SubSeq(u, 1, Len(s)) \in Seq(Nat)
        /\ Len(SubSeq(u, 1, Len(s))) = IF 1 <= Len(s) THEN Len(s) - 1 + 1 ELSE 0
        /\ \A i \in 1..(Len(s) - 1 + 1) : SubSeq(u, 1, Len(s))[i] = u[1 + i - 1]
    BY <1>1, <2>1, SubSeqProperties
  <2> QED
    BY <1>1, <2>2
<1>5. /\ r \in Seq(Nat) /\ Len(r) = Len(t)
      /\ \A i \in 1..Len(t) : r[i] = u[Len(s) + i]
  <2> DEFINE m == Len(s) + 1
             n == Len(s) + Len(t)
  <2>1. m \in Int /\ n \in Int /\ \A i \in m..n : u[i] \in Nat
    BY <1>1, <1>3
  <2>2. /\ SubSeq(u, m, n) \in Seq(Nat)
        /\ Len(SubSeq(u, m, n)) = IF m <= n THEN n - m + 1 ELSE 0
        /\ \A i \in 1..(n - m + 1) : SubSeq(u, m, n)[i] = u[m + i - 1]
    <3> HIDE DEF m, n
    <3> QED
      BY <2>1, SubSeqProperties
  <2>3. Len(r) = Len(t) /\ n - m + 1 = Len(t)
    BY <1>1, <2>2
  <2>4. \A i \in 1..Len(t) : m + i - 1 = Len(s) + i
    BY <1>1
  <2> QED
    BY <2>2, <2>3, <2>4
<1> HIDE DEF l, r
<1>6. l = s
  <2>1. \A i \in 1..Len(s) : i \in 1..(Len(s) + Len(t)) /\ i <= Len(s)
    BY <1>1
  <2>2. \A i \in 1..Len(s) : l[i] = s[i]
    BY <1>2, <1>4, <2>1
  <2> QED
    BY <1>4, <2>2, SeqEqual
<1>7. r = t
  <2>1. \A i \in 1..Len(t) : /\ Len(s) + i \in 1..(Len(s) + Len(t)) /\ ~(Len(s) + i <= Len(s))
                             /\ Len(s) + i - Len(s) = i
    BY <1>1
  <2>2. \A i \in 1..Len(t) : r[i] = t[i]
    <3> SUFFICES ASSUME NEW i \in 1..Len(t)
                 PROVE  r[i] = t[i]
      OBVIOUS
    <3>1. r[i] = u[Len(s) + i]
      BY <1>5
    <3>2. u[Len(s) + i] = t[Len(s) + i - Len(s)]
      BY <1>2, <2>1
    <3> QED
      BY <2>1, <3>1, <3>2
  <2> QED
    BY <1>5, <2>2, SeqEqual
<1> QED
  BY <1>1, <1>2, <1>6, <1>7 DEF l, r, u

(* The frame in the writer's hand, as part of the present session's lane.     *)
InHand == IF hand = NoFrame THEN << >> ELSE <<hand>>

LEMMA LaneTypes ==
  ASSUME TypeOK, OutboxAssumption
  PROVE  /\ items \in Seq(Nat) /\ hand \in Nat /\ pushed \in Nat
         /\ InHand \in Seq(Nat) /\ Backlog \in Seq(Nat) /\ Backlog = InHand \o items
         /\ sessions \in Sessions /\ Sessions = 0..MaxSessions /\ MaxSessions \in Nat
         /\ wires \in [Sessions -> Seq(Nat)]
         /\ wires[sessions] \in Seq(Nat)
         /\ Lanes \in [Sessions -> Seq(Nat)]
         /\ \A c \in Sessions : Lanes[c] = IF c = sessions THEN wires[c] \o Backlog ELSE wires[c]
<1>1. /\ items \in Seq(Nat) /\ hand \in Nat /\ pushed \in Nat /\ sessions \in Sessions
      /\ wires \in [Sessions -> Seq(Nat)] /\ Sessions = 0..MaxSessions /\ MaxSessions \in Nat
  BY NatTypes
<1>2. InHand \in Seq(Nat)
  BY <1>1, EmptySeq, OneFrame DEF InHand
<1>3. Backlog = InHand \o items
  BY DEF Backlog, InHand
<1>4. Backlog \in Seq(Nat)
  BY <1>1, <1>2, <1>3, ConcatProperties
<1>5. \A c \in Sessions : wires[c] \in Seq(Nat) /\ wires[c] \o Backlog \in Seq(Nat)
  BY <1>1, <1>4, ConcatProperties
<1>6. \A c \in Sessions : Lanes[c] = IF c = sessions THEN wires[c] \o Backlog ELSE wires[c]
  BY DEF Lanes
<1>7. Lanes \in [Sessions -> Seq(Nat)]
  BY <1>5, <1>6 DEF Lanes
<1> QED
  BY <1>1, <1>2, <1>3, <1>4, <1>5, <1>6, <1>7

(* The lanes after a step that changes one of them.                           *)
LEMMA OneLane ==
  ASSUME TypeOK, OutboxAssumption, sessions' = sessions,
         NEW c \in Sessions, NEW s,
         s = IF c = sessions THEN wires'[c] \o Backlog' ELSE wires'[c],
         \A d \in Sessions : d # c => wires'[d] = wires[d],
         c = sessions \/ Backlog' = Backlog
  PROVE  Lanes' = [Lanes EXCEPT ![c] = s] /\ Lanes'[c] = s
<1>1. Lanes' = [d \in Sessions |-> IF d = sessions THEN wires'[d] \o Backlog' ELSE wires'[d]]
  BY DEF Lanes
<1>2. Lanes = [d \in Sessions |-> IF d = sessions THEN wires[d] \o Backlog ELSE wires[d]]
  BY DEF Lanes
<1>3. ASSUME NEW d \in Sessions
      PROVE  Lanes'[d] = [Lanes EXCEPT ![c] = s][d]
  <2>1. CASE d = c
    BY <1>1, <1>2, <2>1
  <2>2. CASE d # c
    BY <1>1, <1>2, <2>2
  <2> QED
    BY <2>1, <2>2
<1>4. Lanes' = [Lanes EXCEPT ![c] = s]
  BY <1>1, <1>2, <1>3
<1> QED
  BY <1>1, <1>4

(* A step of one session that loses some of its lane.                         *)
LEMMA LaneLoses ==
  ASSUME TypeOK, OutboxAssumption, UNCHANGED <<pushed, sessions, received>>,
         NEW c \in Sessions, NEW s,
         s = IF c = sessions THEN wires'[c] \o Backlog' ELSE wires'[c],
         \A d \in Sessions : d # c => wires'[d] = wires[d],
         c = sessions \/ Backlog' = Backlog,
         Abstract!Survives(s, Lanes[c])
  PROVE  Abstract!Lose(c)
<1>1. Lanes' = [Lanes EXCEPT ![c] = s] /\ Lanes'[c] = s
  BY OneLane
<1> QED
  BY <1>1 DEF Abstract!Lose

LEMMA PushRefines ==
  ASSUME ShapeInv, Push, OutboxAssumption
  PROVE  Abstract!Push
<1> DEFINE rest == IF Len(items) >= OutboxMax THEN Tail(items) ELSE items
           front == wires[sessions] \o InHand
<1>0. /\ items \in Seq(Nat) /\ pushed \in Nat /\ pushed + 1 \in Nat
      /\ InHand \in Seq(Nat) /\ Backlog = InHand \o items
      /\ sessions \in Sessions /\ wires[sessions] \in Seq(Nat)
      /\ Lanes[sessions] = wires[sessions] \o Backlog
  <2>1. TypeOK
    BY DEF ShapeInv
  <2>2. pushed \in Nat => pushed + 1 \in Nat
    OBVIOUS
  <2> QED
    BY <2>1, <2>2, LaneTypes
<1>1. front \in Seq(Nat)
  BY <1>0, ConcatProperties
<1>2. Lanes[sessions] = front \o items
  BY <1>0, ThreeParts
<1>3. /\ pushed < MaxFrames /\ pushed' = pushed + 1 /\ items' = Append(rest, pushed + 1)
      /\ UNCHANGED <<hand, sessions, wires, received>>
  BY DEF Push
<1>4. rest \in Seq(Nat) /\ Abstract!Survives(front \o rest, front \o items)
  <2>1. CASE Len(items) >= OutboxMax
    <3>1. items # << >>
      BY <1>0, <2>1, EmptySeq DEF OutboxAssumption
    <3>2. /\ items = <<Head(items)>> \o rest /\ rest \in Seq(Nat)
          /\ <<Head(items)>> \in Seq(Nat)
      BY <1>0, <2>1, <3>1, HeadAndTail, OneFrame
    <3> HIDE DEF rest, front
    <3>3. front \o (<<Head(items)>> \o rest) = (front \o <<Head(items)>>) \o rest
      BY <1>1, <3>2, ThreeParts
    <3>4. Abstract!Survives(front \o rest, (front \o <<Head(items)>>) \o rest)
      BY <1>1, <3>2, StretchLost
    <3> QED
      BY <3>2, <3>3, <3>4
  <2>2. CASE ~(Len(items) >= OutboxMax)
    <3>1. rest = items
      BY <2>2
    <3> HIDE DEF rest, front
    <3>2. front \o items \in Seq(Nat)
      BY <1>0, <1>1, ConcatProperties
    <3> QED
      BY <1>0, <3>1, <3>2, NothingLost
  <2> QED
    BY <2>1, <2>2
<1> HIDE DEF rest
<1>5. Backlog' = InHand \o Append(rest, pushed + 1)
  BY <1>3 DEF Backlog, InHand
<1> DEFINE kept == front \o rest
           after == Append(kept, pushed + 1)
<1>6. wires'[sessions] \o Backlog' = after /\ kept \in Seq(Nat)
  <2>1. Append(rest, pushed + 1) \in Seq(Nat)
    BY <1>0, <1>4, AppendProperties
  <2>2. wires[sessions] \o (InHand \o Append(rest, pushed + 1)) = front \o Append(rest, pushed + 1)
    BY <1>0, <2>1, ThreeParts
  <2> HIDE DEF front
  <2>3. front \o Append(rest, pushed + 1) = Append(front \o rest, pushed + 1)
    BY <1>0, <1>1, <1>4, ConcatAppend
  <2>4. front \o rest \in Seq(Nat)
    BY <1>1, <1>4, ConcatProperties
  <2> QED
    BY <1>3, <1>5, <2>2, <2>3, <2>4
<1> HIDE DEF front, kept
<1>7. SubSeq(after, 1, Len(after) - 1) = kept
  BY <1>0, <1>6, PushOnto
<1>8. Lanes' = [Lanes EXCEPT ![sessions] = after] /\ Lanes'[sessions] = after
  BY <1>0, <1>3, <1>6, OneLane DEF ShapeInv
<1>9. Abstract!Survives(kept, Lanes[sessions])
  BY <1>2, <1>4 DEF kept
<1> HIDE DEF after
<1>10. \E s \in {kept} : /\ s = SubSeq(Lanes'[sessions], 1, Len(Lanes'[sessions]) - 1)
                          /\ Abstract!Survives(s, Lanes[sessions])
                          /\ Lanes' = [Lanes EXCEPT ![sessions] = Append(s, pushed + 1)]
  BY <1>7, <1>8, <1>9 DEF after
<1> QED
  BY <1>3, <1>10 DEF Abstract!Push

(* The outbox goes on over the next session.                                  *)
LEMMA OpenRefines ==
  ASSUME ShapeInv, OpenSession, OutboxAssumption
  PROVE  Abstract!Reconnect
<1> DEFINE wire == wires[sessions]
           n == Len(wire)
<1>0. /\ Backlog \in Seq(Nat) /\ sessions \in Sessions /\ wire \in Seq(Nat)
      /\ Sessions = 0..MaxSessions /\ MaxSessions \in Nat
      /\ Lanes[sessions] = wire \o Backlog
  BY LaneTypes DEF ShapeInv
<1>1. /\ sessions < MaxSessions /\ sessions' = sessions + 1 /\ sessions + 1 \in Sessions
      /\ Backlog' = Backlog /\ UNCHANGED <<pushed, items, hand, wires, received>>
  BY <1>0 DEF OpenSession, Backlog
<1>2. wires[sessions + 1] = << >> /\ << >> \o Backlog = Backlog
  BY <1>0, <1>1, ConcatEmptySeq DEF ShapeInv, LaterAreEmpty
<1>3. /\ n \in 0..Len(Lanes[sessions])
      /\ SubSeq(Lanes[sessions], 1, n) = wire
      /\ SubSeq(Lanes[sessions], n + 1, Len(Lanes[sessions])) = Backlog
  <2>1. wire \in Seq(Nat) /\ Backlog \in Seq(Nat) /\ Lanes[sessions] = wire \o Backlog
    BY <1>0
  <2> HIDE DEF wire
  <2>2. /\ Len(wire) \in 0..Len(wire \o Backlog)
        /\ SubSeq(wire \o Backlog, 1, Len(wire)) = wire
        /\ SubSeq(wire \o Backlog, Len(wire) + 1, Len(wire \o Backlog)) = Backlog
    BY <2>1, CutApart
  <2> QED
    BY <2>1, <2>2
<1>4. Lanes = [d \in Sessions |-> IF d = sessions THEN wires[d] \o Backlog ELSE wires[d]]
  BY DEF Lanes
<1>5. Lanes' = [d \in Sessions |-> IF d = sessions + 1 THEN wires[d] \o Backlog ELSE wires[d]]
  BY <1>1 DEF Lanes
<1>6. sessions # sessions + 1
  BY <1>0
<1> HIDE DEF n
<1>7. Lanes' = [Lanes EXCEPT ![sessions] = SubSeq(@, 1, n),
                             ![sessions + 1] = SubSeq(Lanes[sessions], n + 1, Len(Lanes[sessions]))]
  <2> DEFINE cut == SubSeq(Lanes[sessions], 1, n)
             end == SubSeq(Lanes[sessions], n + 1, Len(Lanes[sessions]))
             new == [Lanes EXCEPT ![sessions] = cut, ![sessions + 1] = end]
  <2>1. cut = wire /\ end = Backlog
    BY <1>3
  <2> HIDE DEF cut, end
  <2>2. \A d \in Sessions : new[d] = IF d = sessions + 1 THEN end ELSE IF d = sessions THEN cut ELSE Lanes[d]
    BY <1>4, <1>6
  <2>3. \A d \in Sessions : Lanes'[d] = new[d]
    BY <1>2, <1>4, <1>5, <1>6, <2>1, <2>2
  <2>4. Lanes' = new
    BY <1>4, <1>5, <2>3
  <2> QED
    BY <2>4 DEF cut, end
<1> QED
  BY <1>1, <1>3, <1>7 DEF Abstract!Reconnect

LEMMA ServerRefines ==
  ASSUME ShapeInv, NEW c \in Sessions, Server(c), OutboxAssumption
  PROVE  Abstract!Deliver(c) \/ Abstract!Lose(c)
<1>0. /\ Backlog \in Seq(Nat) /\ wires[c] \in Seq(Nat) /\ TypeOK
      /\ Lanes[c] = IF c = sessions THEN wires[c] \o Backlog ELSE wires[c]
      /\ wires \in [Sessions -> Seq(Nat)]
  BY LaneTypes DEF ShapeInv
<1>1. /\ wires[c] # << >> /\ Backlog' = Backlog /\ UNCHANGED <<pushed, sessions>>
      /\ \A d \in Sessions : d # c => wires'[d] = wires[d]
  BY <1>0 DEF Server, ServerReceives, HandlerEnds, Backlog
<1>2. CASE ServerReceives(c)
  <2>1. /\ received' = [received EXCEPT ![c] = Append(@, Head(wires[c]))]
        /\ wires'[c] = Tail(wires[c])
    BY <1>0, <1>2 DEF ServerReceives
  <2>2. /\ wires[c] \o Backlog # << >> /\ Head(wires[c] \o Backlog) = Head(wires[c])
        /\ Tail(wires[c] \o Backlog) = Tail(wires[c]) \o Backlog
    BY <1>0, <1>1, ConcatHeadTail
  <2>3. Lanes[c] # << >> /\ Head(Lanes[c]) = Head(wires[c])
    BY <1>0, <1>1, <2>2
  <2>4. Tail(Lanes[c]) = IF c = sessions THEN wires'[c] \o Backlog' ELSE wires'[c]
    BY <1>0, <1>1, <2>1, <2>2
  <2>5. Lanes' = [Lanes EXCEPT ![c] = Tail(Lanes[c])]
    BY <1>0, <1>1, <2>4, OneLane
  <2>6. Abstract!Deliver(c)
    BY <1>1, <2>1, <2>3, <2>5 DEF Abstract!Deliver
  <2> QED
    BY <2>6
<1>3. CASE HandlerEnds(c)
  <2>1. wires'[c] = << >> /\ received' = received
    BY <1>0, <1>3 DEF HandlerEnds
  <2>2. << >> \in Seq(Nat) /\ << >> \o wires[c] = wires[c] /\ wires[c] \o << >> = wires[c]
        /\ << >> \o << >> = << >>
    BY <1>0, EmptySeq, ConcatEmptySeq
  <2>3. Abstract!Survives(<< >> \o Backlog, wires[c] \o Backlog)
    <3>1. Abstract!Survives(<< >> \o Backlog, (<< >> \o wires[c]) \o Backlog)
      BY <1>0, <2>2, StretchLost
    <3> QED
      BY <2>2, <3>1
  <2>4. Abstract!Survives(<< >>, wires[c])
    <3>1. Abstract!Survives(<< >> \o << >>, (<< >> \o wires[c]) \o << >>)
      BY <1>0, <2>2, StretchLost
    <3> QED
      BY <2>2, <3>1
  <2> DEFINE s == IF c = sessions THEN << >> \o Backlog ELSE << >>
  <2>5. Abstract!Survives(s, Lanes[c])
    BY <1>0, <2>3, <2>4
  <2>6. s = IF c = sessions THEN wires'[c] \o Backlog' ELSE wires'[c]
    BY <1>1, <2>1
  <2> HIDE DEF s
  <2>7. Abstract!Lose(c)
    BY <1>0, <1>1, <2>1, <2>5, <2>6, LaneLoses
  <2> QED
    BY <2>7
<1> QED
  BY <1>2, <1>3 DEF Server

(* A write leaves its lane as it is, or loses the frame to a broken link.     *)
LEMMA WriteRefines ==
  ASSUME ShapeInv, WriteSucceeds, OutboxAssumption
  PROVE  Lanes' = Lanes \/ Abstract!Lose(sessions)
<1> DEFINE wire == wires[sessions]
<1>0. /\ items \in Seq(Nat) /\ hand \in Nat /\ sessions \in Sessions /\ wire \in Seq(Nat)
      /\ InHand \in Seq(Nat) /\ Backlog = InHand \o items /\ TypeOK
      /\ wires \in [Sessions -> Seq(Nat)]
      /\ Lanes[sessions] = wire \o Backlog
  BY LaneTypes DEF ShapeInv
<1>1. /\ hand # NoFrame /\ hand' = NoFrame /\ InHand = <<hand>>
      /\ UNCHANGED <<pushed, items, sessions, received>>
  BY DEF WriteSucceeds, ShapeInv, HandWhenWriting, InHand
<1>2. Backlog' = items
  BY <1>0, <1>1, ConcatEmptySeq DEF Backlog
<1>3. \A d \in Sessions : d # sessions => wires'[d] = wires[d]
  BY <1>0 DEF WriteSucceeds
<1>4. wire \o Backlog = (wire \o InHand) \o items
  BY <1>0, ThreeParts
<1>5. CASE linkUp
  <2>1. wires'[sessions] = wire \o InHand
    BY <1>0, <1>1, <1>5, AppendIsConcat DEF WriteSucceeds
  <2>2. wires'[sessions] \o Backlog' = Lanes[sessions]
    BY <1>0, <1>2, <1>4, <2>1
  <2>3. Lanes' = [Lanes EXCEPT ![sessions] = Lanes[sessions]]
    BY <1>0, <1>1, <1>3, <2>2, OneLane
  <2>4. [Lanes EXCEPT ![sessions] = Lanes[sessions]] = Lanes
    BY DEF Lanes
  <2> QED
    BY <2>3, <2>4
<1>6. CASE ~linkUp
  <2>1. wires' = wires
    BY <1>6 DEF WriteSucceeds
  <2>2. wires'[sessions] \o Backlog' = wire \o items
    BY <1>1, <1>2, <2>1
  <2>3. Abstract!Survives(wire \o items, (wire \o InHand) \o items)
    BY <1>0, StretchLost
  <2>4. Abstract!Survives(wires'[sessions] \o Backlog', Lanes[sessions])
    BY <1>0, <1>4, <2>2, <2>3
  <2>5. Abstract!Lose(sessions)
    BY <1>0, <1>1, <1>3, <2>4, LaneLoses
  <2> QED
    BY <2>5
<1> QED
  BY <1>5, <1>6

(* A step that only moves frames between the outbox and the writer's hand.    *)
LEMMA LanesSame ==
  ASSUME Backlog' = Backlog, UNCHANGED <<sessions, wires>>
  PROVE  Lanes' = Lanes
BY DEF Lanes

(* Every step of the agent, the network and the server is one of the abstract *)
(* queue, or leaves the frames under way as they are.                         *)
LEMMA StepRefines ==
  ASSUME ShapeInv, [Next]_vars, OutboxAssumption
  PROVE  [Abstract!Next]_(Abstract!vars)
<1>0. /\ items \in Seq(Nat) /\ hand \in Nat /\ sessions \in Sessions
      /\ InHand \in Seq(Nat) /\ Backlog = InHand \o items
      /\ Sessions = 0..MaxSessions
  BY LaneTypes DEF ShapeInv
<1>a. Lanes' = Lanes /\ UNCHANGED <<pushed, sessions, received>> => UNCHANGED Abstract!vars
  BY DEF Abstract!vars
<1>1. CASE Push
  BY <1>1, PushRefines DEF Abstract!Next
<1>2. CASE Signal \/ FlushReturns \/ Wake \/ SessionEnds \/ LinkBreaks \/ UNCHANGED vars
  <2>1. UNCHANGED <<pushed, items, hand, sessions, wires, received>>
    BY <1>2 DEF Signal, FlushReturns, Wake, SessionEnds, LinkBreaks, vars
  <2> QED
    BY <1>a, <2>1, LanesSame DEF Backlog
<1>3. CASE OpenSession
  BY <1>3, OpenRefines DEF Abstract!Next
<1>4. CASE Pop
  <2>1. /\ items # << >> /\ hand = NoFrame
        /\ hand' = Head(items) /\ items' = Tail(items)
        /\ UNCHANGED <<pushed, sessions, wires, received>>
    BY <1>4 DEF Pop, ShapeInv, HandWhenWriting
  <2>2. hand' # NoFrame
    <3>1. items \in Seq(Frames)
      BY DEF ShapeInv, TypeOK
    <3>2. Head(items) \in Frames
      BY <2>1, <3>1, HeadTailProperties
    <3> QED
      BY <2>1, <3>2 DEF Frames, NoFrame, OutboxAssumption
  <2>3. Backlog' = <<Head(items)>> \o Tail(items)
    BY <2>1, <2>2 DEF Backlog
  <2>4. Backlog = items
    BY <1>0, <2>1, ConcatEmptySeq DEF Backlog
  <2>5. Backlog' = Backlog
    BY <1>0, <2>1, <2>3, <2>4, HeadAndTail
  <2> QED
    BY <1>a, <2>1, <2>5, LanesSame
<1>5. CASE WriteSucceeds
  <2>1. UNCHANGED <<pushed, sessions, received>>
    BY <1>5 DEF WriteSucceeds
  <2> QED
    BY <1>0, <1>5, <1>a, <2>1, WriteRefines DEF Abstract!Next
<1>6. CASE WriteFails
  <2>1. /\ hand # NoFrame /\ hand' = NoFrame /\ items' = <<hand>> \o items
        /\ UNCHANGED <<pushed, sessions, wires, received>>
    BY <1>6 DEF WriteFails, ShapeInv, HandWhenWriting
  <2>2. Backlog = <<hand>> \o items /\ Backlog' = << >> \o items'
    BY <2>1 DEF Backlog
  <2>3. << >> \o items' = items'
    <3>1. items' \in Seq(Nat)
      BY <1>0, <2>1, OneFrame, ConcatProperties
    <3> QED
      BY <3>1, ConcatEmptySeq
  <2> QED
    BY <1>a, <2>1, <2>2, <2>3, LanesSame
<1>7. ASSUME NEW c \in Sessions, Server(c)
      PROVE  [Abstract!Next]_(Abstract!vars)
  BY <1>0, <1>7, ServerRefines DEF Abstract!Next
<1> QED
  BY <1>1, <1>2, <1>3, <1>4, <1>5, <1>6, <1>7 DEF Next, Writer

(* For every limit, and any number of frames and sessions, the outbox, its    *)
(* writer and the handlers are the lossy queue: whatever breaks, is put back  *)
(* or is dropped, frames are lost, or overtaken by those of another session,  *)
(* and never reordered within one, repeated or made up.                       *)
THEOREM OutboxIsLossyQueue == Spec => ImplementsLossyQueue
<1>1. Init => Abstract!Init
  <2> SUFFICES ASSUME Init
               PROVE  Abstract!Init
    OBVIOUS
  <2>1. << >> \o << >> = << >>
    BY EmptySeq, ConcatEmptySeq
  <2>2. Backlog = << >>
    BY <2>1 DEF Init, Backlog
  <2>3. Lanes = [c \in 0..MaxSessions |-> << >>]
    BY <2>1, <2>2 DEF Init, Lanes, Sessions
  <2> QED
    BY <2>3 DEF Init, Abstract!Init, Sessions
<1>2. ShapeInv /\ [Next]_vars => [Abstract!Next]_(Abstract!vars)
  BY StepRefines, OutboxAssumption
<1> QED
  BY <1>1, <1>2, Shape, PTL DEF Spec, ImplementsLossyQueue, Abstract!Spec
=============================================================================
