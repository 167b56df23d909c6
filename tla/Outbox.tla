-------------------------------- MODULE Outbox --------------------------------
(* The agent's outbox and the writer goroutine of its session                 *)
(* (cmd/agent/agent.go): how reports get from the engine to the server over   *)
(* connections that come and go.                                              *)
(*                                                                            *)
(* Any goroutine pushes; one writer at a time pops, writes, and puts the      *)
(* frame back when the write fails.  push appends under the lock and signals  *)
(* the writer after releasing it, through a channel that holds one token.     *)
(* Frames are numbered in the order they are pushed.  A session's writer has  *)
(* returned before the next session begins: its connection is closed at once  *)
(* when the session ends and runForever then waits a second at least.         *)
(*                                                                            *)
(* On the server every connection has a handler of its own (handleAgent in    *)
(* internal/server/server.go).  That of a connection the agent has given up   *)
(* goes on reading what was sent over it, beside the handler of the new one,  *)
(* until a read fails: frames of different sessions arrive in any order.      *)
EXTENDS Integers, Sequences

CONSTANTS OutboxMax,    \* outbox.max (2400 in the code)
          MaxFrames,    \* bound: frames pushed in a behaviour
          MaxSessions   \* bound: sessions opened in a behaviour

ASSUME OutboxAssumption == /\ OutboxMax \in Nat \ {0}
                           /\ MaxFrames \in Nat
                           /\ MaxSessions \in Nat

Frames   == 1..MaxFrames
NoFrame  == 0
Sessions == 0..MaxSessions   \* 0 is the time before the first session

VARIABLES
  pushed,    \* how many frames have been pushed
  items,     \* outbox.items
  wake,      \* whether outbox.wake holds its token
  signals,   \* pushers that have appended and not signalled yet
  writer,    \* where the session's writer goroutine is
  hand,      \* the frame the writer has popped, or NoFrame
  linkUp,    \* whether the session's connection works
  sessions,  \* sessions opened so far, the last being the present one
  wires,     \* per session: frames on its connection that the server has not read
  received   \* per session: frames its handler on the server has read, in order

vars == <<pushed, items, wake, signals, writer, hand, linkUp, sessions, wires, received>>

(* off: no session.  flush: in flush, about to pop.  writing: has popped.     *)
(* select: waiting for the token, the heartbeat or the end of the session.    *)
TypeOK ==
  /\ pushed \in 0..MaxFrames
  /\ items \in Seq(Frames)
  /\ wake \in BOOLEAN
  /\ signals \in Nat
  /\ writer \in {"off", "flush", "writing", "select"}
  /\ hand \in Frames \cup {NoFrame}
  /\ linkUp \in BOOLEAN
  /\ sessions \in Sessions
  /\ wires \in [Sessions -> Seq(Frames)]
  /\ received \in [Sessions -> Seq(Frames)]

Init ==
  /\ pushed = 0
  /\ items = << >>
  /\ wake = FALSE
  /\ signals = 0
  /\ writer = "off"
  /\ hand = NoFrame
  /\ linkUp = FALSE
  /\ sessions = 0
  /\ wires = [c \in Sessions |-> << >>]
  /\ received = [c \in Sessions |-> << >>]

-----------------------------------------------------------------------------
(* Push, if the limit were off by one.                                        *)
PushOffByOne ==
  /\ pushed < MaxFrames
  /\ pushed' = pushed + 1
  /\ items' = Append(IF Len(items) > OutboxMax THEN Tail(items) ELSE items, pushed + 1)
  /\ signals' = signals + 1
  /\ UNCHANGED <<wake, writer, hand, linkUp, sessions, wires, received>>

(* Push, if a full outbox dropped the new frame and not its oldest.           *)
PushDropsNewest ==
  /\ pushed < MaxFrames
  /\ pushed' = pushed + 1
  /\ items' = IF Len(items) >= OutboxMax THEN items ELSE Append(items, pushed + 1)
  /\ signals' = signals + 1
  /\ UNCHANGED <<wake, writer, hand, linkUp, sessions, wires, received>>

(* push, under the lock: a full outbox drops its oldest frame.                *)
Push ==
  /\ pushed < MaxFrames
  /\ pushed' = pushed + 1
  /\ items' = Append(IF Len(items) >= OutboxMax THEN Tail(items) ELSE items, pushed + 1)
  /\ signals' = signals + 1
  /\ UNCHANGED <<wake, writer, hand, linkUp, sessions, wires, received>>

(* push, after the lock: leave a token unless there is one.                   *)
Signal ==
  /\ signals > 0
  /\ signals' = signals - 1
  /\ wake' = TRUE
  /\ UNCHANGED <<pushed, items, writer, hand, linkUp, sessions, wires, received>>

(* OpenSession, if its writer waited for the next push.                       *)
OpenSessionUnflushed ==
  /\ writer = "off"
  /\ sessions < MaxSessions
  /\ sessions' = sessions + 1
  /\ writer' = "select"
  /\ linkUp' = TRUE
  /\ UNCHANGED <<pushed, items, wake, signals, hand, wires, received>>

(* A session begins; its writer flushes what has been queued meanwhile.       *)
OpenSession ==
  /\ writer = "off"
  /\ sessions < MaxSessions
  /\ sessions' = sessions + 1
  /\ writer' = "flush"
  /\ linkUp' = TRUE
  /\ UNCHANGED <<pushed, items, wake, signals, hand, wires, received>>

(* pop, in flush's loop; on an empty outbox flush returns to the select.      *)
Pop ==
  /\ writer = "flush"
  /\ items # << >>
  /\ hand' = Head(items)
  /\ items' = Tail(items)
  /\ writer' = "writing"
  /\ UNCHANGED <<pushed, wake, signals, linkUp, sessions, wires, received>>

FlushReturns ==
  /\ writer = "flush"
  /\ items = << >>
  /\ writer' = "select"
  /\ UNCHANGED <<pushed, items, wake, signals, hand, linkUp, sessions, wires, received>>

(* WriteSucceeds, if a token stood for one frame.                             *)
WriteSucceedsOnce ==
  /\ writer = "writing"
  /\ wires' = IF linkUp THEN [wires EXCEPT ![sessions] = Append(@, hand)] ELSE wires
  /\ hand' = NoFrame
  /\ writer' = "select"
  /\ UNCHANGED <<pushed, items, wake, signals, linkUp, sessions, received>>

(* The write succeeds.  That says the kernel took the frame: on a connection  *)
(* that has broken unnoticed it goes nowhere.                                 *)
WriteSucceeds ==
  /\ writer = "writing"
  /\ wires' = IF linkUp THEN [wires EXCEPT ![sessions] = Append(@, hand)] ELSE wires
  /\ hand' = NoFrame
  /\ writer' = "flush"
  /\ UNCHANGED <<pushed, items, wake, signals, linkUp, sessions, received>>

(* WriteFails, if the frame were pushed again and not put back.               *)
WriteFailsRepushes ==
  /\ writer = "writing"
  /\ ~linkUp
  /\ items' = Append(items, hand)
  /\ hand' = NoFrame
  /\ writer' = "off"
  /\ UNCHANGED <<pushed, wake, signals, linkUp, sessions, wires, received>>

(* The write fails: unpop, and the writer returns and ends the session.       *)
WriteFails ==
  /\ writer = "writing"
  /\ ~linkUp
  /\ items' = <<hand>> \o items
  /\ hand' = NoFrame
  /\ writer' = "off"
  /\ UNCHANGED <<pushed, wake, signals, linkUp, sessions, wires, received>>

(* The select takes the token and flushes.                                    *)
Wake ==
  /\ writer = "select"
  /\ wake
  /\ wake' = FALSE
  /\ writer' = "flush"
  /\ UNCHANGED <<pushed, items, signals, hand, linkUp, sessions, wires, received>>

(* SessionEnds, if it put back a frame the writer does not have.              *)
SessionEndsUnpops ==
  /\ writer = "select"
  /\ ~linkUp
  /\ items' = <<hand>> \o items
  /\ writer' = "off"
  /\ UNCHANGED <<pushed, wake, signals, hand, linkUp, sessions, wires, received>>

(* A heartbeat cannot be written, or the reader has noticed and the session   *)
(* has been cancelled.                                                        *)
SessionEnds ==
  /\ writer = "select"
  /\ ~linkUp
  /\ writer' = "off"
  /\ UNCHANGED <<pushed, items, wake, signals, hand, linkUp, sessions, wires, received>>

(* The network and the server.  From here on nothing written arrives; what   *)
(* the server has of the connection by then its handler may still read.      *)
LinkBreaks ==
  /\ linkUp
  /\ linkUp' = FALSE
  /\ UNCHANGED <<pushed, items, wake, signals, writer, hand, sessions, wires, received>>

(* The handler of a connection reads a frame, whether the agent still uses   *)
(* that connection or not.                                                   *)
ServerReceives(c) ==
  /\ wires[c] # << >>
  /\ received' = [received EXCEPT ![c] = Append(@, Head(wires[c]))]
  /\ wires' = [wires EXCEPT ![c] = Tail(@)]
  /\ UNCHANGED <<pushed, items, wake, signals, writer, hand, linkUp, sessions>>

(* A read of a broken or replaced connection fails: its handler returns, and *)
(* what it has not read is lost.                                             *)
HandlerEnds(c) ==
  /\ wires[c] # << >>
  /\ c = sessions => ~linkUp
  /\ wires' = [wires EXCEPT ![c] = << >>]
  /\ UNCHANGED <<pushed, items, wake, signals, writer, hand, linkUp, sessions, received>>

Writer == Pop \/ FlushReturns \/ WriteSucceeds \/ WriteFails \/ Wake \/ SessionEnds
Server(c) == ServerReceives(c) \/ HandlerEnds(c)
Next == Push \/ Signal \/ OpenSession \/ Writer \/ LinkBreaks \/ \E c \in Sessions : Server(c)

(* A pusher that has appended goes on to signal, the writer goroutine runs,   *)
(* runForever dials again, and each handler reads or ends.  Whether a broken *)
(* connection is noticed by a write that fails is left to the network; the   *)
(* heartbeat every 5 s notices it otherwise.                                 *)
Fairness ==
  /\ WF_vars(Signal)
  /\ WF_vars(Pop \/ FlushReturns \/ WriteSucceeds)
  /\ WF_vars(Wake)
  /\ WF_vars(SessionEnds)
  /\ WF_vars(OpenSession)
  /\ \A c \in Sessions : WF_vars(Server(c))

Spec == Init /\ [][Next]_vars /\ Fairness

-----------------------------------------------------------------------------
(* Properties.                                                                *)

Held == IF hand = NoFrame THEN 0 ELSE 1

(* Memory is bounded however long the outage: the frames kept, with the one   *)
(* in the writer's hand, are at most one more than the outbox may hold.  One  *)
(* more, because unpop puts a frame back without looking at the limit.        *)
KeptIsBounded == Len(items) + Held <= OutboxMax + 1

(* The writer never sleeps on frames: when it waits in its select and the     *)
(* outbox is not empty, the token is there or a pusher is about to leave it.  *)
NoLostWakeup == writer = "select" /\ items # << >> => wake \/ signals > 0

Increasing(s) == \A i, j \in DOMAIN s : i < j => s[i] < s[j]
Before(s, t)  == \A i \in DOMAIN s, j \in DOMAIN t : s[i] < t[j]

(* The frames of one session, those its handler has read before those still  *)
(* under way, in the order they were pushed; and any of them before those of *)
(* any later session.                                                        *)
SessionsInOrder ==
  /\ \A c \in Sessions : /\ Increasing(received[c])
                         /\ Increasing(wires[c])
                         /\ Before(received[c], wires[c])
  /\ \A c, d \in Sessions :
       c < d => /\ Before(received[c], received[d]) /\ Before(received[c], wires[d])
                /\ Before(wires[c], received[d])    /\ Before(wires[c], wires[d])

(* The frames of every session before the one in the writer's hand, and that *)
(* before the ones in the outbox, in order too.                              *)
BacklogInOrder ==
  /\ Increasing(items)
  /\ \A c \in Sessions : Before(received[c], items) /\ Before(wires[c], items)
  /\ hand # NoFrame =>
       /\ \A c \in Sessions : Before(received[c], <<hand>>) /\ Before(wires[c], <<hand>>)
       /\ Before(<<hand>>, items)

(* No frame is ever sent after a newer one or sent twice, however often it   *)
(* is put back and whatever is dropped or lost: each handler reads frames in *)
(* the order they were pushed, all newer than those of earlier sessions, and *)
(* none that any other handler has read.  What overtakes what between the    *)
(* handlers of two connections is left open, as it is in the code.           *)
InOrder == SessionsInOrder /\ BacklogInOrder

(* Once a connection stays up, everything still kept is delivered: no frame  *)
(* stays behind in an outbox whose writer has gone to sleep.                 *)
StableLinkDrains ==
  <>[]linkUp => <>[](items = << >> /\ hand = NoFrame /\ \A c \in Sessions : wires[c] = << >>)

-----------------------------------------------------------------------------
(* What the outbox promises: LossyQueue.  Under way over a session is what   *)
(* its connection has, and over the present one what is still to be sent.    *)
Backlog == (IF hand = NoFrame THEN << >> ELSE <<hand>>) \o items
Lanes == [c \in Sessions |-> IF c = sessions THEN wires[c] \o Backlog ELSE wires[c]]

Abstract == INSTANCE LossyQueue WITH lanes <- Lanes, lane <- sessions, delivered <- received

ImplementsLossyQueue == Abstract!Spec
=============================================================================
