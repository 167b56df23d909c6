------------------------------ MODULE LossyQueue ------------------------------
(* What the way of a report from an agent to the server promises, whatever    *)
(* connections do.  Frames queue in lanes, one for each connection.  When the *)
(* connection is replaced, frames at the end of its lane go over the new one, *)
(* and no frame enters the old lane any more.  Within a lane frames arrive in *)
(* the order they were pushed, each at most once, and any may be lost; frames *)
(* of different lanes may overtake one another.                               *)
EXTENDS Integers, Sequences

CONSTANTS MaxFrames,   \* bound: frames pushed in a behaviour
          MaxSessions  \* bound: lanes opened in a behaviour

VARIABLES
  pushed,     \* how many frames have been pushed
  lane,       \* the lane that frames are pushed into
  lanes,      \* per lane: the frames under way
  delivered   \* per lane: the frames that arrived

vars == <<pushed, lane, lanes, delivered>>

Init ==
  /\ pushed = 0
  /\ lane = 0
  /\ lanes = [c \in 0..MaxSessions |-> << >>]
  /\ delivered = [c \in 0..MaxSessions |-> << >>]

(* s is what is left of q when some of its frames are lost: f tells where in  *)
(* q each frame of s was.                                                     *)
Survives(s, q) ==
  \E f \in [DOMAIN s -> DOMAIN q] :
    /\ \A i \in DOMAIN s : s[i] = q[f[i]]
    /\ \A i, j \in DOMAIN s : i < j => f[i] < f[j]

Push ==
  /\ pushed < MaxFrames
  /\ pushed' = pushed + 1
  /\ LET s == SubSeq(lanes'[lane], 1, Len(lanes'[lane]) - 1) IN
       /\ Survives(s, lanes[lane])
       /\ lanes' = [lanes EXCEPT ![lane] = Append(s, pushed + 1)]
  /\ UNCHANGED <<lane, delivered>>

(* The last frames of the lane go on in the new one.                          *)
Reconnect ==
  /\ lane < MaxSessions
  /\ lane' = lane + 1
  /\ \E n \in 0..Len(lanes[lane]) :
       lanes' = [lanes EXCEPT ![lane] = SubSeq(@, 1, n),
                              ![lane + 1] = SubSeq(lanes[lane], n + 1, Len(lanes[lane]))]
  /\ UNCHANGED <<pushed, delivered>>

Deliver(c) ==
  /\ lanes[c] # << >>
  /\ delivered' = [delivered EXCEPT ![c] = Append(@, Head(lanes[c]))]
  /\ lanes' = [lanes EXCEPT ![c] = Tail(@)]
  /\ UNCHANGED <<pushed, lane>>

Lose(c) ==
  /\ Survives(lanes'[c], lanes[c])
  /\ lanes' = [lanes EXCEPT ![c] = lanes'[c]]
  /\ UNCHANGED <<pushed, lane, delivered>>

Next == Push \/ Reconnect \/ \E c \in 0..MaxSessions : Deliver(c) \/ Lose(c)

Spec == Init /\ [][Next]_vars
=============================================================================
