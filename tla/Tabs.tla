--------------------------------- MODULE Tabs ---------------------------------
(* The browser tabs that follow the hub (internal/server/events.go, and       *)
(* handleEvents in server.go).  After its presence callback, the goroutine    *)
(* that changed the hub lists the agents and broadcasts the list: each under  *)
(* a lock of its own, so what it broadcasts may be out of date by then.       *)
(*                                                                            *)
(* A tab has a bounded queue, a writer that empties it, and a handler that    *)
(* subscribes the queue, puts a snapshot into it, and from then on only waits *)
(* for the tab to go away.  A list of agents is the number of the last change *)
(* of the hub that it shows.                                                  *)
(*                                                                            *)
(* Bounds: one tab at a time; another may open when it is gone.               *)
EXTENDS Presence

CONSTANT QueueSize   \* room in a tab's queue (256 in the code)

ASSUME QueueSizeAssumption == QueueSize \in Nat \ {0}

VARIABLES
  version,  \* how many changes the hub's entries have seen
  due,      \* connections whose handler is about to list the agents for onChange
  listed,   \* the lists handlers are about to broadcast: <<agent, connection, version>>
  tab,      \* where handleEvents is for the tab, "away" when there is none
  snapshot, \* the list in the snapshot it holds, 0 once that is sent
  queue,    \* uiConn.send, the frame the writer has in hand first
  shut,     \* whether uiConn.close has run
  left,     \* whether the browser is gone
  shown,    \* history: the newest list the tab was shown
  dropped   \* history: whether a broadcast found the queue full

tabVars == <<version, due, listed, tab, snapshot, queue, shut, left, shown, dropped>>
pageVars == <<tab, snapshot, queue, shut, left, shown, dropped>>
allVars == <<vars, tabVars>>

Versions == 0..(2 * MaxConns * Cardinality(Agents))

TabsTypeOK ==
  /\ TypeOK
  /\ version \in Versions
  /\ due \subseteq Agents \X Conns
  /\ listed \subseteq Agents \X Conns \X Versions
  /\ tab \in {"away", "subscribed", "sending", "reading"}
  /\ snapshot \in Versions
  /\ queue \in Seq(Versions) /\ Len(queue) <= QueueSize
  /\ {shut, left, dropped} \subseteq BOOLEAN
  /\ shown \in Versions

TabsInit ==
  /\ Init
  /\ version = 0 /\ due = {} /\ listed = {}
  /\ tab = "away" /\ snapshot = 0 /\ queue = << >>
  /\ shut = FALSE /\ left = FALSE /\ shown = 0 /\ dropped = FALSE

-----------------------------------------------------------------------------
(* The hub's side.                                                           *)

(* The handler of the connection is in none of its callbacks.                *)
Free(a, c) ==
  /\ c \notin joining[a] \cup leaving[a]
  /\ <<a, c>> \notin due
  /\ \A l \in listed : <<l[1], l[2]>> # <<a, c>>

Joins(a, c) ==
  /\ HandlerJoins(a, c)
  /\ version' = version + 1
  /\ UNCHANGED <<due, listed, pageVars>>

Leaves(a, c) ==
  /\ Free(a, c)
  /\ HandlerLeaves(a, c)
  /\ version' = IF hubConn'[a] = hubConn[a] THEN version ELSE version + 1
  /\ UNCHANGED <<due, listed, pageVars>>

(* The presence callback returns; onChange is next.                          *)
Announces(a, c) ==
  /\ AnnounceJoin(a, c) \/ AnnounceLeave(a, c)
  /\ due' = due \cup {<<a, c>>}
  /\ UNCHANGED <<version, listed, pageVars>>

ListAgents(a, c) ==
  /\ <<a, c>> \in due
  /\ due' = due \ {<<a, c>>}
  /\ listed' = listed \cup {<<a, c, version>>}
  /\ UNCHANGED <<vars, version, pageVars>>

Subscribed == tab \in {"subscribed", "sending", "reading"}

(* Broadcast, if it waited for room in the queue.                            *)
BroadcastWaits(a, c, v) ==
  /\ <<a, c, v>> \in listed
  /\ Subscribed => Len(queue) < QueueSize
  /\ listed' = listed \ {<<a, c, v>>}
  /\ queue' = IF Subscribed THEN Append(queue, v) ELSE queue
  /\ UNCHANGED <<vars, version, due, tab, snapshot, shut, left, shown, dropped>>

(* Broadcast never waits: a queue without room loses the frame.              *)
Broadcast(a, c, v) ==
  /\ <<a, c, v>> \in listed
  /\ listed' = listed \ {<<a, c, v>>}
  /\ queue' = IF Subscribed /\ Len(queue) < QueueSize THEN Append(queue, v) ELSE queue
  /\ dropped' = (dropped \/ (Subscribed /\ Len(queue) = QueueSize))
  /\ UNCHANGED <<vars, version, due, tab, snapshot, shut, left, shown>>

-----------------------------------------------------------------------------
(* The tab's side.                                                           *)
hubSide == <<vars, version, due, listed>>

(* The tab is connected: its queue is subscribed first.                      *)
TabOpens ==
  /\ tab = "away"
  /\ tab' = "subscribed"
  /\ UNCHANGED <<hubSide, snapshot, queue, shut, left, shown, dropped>>

(* TakeSnapshot, if it read the list that was current when the tab opened.   *)
TakeSnapshotEarly ==
  /\ tab = "subscribed"
  /\ tab' = "sending"
  /\ UNCHANGED <<hubSide, snapshot, queue, shut, left, shown, dropped>>

(* The list of agents for the snapshot.                                      *)
TakeSnapshot ==
  /\ tab = "subscribed"
  /\ tab' = "sending"
  /\ snapshot' = version
  /\ UNCHANGED <<hubSide, queue, shut, left, shown, dropped>>

(* The blocking send of the snapshot.                                        *)
SendSnapshot ==
  /\ tab = "sending"
  /\ Len(queue) < QueueSize
  /\ queue' = Append(queue, snapshot)
  /\ snapshot' = 0
  /\ tab' = "reading"
  /\ UNCHANGED <<hubSide, shut, left, shown, dropped>>

NoTab ==
  /\ tab' = "away" /\ snapshot' = 0 /\ queue' = << >> /\ shut' = FALSE /\ left' = FALSE
  /\ shown' = 0 /\ dropped' = FALSE

(* TabRemoved, if the writer's close left the connection open.               *)
TabRemovedByBrowser ==
  /\ tab = "reading"
  /\ left
  /\ NoTab
  /\ UNCHANGED hubSide

(* The read loop ends when the browser or the writer has closed the          *)
(* connection; remove takes the queue off the subscribers and closes, which  *)
(* ends the writer too.                                                      *)
TabRemoved ==
  /\ tab = "reading"
  /\ left \/ shut
  /\ NoTab
  /\ UNCHANGED hubSide

WriteFrame ==
  /\ queue # << >>
  /\ ~shut
  /\ queue' = Tail(queue)
  /\ shown' = IF Head(queue) > shown THEN Head(queue) ELSE shown
  /\ UNCHANGED <<hubSide, tab, snapshot, shut, left, dropped>>

(* A write fails or takes more than 10 s: the writer closes the connection   *)
(* and ends.                                                                 *)
WriteFrameFails ==
  /\ queue # << >>
  /\ ~shut
  /\ shut' = TRUE
  /\ queue' = Tail(queue)
  /\ UNCHANGED <<hubSide, tab, snapshot, left, shown, dropped>>

BrowserLeaves ==
  /\ Subscribed
  /\ ~left
  /\ left' = TRUE
  /\ UNCHANGED <<hubSide, tab, snapshot, queue, shut, shown, dropped>>

Page ==
  \/ TabOpens
  \/ TakeSnapshot
  \/ SendSnapshot
  \/ TabRemoved
  \/ WriteFrame
  \/ WriteFrameFails
  \/ BrowserLeaves

TestFollows(a) ==
  /\ TestPublished(a) \/ LinkNoted(a) \/ TestOver(a)
  /\ UNCHANGED tabVars

Callback(a, c) ==
  \/ Announces(a, c)
  \/ ListAgents(a, c)
  \/ \E v \in Versions : Broadcast(a, c, v)

TabsNext ==
  \/ Page
  \/ \E a \in Agents :
       \/ TestFollows(a)
       \/ \E c \in Conns :
            \/ Joins(a, c)
            \/ Leaves(a, c)
            \/ Callback(a, c)
            \/ ConnectionFails(a, c) /\ UNCHANGED tabVars

(* A goroutine that can go on does: the handlers in their callbacks, the     *)
(* tab's handler and its writer, whose writes end or time out.  Browsers     *)
(* and agents need not do anything.                                          *)
TabsFairness ==
  /\ \A a \in Agents, c \in Conns : WF_allVars(Callback(a, c))
  /\ WF_allVars(TakeSnapshot \/ SendSnapshot \/ TabRemoved)
  /\ WF_allVars(WriteFrame \/ WriteFrameFails)

TabsSpec == TabsInit /\ [][TabsNext]_allVars /\ TabsFairness

-----------------------------------------------------------------------------
(* Properties.                                                               *)

(* When nothing is on its way and no frame was dropped, the tab has been     *)
(* shown the hub as it is, whether it opened before, during or after the     *)
(* last change.                                                              *)
NewestReachesTab ==
  /\ \A a \in Agents, c \in Conns : Free(a, c)
  /\ tab = "reading" /\ ~shut /\ queue = << >> /\ ~dropped
  => shown = version

(* The handler of a tab whose queue filled up before the snapshot, and whose *)
(* writer has ended, waits for room that never comes (server.go:383).        *)
Stuck == tab = "sending" /\ shut /\ Len(queue) = QueueSize

(* A tab whose browser or writer is gone does not stay subscribed for ever,  *)
(* whichever step its handler is at; only one that is stuck does.            *)
LeaversAreForgotten == []<>(Subscribed /\ (left \/ shut) => Stuck)

(* The handler of an agent's connection is outside its callbacks again and   *)
(* again, whatever tabs do with the frames: a slow or dead tab never holds   *)
(* up an agent.                                                              *)
TabsHoldUpNobody == \A a \in Agents, c \in Conns : []<>Free(a, c)
=============================================================================
