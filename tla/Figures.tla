------------------------------- MODULE Figures -------------------------------
(* What the test manager makes of the reports of a test (internal/server/     *)
(* tests.go): the latest figures, the history, the error log and the events   *)
(* of each agent, and the totals of the test, which every tick adds up and    *)
(* the closing tick freezes.                                                  *)
(*                                                                            *)
(* The engine of an agent sends running reports 1, 2, ... of growing totals,  *)
(* a final report with Done set, and the summary in test_done.  A connection  *)
(* brings them in order and may lose any of them.  When it is replaced, its   *)
(* handler goes on with what it has still to read, beside the handler of the  *)
(* new connection: those reports come later than their successors, or never.  *)
(* As any number of connections may be replaced, between any two reports, the *)
(* reports that are held may come in any order.                               *)
EXTENDS TestManager, Sequences, FiniteSetsExt

CONSTANTS
  Running,      \* how many running reports the engine of each agent makes
  Reading,      \* per agent: the wireless link each of its reports carries
  Failed,       \* per agent: how many failed requests each of its reports brings
  MaxPresence,  \* per agent: how often its connection may drop or return in a test
  maxHistory,   \* running reports kept per agent (14400 in the code)
  maxErrorLog,  \* failed requests kept per agent (2000)
  maxEvents     \* events kept per agent (200)

NoLink == "none"    \* no WifiInfo in the report
Hidden == "hidden"  \* a link whose BSSID the system does not tell

ASSUME FiguresAssumption ==
  /\ Running \in [Agents -> Nat]
  /\ \A a \in Agents : Reading[a] \in Seq(STRING) /\ Len(Reading[a]) = Running[a] + 1
  /\ \A a \in Agents : Failed[a] \in Seq(Nat) /\ Len(Failed[a]) = Running[a] + 1
  /\ MaxPresence \in [Agents -> Nat]
  /\ {maxHistory, maxErrorLog, maxEvents} \subseteq Nat \ {0}

VARIABLES
  reached,  \* the agents that were sent the start of each test
  next,     \* the report the current connection of an agent brings next
  held,     \* the reports that replaced connections of an agent have still to bring
  result,   \* what the manager keeps of each agent in each test
  totals,   \* Test.Totals, requests only: bytes and errors are summed alike
  passed,   \* history: the reports the manager took, in the order it took them
  failed,   \* history: the failed requests those reports brought
  noted     \* history: the events of each agent, none dropped

figVars == <<reached, next, held, result, totals, passed, failed, noted>>
vars == <<tmVars, figVars>>

Final(a)   == Running[a] + 1   \* the number of the report with Done set
Summary(a) == Running[a] + 2   \* the number of the test_done frame

(* Requests since the start, as a report carries them: each running report   *)
(* has one more, and the summary repeats the final report.                   *)
Requests(a, k) == IF k = Summary(a) THEN Final(a) ELSE k

(* The failed requests of a report, each named by the report and its place.  *)
Batch(a, k) == [i \in 1..Failed[a][k] |-> <<k, i>>]

NoResult == [latest |-> 0, history |-> << >>, errors |-> << >>,
             events |-> << >>, seen |-> FALSE, link |-> NoLink]

TypeOK ==
  /\ TMTypeOK
  /\ reached \in [Tests -> SUBSET Agents]
  /\ \A t \in Tests, a \in Agents :
       /\ next[t][a] \in 1..(Summary(a) + 1)
       /\ held[t][a] \in SUBSET (1..Summary(a))
       /\ passed[t][a] \in Seq(1..Summary(a))
       /\ LET r == result[t][a] IN
            /\ r.latest \in 0..Final(a)
            /\ r.history \in Seq(1..Running[a]) /\ Len(r.history) <= maxHistory
            /\ r.errors \in Seq((1..Final(a)) \X Nat) /\ Len(r.errors) <= maxErrorLog
            /\ Len(r.events) <= maxEvents
  /\ totals \in [Tests -> Nat]

Init ==
  /\ TMInit
  /\ reached = [t \in Tests |-> {}]
  /\ next = [t \in Tests |-> [a \in Agents |-> 1]]
  /\ held = [t \in Tests |-> [a \in Agents |-> {}]]
  /\ result = [t \in Tests |-> [a \in Agents |-> NoResult]]
  /\ totals = [t \in Tests |-> 0]
  /\ passed = [t \in Tests |-> [a \in Agents |-> << >>]]
  /\ failed = [t \in Tests |-> [a \in Agents |-> << >>]]
  /\ noted = [t \in Tests |-> [a \in Agents |-> << >>]]

-----------------------------------------------------------------------------
(* What a report does to the agent's result.                                 *)

(* The last n elements of s, as the caps on logs keep them.                  *)
Newest(s, n) == SubSeq(s, (IF Len(s) > n THEN Len(s) - n ELSE 0) + 1, Len(s))

(* NoteErrors, if nothing were dropped from the log.                         *)
NoteErrorsForever(errors, batch) == errors \o batch

(* A report brings the requests that failed since the one before, often none.*)
NoteErrors(errors, batch) == Newest(errors \o batch, maxErrorLog)

(* The event a reading calls for after another: a lost link, one that is     *)
(* back, or a roam between two access points that both have a name.          *)
LinkEvent(from, to) ==
  CASE from # NoLink /\ to = NoLink -> << <<"wifi_lost", from, to>> >>
    [] from = NoLink /\ to # NoLink -> << <<"wifi_back", from, to>> >>
    [] {from, to} \cap {NoLink, Hidden} = {} /\ from # to -> << <<"roam", from, to>> >>
    [] OTHER -> << >>

(* LinkEvents, if the first report were compared with an empty result.       *)
LinkEventsFromNothing(r, link) == LinkEvent(r.link, link)

(* What noteWifi logs of a reading: the first report only sets the baseline. *)
LinkEvents(r, link) == IF r.seen THEN LinkEvent(r.link, link) ELSE << >>

(* addEvent: link and presence events share one list and its cap.            *)
AddEvents(events, new) == Newest(events \o new, maxEvents)

NoteWifi(r, link) ==
  [r EXCEPT !.events = AddEvents(@, LinkEvents(r, link)),
            !.seen = TRUE,
            !.link = link]

(* NoteHistory, if it took reports in the order they come.                   *)
NoteHistoryAnyOrder(history, k) == Newest(Append(history, k), maxHistory)

(* The per-second history takes a report only if it is newer than its last.  *)
NoteHistory(history, k) ==
  IF history = << >> \/ k > history[Len(history)]
  THEN Newest(Append(history, k), maxHistory) ELSE history

(* OnProgress's update: a running or the final report of the engine.         *)
NoteReport(r, a, k) ==
  [NoteWifi(r, Reading[a][k]) EXCEPT
     !.errors = NoteErrors(@, Batch(a, k)),
     !.latest = Requests(a, k),
     !.history = IF k = Final(a) THEN @ ELSE NoteHistory(@, k)]

(* OnDone's update.                                                          *)
NoteSummary(r, a) == [r EXCEPT !.latest = Requests(a, Summary(a))]

-----------------------------------------------------------------------------
(* Reports on their way to the manager.                                      *)

(* The manager takes report k, or drops it if the test is not published.     *)
Take(a, t, k) ==
  /\ CASE k = Final(a)   -> OnProgress(a, t)
       [] k = Summary(a) -> OnDone(a, t)
       [] OTHER          -> UNCHANGED tmVars
  /\ IF Known(a, t)
     THEN /\ result' = [result EXCEPT ![t][a] =
                          IF k = Summary(a) THEN NoteSummary(@, a) ELSE NoteReport(@, a, k)]
          /\ passed' = [passed EXCEPT ![t][a] = Append(@, k)]
          /\ IF k = Summary(a)
             THEN UNCHANGED <<failed, noted>>
             ELSE /\ failed' = [failed EXCEPT ![t][a] = @ \o Batch(a, k)]
                  /\ noted' = [noted EXCEPT ![t][a] =
                                 @ \o LinkEvents(result[t][a], Reading[a][k])]
     ELSE UNCHANGED <<result, passed, failed, noted>>
  /\ UNCHANGED <<reached, totals>>

Comes(a, t) ==
  /\ a \in reached[t]
  /\ next[t][a] <= Summary(a)
  /\ next' = [next EXCEPT ![t][a] = @ + 1]

ReportArrives(a, t) ==
  /\ Comes(a, t)
  /\ Take(a, t, next[t][a])
  /\ UNCHANGED held

(* A report that is lost with its connection, or that a stopped engine does  *)
(* not make.                                                                 *)
ReportMissing(a, t) ==
  /\ Comes(a, t)
  /\ UNCHANGED <<tmVars, reached, held, result, totals, passed, failed, noted>>

(* A report comes over a connection that is replaced before it is read.      *)
ReportHeld(a, t) ==
  /\ Comes(a, t)
  /\ held' = [held EXCEPT ![t][a] = @ \cup {next[t][a]}]
  /\ UNCHANGED <<tmVars, reached, result, totals, passed, failed, noted>>

(* The handler of a replaced connection passes on what it read.              *)
HeldArrives(a, t) ==
  \E k \in held[t][a] :
    /\ Take(a, t, k)
    /\ held' = [held EXCEPT ![t][a] = @ \ {k}]
    /\ UNCHANGED next

-----------------------------------------------------------------------------
(* The connection of an agent drops or returns.                              *)

PresenceEvent == <<"presence", NoLink, NoLink>>

(* OnPresence; the event is the same for a drop and for a return, which the  *)
(* hub may call back in either order.                                        *)
OnPresence(a, t) ==
  /\ t = current
  /\ Active(t)
  /\ a \in members[t] \ arDone[t]
  /\ Cardinality({i \in DOMAIN noted[t][a] : noted[t][a][i] = PresenceEvent}) < MaxPresence[a]
  /\ result' = [result EXCEPT ![t][a].events = AddEvents(@, <<PresenceEvent>>)]
  /\ noted' = [noted EXCEPT ![t][a] = Append(@, PresenceEvent)]
  /\ UNCHANGED <<tmVars, reached, next, held, totals, passed, failed>>

-----------------------------------------------------------------------------
(* The tick.                                                                 *)

(* Aggregate, if it passed over the agents that are done.                    *)
AggregateRunning(t) ==
  MapThenSumSet(LAMBDA a : result[t][a].latest, members[t] \ arDone[t])

(* computeTick's sum over the agents of the test.                            *)
Aggregate(t) == MapThenSumSet(LAMBDA a : result[t][a].latest, members[t])

(* Tick, if the closing tick closed the test on the totals of the last one.  *)
TickClosesFirst(t) ==
  /\ Active(t)
  /\ IF Finished(t)
     THEN TickFinish(t) /\ UNCHANGED totals
     ELSE UNCHANGED tmVars /\ totals' = [totals EXCEPT ![t] = Aggregate(t)]
  /\ UNCHANGED <<reached, next, held, result, passed, failed, noted>>

(* One tick: the totals first, then the test is closed if it has finished.   *)
Tick(t) ==
  /\ Active(t)
  /\ totals' = [totals EXCEPT ![t] = Aggregate(t)]
  /\ IF Finished(t) THEN TickFinish(t) ELSE UNCHANGED tmVars
  /\ UNCHANGED <<reached, next, held, result, passed, failed, noted>>

-----------------------------------------------------------------------------
(* The manager with its reports.                                             *)

(* A start frame that could be sent reaches the agent, which begins.         *)
StartReaches(s, a, ok) ==
  /\ StartSend(s, a, ok)
  /\ reached' = IF ok THEN [reached EXCEPT ![start[s].test] = @ \cup {a}] ELSE reached
  /\ UNCHANGED <<next, held, result, totals, passed, failed, noted>>

Calls ==
  /\ \/ \E s \in Starters :
          \/ StartCheck(s)
          \/ StartReject(s)
          \/ \E ids \in SUBSET Agents : StartPrepare(s, ids)
          \/ StartPublish(s)
     \/ \E p \in Stoppers : TMStop(p)
     \/ \E t \in Tests : PassDuration(t) \/ PassGrace(t)
  /\ UNCHANGED figVars

Next ==
  \/ Calls
  \/ \E s \in Starters, a \in Agents, ok \in BOOLEAN : StartReaches(s, a, ok)
  \/ \E t \in Tests :
       \/ Tick(t)
       \/ \E a \in Agents :
            \/ ReportArrives(a, t)
            \/ ReportMissing(a, t)
            \/ ReportHeld(a, t)
            \/ HeldArrives(a, t)
            \/ OnPresence(a, t)

(* As in TestManager: tickers tick and the wall clock moves on.              *)
Fairness == \A t \in Tests : WF_vars(Tick(t)) /\ WF_vars(PassDuration(t) /\ UNCHANGED figVars)

Spec == Init /\ [][Next]_vars /\ Fairness

-----------------------------------------------------------------------------
(* Properties.                                                               *)

(* The agent's reports were taken in the order it made them.                 *)
InOrder(t, a) == \A i, j \in DOMAIN passed[t][a] : i < j => passed[t][a][i] < passed[t][a][j]

(* A test that closes because every agent has said Done closes on exactly    *)
(* the final figures of the agents it reached, though the tick that closes   *)
(* it may come between the final report and the summary, or either of them   *)
(* may be lost: unless a replaced connection's report came late.             *)
TotalsAreFinal ==
  [][\A t \in Tests :
       /\ status[t] # "done" /\ status'[t] = "done"
       /\ AllDone(t)
       /\ \A a \in members[t] : InOrder(t, a)
       => totals'[t] = MapThenSumSet(Final, members[t] \cap reached[t])]_vars

(* The totals of a test, which the page shows and keeps, never fall, whatever *)
(* is lost and whenever the ticks come: unless a report came late.           *)
TotalsNeverFall ==
  [][\A t \in Tests :
       (\A a \in members'[t] : InOrder(t, a)) => totals'[t] >= totals[t]]_vars

(* log has what p has at the newest n of the positions S, in their order.     *)
NewestOf(log, p, S, n) ==
  /\ Len(log) <= n
  /\ \E f \in [DOMAIN log -> S] :
       /\ \A i \in DOMAIN log : log[i] = p[f[i]]
       /\ \A i, j \in DOMAIN log : i < j => f[i] < f[j]
       /\ \A i \in S : \/ \E j \in DOMAIN log : f[j] = i
                       \/ Len(log) = n /\ \A j \in DOMAIN log : i < f[j]

(* Where p, the reports taken of an agent, has a running report newer than    *)
(* all before it.                                                             *)
Advances(a, p) == {i \in DOMAIN p : /\ p[i] <= Running[a]
                                   /\ \A j \in 1..(i - 1) : p[j] <= Running[a] => p[j] < p[i]}

(* The history is the newest of those running reports that were newer than   *)
(* all before them: in time order and free of repeats, whatever came late,   *)
(* and without the final report, whose figures are averages.  The error log  *)
(* takes what comes late, and both it and the events, to which reports and   *)
(* connections contribute, lose nothing but their oldest entries.            *)
LogsAreNewest ==
  \A t \in Tests, a \in Agents :
    LET r == result[t][a]
        p == passed[t][a]
    IN  /\ NewestOf(r.history, p, Advances(a, p), maxHistory)
        /\ r.errors = Newest(failed[t][a], maxErrorLog)
        /\ r.events = Newest(noted[t][a], maxEvents)

(* The links that the reports p of the agent carried.                         *)
Heard(a, p) == {Reading[a][p[i]] : i \in {j \in DOMAIN p : p[j] # Summary(a)}}

(* Where a list of events has its link events.                                *)
LinksIn(events) == {i \in DOMAIN events : events[i] # PresenceEvent}

(* Read in order, the link events that are kept lead from each reading to     *)
(* the next: each starts where the link event before it ended, and the last   *)
(* ends at the link now shown, unless the system hid the name of an access    *)
(* point on the way.  Where none is kept the link never changed, or else the  *)
(* list is full of the connection's drops and returns.                        *)
EventsTellTheLink ==
  \A t \in Tests, a \in Agents :
    LET r     == result[t][a]
        heard == Heard(a, passed[t][a])
        links == LinksIn(r.events)
    IN  Hidden \notin heard =>
          /\ links = {} => heard \subseteq {r.link} \/ Len(r.events) = maxEvents
          /\ \A j \in links :
               /\ r.events[j][2] \in heard
               /\ (\A k \in links : k <= j) => r.events[j][3] = r.link
               /\ \A i \in links :
                    i < j /\ (\A k \in links : k <= i \/ j <= k)
                      => r.events[i][3] = r.events[j][2]
=============================================================================
