-------------------------------- MODULE Engine --------------------------------
(* One run of the traffic engine (internal/engine/engine.go).                 *)
(*                                                                            *)
(* Workers fetch, a dispatcher hands out slots when the test is paced (open   *)
(* loop), and Run reports: a snapshot whenever its ticker fires and a final   *)
(* one when every worker has returned.  The counters are atomic, the window   *)
(* is guarded by e.mu, and neither is updated together with the other: every  *)
(* atomic operation and every critical section is a step.  A chunk is what    *)
(* one read of a body yields.  The server starts no test without URLs, so     *)
(* every worker has something to fetch.                                       *)
EXTENDS Integers, FiniteSets

CONSTANTS Workers,      \* the worker goroutines (spec.Threads of them)
          MaxPending,   \* maxPendingErrors (200 in the code)
          MaxRequests,  \* bound: requests begun in a run
          MaxChunks,    \* bound: chunks read in a run
          MaxTicks      \* bound: times the dispatcher's ticker fires

ASSUME EngineAssumption == /\ IsFiniteSet(Workers)
                           /\ {MaxPending, MaxRequests, MaxChunks, MaxTicks} \subseteq Nat

VARIABLES
  spec,       \* what the test asks for
  over,       \* whether the workers' context is done: ctx.Err() # nil
  pc,         \* where each worker is
  cause,      \* how its fetch ended: well, by a failure, or by the end of the test
  begun,      \* requests begun
  slots,      \* how many slots the channel sched holds
  ticks,      \* how often the dispatcher's ticker has fired
  skipped,    \* e.skipped
  requests,   \* e.requests
  errors,     \* e.errors
  bytes,      \* e.bytes, in chunks
  winBytes,   \* e.winBytes
  window,     \* what e.mu guards: winReqs, pendingErrs (how many), errClasses (their sum)
  reporter,   \* where Run is
  held,       \* the snapshot being taken
  told,       \* the sums of the intervals and logged errors reported so far
  summary     \* the summary in TestDone, once Run has returned

load    == <<spec, over>>
fetches == <<pc, cause, begun>>
pacing  == <<slots, ticks, skipped>>
counts  == <<requests, errors, bytes, winBytes, window>>
reports == <<reporter, held, told, summary>>
vars    == <<load, fetches, pacing, counts, reports>>

Nothing   == [final |-> FALSE, reqs |-> 0, logged |-> 0, chunks |-> 0,
              requests |-> 0, bytes |-> 0, errors |-> 0]
NoSummary == [requests |-> -1, bytes |-> -1, errors |-> -1, classes |-> -1]

\* The steps of record.
Recording == {"record", "recordError", "recordWindow"}

Steps == {"idle", "request", "read", "landed", "throttled", "ended", "exited"} \cup Recording
Causes == {"none", "failed", "stopped"}

TypeOK ==
  /\ spec \in [paced : BOOLEAN, limited : BOOLEAN]
  /\ over \in BOOLEAN
  /\ pc \in [Workers -> Steps]
  /\ cause \in [Workers -> Causes]
  /\ begun \in 0..MaxRequests
  /\ slots \in 0..Cardinality(Workers)
  /\ ticks \in 0..MaxTicks
  /\ skipped \in 0..MaxTicks
  /\ requests \in Nat /\ errors \in Nat /\ bytes \in Nat /\ winBytes \in Nat
  /\ window \in [reqs : Nat, pending : 0..MaxPending, classes : Nat]
  /\ reporter \in {"select", "bytes", "requests", "allBytes", "errors", "report", "returned"}
  /\ held \in [final : BOOLEAN, reqs : Nat, logged : Nat, chunks : Nat,
               requests : Nat, bytes : Nat, errors : Nat]
  /\ told \in [reqs : Nat, chunks : Nat, logged : Nat]
  /\ summary \in [requests : Nat, bytes : Nat, errors : Nat, classes : Nat] \cup {NoSummary}

Init ==
  /\ spec \in [paced : BOOLEAN, limited : BOOLEAN]
  /\ over = FALSE
  /\ pc = [w \in Workers |-> "idle"]
  /\ cause = [w \in Workers |-> "none"]
  /\ begun = 0
  /\ slots = 0 /\ ticks = 0 /\ skipped = 0
  /\ requests = 0 /\ errors = 0 /\ bytes = 0 /\ winBytes = 0
  /\ window = [reqs |-> 0, pending |-> 0, classes |-> 0]
  /\ reporter = "select"
  /\ held = Nothing
  /\ told = [reqs |-> 0, chunks |-> 0, logged |-> 0]
  /\ summary = NoSummary

-----------------------------------------------------------------------------
(* The context is done: the duration of the test is over, or the agent        *)
(* cancels it (a stop_test, the next test).                                   *)
ContextDone ==
  /\ ~over
  /\ over' = TRUE
  /\ UNCHANGED <<spec, fetches, pacing, counts, reports>>

-----------------------------------------------------------------------------
(* The dispatcher.  It and the paced workers select between the context and   *)
(* their channel: when both are ready, either may be taken.                   *)

(* The ticker fires: a slot goes into the channel, or is skipped if that is   *)
(* full.                                                                      *)
Dispatch ==
  /\ spec.paced
  /\ ticks < MaxTicks
  /\ ticks' = ticks + 1
  /\ IF slots < Cardinality(Workers)
       THEN slots' = slots + 1 /\ UNCHANGED skipped
       ELSE skipped' = skipped + 1 /\ UNCHANGED slots
  /\ UNCHANGED <<load, fetches, counts, reports>>

-----------------------------------------------------------------------------
(* The workers.                                                               *)

\* Worker w goes to step p; its fetch has ended as c.
Goes(w, p, c) ==
  /\ pc' = [pc EXCEPT ![w] = p]
  /\ cause' = [cause EXCEPT ![w] = c]

(* A worker begins a fetch: a paced one when it gets a slot, the others when  *)
(* the test is not over.                                                      *)
Begin(w) ==
  /\ pc[w] = "idle"
  /\ begun < MaxRequests
  /\ begun' = begun + 1
  /\ \/ spec.paced /\ slots > 0 /\ slots' = slots - 1
     \/ ~spec.paced /\ ~over /\ UNCHANGED slots
  /\ Goes(w, "request", "none")
  /\ UNCHANGED <<load, ticks, skipped, counts, reports>>

(* WorkerExits, if a paced worker only waited for slots.                      *)
WorkerWaitsForSlots(w) ==
  /\ pc[w] = "idle"
  /\ over /\ ~spec.paced
  /\ Goes(w, "exited", "none")
  /\ UNCHANGED <<load, begun, pacing, counts, reports>>

\* A worker returns.
WorkerExits(w) ==
  /\ pc[w] = "idle"
  /\ over
  /\ Goes(w, "exited", "none")
  /\ UNCHANGED <<load, begun, pacing, counts, reports>>

(* The URL is no good: recorded without a look at the context.                *)
BadURL(w) ==
  /\ pc[w] = "request"
  /\ Goes(w, "record", "failed")
  /\ UNCHANGED <<load, begun, pacing, counts, reports>>

(* client.Do returns: with a response, with an error of its own or the stall  *)
(* timer's, or because the context is done.                                   *)
Responds(w) ==
  /\ pc[w] = "request"
  /\ \/ Goes(w, "read", "none")
     \/ Goes(w, "ended", "failed")
     \/ over /\ Goes(w, "ended", "stopped")
  /\ UNCHANGED <<load, begun, pacing, counts, reports>>

(* countingReader.Read: a chunk is added to the total and then to the window. *)
ChunkArrives(w) ==
  /\ pc[w] = "read"
  /\ bytes < MaxChunks
  /\ bytes' = bytes + 1
  /\ Goes(w, "landed", "none")
  /\ UNCHANGED <<load, begun, pacing, requests, errors, winBytes, window, reports>>

ChunkCounted(w) ==
  /\ pc[w] = "landed"
  /\ winBytes' = winBytes + 1
  /\ Goes(w, IF spec.limited THEN "throttled" ELSE "read", "none")
  /\ UNCHANGED <<load, begun, pacing, requests, errors, bytes, window, reports>>

(* The limiter's WaitN: it lets the reader go on, fails when the stall timer  *)
(* or the context ends the wait, and refuses at once a wait that would last   *)
(* beyond the deadline of the context, however far off that is (a test        *)
(* without a duration is one in which it never does).                         *)
Throttle(w) ==
  /\ pc[w] = "throttled"
  /\ \/ Goes(w, "read", "none")
     \/ Goes(w, "ended", "failed")
     \/ Goes(w, "ended", "stopped")
  /\ UNCHANGED <<load, begun, pacing, counts, reports>>

(* The body ends or breaks off.                                               *)
BodyEnds(w) ==
  /\ pc[w] = "read"
  /\ \/ Goes(w, "ended", "none")
     \/ Goes(w, "ended", "failed")
     \/ over /\ Goes(w, "ended", "stopped")
  /\ UNCHANGED <<load, begun, pacing, counts, reports>>

(* Checked, if a fetch were recorded however the test stands.                 *)
CheckedNever(w) ==
  /\ pc[w] = "ended"
  /\ Goes(w, "record", cause[w])
  /\ UNCHANGED <<load, begun, pacing, counts, reports>>

(* fetch looks at the context: a request of a test that is over is forgotten. *)
Checked(w) ==
  /\ pc[w] = "ended"
  /\ IF over THEN Goes(w, "idle", "none") ELSE Goes(w, "record", cause[w])
  /\ UNCHANGED <<load, begun, pacing, counts, reports>>

-----------------------------------------------------------------------------
(* record: the totals first, then the window under the lock.                  *)

CountRequest(w) ==
  /\ pc[w] = "record"
  /\ requests' = requests + 1
  /\ Goes(w, IF cause[w] = "none" THEN "recordWindow" ELSE "recordError", cause[w])
  /\ UNCHANGED <<load, begun, pacing, errors, bytes, winBytes, window, reports>>

CountError(w) ==
  /\ pc[w] = "recordError"
  /\ errors' = errors + 1
  /\ Goes(w, "recordWindow", cause[w])
  /\ UNCHANGED <<load, begun, pacing, requests, bytes, winBytes, window, reports>>

(* CountWindow, if the limit on logged errors were off by one.                *)
CountWindowOffByOne(w) ==
  /\ pc[w] = "recordWindow"
  /\ window' = IF cause[w] = "none"
                 THEN [window EXCEPT !.reqs = window.reqs + 1]
                 ELSE [reqs    |-> window.reqs + 1,
                       pending |-> IF window.pending <= MaxPending THEN window.pending + 1
                                                                   ELSE window.pending,
                       classes |-> window.classes + 1]
  /\ Goes(w, "idle", "none")
  /\ UNCHANGED <<load, begun, pacing, requests, errors, bytes, winBytes, reports>>

CountWindow(w) ==
  /\ pc[w] = "recordWindow"
  /\ window' = IF cause[w] = "none"
                 THEN [window EXCEPT !.reqs = window.reqs + 1]
                 ELSE [reqs    |-> window.reqs + 1,
                       pending |-> IF window.pending < MaxPending THEN window.pending + 1
                                                                  ELSE window.pending,
                       classes |-> window.classes + 1]
  /\ Goes(w, "idle", "none")
  /\ UNCHANGED <<load, begun, pacing, requests, errors, bytes, winBytes, reports>>

-----------------------------------------------------------------------------
(* Run and snapshot.  The final snapshot is taken once every worker has       *)
(* returned; the ticker may fire first even then.                             *)

AllExited == \A w \in Workers : pc[w] = "exited"

(* SnapWindow, if the final snapshot waited for the context only.             *)
SnapWindowEarly(final) ==
  /\ reporter = "select"
  /\ final => over
  /\ held' = [held EXCEPT !.final = final, !.reqs = window.reqs, !.logged = window.pending]
  /\ window' = [window EXCEPT !.reqs = 0, !.pending = 0]
  /\ reporter' = "bytes"
  /\ UNCHANGED <<load, fetches, pacing, requests, errors, bytes, winBytes, told, summary>>

(* snapshot takes the window, under the lock.                                 *)
SnapWindow(final) ==
  /\ reporter = "select"
  /\ final => AllExited
  /\ held' = [held EXCEPT !.final = final, !.reqs = window.reqs, !.logged = window.pending]
  /\ window' = [window EXCEPT !.reqs = 0, !.pending = 0]
  /\ reporter' = "bytes"
  /\ UNCHANGED <<load, fetches, pacing, requests, errors, bytes, winBytes, told, summary>>

(* SnapBytes, if it loaded winBytes and did not reset it.                     *)
SnapBytesLoads ==
  /\ reporter = "bytes"
  /\ held' = [held EXCEPT !.chunks = winBytes]
  /\ reporter' = "requests"
  /\ UNCHANGED <<winBytes, load, fetches, pacing, requests, errors, bytes, window, told, summary>>

\* winBytes.Swap(0).
SnapBytes ==
  /\ reporter = "bytes"
  /\ held' = [held EXCEPT !.chunks = winBytes]
  /\ winBytes' = 0
  /\ reporter' = "requests"
  /\ UNCHANGED <<load, fetches, pacing, requests, errors, bytes, window, told, summary>>

\* The totals are loaded one after the other.
SnapRequests ==
  /\ reporter = "requests"
  /\ held' = [held EXCEPT !.requests = requests]
  /\ reporter' = "allBytes"
  /\ UNCHANGED <<load, fetches, pacing, counts, told, summary>>

SnapAllBytes ==
  /\ reporter = "allBytes"
  /\ held' = [held EXCEPT !.bytes = bytes]
  /\ reporter' = "errors"
  /\ UNCHANGED <<load, fetches, pacing, counts, told, summary>>

SnapErrors ==
  /\ reporter = "errors"
  /\ held' = [held EXCEPT !.errors = errors]
  /\ reporter' = "report"
  /\ UNCHANGED <<load, fetches, pacing, counts, told, summary>>

(* The snapshot goes to the report function; the final one ends Run, which    *)
(* copies the error classes into the TestDone.                                *)
Report ==
  /\ reporter = "report"
  /\ told' = [reqs   |-> told.reqs + held.reqs,
              chunks |-> told.chunks + held.chunks,
              logged |-> told.logged + held.logged]
  /\ held' = Nothing
  /\ IF held.final
       THEN /\ summary' = [requests |-> held.requests, bytes |-> held.bytes,
                           errors |-> held.errors, classes |-> window.classes]
            /\ reporter' = "returned"
       ELSE /\ reporter' = "select"
            /\ UNCHANGED summary
  /\ UNCHANGED <<load, fetches, pacing, counts>>

-----------------------------------------------------------------------------
Worker(w) ==
  \/ Begin(w) \/ WorkerExits(w)
  \/ BadURL(w) \/ Responds(w) \/ BodyEnds(w) \/ Checked(w)
  \/ ChunkArrives(w) \/ ChunkCounted(w) \/ Throttle(w)
  \/ CountRequest(w) \/ CountError(w) \/ CountWindow(w)

Run ==
  \/ \E final \in BOOLEAN : SnapWindow(final)
  \/ SnapBytes \/ SnapRequests \/ SnapAllBytes \/ SnapErrors
  \/ Report

Next ==
  \/ ContextDone
  \/ Dispatch
  \/ \E w \in Workers : Worker(w)
  \/ Run

Safety == Init /\ [][Next]_vars

(* Goroutines run: while a worker can go on, some worker does, and a fetch     *)
(* ends at the latest by its stall timer, which only arriving chunks put off. *)
(* The select of Run takes the final report in the end, though the ticker     *)
(* goes on.                                                                   *)
Fairness ==
  /\ WF_vars(\E w \in Workers : Worker(w))
  /\ WF_vars(Run)
  /\ SF_vars(SnapWindow(TRUE))

Spec == Safety /\ Fairness

-----------------------------------------------------------------------------
(* Properties.                                                                *)

(* The intervals reported so far, the one about to be reported included, add  *)
(* up to no more than the totals reported with it: requests, bytes and logged *)
(* errors are counted before they enter the window, and the window is taken   *)
(* before the totals are read.                                                *)
IntervalsWithinTotals ==
  reporter = "report" =>
    /\ told.reqs + held.reqs <= held.requests
    /\ told.chunks + held.chunks <= held.bytes
    /\ told.logged + held.logged <= held.errors

(* Once Run has returned, its summary holds every request, byte and error     *)
(* there is or ever will be, the intervals add up to it exactly, its classes  *)
(* add up to its errors, and no more errors were logged than counted.         *)
FinalAddsUp ==
  reporter = "returned" =>
    /\ summary.requests = requests /\ requests = told.reqs
    /\ summary.bytes = bytes       /\ bytes = told.chunks
    /\ summary.errors = errors     /\ errors = summary.classes
    /\ errors <= requests
    /\ told.logged <= errors

(* Without a rate limit, a request that only the end of the test cut off is   *)
(* not recorded ("test stopped mid-request; not a failure").                  *)
StopIsNoFailure ==
  \A w \in Workers : pc[w] \in Recording /\ cause[w] = "stopped" => spec.limited

(* The same with a rate limit.                                                *)
StopIsNeverFailure ==
  \A w \in Workers : pc[w] \in Recording => cause[w] # "stopped"

(* A slot that comes due while every worker is in a fetch is skipped and      *)
(* counted (README: "If every thread is busy when a slot comes due, the slot  *)
(* is skipped and counted").                                                  *)
BusySlotsAreSkipped ==
  [][ticks' # ticks /\ (\A w \in Workers : pc[w] \notin {"idle", "exited"})
       => skipped' # skipped]_vars

(* Once its context is done, Run returns: no worker, slot or timer keeps it.  *)
RunReturns == over ~> reporter = "returned"
=============================================================================
