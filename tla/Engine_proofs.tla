----------------------------- MODULE Engine_proofs -----------------------------
(* Theorems about the traffic engine: any number of workers, requests,        *)
(* chunks and slots.                                                          *)
EXTENDS Engine, FiniteSetTheorems, TLAPS

-----------------------------------------------------------------------------
(* Types.                                                                     *)

WindowOK == window \in [reqs : Nat, pending : 0..MaxPending, classes : Nat]

HeldOK == held \in [final : BOOLEAN, reqs : Nat, logged : Nat, chunks : Nat,
                    requests : Nat, bytes : Nat, errors : Nat]

(* The records of TypeOK, which the provers see field by field.               *)
LEMMA WindowStep ==
  ASSUME TypeOK, NEW w \in Workers, CountWindow(w)
  PROVE  /\ WindowOK'
         /\ window'.reqs = window.reqs + 1
         /\ window'.classes = window.classes + (IF cause[w] = "none" THEN 0 ELSE 1)
         /\ window'.pending >= window.pending
         /\ window'.pending - window.pending <= window'.classes - window.classes
<1> USE EngineAssumption DEF EngineAssumption
<1>1. CASE cause[w] = "none"
  <2>1. window' = [reqs |-> window.reqs + 1, pending |-> window.pending, classes |-> window.classes]
    BY <1>1 DEF CountWindow, TypeOK
  <2> QED
    BY <1>1, <2>1 DEF TypeOK, WindowOK
<1>2. CASE cause[w] # "none"
  BY <1>2 DEF CountWindow, TypeOK, WindowOK
<1> QED
  BY <1>1, <1>2

LEMMA SnapStep ==
  ASSUME TypeOK, NEW final \in BOOLEAN, SnapWindow(final)
  PROVE  /\ WindowOK' /\ HeldOK'
         /\ window' = [reqs |-> 0, pending |-> 0, classes |-> window.classes]
         /\ held' = [final |-> final, reqs |-> window.reqs, logged |-> window.pending,
                     chunks |-> held.chunks, requests |-> held.requests,
                     bytes |-> held.bytes, errors |-> held.errors]
<1> USE EngineAssumption DEF EngineAssumption
<1>1. window' = [reqs |-> 0, pending |-> 0, classes |-> window.classes]
  BY DEF SnapWindow, TypeOK
<1>2. held' = [final |-> final, reqs |-> window.reqs, logged |-> window.pending,
               chunks |-> held.chunks, requests |-> held.requests,
               bytes |-> held.bytes, errors |-> held.errors]
  BY DEF SnapWindow, TypeOK
<1> QED
  BY <1>1, <1>2 DEF TypeOK, WindowOK, HeldOK

LEMMA FillStep ==
  ASSUME TypeOK, SnapBytes \/ SnapRequests \/ SnapAllBytes \/ SnapErrors
  PROVE  /\ HeldOK'
         /\ held'.final = held.final /\ held'.reqs = held.reqs /\ held'.logged = held.logged
         /\ held'.chunks   = IF reporter = "bytes" THEN winBytes ELSE held.chunks
         /\ held'.requests = IF reporter = "requests" THEN requests ELSE held.requests
         /\ held'.bytes    = IF reporter = "allBytes" THEN bytes ELSE held.bytes
         /\ held'.errors   = IF reporter = "errors" THEN errors ELSE held.errors
<1>1. held' = [final |-> held.final, reqs |-> held.reqs, logged |-> held.logged,
               chunks   |-> IF reporter = "bytes" THEN winBytes ELSE held.chunks,
               requests |-> IF reporter = "requests" THEN requests ELSE held.requests,
               bytes    |-> IF reporter = "allBytes" THEN bytes ELSE held.bytes,
               errors   |-> IF reporter = "errors" THEN errors ELSE held.errors]
  BY DEF SnapBytes, SnapRequests, SnapAllBytes, SnapErrors, TypeOK
<1> QED
  BY <1>1 DEF TypeOK, HeldOK

LEMMA ReportStep ==
  ASSUME TypeOK, Report
  PROVE  /\ told' \in [reqs : Nat, chunks : Nat, logged : Nat]
         /\ HeldOK'
         /\ held.final => /\ summary' \in [requests : Nat, bytes : Nat, errors : Nat, classes : Nat]
                          /\ summary'.requests = held.requests /\ summary'.bytes = held.bytes
                          /\ summary'.errors = held.errors /\ summary'.classes = window.classes
         /\ ~held.final => summary' = summary
BY DEF Report, Nothing, TypeOK, HeldOK

(* A slot is skipped by a tick.                                               *)
SkipsAreTicks == skipped <= ticks

LEMMA TypeInit == ASSUME Init PROVE TypeOK /\ SkipsAreTicks
<1>1. Cardinality(Workers) \in Nat
  BY EngineAssumption, FS_CardinalityType DEF EngineAssumption
<1>2. MaxPending \in Nat /\ MaxRequests \in Nat /\ MaxTicks \in Nat
  BY EngineAssumption DEF EngineAssumption
<1>3. /\ begun \in 0..MaxRequests /\ slots \in 0..Cardinality(Workers)
      /\ ticks \in 0..MaxTicks /\ skipped \in 0..MaxTicks /\ skipped <= ticks
  BY <1>1, <1>2 DEF Init
<1>4. window \in [reqs : Nat, pending : 0..MaxPending, classes : Nat]
  BY <1>2 DEF Init
<1>5. pc \in [Workers -> Steps] /\ cause \in [Workers -> Causes]
  BY DEF Init, Steps, Causes
<1>6. held \in [final : BOOLEAN, reqs : Nat, logged : Nat, chunks : Nat,
               requests : Nat, bytes : Nat, errors : Nat]
  BY DEF Init, Nothing
<1> QED
  BY <1>3, <1>4, <1>5, <1>6 DEF Init, TypeOK, SkipsAreTicks

LEMMA TypeStep == ASSUME TypeOK, SkipsAreTicks, [Next]_vars PROVE TypeOK' /\ SkipsAreTicks'
<1>0. Cardinality(Workers) \in Nat
  BY EngineAssumption, FS_CardinalityType DEF EngineAssumption
<1> USE <1>0, EngineAssumption DEF EngineAssumption, SkipsAreTicks
<1>1. CASE ContextDone
  BY <1>1 DEF ContextDone, TypeOK, fetches, pacing, counts, reports
<1>2. CASE Dispatch
  BY <1>2 DEF Dispatch, TypeOK, load, fetches, counts, reports
<1>3. ASSUME NEW w \in Workers, Worker(w)
      PROVE  TypeOK' /\ SkipsAreTicks'
  <2> USE DEF TypeOK, Steps, Causes, Recording, Goes
  <2>1. CASE Begin(w)
    BY <2>1 DEF Begin, load, counts, reports
  <2>2. CASE WorkerExits(w) \/ BadURL(w) \/ Responds(w) \/ BodyEnds(w) \/ Checked(w) \/ Throttle(w)
    BY <2>2 DEF WorkerExits, BadURL, Responds, BodyEnds, Checked, Throttle,
                load, pacing, counts, reports
  <2>3. CASE ChunkArrives(w) \/ ChunkCounted(w)
    BY <2>3 DEF ChunkArrives, ChunkCounted, load, pacing, reports
  <2>4. CASE CountRequest(w) \/ CountError(w)
    BY <2>4 DEF CountRequest, CountError, load, pacing, reports
  <2>5. CASE CountWindow(w)
    <3>1. WindowOK'
      BY <2>5, WindowStep
    <3> QED
      BY <2>5, <3>1 DEF CountWindow, WindowOK, load, pacing, reports
  <2> QED
    BY <1>3, <2>1, <2>2, <2>3, <2>4, <2>5 DEF Worker
<1>4. ASSUME NEW final \in BOOLEAN, SnapWindow(final)
      PROVE  TypeOK' /\ SkipsAreTicks'
  <2>1. WindowOK' /\ HeldOK'
    BY <1>4, SnapStep
  <2> QED
    BY <1>4, <2>1 DEF SnapWindow, TypeOK, WindowOK, HeldOK, load, fetches, pacing
<1>5. CASE SnapBytes \/ SnapRequests \/ SnapAllBytes \/ SnapErrors
  <2>1. HeldOK'
    BY <1>5, FillStep
  <2> QED
    BY <1>5, <2>1 DEF SnapBytes, SnapRequests, SnapAllBytes, SnapErrors,
                      TypeOK, HeldOK, load, fetches, pacing, counts
<1>6. CASE Report
  <2>1. /\ told' \in [reqs : Nat, chunks : Nat, logged : Nat]
        /\ HeldOK'
        /\ summary' \in [requests : Nat, bytes : Nat, errors : Nat, classes : Nat] \cup {NoSummary}
    BY <1>6, ReportStep DEF TypeOK
  <2> QED
    BY <1>6, <2>1 DEF Report, TypeOK, HeldOK, load, fetches, pacing, counts
<1>7. CASE UNCHANGED vars
  BY <1>7 DEF vars, TypeOK, load, fetches, pacing, counts, reports
<1> QED
  BY <1>1, <1>2, <1>3, <1>4, <1>5, <1>6, <1>7 DEF Next, Run

(* The engine's variables keep their types: the window never logs more errors *)
(* than its limit, and the channel never holds more slots than it has places. *)
THEOREM TypeCorrect == Safety => []TypeOK
<1>1. Init => TypeOK /\ SkipsAreTicks
  BY TypeInit
<1>2. TypeOK /\ SkipsAreTicks /\ [Next]_vars => (TypeOK /\ SkipsAreTicks)'
  BY TypeStep
<1> QED
  BY <1>1, <1>2, PTL DEF Safety

-----------------------------------------------------------------------------
(* The sums.                                                                  *)

(* The workers between the steps of record and of countingReader.Read: those  *)
(* whose request, chunk or error is in the totals and not yet in the window,  *)
(* and those whose failure is not yet an error.                               *)
Counted == {w \in Workers : pc[w] \in {"recordError", "recordWindow"}}
Landed  == {w \in Workers : pc[w] = "landed"}
Failing == {w \in Workers : pc[w] = "recordWindow" /\ cause[w] # "none"}
Doomed  == {w \in Workers : pc[w] = "recordError"}

(* What is in the totals has been told, is held, is in the window, or belongs *)
(* to a worker on its way there.                                              *)
SumsInv ==
  /\ requests = told.reqs + held.reqs + window.reqs + Cardinality(Counted)
  /\ bytes = told.chunks + held.chunks + winBytes + Cardinality(Landed)
  /\ errors = window.classes + Cardinality(Failing)
  /\ errors + Cardinality(Doomed) <= requests
  /\ told.logged + held.logged + window.pending <= window.classes
  /\ \A w \in Workers : pc[w] = "recordError" => cause[w] # "none"

(* What the snapshot being taken holds so far covers the intervals.           *)
SnapInv ==
  /\ reporter \in {"select", "returned"} => held = Nothing
  /\ reporter = "bytes" => held.chunks = 0
  /\ reporter \in {"allBytes", "errors", "report"} => told.reqs + held.reqs <= held.requests
  /\ reporter \in {"errors", "report"} => told.chunks + held.chunks <= held.bytes
  /\ reporter = "report" => told.logged + held.logged <= held.errors

(* The final snapshot is taken when nothing changes any more.                 *)
FinalInv ==
  /\ held.final \/ reporter = "returned" => AllExited /\ window.reqs = 0
  /\ held.final /\ reporter # "bytes" => winBytes = 0
  /\ held.final /\ reporter \in {"allBytes", "errors", "report"} => held.requests = requests
  /\ held.final /\ reporter \in {"errors", "report"} => held.bytes = bytes
  /\ held.final /\ reporter = "report" => held.errors = errors
  /\ reporter = "returned" =>
       /\ winBytes = 0
       /\ summary.requests = requests /\ summary.bytes = bytes
       /\ summary.errors = errors /\ summary.classes = window.classes

ReportsInv == TypeOK /\ SkipsAreTicks /\ SumsInv /\ SnapInv /\ FinalInv

LEMMA SetsAreFinite ==
  /\ IsFiniteSet(Counted) /\ IsFiniteSet(Landed) /\ IsFiniteSet(Failing) /\ IsFiniteSet(Doomed)
  /\ Cardinality(Counted) \in Nat /\ Cardinality(Landed) \in Nat
  /\ Cardinality(Failing) \in Nat /\ Cardinality(Doomed) \in Nat
<1>1. {Counted, Landed, Failing, Doomed} \subseteq SUBSET Workers
  BY DEF Counted, Landed, Failing, Doomed
<1>2. \A S \in SUBSET Workers : IsFiniteSet(S) /\ Cardinality(S) \in Nat
  BY EngineAssumption, FS_Subset, FS_CardinalityType DEF EngineAssumption
<1> QED
  BY <1>1, <1>2

LEMMA Enters ==
  ASSUME NEW S, NEW x, IsFiniteSet(S), x \notin S
  PROVE  Cardinality(S \cup {x}) = Cardinality(S) + 1
BY FS_AddElement

LEMMA Leaves ==
  ASSUME NEW S, NEW x, IsFiniteSet(S), x \in S
  PROVE  Cardinality(S \ {x}) = Cardinality(S) - 1
BY FS_RemoveElement

(* The sums in the steps of a worker.  A worker that has exited takes none.   *)
LEMMA WorkerSums ==
  ASSUME ReportsInv, NEW w \in Workers, Worker(w)
  PROVE  SumsInv' /\ ~AllExited
<1> USE SetsAreFinite, Enters, Leaves DEF ReportsInv, TypeOK
<1>1. ASSUME \/ Begin(w) \/ WorkerExits(w) \/ BadURL(w) \/ Responds(w)
             \/ BodyEnds(w) \/ Checked(w) \/ Throttle(w)
      PROVE  SumsInv' /\ ~AllExited
  <2>1. UNCHANGED <<counts, reports>>
    BY <1>1 DEF Begin, WorkerExits, BadURL, Responds, BodyEnds, Checked, Throttle
  <2>2. UNCHANGED <<Counted, Landed, Failing, Doomed>>
    BY <1>1 DEF Begin, WorkerExits, BadURL, Responds, BodyEnds, Checked, Throttle, Goes,
                Counted, Landed, Failing, Doomed
  <2>3. \A v \in Workers : pc'[v] = "recordError" => cause'[v] # "none"
    BY <1>1 DEF Begin, WorkerExits, BadURL, Responds, BodyEnds, Checked, Throttle, Goes, SumsInv
  <2>4. ~AllExited
    BY <1>1 DEF Begin, WorkerExits, BadURL, Responds, BodyEnds, Checked, Throttle, AllExited
  <2> QED
    BY <2>1, <2>2, <2>3, <2>4 DEF SumsInv, counts, reports
<1>2. CASE ChunkArrives(w)
  <2>1. Landed' = Landed \cup {w} /\ w \notin Landed
    BY <1>2 DEF ChunkArrives, Goes, Landed
  <2>2. UNCHANGED <<Counted, Failing, Doomed>>
    BY <1>2 DEF ChunkArrives, Goes, Counted, Failing, Doomed
  <2>3. \A v \in Workers : pc'[v] = "recordError" => cause'[v] # "none"
    BY <1>2 DEF ChunkArrives, Goes, SumsInv
  <2> QED
    BY <1>2, <2>1, <2>2, <2>3 DEF ChunkArrives, SumsInv, AllExited, reports
<1>3. CASE ChunkCounted(w)
  <2>1. Landed' = Landed \ {w} /\ w \in Landed
    BY <1>3 DEF ChunkCounted, Goes, Landed
  <2>2. UNCHANGED <<Counted, Failing, Doomed>>
    BY <1>3 DEF ChunkCounted, Goes, Counted, Failing, Doomed
  <2>3. \A v \in Workers : pc'[v] = "recordError" => cause'[v] # "none"
    BY <1>3 DEF ChunkCounted, Goes, SumsInv
  <2> QED
    BY <1>3, <2>1, <2>2, <2>3 DEF ChunkCounted, SumsInv, AllExited, reports
<1>4. CASE CountRequest(w)
  <2>1. Counted' = Counted \cup {w} /\ w \notin Counted
    BY <1>4 DEF CountRequest, Goes, Counted
  <2>2. UNCHANGED <<Landed, Failing>>
    BY <1>4 DEF CountRequest, Goes, Landed, Failing
  <2>3. w \notin Doomed /\ Doomed' \in {Doomed, Doomed \cup {w}}
    BY <1>4 DEF CountRequest, Goes, Doomed
  <2>4. \A v \in Workers : pc'[v] = "recordError" => cause'[v] # "none"
    BY <1>4 DEF CountRequest, Goes, SumsInv
  <2> QED
    BY <1>4, <2>1, <2>2, <2>3, <2>4 DEF CountRequest, SumsInv, AllExited, reports
<1>5. CASE CountError(w)
  <2>1. Failing' = Failing \cup {w} /\ w \notin Failing
    BY <1>5 DEF CountError, Goes, Failing, SumsInv
  <2>2. Doomed' = Doomed \ {w} /\ w \in Doomed
    BY <1>5 DEF CountError, Goes, Doomed
  <2>3. UNCHANGED <<Counted, Landed>>
    BY <1>5 DEF CountError, Goes, Counted, Landed
  <2>4. \A v \in Workers : pc'[v] = "recordError" => cause'[v] # "none"
    BY <1>5 DEF CountError, Goes, SumsInv
  <2> QED
    BY <1>5, <2>1, <2>2, <2>3, <2>4 DEF CountError, SumsInv, AllExited, reports
<1>6. CASE CountWindow(w)
  <2>1. Counted' = Counted \ {w} /\ w \in Counted
    BY <1>6 DEF CountWindow, Goes, Counted
  <2>2. Failing' = Failing \ {w} /\ (w \in Failing <=> cause[w] # "none")
    BY <1>6 DEF CountWindow, Goes, Failing
  <2>3. UNCHANGED <<Landed, Doomed>>
    BY <1>6 DEF CountWindow, Goes, Landed, Doomed
  <2>4. \A v \in Workers : pc'[v] = "recordError" => cause'[v] # "none"
    BY <1>6 DEF CountWindow, Goes, SumsInv
  <2>5. /\ window'.reqs = window.reqs + 1
        /\ window'.classes = window.classes + (IF cause[w] = "none" THEN 0 ELSE 1)
        /\ window'.pending - window.pending <= window'.classes - window.classes
        /\ window'.pending \in Nat
    BY <1>6, WindowStep, EngineAssumption DEF WindowOK, EngineAssumption
  <2>6. Cardinality(Failing') = Cardinality(Failing) - (IF cause[w] = "none" THEN 0 ELSE 1)
    <3>1. CASE cause[w] = "none"
      <4>1. Failing' = Failing
        BY <2>2, <3>1
      <4> QED
        BY <3>1, <4>1
    <3>2. CASE cause[w] # "none"
      BY <2>2, <3>2
    <3> QED
      BY <3>1, <3>2
  <2>7. UNCHANGED <<requests, errors, bytes, winBytes, told, held>> /\ pc[w] # "exited"
    BY <1>6 DEF CountWindow, reports
  <2>8. Cardinality(Counted') = Cardinality(Counted) - 1
    BY <2>1
  <2>9. window.pending \in Nat
    BY EngineAssumption DEF EngineAssumption
  <2> QED
    BY <2>3, <2>4, <2>5, <2>6, <2>7, <2>8, <2>9 DEF SumsInv, AllExited
<1> QED
  BY <1>1, <1>2, <1>3, <1>4, <1>5, <1>6 DEF Worker

(* The rest of the invariant does not see the workers, whose totals only grow. *)
LEMMA WorkerReports ==
  ASSUME ReportsInv, NEW w \in Workers, Worker(w)
  PROVE  SnapInv' /\ FinalInv'
<1>1. UNCHANGED reports
  BY DEF Worker, Begin, WorkerExits, BadURL, Responds, BodyEnds, Checked, ChunkArrives,
         ChunkCounted, Throttle, CountRequest, CountError, CountWindow
<1>2. ~AllExited
  BY WorkerSums
<1> QED
  BY <1>1, <1>2 DEF reports, ReportsInv, SnapInv, FinalInv

(* When all workers have exited, none is between two steps.                   *)
LEMMA ExitedIsQuiet ==
  ASSUME AllExited
  PROVE  /\ Cardinality(Counted) = 0 /\ Cardinality(Landed) = 0
         /\ Cardinality(Failing) = 0 /\ Cardinality(Doomed) = 0
<1>1. Counted = {} /\ Landed = {} /\ Failing = {} /\ Doomed = {}
  BY DEF AllExited, Counted, Landed, Failing, Doomed
<1> QED
  BY <1>1, FS_EmptySet

LEMMA RunKeeps ==
  ASSUME ReportsInv, Run
  PROVE  SumsInv' /\ SnapInv' /\ FinalInv'
<1> USE SetsAreFinite DEF ReportsInv
<1>1. UNCHANGED <<pc, cause, requests, errors, bytes>>
  BY DEF Run, SnapWindow, SnapBytes, SnapRequests, SnapAllBytes, SnapErrors, Report,
         fetches, counts
<1>2. UNCHANGED <<Counted, Landed, Failing, Doomed, AllExited>>
  BY <1>1 DEF Counted, Landed, Failing, Doomed, AllExited
<1>3. ASSUME NEW final \in BOOLEAN, SnapWindow(final)
      PROVE  SumsInv' /\ SnapInv' /\ FinalInv'
  <2>1. /\ window' = [reqs |-> 0, pending |-> 0, classes |-> window.classes]
        /\ held'.final = final /\ held'.reqs = window.reqs /\ held'.logged = window.pending
        /\ held'.chunks = held.chunks
    BY <1>3, SnapStep
  <2>2. held = Nothing /\ reporter' = "bytes" /\ (final => AllExited)
        /\ UNCHANGED <<told, winBytes, summary>>
    BY <1>3 DEF SnapWindow, SnapInv
  <2>3. held.reqs = 0 /\ held.logged = 0 /\ held.chunks = 0
    BY <2>2 DEF Nothing
  <2>4. SumsInv'
    BY <1>1, <1>2, <2>1, <2>2, <2>3, EngineAssumption DEF SumsInv, TypeOK, EngineAssumption
  <2>5. SnapInv'
    BY <2>1, <2>2, <2>3 DEF SnapInv
  <2>6. FinalInv'
    BY <1>2, <2>1, <2>2 DEF FinalInv
  <2> QED
    BY <2>4, <2>5, <2>6
<1>4. CASE SnapBytes \/ SnapRequests \/ SnapAllBytes \/ SnapErrors
  <2>1. /\ held'.final = held.final /\ held'.reqs = held.reqs /\ held'.logged = held.logged
        /\ held'.chunks   = IF reporter = "bytes" THEN winBytes ELSE held.chunks
        /\ held'.requests = IF reporter = "requests" THEN requests ELSE held.requests
        /\ held'.bytes    = IF reporter = "allBytes" THEN bytes ELSE held.bytes
        /\ held'.errors   = IF reporter = "errors" THEN errors ELSE held.errors
    BY <1>4, FillStep
  <2>2. /\ UNCHANGED <<window, told, summary>>
        /\ winBytes' = IF reporter = "bytes" THEN 0 ELSE winBytes
        /\ \/ reporter = "bytes" /\ reporter' = "requests"
           \/ reporter = "requests" /\ reporter' = "allBytes"
           \/ reporter = "allBytes" /\ reporter' = "errors"
           \/ reporter = "errors" /\ reporter' = "report"
    BY <1>4 DEF SnapBytes, SnapRequests, SnapAllBytes, SnapErrors, counts
  <2>3. SumsInv'
    BY <1>1, <1>2, <2>1, <2>2, EngineAssumption DEF SumsInv, SnapInv, TypeOK, EngineAssumption
  <2>4. SnapInv'
    BY <1>1, <2>1, <2>2, EngineAssumption DEF SumsInv, SnapInv, TypeOK, EngineAssumption
  <2>5. FinalInv'
    BY <1>1, <1>2, <2>1, <2>2 DEF FinalInv, TypeOK
  <2> QED
    BY <2>3, <2>4, <2>5
<1>5. CASE Report
  <2>1. /\ reporter = "report"
        /\ told'.reqs = told.reqs + held.reqs
        /\ told'.chunks = told.chunks + held.chunks
        /\ told'.logged = told.logged + held.logged
        /\ held' = Nothing
        /\ UNCHANGED <<window, winBytes>>
        /\ reporter' = IF held.final THEN "returned" ELSE "select"
    BY <1>5 DEF Report, counts
  <2>2. held'.reqs = 0 /\ held'.chunks = 0 /\ held'.logged = 0 /\ held'.final = FALSE
    BY <2>1 DEF Nothing
  <2>3. SumsInv'
    BY <1>1, <1>2, <2>1, <2>2, EngineAssumption DEF SumsInv, TypeOK, EngineAssumption
  <2>4. SnapInv'
    BY <2>1 DEF SnapInv
  <2>5. FinalInv'
    <3>1. held.final => /\ summary'.requests = held.requests /\ summary'.bytes = held.bytes
                        /\ summary'.errors = held.errors /\ summary'.classes = window.classes
      BY <1>5, ReportStep
    <3> QED
      BY <1>1, <1>2, <2>1, <2>2, <3>1 DEF FinalInv, TypeOK
  <2> QED
    BY <2>3, <2>4, <2>5
<1> QED
  BY <1>3, <1>4, <1>5 DEF Run

LEMMA ReportsInit == ASSUME Init PROVE ReportsInv
<1>1. Cardinality(Counted) = 0 /\ Cardinality(Landed) = 0
      /\ Cardinality(Failing) = 0 /\ Cardinality(Doomed) = 0
  <2>1. Counted = {} /\ Landed = {} /\ Failing = {} /\ Doomed = {}
    BY DEF Init, Counted, Landed, Failing, Doomed
  <2> QED
    BY <2>1, FS_EmptySet
<1>2. SumsInv
  BY <1>1 DEF Init, SumsInv, Nothing
<1> QED
  BY <1>2, TypeInit DEF Init, ReportsInv, SnapInv, FinalInv, Nothing

LEMMA ReportsInvStep == ASSUME ReportsInv, [Next]_vars PROVE ReportsInv'
<1>1. TypeOK' /\ SkipsAreTicks'
  BY TypeStep DEF ReportsInv
<1>2. CASE ContextDone \/ Dispatch \/ UNCHANGED vars
  <2>1. UNCHANGED <<fetches, counts, reports>>
    BY <1>2 DEF ContextDone, Dispatch, vars
  <2>2. UNCHANGED <<Counted, Landed, Failing, Doomed, AllExited>>
    BY <2>1 DEF fetches, Counted, Landed, Failing, Doomed, AllExited
  <2> QED
    BY <1>1, <2>1, <2>2
    DEF fetches, counts, reports, ReportsInv, SumsInv, SnapInv, FinalInv
<1>3. ASSUME NEW w \in Workers, Worker(w)
      PROVE  ReportsInv'
  BY <1>1, <1>3, WorkerSums, WorkerReports DEF ReportsInv
<1>4. CASE Run
  BY <1>1, <1>4, RunKeeps DEF ReportsInv
<1> QED
  BY <1>2, <1>3, <1>4 DEF Next

LEMMA ReportsInvariant == Safety => []ReportsInv
<1>1. Init => ReportsInv
  BY ReportsInit
<1>2. ReportsInv /\ [Next]_vars => ReportsInv'
  BY ReportsInvStep
<1> QED
  BY <1>1, <1>2, PTL DEF Safety

(* The intervals of the reports never claim more than the totals that come    *)
(* with them, for any number of workers between any of their steps: what the  *)
(* intervals hold has left the window, and was in the totals before that.     *)
THEOREM IntervalsAlwaysWithinTotals == Safety => []IntervalsWithinTotals
<1>1. ReportsInv => IntervalsWithinTotals
  BY DEF ReportsInv, SnapInv, IntervalsWithinTotals
<1> QED
  BY <1>1, ReportsInvariant, PTL

(* The final report and the summary are exact, and stay so: they are taken    *)
(* when every worker has returned, so no request is between two counters.     *)
THEOREM FinalAlwaysAddsUp == Safety => []FinalAddsUp
<1>1. ASSUME ReportsInv, reporter = "returned"
      PROVE  FinalAddsUp
  <2>1. AllExited /\ window.reqs = 0 /\ winBytes = 0 /\ held = Nothing
    BY <1>1 DEF ReportsInv, FinalInv, SnapInv
  <2>2. held.reqs = 0 /\ held.chunks = 0 /\ held.logged = 0
    BY <2>1 DEF Nothing
  <2> QED
    BY <1>1, <2>1, <2>2, ExitedIsQuiet, EngineAssumption
    DEF ReportsInv, SumsInv, FinalInv, TypeOK, FinalAddsUp, EngineAssumption
<1>2. ReportsInv => FinalAddsUp
  BY <1>1 DEF FinalAddsUp
<1> QED
  BY <1>2, ReportsInvariant, PTL

-----------------------------------------------------------------------------
(* The end of the test.                                                       *)

(* Without a rate limit, a fetch that the end of the test cut off has not been *)
(* checked yet, and the check will see that the test is over; and only a      *)
(* limited reader waits for the limiter.                                      *)
CutOffInv ==
  /\ pc \in [Workers -> Steps]
  /\ cause \in [Workers -> Causes]
  /\ \A w \in Workers : cause[w] = "stopped" /\ ~spec.limited => pc[w] = "ended" /\ over
  /\ \A w \in Workers : pc[w] = "throttled" => spec.limited

(* Whatever a worker does to its pc and cause, it does to nobody else's.      *)
LEMMA GoesLemma ==
  ASSUME NEW w \in Workers, NEW p \in Steps, NEW c \in Causes,
         CutOffInv, Goes(w, p, c)
  PROVE  /\ pc' \in [Workers -> Steps]
         /\ cause' \in [Workers -> Causes]
         /\ pc'[w] = p /\ cause'[w] = c
         /\ \A v \in Workers \ {w} : pc'[v] = pc[v] /\ cause'[v] = cause[v]
BY DEF CutOffInv, Goes

(* A worker's step keeps CutOffInv when it leaves the test alone and ends as  *)
(* "stopped" only in "ended" with a test that is over or limited.             *)
LEMMA GoesKeeps ==
  ASSUME NEW w \in Workers, NEW p \in Steps, NEW c \in Causes,
         CutOffInv, Goes(w, p, c), UNCHANGED load,
         c = "stopped" /\ ~spec.limited => p = "ended" /\ over,
         p = "throttled" => spec.limited
  PROVE  CutOffInv'
<1>1. UNCHANGED <<spec, over>>
  BY DEF load
<1>2. \A v \in Workers : cause'[v] = "stopped" /\ ~spec.limited => pc'[v] = "ended" /\ over
  BY GoesLemma DEF CutOffInv
<1>3. \A v \in Workers : pc'[v] = "throttled" => spec.limited
  BY GoesLemma DEF CutOffInv
<1> QED BY <1>1, <1>2, <1>3, GoesLemma DEF CutOffInv

(* A step that touches neither workers nor the test's plan, and never takes   *)
(* the end of the test back, keeps CutOffInv.                                 *)
LEMMA OthersKeep ==
  ASSUME CutOffInv, UNCHANGED <<spec, pc, cause>>, over => over'
  PROVE  CutOffInv'
BY DEF CutOffInv

LEMMA CutOffStep == ASSUME CutOffInv, [Next]_vars PROVE CutOffInv'
<1>1. CASE ContextDone
  BY <1>1, OthersKeep DEF ContextDone, fetches
<1>2. CASE Dispatch
  BY <1>2, OthersKeep DEF Dispatch, load, fetches
<1>3. ASSUME NEW w \in Workers, Worker(w) PROVE CutOffInv'
  <2>1. CASE Begin(w)
    BY <2>1, GoesKeeps DEF Steps, Causes, Recording, Begin
  <2>2. CASE WorkerExits(w)
    BY <2>2, GoesKeeps DEF Steps, Causes, Recording, WorkerExits
  <2>3. CASE BadURL(w)
    BY <2>3, GoesKeeps DEF Steps, Causes, Recording, BadURL
  <2>4. CASE Responds(w)
    BY <2>4, GoesKeeps DEF Steps, Causes, Recording, Responds
  <2>5. CASE BodyEnds(w)
    BY <2>5, GoesKeeps DEF Steps, Causes, Recording, BodyEnds
  <2>6. CASE Checked(w)
    <3>1. CASE over
      BY <2>6, <3>1, GoesKeeps DEF Steps, Causes, Recording, Checked
    <3>2. CASE ~over
      <4>1. cause[w] \in Causes /\ ~(cause[w] = "stopped" /\ ~spec.limited)
        BY <3>2 DEF CutOffInv
      <4> QED BY <2>6, <3>2, <4>1, GoesKeeps DEF Steps, Causes, Recording, Checked
    <3> QED BY <3>1, <3>2
  <2>7. CASE ChunkArrives(w)
    BY <2>7, GoesKeeps DEF Steps, Causes, Recording, ChunkArrives
  <2>8. CASE ChunkCounted(w)
    BY <2>8, GoesKeeps DEF Steps, Causes, Recording, ChunkCounted
  <2>9. CASE Throttle(w)
    <3>1. spec.limited
      BY <2>9 DEF CutOffInv, Throttle
    <3> QED BY <2>9, <3>1, GoesKeeps DEF Steps, Causes, Recording, Throttle
  <2>10. CASE CountRequest(w) \/ CountError(w) \/ CountWindow(w)
    <3>1. cause[w] \in Causes /\ pc[w] # "ended"
      BY <2>10 DEF CutOffInv, CountRequest, CountError, CountWindow
    <3>2. ~(cause[w] = "stopped" /\ ~spec.limited)
      BY <3>1 DEF CutOffInv
    <3> QED BY <2>10, <3>1, <3>2, GoesKeeps DEF Steps, Causes, Recording, CountRequest, CountError, CountWindow
  <2> QED BY <1>3, <2>1, <2>2, <2>3, <2>4, <2>5, <2>6, <2>7, <2>8, <2>9, <2>10 DEF Worker
<1>4. CASE Run
  <2>1. UNCHANGED <<load, fetches>>
    BY <1>4 DEF Run, SnapWindow, SnapBytes, SnapRequests, SnapAllBytes, SnapErrors, Report
  <2> QED BY <2>1, OthersKeep DEF load, fetches
<1>5. CASE UNCHANGED vars
  BY <1>5, OthersKeep DEF vars, load, fetches
<1> QED BY <1>1, <1>2, <1>3, <1>4, <1>5 DEF Next

(* A request that only the end of the test cut off is never recorded as a     *)
(* failure, unless a rate limit holds its reader ("test stopped mid-request;  *)
(* not a failure"): record is entered after the check of the context, or for  *)
(* a URL that is no good.                                                     *)
THEOREM CutOffIsNoFailure == Safety => []StopIsNoFailure
<1>1. Init => CutOffInv
  BY DEF Init, CutOffInv, Steps, Causes, Recording
<1>2. CutOffInv /\ [Next]_vars => CutOffInv'
  BY CutOffStep
<1>3. CutOffInv => StopIsNoFailure
  BY DEF CutOffInv, StopIsNoFailure, Recording
<1> QED
  BY <1>1, <1>2, <1>3, PTL DEF Safety
=============================================================================
