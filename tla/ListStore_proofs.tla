--------------------------- MODULE ListStore_proofs ---------------------------
(* Theorems about the URL lists and their checks, for any number of lists,    *)
(* texts, saves, checks and restarts.                                         *)
EXTENDS ListStore, TLAPS

-----------------------------------------------------------------------------
(* The inductive invariant.                                                   *)

(* Types of all but the jobs.                                                 *)
ListsOK ==
  /\ bundled \in SUBSET Lists
  /\ durable \in BOOLEAN
  /\ texts \in [Lists -> Texts \cup {Absent, Shipped, Short}]
  /\ files \in [Lists -> Texts \cup {Absent, Short}]
  /\ saving \in [list : Lists, text : Texts] \cup {NoSave}
  /\ changes \in 0..MaxSaves
  /\ checks \in [Lists -> Checks \cup {NoCheck}]
  /\ crashes \in 0..MaxCrashes

(* Memory and files agree on every list, or its file is short.  That holds    *)
(* while a Save is under way too: what it opens is short until it is written. *)
FilesAgree == durable => \A n \in Lists : texts[n] = Loaded(n) \/ files[n] = Short

(* Every place that is taken and every count of the WaitGroup belongs to a    *)
(* goroutine at one of its steps, and every URL begun is under way or has a   *)
(* result.                                                                    *)
Tally(r) ==
  /\ r.sem = r.fetching + r.recorded
  /\ r.wg = r.fetching + r.recorded + r.released
  /\ r.started = r.fetching + r.ok + r.failed
  /\ r.recorded + r.released <= r.ok + r.failed
  /\ r.started <= r.total
  /\ r.sem <= CheckWorkers
  /\ r.done => r.started = r.total /\ r.wg = 0

AddsUp(r) == r \in Job /\ Tally(r)

JobsInv == DOMAIN jobs \in SUBSET Checks /\ \A j \in DOMAIN jobs : AddsUp(jobs[j])

Inv == ListsOK /\ FilesAgree /\ JobsInv

-----------------------------------------------------------------------------
(* Lists.                                                                     *)

LEMMA NoSaveIsNoSave == NoSave \notin [list : Lists, text : Texts]
BY ListAssumption DEF NoSave, Absent, ListAssumption

LEMMA LoadedType ==
  ASSUME ListsOK, NEW n \in Lists
  PROVE  Loaded(n) \in Texts \cup {Absent, Shipped, Short}
BY DEF ListsOK, Loaded

(* A check touches neither texts nor files.                                   *)
CheckStep ==
  \/ \E n \in Lists : StartCheck(n)
  \/ \E j \in Checks : FetchURL(j) \/ RecordResult(j) \/ GivePlaceBack(j) \/ FetchEnds(j) \/ FinishCheck(j)

LEMMA ChecksLeaveLists ==
  ASSUME CheckStep \/ UNCHANGED vars
  PROVE  UNCHANGED <<disk, texts, saving, changes, crashes>>
BY DEF CheckStep, StartCheck, FetchURL, RecordResult, GivePlaceBack, FetchEnds, FinishCheck, vars, work

LEMMA ListsStep == ASSUME ListsOK, [Next]_vars PROVE ListsOK'
<1> USE ListAssumption DEF ListAssumption, ListsOK
<1>1. ASSUME NEW n \in Lists, NEW t \in Texts, SaveInMemory(n, t) \/ SaveOpens(n, t)
      PROVE  ListsOK'
  BY <1>1 DEF SaveInMemory, SaveOpens, disk, work, Short
<1>2. CASE SaveWrites \/ SaveFails
  <2>1. saving # NoSave /\ saving.list \in Lists /\ saving.text \in Texts
    BY <1>2 DEF SaveWrites, SaveFails, Unlocked
  <2> QED
    BY <1>2, <2>1 DEF SaveWrites, SaveFails, disk, work
<1>3. ASSUME NEW n \in Lists, Reset(n)
      PROVE  ListsOK'
  BY <1>3 DEF Reset
<1>4. CASE CheckStep \/ UNCHANGED vars
  <2>1. checks' \in [Lists -> Checks \cup {NoCheck}]
    BY <1>4 DEF CheckStep, StartCheck, FetchURL, RecordResult, GivePlaceBack, FetchEnds, FinishCheck, vars, work
  <2> QED
    BY <1>4, <2>1, ChecksLeaveLists DEF disk
<1>5. CASE Restart
  <2>1. texts' \in [Lists -> Texts \cup {Absent, Shipped, Short}]
    BY <1>5, LoadedType DEF Restart
  <2> QED
    BY <1>5, <2>1 DEF Restart, disk
<1> QED
  BY <1>1, <1>2, <1>3, <1>4, <1>5 DEF Next, CheckStep

(* A list on whose entries nothing changes keeps agreeing.                    *)
LEMMA AgreesStays ==
  ASSUME NEW n \in Lists, UNCHANGED <<bundled, durable, texts[n], files[n]>>,
         texts[n] = Loaded(n) \/ files[n] = Short
  PROVE  texts'[n] = Loaded(n)' \/ files'[n] = Short
BY DEF Loaded

LEMMA FilesAgreeStep == ASSUME ListsOK, FilesAgree, [Next]_vars PROVE FilesAgree'
<1> USE ListAssumption DEF ListAssumption, ListsOK, FilesAgree
<1>1. ASSUME NEW n \in Lists, NEW t \in Texts, SaveInMemory(n, t) \/ SaveOpens(n, t)
      PROVE  FilesAgree'
  <2>1. CASE SaveInMemory(n, t)
    BY <2>1 DEF SaveInMemory, disk
  <2>2. CASE SaveOpens(n, t)
    <3>1. files'[n] = Short /\ \A m \in Lists \ {n} : files'[m] = files[m]
      BY <2>2 DEF SaveOpens
    <3> QED
      BY <2>2, <3>1, AgreesStays DEF SaveOpens
  <2> QED
    BY <1>1, <2>1, <2>2
<1>2. CASE SaveWrites
  <2>1. saving # NoSave /\ saving.list \in Lists /\ saving.text \in Texts /\ saving.text # Absent
    BY <1>2 DEF SaveWrites, Unlocked, Absent
  <2> QED
    BY <1>2, <2>1 DEF SaveWrites, Loaded
<1>3. CASE SaveFails
  BY <1>3 DEF SaveFails, disk, Loaded
<1>4. ASSUME NEW n \in Lists, Reset(n)
      PROVE  FilesAgree'
  <2>1. files'[n] = Absent /\ texts'[n] = IF n \in bundled THEN Shipped ELSE Absent
    BY <1>4 DEF Reset
  <2>2. texts'[n] = Loaded(n)'
    BY <1>4, <2>1 DEF Reset, Loaded
  <2>3. \A m \in Lists \ {n} : files'[m] = files[m] /\ texts'[m] = texts[m]
    BY <1>4 DEF Reset
  <2> QED
    BY <1>4, <2>2, <2>3, AgreesStays DEF Reset
<1>5. CASE CheckStep \/ UNCHANGED vars
  <2>1. UNCHANGED <<bundled, durable, texts, files>>
    BY <1>5, ChecksLeaveLists DEF disk
  <2> QED
    BY <2>1, AgreesStays
<1>6. CASE Restart
  <2>1. \A n \in Lists : texts'[n] = Loaded(n) /\ Loaded(n)' = Loaded(n)
    BY <1>6 DEF Restart, disk, Loaded
  <2> QED
    BY <2>1
<1> QED
  BY <1>1, <1>2, <1>3, <1>4, <1>5, <1>6 DEF Next, CheckStep

-----------------------------------------------------------------------------
(* Checks.                                                                    *)

(* A job is replaced by one that adds up.                                     *)
LEMMA BecomesKeeps ==
  ASSUME JobsInv, NEW j \in Checks, NEW r, AddsUp(r), Becomes(j, r)
  PROVE  JobsInv'
BY DEF JobsInv, Becomes, AddsUp

(* What a job that adds up consists of.                                       *)
LEMMA AddsUpFacts ==
  ASSUME NEW r, AddsUp(r)
  PROVE  /\ r = [list |-> r.list, total |-> r.total, ok |-> r.ok, failed |-> r.failed,
                 done |-> r.done, started |-> r.started, fetching |-> r.fetching,
                 recorded |-> r.recorded, released |-> r.released, sem |-> r.sem, wg |-> r.wg]
         /\ r.list \in Lists /\ r.done \in BOOLEAN /\ r.total \in 0..MaxURLs
         /\ r.ok \in Nat /\ r.failed \in Nat /\ r.started \in Nat /\ r.fetching \in Nat
         /\ r.recorded \in Nat /\ r.released \in Nat /\ r.sem \in Nat /\ r.wg \in Nat
         /\ CheckWorkers \in Nat /\ MaxURLs \in Nat
BY ListAssumption DEF AddsUp, Job, URLs, ListAssumption

(* A job whose counts tally is within the length of a list with each of them. *)
LEMMA CountsFit ==
  ASSUME NEW r,
         r = [list |-> r.list, total |-> r.total, ok |-> r.ok, failed |-> r.failed,
              done |-> r.done, started |-> r.started, fetching |-> r.fetching,
              recorded |-> r.recorded, released |-> r.released, sem |-> r.sem, wg |-> r.wg],
         r.list \in Lists, r.done \in BOOLEAN, r.total \in 0..MaxURLs,
         r.ok \in Nat, r.failed \in Nat, r.fetching \in Nat, r.recorded \in Nat,
         r.released \in Nat,
         Tally(r)
  PROVE  AddsUp(r)
<1>1. MaxURLs \in Nat
  BY ListAssumption DEF ListAssumption
<1>2. /\ r.ok \in 0..MaxURLs /\ r.failed \in 0..MaxURLs /\ r.fetching \in 0..MaxURLs
      /\ r.recorded \in 0..MaxURLs /\ r.released \in 0..MaxURLs
      /\ r.sem \in 0..MaxURLs /\ r.wg \in 0..MaxURLs /\ r.started \in 0..MaxURLs
  BY <1>1 DEF Tally
<1> QED
  BY <1>2 DEF AddsUp, Job, URLs

LEMMA FetchURLAddsUp ==
  ASSUME NEW r, AddsUp(r), r.started < r.total, r.sem < CheckWorkers, ~r.done, NEW s,
         s = [r EXCEPT !.started = @ + 1, !.fetching = @ + 1, !.sem = @ + 1, !.wg = @ + 1]
  PROVE  AddsUp(s)
<1>1. s = [list |-> r.list, total |-> r.total, ok |-> r.ok, failed |-> r.failed,
           done |-> r.done, started |-> r.started + 1, fetching |-> r.fetching + 1,
           recorded |-> r.recorded, released |-> r.released, sem |-> r.sem + 1,
           wg |-> r.wg + 1]
  BY DEF AddsUp, Job
<1>2. /\ s.list \in Lists /\ s.done \in BOOLEAN /\ s.total \in 0..MaxURLs
      /\ s.ok \in Nat /\ s.failed \in Nat /\ s.fetching \in Nat /\ s.recorded \in Nat
      /\ s.released \in Nat
  BY <1>1, AddsUpFacts
<1>3. Tally(s)
  BY <1>1, AddsUpFacts DEF AddsUp, Tally
<1> QED
  BY <1>1, <1>2, <1>3, CountsFit

LEMMA RecordResultAddsUp ==
  ASSUME NEW r, AddsUp(r), r.fetching > 0, NEW s,
         \/ s = [r EXCEPT !.ok = @ + 1, !.fetching = @ - 1, !.recorded = @ + 1]
         \/ s = [r EXCEPT !.failed = @ + 1, !.fetching = @ - 1, !.recorded = @ + 1]
  PROVE  AddsUp(s)
<1>1. CASE s = [r EXCEPT !.ok = @ + 1, !.fetching = @ - 1, !.recorded = @ + 1]
  <2>1. s = [list |-> r.list, total |-> r.total, ok |-> r.ok + 1, failed |-> r.failed,
             done |-> r.done, started |-> r.started, fetching |-> r.fetching - 1,
             recorded |-> r.recorded + 1, released |-> r.released, sem |-> r.sem, wg |-> r.wg]
    BY <1>1 DEF AddsUp, Job
  <2>2. /\ s.list \in Lists /\ s.done \in BOOLEAN /\ s.total \in 0..MaxURLs
        /\ s.ok \in Nat /\ s.failed \in Nat /\ s.fetching \in Nat /\ s.recorded \in Nat
        /\ s.released \in Nat
    BY <2>1, AddsUpFacts
  <2>3. Tally(s)
    BY <2>1, AddsUpFacts DEF AddsUp, Tally
  <2> QED
    BY <2>1, <2>2, <2>3, CountsFit
<1>2. CASE s = [r EXCEPT !.failed = @ + 1, !.fetching = @ - 1, !.recorded = @ + 1]
  <2>1. s = [list |-> r.list, total |-> r.total, ok |-> r.ok, failed |-> r.failed + 1,
             done |-> r.done, started |-> r.started, fetching |-> r.fetching - 1,
             recorded |-> r.recorded + 1, released |-> r.released, sem |-> r.sem, wg |-> r.wg]
    BY <1>2 DEF AddsUp, Job
  <2>2. /\ s.list \in Lists /\ s.done \in BOOLEAN /\ s.total \in 0..MaxURLs
        /\ s.ok \in Nat /\ s.failed \in Nat /\ s.fetching \in Nat /\ s.recorded \in Nat
        /\ s.released \in Nat
    BY <2>1, AddsUpFacts
  <2>3. Tally(s)
    BY <2>1, AddsUpFacts DEF AddsUp, Tally
  <2> QED
    BY <2>1, <2>2, <2>3, CountsFit
<1> QED
  BY <1>1, <1>2

LEMMA GivePlaceBackAddsUp ==
  ASSUME NEW r, AddsUp(r), r.recorded > 0, NEW s,
         s = [r EXCEPT !.recorded = @ - 1, !.released = @ + 1, !.sem = @ - 1]
  PROVE  AddsUp(s)
<1>1. s = [list |-> r.list, total |-> r.total, ok |-> r.ok, failed |-> r.failed,
           done |-> r.done, started |-> r.started, fetching |-> r.fetching,
           recorded |-> r.recorded - 1, released |-> r.released + 1, sem |-> r.sem - 1,
           wg |-> r.wg]
  BY DEF AddsUp, Job
<1>2. /\ s.list \in Lists /\ s.done \in BOOLEAN /\ s.total \in 0..MaxURLs
      /\ s.ok \in Nat /\ s.failed \in Nat /\ s.fetching \in Nat /\ s.recorded \in Nat
      /\ s.released \in Nat
  BY <1>1, AddsUpFacts
<1>3. Tally(s)
  BY <1>1, AddsUpFacts DEF AddsUp, Tally
<1> QED
  BY <1>1, <1>2, <1>3, CountsFit

LEMMA FetchEndsAddsUp ==
  ASSUME NEW r, AddsUp(r), r.released > 0, NEW s,
         s = [r EXCEPT !.released = @ - 1, !.wg = @ - 1]
  PROVE  AddsUp(s)
<1>1. s = [list |-> r.list, total |-> r.total, ok |-> r.ok, failed |-> r.failed,
           done |-> r.done, started |-> r.started, fetching |-> r.fetching,
           recorded |-> r.recorded, released |-> r.released - 1, sem |-> r.sem,
           wg |-> r.wg - 1]
  BY DEF AddsUp, Job
<1>2. /\ s.list \in Lists /\ s.done \in BOOLEAN /\ s.total \in 0..MaxURLs
      /\ s.ok \in Nat /\ s.failed \in Nat /\ s.fetching \in Nat /\ s.recorded \in Nat
      /\ s.released \in Nat
  BY <1>1, AddsUpFacts
<1>3. Tally(s)
  BY <1>1, AddsUpFacts DEF AddsUp, Tally
<1> QED
  BY <1>1, <1>2, <1>3, CountsFit

LEMMA FinishCheckAddsUp ==
  ASSUME NEW r, AddsUp(r), r.started = r.total, r.wg = 0, NEW s, s = [r EXCEPT !.done = TRUE]
  PROVE  AddsUp(s)
<1>1. s = [list |-> r.list, total |-> r.total, ok |-> r.ok, failed |-> r.failed,
           done |-> TRUE, started |-> r.started, fetching |-> r.fetching,
           recorded |-> r.recorded, released |-> r.released, sem |-> r.sem, wg |-> r.wg]
  BY DEF AddsUp, Job
<1>2. /\ s.list \in Lists /\ s.done \in BOOLEAN /\ s.total \in 0..MaxURLs
      /\ s.ok \in Nat /\ s.failed \in Nat /\ s.fetching \in Nat /\ s.recorded \in Nat
      /\ s.released \in Nat
  BY <1>1, AddsUpFacts
<1>3. Tally(s)
  BY <1>1, AddsUpFacts DEF AddsUp, Tally
<1> QED
  BY <1>1, <1>2, <1>3, CountsFit

LEMMA JobsStep == ASSUME JobsInv, [Next]_vars PROVE JobsInv'
<1> USE ListAssumption DEF ListAssumption
<1>1. ASSUME NEW n \in Lists, StartCheck(n)
      PROVE  JobsInv'
  <2>1. PICK j \in Checks, total \in 0..MaxURLs : Becomes(j, NewJob(n, total))
    BY <1>1 DEF StartCheck
  <2>2. AddsUp(NewJob(n, total))
    BY <2>1 DEF AddsUp, Tally, Job, URLs, NewJob
  <2> QED
    BY <2>1, <2>2, BecomesKeeps
<1>2. ASSUME NEW j \in Checks,
             FetchURL(j) \/ RecordResult(j) \/ GivePlaceBack(j) \/ FetchEnds(j) \/ FinishCheck(j)
      PROVE  JobsInv'
  <2>1. AddsUp(jobs[j])
    BY <1>2 DEF FetchURL, RecordResult, GivePlaceBack, FetchEnds, FinishCheck, Running, JobsInv
  <2>2. CASE FetchURL(j)
    BY <2>1, <2>2, FetchURLAddsUp, BecomesKeeps DEF FetchURL, Running
  <2>3. CASE RecordResult(j)
    BY <2>1, <2>3, RecordResultAddsUp, BecomesKeeps DEF RecordResult
  <2>4. CASE GivePlaceBack(j)
    BY <2>1, <2>4, GivePlaceBackAddsUp, BecomesKeeps DEF GivePlaceBack
  <2>5. CASE FetchEnds(j)
    BY <2>1, <2>5, FetchEndsAddsUp, BecomesKeeps DEF FetchEnds
  <2>6. CASE FinishCheck(j)
    BY <2>1, <2>6, FinishCheckAddsUp, BecomesKeeps DEF FinishCheck
  <2> QED
    BY <1>2, <2>2, <2>3, <2>4, <2>5, <2>6
<1>3. CASE Restart
  BY <1>3 DEF Restart, JobsInv
<1>4. CASE UNCHANGED jobs
  BY <1>4 DEF JobsInv
<1>5. \/ \E n \in Lists : StartCheck(n)
      \/ \E j \in Checks :
           FetchURL(j) \/ RecordResult(j) \/ GivePlaceBack(j) \/ FetchEnds(j) \/ FinishCheck(j)
      \/ Restart
      \/ UNCHANGED jobs
  BY DEF Next, vars, work, SaveInMemory, SaveOpens, SaveWrites, SaveFails, Reset
<1> QED
  BY <1>1, <1>2, <1>3, <1>4, <1>5

-----------------------------------------------------------------------------
(* The theorems.                                                              *)

LEMMA Invariant == Safety => []Inv
<1>1. Init => Inv
  <2> SUFFICES ASSUME Init PROVE Inv
    OBVIOUS
  <2>1. ListsOK
    BY ListAssumption DEF Init, ListsOK, Loaded, ListAssumption
  <2>2. FilesAgree
    BY DEF Init, FilesAgree
  <2>3. JobsInv
    BY DEF Init, JobsInv
  <2> QED
    BY <2>1, <2>2, <2>3 DEF Inv
<1>2. Inv /\ [Next]_vars => Inv'
  BY ListsStep, FilesAgreeStep, JobsStep DEF Inv
<1> QED
  BY <1>1, <1>2, PTL DEF Safety

(* Every variable keeps its type; no check counts more than a list can hold.  *)
THEOREM TypeCorrect == Safety => []TypeOK
<1>1. Inv => TypeOK
  BY DEF Inv, ListsOK, JobsInv, AddsUp, TypeOK
<1> QED
  BY <1>1, Invariant, PTL

(* A restart brings back every list as it is served, however saves, resets    *)
(* and restarts follow each other, unless a write of its file broke off.      *)
THEOREM ListsAlwaysSurvive == Safety => []ListsSurvive
<1>1. Inv => ListsSurvive
  BY DEF Inv, FilesAgree, ListsSurvive
<1> QED
  BY <1>1, Invariant, PTL

(* A check that says it is done has a result for every URL, and never more    *)
(* fetches run than it may make, for any number of places, URLs and checks    *)
(* that run beside each other; from what the places and the WaitGroup count.  *)
THEOREM ChecksAlwaysAddUp == Safety => []ChecksAddUp
<1>1. ASSUME JobsInv PROVE ChecksAddUp
  <2> SUFFICES ASSUME NEW j \in DOMAIN jobs
               PROVE  /\ jobs[j].fetching <= CheckWorkers
                      /\ jobs[j].done => /\ jobs[j].fetching = 0
                                         /\ jobs[j].ok + jobs[j].failed = jobs[j].total
    BY DEF ChecksAddUp
  <2> DEFINE r == jobs[j]
  <2>1. AddsUp(r)
    BY <1>1 DEF JobsInv
  <2>2. /\ r.total \in Nat /\ r.ok \in Nat /\ r.failed \in Nat /\ r.started \in Nat
        /\ r.fetching \in Nat /\ r.recorded \in Nat /\ r.released \in Nat
        /\ r.sem \in Nat /\ r.wg \in Nat /\ CheckWorkers \in Nat
    BY <2>1, ListAssumption DEF AddsUp, Job, URLs, ListAssumption
  <2> HIDE DEF r
  <2>3. r.fetching <= CheckWorkers
    BY <2>1, <2>2 DEF AddsUp, Tally
  <2>4. ASSUME r.done PROVE r.fetching = 0 /\ r.ok + r.failed = r.total
    <3>1. r.started = r.total /\ r.wg = 0
      BY <2>1, <2>4 DEF AddsUp, Tally
    <3>2. r.wg = r.fetching + r.recorded + r.released /\ r.started = r.fetching + r.ok + r.failed
      BY <2>1 DEF AddsUp, Tally
    <3> QED
      BY <2>2, <3>1, <3>2
  <2> QED
    BY <2>3, <2>4 DEF r
<1>2. Inv => ChecksAddUp
  BY <1>1 DEF Inv
<1> QED
  BY <1>2, Invariant, PTL
=============================================================================
