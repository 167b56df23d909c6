------------------------------ MODULE ListStore ------------------------------
(* The server's URL lists and their checks (internal/server/lists.go).        *)
(*                                                                            *)
(* Lists live in memory and, when the server has a data directory, in one     *)
(* file each, which a restart loads on top of the shipped lists.  Save, Reset *)
(* and StartCheck are critical sections of s.mu; the two steps of a Save show *)
(* because the process may die between them.  A check runs in goroutines of   *)
(* its own and takes the lock for each result; the goroutines of its fetches  *)
(* are alike, so how many are at each of their steps tells where they are.    *)
(* A text is what a Save was given after its validation, which rejects        *)
(* without a trace.                                                           *)
EXTENDS Integers, FiniteSets

CONSTANTS Lists,         \* names of lists
          Texts,         \* texts that can be saved
          CheckWorkers,  \* URLs a check fetches at once (8 in the code)
          MaxURLs,       \* bound: URLs in a list
          MaxSaves,      \* bound: saves and resets begun in a behaviour
          MaxChecks,     \* bound: checks started in a behaviour
          MaxCrashes     \* bound: restarts in a behaviour

ASSUME ListAssumption ==
  /\ {"none", "shipped", "short"} \cap Texts = {}
  /\ {CheckWorkers, MaxURLs, MaxSaves, MaxChecks, MaxCrashes} \subseteq Nat

Absent  == "none"     \* no such list; no file of it
Shipped == "shipped"  \* the text a bundled list comes with
Short   == "short"    \* what a write that broke off has left in a file
NoCheck == 0
Checks  == 1..MaxChecks
NoSave  == [list |-> Absent, text |-> Absent]

VARIABLES
  bundled,   \* the lists that are shipped with the server
  durable,   \* whether the server has a data directory (s.dir # "")
  texts,     \* s.texts
  files,     \* what <name>.txt holds
  saving,    \* the Save that is inside WriteFile and holds s.mu, or NoSave
  changes,   \* saves and resets begun so far
  checks,    \* s.checks: the check listed for each list, or NoCheck
  jobs,      \* the checks started by this process, by number
  crashes    \* restarts so far

disk == <<bundled, durable, files>>
work == <<checks, jobs>>
vars == <<disk, texts, saving, changes, work, crashes>>

URLs == 0..MaxURLs

\* A CheckJob (its list, URLs, results by kind, whether it is done) with its
\* runCheck: URLs begun, fetches that are under way, that have recorded their
\* result, and that have given their place back; places taken (sem), and the
\* WaitGroup (wg).
Job == [list : Lists, total : URLs, ok : URLs, failed : URLs, done : BOOLEAN,
        started : URLs, fetching : URLs, recorded : URLs, released : URLs,
        sem : URLs, wg : URLs]

TypeOK ==
  /\ bundled \in SUBSET Lists
  /\ durable \in BOOLEAN
  /\ texts \in [Lists -> Texts \cup {Absent, Shipped, Short}]
  /\ files \in [Lists -> Texts \cup {Absent, Short}]
  /\ saving \in [list : Lists, text : Texts] \cup {NoSave}
  /\ changes \in 0..MaxSaves
  /\ checks \in [Lists -> Checks \cup {NoCheck}]
  /\ DOMAIN jobs \in SUBSET Checks /\ \A j \in DOMAIN jobs : jobs[j] \in Job
  /\ crashes \in 0..MaxCrashes

(* NewListStore: the shipped lists with the saved ones on top.                *)
Loaded(n) ==
  IF durable /\ files[n] # Absent THEN files[n]
  ELSE IF n \in bundled THEN Shipped
  ELSE Absent

Init ==
  /\ bundled \in SUBSET Lists
  /\ durable \in BOOLEAN
  /\ files = [n \in Lists |-> Absent]
  /\ texts = [n \in Lists |-> Loaded(n)]
  /\ saving = NoSave
  /\ changes = 0
  /\ checks = [n \in Lists |-> NoCheck]
  /\ jobs = << >>
  /\ crashes = 0

Unlocked == saving = NoSave

-----------------------------------------------------------------------------
(* Save and Reset.                                                            *)

(* A server without a data directory keeps the text in memory only.           *)
SaveInMemory(n, t) ==
  /\ Unlocked /\ ~durable
  /\ changes < MaxSaves
  /\ changes' = changes + 1
  /\ texts' = [texts EXCEPT ![n] = t]
  /\ UNCHANGED <<disk, saving, work, crashes>>

(* WriteFile opens the file, which empties it.                                *)
SaveOpens(n, t) ==
  /\ Unlocked /\ durable
  /\ changes < MaxSaves
  /\ changes' = changes + 1
  /\ files' = [files EXCEPT ![n] = Short]
  /\ saving' = [list |-> n, text |-> t]
  /\ UNCHANGED <<bundled, durable, texts, work, crashes>>

SaveWrites ==
  /\ ~Unlocked
  /\ files' = [files EXCEPT ![saving.list] = saving.text]
  /\ texts' = [texts EXCEPT ![saving.list] = saving.text]
  /\ saving' = NoSave
  /\ UNCHANGED <<bundled, durable, changes, work, crashes>>

(* The write breaks off: Save returns the error, and the file stays as it is. *)
SaveFails ==
  /\ ~Unlocked
  /\ saving' = NoSave
  /\ UNCHANGED <<disk, texts, changes, work, crashes>>

(* Reset, if it went on after a file it could not remove.                     *)
ResetRegardless(n) ==
  /\ Unlocked
  /\ texts[n] # Absent
  /\ changes < MaxSaves
  /\ changes' = changes + 1
  /\ files' \in {files, [files EXCEPT ![n] = Absent]}
  /\ checks' = [checks EXCEPT ![n] = NoCheck]
  /\ texts' = [texts EXCEPT ![n] = IF n \in bundled THEN Shipped ELSE Absent]
  /\ UNCHANGED <<bundled, durable, saving, jobs, crashes>>

(* Reset removes the file (when that fails it changes nothing), forgets the   *)
(* list's check, running or not, and restores or deletes the text.            *)
Reset(n) ==
  /\ Unlocked
  /\ texts[n] # Absent
  /\ changes < MaxSaves
  /\ changes' = changes + 1
  /\ files' = [files EXCEPT ![n] = Absent]
  /\ checks' = [checks EXCEPT ![n] = NoCheck]
  /\ texts' = [texts EXCEPT ![n] = IF n \in bundled THEN Shipped ELSE Absent]
  /\ UNCHANGED <<bundled, durable, saving, jobs, crashes>>

-----------------------------------------------------------------------------
(* Checks.                                                                    *)

Running(j) == j \in DOMAIN jobs /\ ~jobs[j].done

\* Job j becomes job r.
Becomes(j, r) == jobs' = [i \in DOMAIN jobs \cup {j} |-> IF i = j THEN r ELSE jobs[i]]

NewJob(n, total) ==
  [list |-> n, total |-> total, ok |-> 0, failed |-> 0, done |-> FALSE,
   started |-> 0, fetching |-> 0, recorded |-> 0, released |-> 0, sem |-> 0, wg |-> 0]

(* StartCheck: a check of the list that runs is returned, and nothing changes *)
(* then; otherwise a new one is listed and its goroutine started.             *)
StartCheck(n) ==
  /\ Unlocked
  /\ texts[n] # Absent
  /\ ~Running(checks[n])
  /\ \E j \in Checks \ DOMAIN jobs, total \in 0..MaxURLs :
       /\ \A i \in Checks : i < j => i \in DOMAIN jobs
       /\ Becomes(j, NewJob(n, total))
       /\ checks' = [checks EXCEPT ![n] = j]
  /\ UNCHANGED <<disk, texts, saving, changes, crashes>>

(* FetchURL, if the list were walked one URL too far.                         *)
FetchURLOffByOne(j) ==
  /\ Running(j)
  /\ jobs[j].started <= jobs[j].total
  /\ jobs[j].sem < CheckWorkers
  /\ Becomes(j, [jobs[j] EXCEPT !.started = @ + 1, !.fetching = @ + 1, !.sem = @ + 1, !.wg = @ + 1])
  /\ UNCHANGED <<disk, texts, saving, changes, checks, crashes>>

(* runCheck counts the next URL in the WaitGroup, waits for a place and       *)
(* starts the goroutine that fetches it.                                      *)
FetchURL(j) ==
  /\ Running(j)
  /\ jobs[j].started < jobs[j].total
  /\ jobs[j].sem < CheckWorkers
  /\ Becomes(j, [jobs[j] EXCEPT !.started = @ + 1, !.fetching = @ + 1, !.sem = @ + 1, !.wg = @ + 1])
  /\ UNCHANGED <<disk, texts, saving, changes, checks, crashes>>

(* A fetch is over; its result is recorded under the lock.                    *)
RecordResult(j) ==
  /\ Unlocked
  /\ j \in DOMAIN jobs
  /\ jobs[j].fetching > 0
  /\ \/ Becomes(j, [jobs[j] EXCEPT !.ok = @ + 1, !.fetching = @ - 1, !.recorded = @ + 1])
     \/ Becomes(j, [jobs[j] EXCEPT !.failed = @ + 1, !.fetching = @ - 1, !.recorded = @ + 1])
  /\ UNCHANGED <<disk, texts, saving, changes, checks, crashes>>

(* GivePlaceBack, if the goroutine kept its place.                            *)
KeepPlace(j) ==
  /\ j \in DOMAIN jobs
  /\ jobs[j].recorded > 0
  /\ Becomes(j, [jobs[j] EXCEPT !.recorded = @ - 1, !.released = @ + 1])
  /\ UNCHANGED <<disk, texts, saving, changes, checks, crashes>>

(* The deferred calls of its goroutine: the place is given back, and then the *)
(* WaitGroup is told.                                                         *)
GivePlaceBack(j) ==
  /\ j \in DOMAIN jobs
  /\ jobs[j].recorded > 0
  /\ Becomes(j, [jobs[j] EXCEPT !.recorded = @ - 1, !.released = @ + 1, !.sem = @ - 1])
  /\ UNCHANGED <<disk, texts, saving, changes, checks, crashes>>

(* FetchEnds, if the WaitGroup were told by a goroutine at any of its steps.  *)
FetchEndsEarly(j) ==
  /\ j \in DOMAIN jobs
  /\ jobs[j].wg > 0
  /\ Becomes(j, [jobs[j] EXCEPT !.wg = @ - 1])
  /\ UNCHANGED <<disk, texts, saving, changes, checks, crashes>>

FetchEnds(j) ==
  /\ j \in DOMAIN jobs
  /\ jobs[j].released > 0
  /\ Becomes(j, [jobs[j] EXCEPT !.released = @ - 1, !.wg = @ - 1])
  /\ UNCHANGED <<disk, texts, saving, changes, checks, crashes>>

(* runCheck has been through the list, and wg.Wait returns: the check is done.*)
FinishCheck(j) ==
  /\ Unlocked
  /\ Running(j)
  /\ jobs[j].started = jobs[j].total
  /\ jobs[j].wg = 0
  /\ Becomes(j, [jobs[j] EXCEPT !.done = TRUE])
  /\ UNCHANGED <<disk, texts, saving, changes, checks, crashes>>

-----------------------------------------------------------------------------
(* The server stops and starts again.  What is in memory is gone, checks and  *)
(* all, and a write under way has broken off.  Besides being stopped it may   *)
(* die by StartCheck, which copies its job outside the lock: the runtime ends *)
(* a process that writes a map, with a first result, while it is read.        *)
Restart ==
  /\ crashes < MaxCrashes
  /\ crashes' = crashes + 1
  /\ texts' = [n \in Lists |-> Loaded(n)]
  /\ saving' = NoSave
  /\ checks' = [n \in Lists |-> NoCheck]
  /\ jobs' = << >>
  /\ UNCHANGED <<disk, changes>>

Next ==
  \/ \E n \in Lists, t \in Texts : SaveInMemory(n, t) \/ SaveOpens(n, t)
  \/ SaveWrites \/ SaveFails
  \/ \E n \in Lists : Reset(n) \/ StartCheck(n)
  \/ \E j \in Checks :
       FetchURL(j) \/ RecordResult(j) \/ GivePlaceBack(j) \/ FetchEnds(j) \/ FinishCheck(j)
  \/ Restart

Safety == Init /\ [][Next]_vars

(* The scheduler runs a Save and the goroutines of a check; a fetch ends by   *)
(* its timeout of 15 seconds at the latest.                                   *)
Fairness ==
  /\ WF_vars(SaveWrites \/ SaveFails)
  /\ \A j \in Checks :
       /\ WF_vars(FetchURL(j))
       /\ SF_vars(RecordResult(j))
       /\ WF_vars(GivePlaceBack(j))
       /\ WF_vars(FetchEnds(j))
       /\ SF_vars(FinishCheck(j))

Spec == Safety /\ Fairness

-----------------------------------------------------------------------------
(* Properties.                                                                *)

(* A restart brings back every list as it is served, edits and deletions      *)
(* included ("saved under dir as <name>.txt so they survive a restart"),      *)
(* unless a write of that list's file has broken off.                         *)
ListsSurvive ==
  Unlocked /\ durable =>
    \A n \in Lists : texts[n] = Loaded(n) \/ files[n] = Short

(* No more fetches of a check are under way than it may make at once, and a   *)
(* check that says it is done has a result for every URL: wg.Wait has waited  *)
(* for each fetch to be recorded.                                             *)
ChecksAddUp ==
  \A j \in DOMAIN jobs :
    /\ jobs[j].fetching <= CheckWorkers
    /\ jobs[j].done => jobs[j].fetching = 0 /\ jobs[j].ok + jobs[j].failed = jobs[j].total

(* Every check comes to its end or ends with the process, one that a Reset    *)
(* took off the list included.                                                *)
ChecksEnd == \A j \in Checks : []<>~Running(j)
=============================================================================
