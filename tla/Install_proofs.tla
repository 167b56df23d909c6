---------------------------- MODULE Install_proofs ----------------------------
(* Theorems about installation, for any number of runs that fail or are       *)
(* interrupted anywhere.                                                      *)
EXTENDS Install, TLAPS

LEMMA RunsAreRuns == Runs \subseteq Nat /\ None \notin Runs /\ Partial \notin Runs
BY DEF Runs, None, Partial

(* The steps of a run of install before its Register, and those that the      *)
(* executable has to be in place for.                                         *)
Replacing == {"copy", "copying", "rename", "config", "writing", "register"}
Installing == Replacing \cup {"probe", "stop", "remove", "start"}

(* What a run has done by the time it is at each of its steps.                *)
RunInv ==
  /\ pc \in Installing => run \in Runs /\ (inPlace => binary \in Runs)
  /\ pc \in Replacing => service = None \/ blind
  /\ pc = "rename" => tmp = run
  /\ pc \in {"config", "writing", "register"} => binary \in Runs
  /\ pc = "register" => config = run

Inv == TypeOK /\ RunInv /\ RegisteredIsComplete

(* The types, those of the Boolean variables apart.                           *)
Flags ==
  /\ inPlace \in BOOLEAN /\ clean \in BOOLEAN /\ wanted \in BOOLEAN
  /\ blind \in BOOLEAN /\ unstopped \in BOOLEAN

Data ==
  /\ pc \in {"idle", "probe", "stop", "remove", "copy", "copying", "rename", "config",
             "writing", "register", "start", "uninstall stop", "uninstall remove"}
  /\ run \in 0..MaxRuns
  /\ outcome \in {"none", "installed", "removed", "failed", "interrupted"}
  /\ tmp \in {None, Partial} \cup Runs
  /\ binary \in {None} \cup Runs
  /\ config \in {None, Partial} \cup Runs
  /\ service \in {None} \cup Runs
  /\ agent \in Agent \cup {NoAgent}
  /\ strays \subseteq Agent

LEMMA DataStep == ASSUME Inv, [Next]_vars PROVE Data'
<1> USE RunsAreRuns DEF Data
<1>0. Data /\ RunInv
  BY DEF Inv, TypeOK, Data, Flags
<1>a. UNCHANGED <<pc, run, outcome, tmp, binary, config, service, strays>> /\ agent' \in {agent, NoAgent}
      => Data'
  BY <1>0
<1>1. ASSUME NEW here \in BOOLEAN, InstallBegins(here)
      PROVE  Data'
  <2>1. run' \in 0..MaxRuns
    BY <1>0, <1>1, MaxRunsAssumption DEF InstallBegins, MaxRunsAssumption
  <2> QED
    BY <1>0, <1>1, <2>1 DEF InstallBegins, files, manager, history
<1>2. CASE Probe
  BY <1>0, <1>2 DEF Probe, GoTo, Stumble, files, manager
<1>3. ASSUME NEW from, NEW to \in {"remove", "uninstall remove"}, StopService(from, to)
      PROVE  Data'
  BY <1>0, <1>3 DEF StopService, GoTo, Stumble, files
<1>4. CASE RemoveService
  <2>1. CASE GoTo("copy") /\ Unregister
    BY <1>0, <2>1 DEF GoTo, Unregister, files
  <2>2. CASE Fail /\ UNCHANGED <<files, manager, history>>
    BY <1>0, <2>2 DEF Fail, files, manager, history
  <2> QED
    BY <1>4, <2>1, <2>2 DEF RemoveService
<1>5. CASE CopyBegins
  BY <1>0, <1>5 DEF CopyBegins, GoTo, Fail, manager, history
<1>6. CASE Copying
  <2>1. run \in Runs
    BY <1>0, <1>6 DEF Copying, RunInv, Installing, Replacing
  <2> QED
    BY <1>0, <1>6, <2>1 DEF Copying, GoTo, Fail, manager, history
<1>7. CASE Rename
  <2>1. run \in Runs /\ tmp = run
    BY <1>0, <1>7 DEF Rename, RunInv, Installing, Replacing
  <2> QED
    BY <1>0, <1>7, <2>1 DEF Rename, GoTo, Fail, manager, history
<1>8. CASE ConfigBegins
  BY <1>0, <1>8 DEF ConfigBegins, GoTo, Fail, manager, history
<1>9. CASE ConfigWritten
  <2>1. run \in Runs
    BY <1>0, <1>9 DEF ConfigWritten, RunInv, Installing, Replacing
  <2> QED
    BY <1>0, <1>9, <2>1 DEF ConfigWritten, GoTo, Fail, manager, history
<1>10. CASE Register
  <2>1. run \in Runs
    BY <1>0, <1>10 DEF Register, RunInv, Installing, Replacing
  <2> QED
    BY <1>0, <1>10, <2>1 DEF Register, GoTo, Return, Fail, files, history
<1>11. CASE StartService
  BY <1>0, <1>11 DEF StartService, Return, files, history
<1>12. CASE UninstallBegins
  BY <1>0, <1>12 DEF UninstallBegins, files, manager, history
<1>13. CASE UninstallRemoves
  <2>1. CASE Return("removed") /\ Unregister
    BY <1>0, <2>1 DEF Return, Unregister, files
  <2>2. CASE Fail /\ UNCHANGED <<files, manager, history>>
    BY <1>0, <2>2 DEF Fail, files, manager, history
  <2> QED
    BY <1>13, <2>1, <2>2 DEF UninstallRemoves
<1>14. CASE Control
  BY <1>0, <1>14 DEF Control, command, files, history
<1>15. CASE Interrupt
  BY <1>0, <1>15 DEF Interrupt, files, manager, history
<1>16. CASE ServiceStarts
  BY <1>0, <1>16 DEF ServiceStarts, command, files, history, Agent
<1>17. CASE AgentDies
  BY <1>a, <1>17 DEF AgentDies, command, files, history
<1>18. CASE Reboot
  BY <1>0, <1>18 DEF Reboot, files
<1>19. CASE UNCHANGED vars
  BY <1>a, <1>19 DEF vars, command, files, manager, history
<1> QED
  BY <1>1, <1>2, <1>3, <1>4, <1>5, <1>6, <1>7, <1>8, <1>9, <1>10, <1>11, <1>12,
     <1>13, <1>14, <1>15, <1>16, <1>17, <1>18, <1>19 DEF Next, Command, Device

LEMMA FlagStep == ASSUME Inv, [Next]_vars PROVE Flags'
<1> USE DEF Flags
<1>0. Flags
  BY DEF Inv, TypeOK, Data, Flags
<1>1. ASSUME NEW here \in BOOLEAN, InstallBegins(here)
      PROVE  Flags'
  BY <1>0, <1>1 DEF InstallBegins, files, manager, history
<1>2. CASE Probe
  BY <1>0, <1>2 DEF Probe, GoTo, Stumble, files, manager
<1>3. ASSUME NEW from, NEW to \in {"remove", "uninstall remove"}, StopService(from, to)
      PROVE  Flags'
  BY <1>0, <1>3 DEF StopService, GoTo, Stumble, files
<1>4. CASE RemoveService
  <2>1. CASE GoTo("copy") /\ Unregister
    BY <1>0, <2>1 DEF GoTo, Unregister, files
  <2>2. CASE Fail /\ UNCHANGED <<files, manager, history>>
    BY <1>0, <2>2 DEF Fail, files, manager, history
  <2> QED
    BY <1>4, <2>1, <2>2 DEF RemoveService
<1>5. CASE CopyBegins
  BY <1>0, <1>5 DEF CopyBegins, GoTo, Fail, manager, history
<1>6. CASE Copying
  BY <1>0, <1>6 DEF Copying, GoTo, Fail, manager, history
<1>7. CASE Rename
  BY <1>0, <1>7 DEF Rename, GoTo, Fail, manager, history
<1>8. CASE ConfigBegins
  BY <1>0, <1>8 DEF ConfigBegins, GoTo, Fail, manager, history
<1>9. CASE ConfigWritten
  BY <1>0, <1>9 DEF ConfigWritten, GoTo, Fail, manager, history
<1>10. CASE Register
  BY <1>0, <1>10 DEF Register, GoTo, Return, Fail, files, history
<1>11. CASE StartService
  BY <1>0, <1>11 DEF StartService, Return, files, history
<1>12. CASE UninstallBegins
  BY <1>0, <1>12 DEF UninstallBegins, files, manager, history
<1>13. CASE UninstallRemoves
  <2>1. CASE Return("removed") /\ Unregister
    BY <1>0, <2>1 DEF Return, Unregister, files
  <2>2. CASE Fail /\ UNCHANGED <<files, manager, history>>
    BY <1>0, <2>2 DEF Fail, files, manager, history
  <2> QED
    BY <1>13, <2>1, <2>2 DEF UninstallRemoves
<1>14. CASE Control
  BY <1>0, <1>14 DEF Control, command, files, history
<1>15. CASE Interrupt
  BY <1>0, <1>15 DEF Interrupt, files, manager, history
<1>16. CASE ServiceStarts
  BY <1>0, <1>16 DEF ServiceStarts, command, files, history
<1>17. CASE AgentDies
  BY <1>0, <1>17 DEF AgentDies, command, files, history
<1>18. CASE Reboot
  BY <1>0, <1>18 DEF Reboot, files
<1>19. CASE UNCHANGED vars
  BY <1>0, <1>19 DEF vars, command, files, manager, history
<1> QED
  BY <1>1, <1>2, <1>3, <1>4, <1>5, <1>6, <1>7, <1>8, <1>9, <1>10, <1>11, <1>12,
     <1>13, <1>14, <1>15, <1>16, <1>17, <1>18, <1>19 DEF Next, Command, Device

LEMMA RunStep == ASSUME Inv, [Next]_vars PROVE RunInv' /\ RegisteredIsComplete'
<1> USE RunsAreRuns DEF RunInv, RegisteredIsComplete, Installing, Replacing
<1>0. /\ RunInv /\ RegisteredIsComplete
      /\ binary \in {None} \cup Runs
  BY DEF Inv, TypeOK
<1>1. ASSUME NEW here \in BOOLEAN, InstallBegins(here)
      PROVE  RunInv' /\ RegisteredIsComplete'
  <2>1. run' \in Runs
    BY <1>1, MaxRunsAssumption DEF Inv, TypeOK, InstallBegins, Runs, MaxRunsAssumption
  <2> QED
    BY <1>0, <1>1, <2>1 DEF InstallBegins, files, manager, history
<1>2. CASE Probe
  BY <1>0, <1>2 DEF Probe, GoTo, Stumble, files, manager
<1>3. CASE StopService("stop", "remove") \/ StopService("uninstall stop", "uninstall remove")
  <2>1. pc \in {"stop", "uninstall stop"} /\ pc' \in {"remove", "uninstall remove"}
    BY <1>3 DEF StopService, GoTo, Stumble
  <2>2. pc' = "remove" => pc = "stop"
    BY <1>3 DEF StopService, GoTo, Stumble
  <2>3. UNCHANGED <<run, inPlace, binary, config, service, blind>>
    BY <1>3 DEF StopService, GoTo, Stumble, files
  <2> QED
    BY <1>0, <2>1, <2>2, <2>3
<1>4. CASE RemoveService
  <2>1. CASE GoTo("copy") /\ Unregister
    BY <1>0, <1>4, <2>1 DEF RemoveService, GoTo, Unregister, files
  <2>2. CASE Fail /\ UNCHANGED <<files, manager, history>>
    BY <1>0, <2>2 DEF Fail, files, manager, history
  <2> QED
    BY <1>4, <2>1, <2>2 DEF RemoveService
<1>5. CASE CopyBegins
  BY <1>0, <1>5 DEF CopyBegins, GoTo, Fail, manager, history
<1>6. CASE Copying
  BY <1>0, <1>6 DEF Copying, GoTo, Fail, manager, history
<1>7. CASE Rename
  BY <1>0, <1>7 DEF Rename, GoTo, Fail, manager, history
<1>8. CASE ConfigBegins
  BY <1>0, <1>8 DEF ConfigBegins, GoTo, Fail, manager, history
<1>9. CASE ConfigWritten
  BY <1>0, <1>9 DEF ConfigWritten, GoTo, Fail, manager, history
<1>10. CASE Register
  BY <1>0, <1>10 DEF Register, GoTo, Return, Fail, files, history
<1>11. CASE StartService
  BY <1>0, <1>11 DEF StartService, Return, files, history
<1>12. CASE UninstallBegins
  BY <1>0, <1>12 DEF UninstallBegins, files, manager, history
<1>13. CASE UninstallRemoves
  <2>1. CASE Return("removed") /\ Unregister
    BY <1>0, <2>1 DEF Return, Unregister, files
  <2>2. CASE Fail /\ UNCHANGED <<files, manager, history>>
    BY <1>0, <2>2 DEF Fail, files, manager, history
  <2> QED
    BY <1>13, <2>1, <2>2 DEF UninstallRemoves
<1>14. CASE Control
  BY <1>0, <1>14 DEF Control, command, files, history
<1>15. CASE Interrupt
  BY <1>0, <1>15 DEF Interrupt, files, manager, history
<1>16. CASE ServiceStarts
  BY <1>0, <1>16 DEF ServiceStarts, command, files, history
<1>17. CASE AgentDies
  BY <1>0, <1>17 DEF AgentDies, command, files, history
<1>18. CASE Reboot
  BY <1>0, <1>18 DEF Reboot, files
<1>19. CASE UNCHANGED vars
  BY <1>0, <1>19 DEF vars, command, files, manager, history
<1> QED
  BY <1>1, <1>2, <1>3, <1>4, <1>5, <1>6, <1>7, <1>8, <1>9, <1>10, <1>11, <1>12,
     <1>13, <1>14, <1>15, <1>16, <1>17, <1>18, <1>19 DEF Next, Command, Device

LEMMA Invariant == Spec => []Inv
<1>1. Init => Inv
  <2>1. Init => Data
    BY MaxRunsAssumption DEF Init, Data, MaxRunsAssumption
  <2>2. Init => Flags
    BY DEF Init, Flags
  <2>3. Init => RunInv /\ RegisteredIsComplete
    BY DEF Init, RunInv, RegisteredIsComplete, Installing, Replacing
  <2> QED
    BY <2>1, <2>2, <2>3 DEF Inv, TypeOK, Data, Flags
<1>2. Inv /\ [Next]_vars => Inv'
  <2>1. (Data /\ Flags)' => TypeOK'
    BY DEF Data, Flags, TypeOK
  <2> QED
    BY <2>1, DataStep, FlagStep, RunStep DEF Inv
<1> QED
  BY <1>1, <1>2, PTL DEF Spec

(* Every variable keeps its type; the executable at installPath() is never    *)
(* one that was begun and not finished.                                       *)
THEOREM TypeCorrect == Spec => []TypeOK
<1>1. Inv => TypeOK
  BY DEF Inv
<1> QED
  BY <1>1, Invariant, PTL

(* A registered service finds a whole executable and its own configuration,   *)
(* unless an install ran past it without seeing it.                           *)
THEOREM RegisteredAlwaysComplete == Spec => []RegisteredIsComplete
<1>1. Inv => RegisteredIsComplete
  BY DEF Inv
<1> QED
  BY <1>1, Invariant, PTL

-----------------------------------------------------------------------------
(* Strays.  Between the step that stops a service and the one that removes    *)
(* it the service manager has no agent to forget, or the stop failed.         *)
StrayInv ==
  /\ OneAgentPerDevice
  /\ pc \in {"remove", "uninstall remove"} => unstopped \/ (agent = NoAgent /\ ~wanted)

LEMMA StrayStep == ASSUME TypeOK, StrayInv, [Next]_vars PROVE StrayInv'
<1> USE DEF TypeOK, StrayInv, OneAgentPerDevice
<1>1. ASSUME Command
      PROVE  StrayInv'
  <2>1. CASE RemoveService
    BY <2>1 DEF RemoveService, Unregister, GoTo, Fail, manager, history
  <2>2. CASE UninstallRemoves
    BY <2>2 DEF UninstallRemoves, Unregister, Return, Fail, manager, history
  <2>3. CASE StopService("stop", "remove") \/ StopService("uninstall stop", "uninstall remove")
    BY <2>3 DEF StopService, GoTo, Stumble
  <2>4. CASE \/ \E here \in BOOLEAN : InstallBegins(here)
             \/ Probe \/ CopyBegins \/ Copying \/ Rename \/ ConfigBegins \/ ConfigWritten
             \/ Register \/ StartService \/ UninstallBegins \/ Control
    BY <2>4 DEF InstallBegins, Probe, CopyBegins, Copying, Rename, ConfigBegins,
                ConfigWritten, Register, StartService, UninstallBegins, Control,
                GoTo, Stumble, Return, Fail, command, manager, history
  <2> QED
    BY <1>1, <2>1, <2>2, <2>3, <2>4 DEF Command
<1>2. CASE Device
  BY <1>2 DEF Device, Interrupt, ServiceStarts, AgentDies, Reboot, command, manager, history
<1>3. CASE UNCHANGED vars
  BY <1>3 DEF vars, command, manager, history
<1> QED
  BY <1>1, <1>2, <1>3 DEF Next

(* No agent goes on running outside the service manager, unless a service     *)
(* could not be stopped.                                                      *)
THEOREM OneAgentAlways == Spec => []OneAgentPerDevice
<1>1. Init => StrayInv
  BY DEF Init, StrayInv, OneAgentPerDevice
<1>2. TypeOK /\ StrayInv /\ [Next]_vars => StrayInv'
  BY StrayStep
<1>3. StrayInv => OneAgentPerDevice
  BY DEF StrayInv
<1> QED
  BY <1>1, <1>2, <1>3, TypeCorrect, PTL DEF Spec

-----------------------------------------------------------------------------
(* What a run that has met no failure has done by each of its steps.          *)
CleanInv ==
  clean =>
    /\ pc \in Replacing => service = None
    /\ pc \in {"config", "writing", "register", "start"} => binary = run \/ inPlace
    /\ pc = "start" => service = run /\ config = run

LEMMA CleanStep == ASSUME Inv, CleanInv, [Next]_vars PROVE CleanInv'
<1> USE DEF CleanInv, Replacing
<1>0. RunInv
  BY DEF Inv
<1>1. ASSUME ~clean'
      PROVE  CleanInv'
  BY <1>1
<1>2. ASSUME NEW here \in BOOLEAN, InstallBegins(here)
      PROVE  CleanInv'
  BY <1>2 DEF InstallBegins
<1>3. CASE Probe
  BY <1>1, <1>3 DEF Probe, GoTo, Stumble, files, manager
<1>4. ASSUME NEW from, NEW to \in {"remove", "uninstall remove"}, StopService(from, to)
      PROVE  CleanInv'
  BY <1>1, <1>4 DEF StopService, GoTo, Stumble
<1>5. CASE RemoveService
  BY <1>1, <1>5 DEF RemoveService, GoTo, Fail, Unregister
<1>6. CASE CopyBegins
  BY <1>1, <1>6 DEF CopyBegins, GoTo, Fail, manager
<1>7. CASE Copying
  BY <1>1, <1>7 DEF Copying, GoTo, Fail, manager
<1>8. CASE Rename
  BY <1>0, <1>1, <1>8 DEF Rename, GoTo, Fail, manager, RunInv
<1>9. CASE ConfigBegins
  BY <1>1, <1>9 DEF ConfigBegins, GoTo, Fail, manager
<1>10. CASE ConfigWritten
  BY <1>1, <1>10 DEF ConfigWritten, GoTo, Fail, manager
<1>11. CASE Register
  BY <1>0, <1>1, <1>11 DEF Register, GoTo, Fail, Return, files, RunInv
<1>12. CASE StartService \/ UninstallBegins
  BY <1>12 DEF StartService, UninstallBegins, Return
<1>13. CASE UninstallRemoves
  BY <1>13 DEF UninstallRemoves, Return, Fail
<1>14. CASE Control
  BY <1>14 DEF Control, command
<1>15. CASE Device
  <2>1. CASE Interrupt \/ Reboot
    BY <2>1 DEF Interrupt, Reboot
  <2>2. CASE ServiceStarts \/ AgentDies
    BY <2>2 DEF ServiceStarts, AgentDies, command, files
  <2> QED
    BY <1>15, <2>1, <2>2 DEF Device
<1>16. CASE UNCHANGED vars
  BY <1>16 DEF vars, command, files, manager
<1> QED
  BY <1>2, <1>3, <1>4, <1>5, <1>6, <1>7, <1>8, <1>9, <1>10, <1>11, <1>12, <1>13, <1>14,
     <1>15, <1>16 DEF Next, Command

(* An install that meets no failure replaces what is there, whatever earlier  *)
(* runs that failed or were interrupted left behind.                          *)
THEOREM CleanRunsInstall == Spec => CleanRunInstalls
<1>1. Init => CleanInv
  BY DEF Init, CleanInv, Replacing
<1>2. Inv /\ CleanInv /\ [Next]_vars => CleanInv'
  BY CleanStep
<1>3. ASSUME Inv, CleanInv, Next, pc \notin {"idle", "uninstall remove"}, pc' = "idle", clean'
      PROVE  /\ outcome' = "installed"
             /\ service' = run /\ config' = run
             /\ binary' = run \/ inPlace
  <2>1. CASE StartService
    BY <1>3, <2>1 DEF StartService, Return, CleanInv, files
  <2>2. CASE Register
    <3>1. pc \in Replacing /\ (service # None => clean)
      BY <1>3, <2>2 DEF Register, Return, Fail, GoTo, Replacing
    <3>2. service = None
      BY <1>3, <3>1 DEF CleanInv
    <3> QED
      BY <1>3, <2>2, <3>2 DEF Register, Fail, GoTo
  <2>3. CASE Probe \/ CopyBegins \/ Copying \/ Rename \/ ConfigBegins \/ ConfigWritten
    BY <1>3, <2>3 DEF Probe, CopyBegins, Copying, Rename, ConfigBegins, ConfigWritten,
       GoTo, Stumble, Fail
  <2>4. ASSUME NEW from, NEW to \in {"remove", "uninstall remove"}, StopService(from, to)
        PROVE  FALSE
    BY <1>3, <2>4 DEF StopService, GoTo, Stumble
  <2>5. CASE RemoveService
    BY <1>3, <2>5 DEF RemoveService, GoTo, Fail
  <2>6. ASSUME NEW here \in BOOLEAN, InstallBegins(here)
        PROVE  FALSE
    BY <1>3, <2>6 DEF InstallBegins
  <2>7. CASE UninstallBegins \/ UninstallRemoves \/ Control
    BY <1>3, <2>7 DEF UninstallBegins, UninstallRemoves, Control
  <2>8. CASE Device
    BY <1>3, <2>8 DEF Device, Interrupt, Reboot, ServiceStarts, AgentDies, command
  <2> QED
    BY <1>3, <2>1, <2>2, <2>3, <2>4, <2>5, <2>6, <2>7, <2>8 DEF Next, Command
<1>4. Inv /\ CleanInv /\ [Next]_vars =>
        [pc \notin {"idle", "uninstall remove"} /\ pc' = "idle" /\ clean' =>
           /\ outcome' = "installed"
           /\ service' = run /\ config' = run
           /\ binary' = run \/ inPlace]_vars
  BY <1>3
<1> QED
  BY <1>1, <1>2, <1>4, Invariant, PTL DEF Spec, CleanRunInstalls
=============================================================================
