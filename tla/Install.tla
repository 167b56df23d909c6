------------------------------- MODULE Install -------------------------------
(* The agent's install and uninstall commands (cmd/agent/main.go), the files  *)
(* they write, and the service manager they register the agent with.          *)
(*                                                                            *)
(* Each run of install brings an executable and a configuration of its own,   *)
(* both named by the number of the run.  Any of its steps may fail, and the   *)
(* run may be interrupted between any two; what is on disk stays.  The        *)
(* service manager starts the registered agent, and again when it dies, with  *)
(* whatever executable and configuration it finds.                            *)
(*                                                                            *)
(* Assumed: one command at a time, all with the default paths.                *)
EXTENDS Integers, FiniteSets

CONSTANT MaxRuns   \* bound: runs of install in a behaviour

ASSUME MaxRunsAssumption == MaxRuns \in Nat \ {0}

Runs    == 1..MaxRuns
None    == 0    \* no such file, or no service registered
Partial == -1   \* a file that was begun and not finished

VARIABLES
  pc,       \* the next step of the command, "idle" if none is running
  run,      \* how many runs of install have begun; the last is the current one
  inPlace,  \* whether it runs from the installed executable
  clean,    \* whether every step of the command has gone well
  outcome,  \* how the last command ended
  tmp,      \* the file installPath() + ".tmp"
  binary,   \* the executable at installPath()
  config,   \* the configuration file
  service,  \* the run that registered the service
  wanted,   \* whether the service manager is to keep the agent up
  agent,    \* the agent it has started: its executable and configuration
  strays,   \* agents still running that a former service started
  blind,    \* history: an install did not see the service that is registered
  unstopped \* history: a service was not stopped when it was to be, since the last boot

command == <<pc, run, inPlace, clean, outcome>>
files == <<tmp, binary, config>>
manager == <<service, wanted, agent, strays>>
history == <<blind, unstopped>>
vars == <<command, files, manager, history>>

NoAgent == [binary |-> None, config |-> None]
Agent == [binary : Runs, config : Runs]

TypeOK ==
  /\ pc \in {"idle", "probe", "stop", "remove", "copy", "copying", "rename", "config",
             "writing", "register", "start", "uninstall stop", "uninstall remove"}
  /\ run \in 0..MaxRuns
  /\ inPlace \in BOOLEAN /\ clean \in BOOLEAN /\ wanted \in BOOLEAN
  /\ blind \in BOOLEAN /\ unstopped \in BOOLEAN
  /\ outcome \in {"none", "installed", "removed", "failed", "interrupted"}
  /\ tmp \in {None, Partial} \cup Runs
  /\ binary \in {None} \cup Runs   \* never begun and not finished
  /\ config \in {None, Partial} \cup Runs
  /\ service \in {None} \cup Runs
  /\ agent \in Agent \cup {NoAgent}
  /\ strays \subseteq Agent

Init ==
  /\ pc = "idle" /\ run = 0 /\ inPlace = FALSE /\ clean = TRUE /\ outcome = "none"
  /\ tmp = None /\ binary = None /\ config = None
  /\ service = None /\ wanted = FALSE /\ agent = NoAgent /\ strays = {}
  /\ blind = FALSE /\ unstopped = FALSE

GoTo(step) == pc' = step /\ UNCHANGED <<run, inPlace, clean, outcome>>

Stumble(step) == pc' = step /\ clean' = FALSE /\ UNCHANGED <<run, inPlace, outcome>>

Return(how) == pc' = "idle" /\ outcome' = how /\ UNCHANGED <<run, inPlace, clean>>

(* A step fails, and the command returns its error.                          *)
Fail == pc' = "idle" /\ outcome' = "failed" /\ clean' = FALSE /\ UNCHANGED <<run, inPlace>>

-----------------------------------------------------------------------------
(* install.                                                                  *)
InstallBegins(here) ==
  /\ pc = "idle"
  /\ run < MaxRuns
  /\ here => binary # None
  /\ run' = run + 1
  /\ inPlace' = here
  /\ pc' = "probe"
  /\ clean' = TRUE
  /\ UNCHANGED <<outcome, files, manager, history>>

(* Probe, if it did not look for a service to replace.                       *)
ProbeNothing ==
  /\ pc = "probe"
  /\ GoTo("copy")
  /\ UNCHANGED <<files, manager, history>>

(* The status of a service to replace; an error of any kind reads as none.   *)
Probe ==
  /\ pc = "probe"
  /\ \/ service # None /\ GoTo("stop") /\ UNCHANGED blind
     \/ service = None /\ GoTo("copy") /\ UNCHANGED blind
     \/ service # None /\ Stumble("copy") /\ blind' = TRUE
  /\ UNCHANGED <<files, manager, unstopped>>

(* StopService, if nothing were stopped.                                     *)
StopServiceNot(from, to) ==
  /\ pc = from
  /\ GoTo(to)
  /\ UNCHANGED <<files, manager, history>>

(* The service is stopped; an error is not looked at.                        *)
StopService(from, to) ==
  /\ pc = from
  /\ \/ GoTo(to) /\ agent' = NoAgent /\ wanted' = FALSE /\ UNCHANGED unstopped
     \/ Stumble(to) /\ unstopped' = TRUE /\ UNCHANGED <<agent, wanted>>
  /\ UNCHANGED <<files, service, strays, blind>>

(* The service is taken off the service manager, which forgets an agent that *)
(* is still running.                                                         *)
Unregister ==
  /\ service' = None
  /\ wanted' = FALSE
  /\ agent' = NoAgent
  /\ strays' = strays \cup ({agent} \ {NoAgent})
  /\ blind' = FALSE
  /\ UNCHANGED <<files, unstopped>>

RemoveService ==
  /\ pc = "remove"
  /\ \/ GoTo("copy") /\ Unregister
     \/ Fail /\ UNCHANGED <<files, manager, history>>

(* installBinary: nothing to do if this is the installed executable.         *)
CopyBegins ==
  /\ pc = "copy"
  /\ \/ inPlace /\ GoTo("config") /\ UNCHANGED tmp
     \/ ~inPlace /\ GoTo("copying") /\ tmp' = Partial
     \/ ~inPlace /\ Fail /\ UNCHANGED tmp
  /\ UNCHANGED <<binary, config, manager, history>>

(* Copying, if the copy went to the installed path itself.                   *)
CopyingInPlace ==
  /\ pc = "copying"
  /\ \/ GoTo("rename") /\ tmp' = run /\ binary' = run
     \/ Fail /\ binary' = Partial /\ tmp' = None
  /\ UNCHANGED <<config, manager, history>>

Copying ==
  /\ pc = "copying"
  /\ \/ GoTo("rename") /\ tmp' = run
     \/ Fail /\ tmp' = None
  /\ UNCHANGED <<binary, config, manager, history>>

Rename ==
  /\ pc = "rename"
  /\ \/ GoTo("config") /\ binary' = tmp
     \/ Fail /\ UNCHANGED binary
  /\ tmp' = None
  /\ UNCHANGED <<config, manager, history>>

(* ConfigBegins, if a configuration that exists were kept. *)
ConfigKept ==
  /\ pc = "config"
  /\ \/ config = None /\ GoTo("writing") /\ config' = Partial
     \/ config # None /\ GoTo("register") /\ UNCHANGED config
     \/ Fail /\ UNCHANGED config
  /\ UNCHANGED <<tmp, binary, manager, history>>

(* writeConfig: the file is created, or cut to nothing, before it is written. *)
ConfigBegins ==
  /\ pc = "config"
  /\ \/ GoTo("writing") /\ config' = Partial
     \/ Fail /\ UNCHANGED config
  /\ UNCHANGED <<tmp, binary, manager, history>>

(* ConfigWritten, if its error were not looked at.                           *)
ConfigWrittenOrNot ==
  /\ pc = "writing"
  /\ \/ GoTo("register") /\ config' = run
     \/ Stumble("register") /\ UNCHANGED config
  /\ UNCHANGED <<tmp, binary, manager, history>>

ConfigWritten ==
  /\ pc = "writing"
  /\ \/ GoTo("register") /\ config' = run
     \/ Fail /\ UNCHANGED config
  /\ UNCHANGED <<tmp, binary, manager, history>>

(* The state directory and the service.  The service manager refuses a       *)
(* service that is registered already; that is no failure of a step.         *)
Register ==
  /\ pc = "register"
  /\ \/ service = None /\ GoTo("start") /\ service' = run
     \/ service # None /\ Return("failed") /\ UNCHANGED service
     \/ Fail /\ UNCHANGED service
  /\ UNCHANGED <<files, wanted, agent, strays, history>>

(* A service that does not start is reported, and counts as installed.       *)
StartService ==
  /\ pc = "start"
  /\ Return("installed")
  /\ wanted' \in BOOLEAN
  /\ UNCHANGED <<files, service, agent, strays, history>>

-----------------------------------------------------------------------------
(* uninstall keeps the files.  Unlike install, it goes on unless it is told   *)
(* that there is no service.                                                  *)
UninstallBegins ==
  /\ pc = "idle"
  /\ service # None
  /\ pc' = "uninstall stop"
  /\ clean' = TRUE
  /\ UNCHANGED <<run, inPlace, outcome, files, manager, history>>

UninstallRemoves ==
  /\ pc = "uninstall remove"
  /\ \/ Return("removed") /\ Unregister
     \/ Fail /\ UNCHANGED <<files, manager, history>>

(* The start, stop and restart commands, which ask the service manager.      *)
Control ==
  /\ pc = "idle"
  /\ service # None
  /\ \/ wanted' = TRUE /\ UNCHANGED agent
     \/ wanted' = FALSE /\ agent' = NoAgent
     \/ wanted' = TRUE /\ agent' = NoAgent
  /\ UNCHANGED <<command, files, service, strays, history>>

-----------------------------------------------------------------------------
(* The rest of the device.                                                   *)

(* The command is killed, or its terminal goes.                              *)
Interrupt ==
  /\ pc # "idle"
  /\ pc' = "idle"
  /\ outcome' = "interrupted"
  /\ clean' = FALSE
  /\ UNCHANGED <<run, inPlace, files, manager, history>>

(* The service manager starts the agent: run loads the configuration, and    *)
(* one that does not load ends it at once.                                   *)
ServiceStarts ==
  /\ service # None
  /\ wanted
  /\ agent = NoAgent
  /\ {binary, config} \subseteq Runs
  /\ agent' = [binary |-> binary, config |-> config]
  /\ UNCHANGED <<command, files, service, wanted, strays, history>>

AgentDies ==
  /\ agent # NoAgent
  /\ agent' = NoAgent
  /\ UNCHANGED <<command, files, service, wanted, strays, history>>

Reboot ==
  /\ pc' = "idle"
  /\ outcome' = IF pc = "idle" THEN outcome ELSE "interrupted"
  /\ clean' = (pc = "idle" /\ clean)
  /\ agent' = NoAgent
  /\ strays' = {}
  /\ wanted' = (service # None)
  /\ unstopped' = FALSE
  /\ UNCHANGED <<run, inPlace, files, service, blind>>

Command ==
  \/ \E here \in BOOLEAN : InstallBegins(here)
  \/ Probe
  \/ StopService("stop", "remove")
  \/ RemoveService
  \/ CopyBegins
  \/ Copying
  \/ Rename
  \/ ConfigBegins
  \/ ConfigWritten
  \/ Register
  \/ StartService
  \/ UninstallBegins
  \/ StopService("uninstall stop", "uninstall remove")
  \/ UninstallRemoves
  \/ Control

Device == Interrupt \/ ServiceStarts \/ AgentDies \/ Reboot

Next == Command \/ Device

(* The service manager starts what it is to keep up (KeepAlive, Restart).    *)
Spec == Init /\ [][Next]_vars /\ WF_vars(ServiceStarts)

-----------------------------------------------------------------------------
(* Properties.                                                               *)

(* A registered service finds a whole executable and the configuration it    *)
(* was registered with, whatever failed or broke off and whenever it is      *)
(* started: unless an install ran past it because it could not read its      *)
(* status (main.go:260).                                                     *)
RegisteredIsComplete == service # None /\ ~blind => binary \in Runs /\ config = service

(* An install that meets no failure replaces what is there, whatever earlier *)
(* runs that failed or were interrupted left behind: "re-running install     *)
(* upgrades an existing install".                                            *)
CleanRunInstalls ==
  [][pc \notin {"idle", "uninstall remove"} /\ pc' = "idle" /\ clean' =>
       /\ outcome' = "installed"
       /\ service' = run /\ config' = run
       /\ binary' = run \/ inPlace]_vars

(* There are never two agents of a device, which would take the hub's entry  *)
(* from each other for ever: unless a service could not be stopped before it *)
(* was removed, which neither install nor uninstall looks at.                *)
OneAgentPerDevice == strays # {} => unstopped

(* A service that is to be up comes up with the executable and configuration *)
(* last installed, however it was interrupted: no agent of an earlier        *)
(* installation goes on under a newer service, and no file is left that      *)
(* the agent cannot start from.                                              *)
InstalledComesUp ==
  wanted /\ ~blind /\ service # None ~>
    \/ agent.config = service /\ agent.binary = binary
    \/ ~wanted \/ blind
=============================================================================
