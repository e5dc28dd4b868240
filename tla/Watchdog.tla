------------------------------- MODULE Watchdog -------------------------------
(***************************************************************************)
(* The Windows service that runs a core for the GUI: the commands it takes   *)
(* (src/src/apps/synergy-daemon/DaemonApp.cpp, reached through              *)
(* src/src/lib/synergy/ipc/DaemonIpcServer.cpp) and the thread that starts,  *)
(* watches, restarts and stops the core                                     *)
(* (src/src/lib/platform/win32/MSWindowsWatchdog.cpp).                      *)
(*                                                                         *)
(* The two threads share what m_processStateMutex guards, and the main one   *)
(* gives the mutex away while a new core settles.  Cores die, starts fail,   *)
(* the user switches session, and the service is killed and comes back.      *)
(***************************************************************************)
EXTENDS Naturals, FiniteSets

CONSTANTS
    None,        \* no command, no process, no session
    Commands,    \* command lines with their elevation
    Sessions,    \* the users' sessions
    Foreground,  \* m_foreground: no sessions to follow
    MaxRequests, \* bound: starts and stops between two starts of the service
    MaxFaults    \* bound: misfortunes

ASSUME Parameters ==
    /\ None \notin Commands /\ None \notin Sessions
    /\ Foreground \in BOOLEAN /\ {MaxRequests, MaxFaults} \subseteq Nat

VARIABLES
    saved,       \* the command the settings file gives, or None
    configFile,  \* is DaemonApp's m_configFile set, and so the persisted path
    command, generation,   \* m_command with m_elevateProcess, m_configGeneration
    state, nextStart,      \* m_processState; m_nextStartTime: None, "later" or "now"
    failures,    \* m_startFailures
    process,     \* m_process: None, the core, or 0 when it was not even created
    known,       \* the session that getUserToken saw last
    main,        \* the main thread: "down", "starting", "loop" or "settling"
    launched,    \* its local generation
    running,     \* m_running
    cores,       \* the cores that are alive: their command and session
    session,     \* the active session
    faults       \* faults so far

daemonVars == <<command, generation, state, nextStart, failures, process, known, main, launched, running>>
vars == <<saved, configFile, daemonVars, cores, session, faults>>

Fault == faults < MaxFaults /\ faults' = faults + 1

(***************************************************************************)
(* The commands                                                             *)
(***************************************************************************)
SetProcessConfig(c) ==
    /\ generation < MaxRequests /\ generation' = generation + 1
    /\ command' = c
    /\ state' = IF c = None THEN "StopPending" ELSE "StartPending"
    /\ nextStart' = IF c = None THEN nextStart ELSE None
    /\ UNCHANGED <<failures, process, known, main, launched, running>>

(* The GUI saves its settings, perhaps without a mode that can be started.  *)
Save ==
    /\ \E c \in (Commands \union {None}) \ {saved} : saved' = c
    /\ UNCHANGED <<configFile, daemonVars, cores, session, faults>>

SetConfigFile ==
    /\ main # "down" /\ configFile' = TRUE
    /\ UNCHANGED <<saved, daemonVars, cores, session, faults>>

Applicable == configFile /\ saved # None

ApplyWatchdogCommand ==
    /\ main # "down" /\ Applicable
    /\ SetProcessConfig(saved)
    /\ UNCHANGED <<saved, configFile, cores, session, faults>>

ClearWatchdogCommand ==
    /\ main # "down" /\ configFile' = FALSE
    /\ SetProcessConfig(None)
    /\ UNCHANGED <<saved, cores, session, faults>>

ClearSettings ==
    /\ main # "down" /\ configFile' = FALSE
    /\ UNCHANGED <<saved, daemonVars, cores, session, faults>>

Request == SetConfigFile \/ ApplyWatchdogCommand \/ ClearWatchdogCommand \/ ClearSettings

(***************************************************************************)
(* The main thread                                                          *)
(***************************************************************************)
Alive == process \in DOMAIN cores

(* Two starts in a row that fail make the next one wait; how long (1 s, 2 s, *)
(* ... 60 s) is left out.                                                   *)
HandleStartError_Untimed(n) ==
    /\ failures' = n + 1
    /\ state' = IF n + 1 > 1 THEN "StartScheduled" ELSE "StartPending"
    /\ nextStart' = None
HandleStartError(n) ==
    /\ failures' = n + 1
    /\ state' = IF n + 1 > 1 THEN "StartScheduled" ELSE "StartPending"
    /\ nextStart' = IF n + 1 > 1 THEN "later" ELSE None

(* shutdownExistingProcesses: whatever a service before has left.           *)
StartUp ==
    /\ main = "starting" /\ main' = "loop" /\ cores' = <<>>
    /\ UNCHANGED <<saved, configFile, command, generation, state, nextStart, failures, process, known,
                   launched, running, session, faults>>

Iterating == main = "loop" /\ running

Scheduled ==
    /\ Iterating /\ state = "StartScheduled" /\ nextStart = "now"
    /\ state' = "StartPending"
    /\ UNCHANGED <<saved, configFile, command, generation, nextStart, failures, process, known, main,
                   launched, running, cores, session, faults>>

SessionChanged == state = "Running" /\ command # None /\ ~Foreground /\ session # known
Due == state = "StartPending" \/ SessionChanged

(* startProcess makes way for the new core.                                 *)
Others_All == cores
Others == [i \in DOMAIN cores \ {process} |-> cores[i]]

NewCore == CHOOSE i \in 1 .. Cardinality(DOMAIN Others) + 1 : i \notin DOMAIN Others

(* The session is read before its token is looked for.                      *)
Look == known' = IF Foreground THEN known ELSE session

StartProcess ==
    /\ Iterating /\ Due /\ command # None
    /\ process' = NewCore /\ Look
    /\ cores' = [i \in DOMAIN Others \union {NewCore} |->
                    IF i = NewCore THEN [command |-> command, session |-> session] ELSE Others[i]]
    /\ state' = "StartPending" /\ nextStart' = IF SessionChanged THEN None ELSE nextStart
    /\ main' = "settling" /\ launched' = generation
    /\ UNCHANGED <<saved, configFile, command, generation, failures, running, session, faults>>

(* There is no token, and the process object stays; or it was not created.   *)
(* Without a command nothing is tried.                                      *)
StartFails ==
    /\ Iterating /\ Due
    /\ IF command = None THEN UNCHANGED <<process, known, cores, faults>>
       ELSE /\ Fault /\ Look /\ cores' = Others
            /\ process' \in IF Foreground THEN {None} ELSE {None, 0}
    /\ HandleStartError(failures)
    /\ UNCHANGED <<saved, configFile, command, generation, main, launched, running, session>>

(* The mutex was free for a second.                                         *)
Superseded_State == state # "StartPending"
Superseded == generation # launched \/ state # "StartPending"

Settled ==
    /\ main = "settling" /\ main' = "loop" /\ launched' = 0
    /\ IF Superseded THEN UNCHANGED <<state, nextStart, failures, process>>
       ELSE IF Alive
       THEN state' = "Running" /\ UNCHANGED <<nextStart, failures, process>>
       ELSE process' = None /\ HandleStartError(failures)
    /\ UNCHANGED <<saved, configFile, command, generation, known, running, cores, session, faults>>

(* A core that ran for long enough was a healthy start.                     *)
Exited ==
    /\ Iterating /\ state = "Running" /\ ~SessionChanged /\ ~Alive
    /\ \E n \in {0, failures} : HandleStartError(n)
    /\ UNCHANGED <<saved, configFile, command, generation, process, known, main, launched, running,
                   cores, session, faults>>

StopProcess ==
    /\ Iterating /\ state = "StopPending"
    /\ state' = "Idle" /\ process' = None /\ cores' = <<>>
    /\ UNCHANGED <<saved, configFile, command, generation, nextStart, failures, known, main, launched,
                   running, session, faults>>

Finish ==
    /\ main = "loop" /\ ~running
    /\ main' = "down" /\ process' = None /\ cores' = <<>>
    /\ UNCHANGED <<saved, configFile, command, generation, state, nextStart, failures, known, launched,
                   running, session, faults>>

MainLoop ==
    \/ StartUp \/ Scheduled \/ StartProcess \/ StartFails \/ Settled \/ Exited
    \/ StopProcess \/ Finish

(***************************************************************************)
(* The world                                                                *)
(***************************************************************************)
Tick ==
    /\ nextStart = "later" /\ nextStart' = "now"
    /\ UNCHANGED <<saved, configFile, command, generation, state, failures, process, known, main, launched,
                   running, cores, session, faults>>

(* A core crashes, or exits as it finds another one.                        *)
Die ==
    /\ Fault /\ \E i \in DOMAIN cores : cores' = [j \in DOMAIN cores \ {i} |-> cores[j]]
    /\ UNCHANGED <<saved, configFile, daemonVars, session>>

SwitchSession ==
    /\ Fault /\ \E s \in Sessions \ {session} : session' = s
    /\ UNCHANGED <<saved, configFile, daemonVars, cores>>

(* MSWindowsWatchdog::stop, when the service is asked to stop.              *)
Quit ==
    /\ Fault /\ main # "down" /\ running /\ running' = FALSE
    /\ UNCHANGED <<saved, configFile, command, generation, state, nextStart, failures, process, known, main,
                   launched, cores, session>>

(* The service is killed: its core lives on.                                *)
Crash ==
    /\ Fault /\ main # "down" /\ main' = "down"
    /\ process' = None
    /\ UNCHANGED <<saved, configFile, command, generation, state, nextStart, failures, known, launched,
                   running, cores, session>>

(* DaemonApp::run: the core that the persisted path gives is started again. *)
Boot ==
    /\ main' = "starting" /\ running' = TRUE
    /\ command' = IF Applicable THEN saved ELSE None
    /\ generation' = IF Applicable THEN 1 ELSE 0
    /\ state' = IF Applicable THEN "StartPending" ELSE "Idle"
    /\ nextStart' = None /\ failures' = 0 /\ process' = None /\ known' = None /\ launched' = 0

Restart ==
    /\ main = "down" /\ Boot
    /\ UNCHANGED <<saved, configFile, cores, session, faults>>

World == Save \/ Tick \/ Die \/ SwitchSession \/ Quit \/ Crash \/ Restart

Init ==
    /\ saved = None /\ configFile = FALSE
    /\ command = None /\ generation = 0 /\ state = "Idle" /\ nextStart = None /\ failures = 0
    /\ process = None /\ known = None /\ main = "starting" /\ launched = 0 /\ running = TRUE
    /\ cores = <<>> /\ session \in Sessions /\ faults = 0

Next == Request \/ MainLoop \/ World

(* The main thread runs, and time passes.  Nobody must start the service.   *)
Spec == Init /\ [][Next]_vars /\ WF_vars(MainLoop) /\ WF_vars(Tick)

(***************************************************************************)
(* Properties                                                               *)
(***************************************************************************)
(* No core runs beside the one that the service knows, whatever was started *)
(* before: by a request, for another session, after a failure, or by a      *)
(* service that was killed (startProcess, shutdownExistingProcesses).       *)
OneCore == main \in {"loop", "settling"} => DOMAIN cores \subseteq {process}

(* A core that counts as started is what was asked for last, though the     *)
(* request may have come while it was settling (MSWindowsWatchdog.h: "so a  *)
(* start that is waiting outside the mutex does not mark a newer request as *)
(* running").                                                               *)
Current == main # "down" /\ state = "Running" /\ Alive => cores[process].command = command

(* What was asked for comes about while the service is up: the command runs *)
(* in the active session, after any failures, or, after a stop, nothing     *)
(* does.                                                                    *)
Up == main # "down" /\ running
Serving ==
    /\ state = "Running" /\ Alive /\ cores[process].command = command
    /\ Foreground \/ cores[process].session = session

Obeyed ==
    /\ (Up /\ command # None) ~> (~Up \/ command = None \/ Serving)
    /\ (Up /\ command = None) ~> (~Up \/ command # None \/ cores = <<>>)

=============================================================================
