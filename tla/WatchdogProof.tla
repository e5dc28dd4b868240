---------------------------- MODULE WatchdogProof ----------------------------
(***************************************************************************)
(* Proofs about Watchdog, for any commands, sessions, requests and faults:   *)
(* one core runs, and it is the one that was asked for.                      *)
(***************************************************************************)
EXTENDS Watchdog, TLAPS

(* generation only grows while the service is up, so that a request which    *)
(* came while a core was settling is always seen (mainLoop, Settled).        *)
Counting == generation \in Nat /\ launched \in Nat /\ launched <= generation

(* What is settling is what was asked for, unless a request came since.      *)
Launching == main = "settling" /\ launched = generation /\ Alive =>
    cores[process].command = command

IInv == Counting /\ Launching /\ OneCore /\ Current

LEMMA NoCores == DOMAIN <<>> = {}
  OBVIOUS

LEMMA Starting == Init => IInv
  BY NoCores DEF Init, IInv, Counting, Launching, OneCore, Current, Alive

(* A request outdates what is settling, and nothing counts as running.       *)
LEMMA RequestStep ==
    ASSUME IInv, NEW c, SetProcessConfig(c), UNCHANGED cores
    PROVE  IInv'
<1> USE DEF IInv, SetProcessConfig
<1>1. Counting' /\ launched' # generation'
  BY DEF Counting
<1>2. Launching'
  BY <1>1 DEF Launching
<1>3. OneCore'
  BY DEF OneCore
<1>4. state' # "Running"
  OBVIOUS
<1>5. Current'
  BY <1>4 DEF Current
<1> QED
  BY <1>1, <1>2, <1>3, <1>5

(* startProcess: the core before is gone before the new one is there.        *)
LEMMA StartProcessStep ==
    ASSUME IInv, StartProcess
    PROVE  IInv'
<1> USE DEF IInv, StartProcess
<1>1. DOMAIN Others = {}
  BY DEF Others, OneCore, Iterating
<1>2. DOMAIN cores' = {NewCore} /\ cores'[NewCore].command = command
  BY <1>1
<1>3. Counting'
  BY DEF Counting
<1>4. Launching' /\ OneCore' /\ Current'
  BY <1>2 DEF Launching, OneCore, Current, Alive
<1> QED
  BY <1>3, <1>4

LEMMA StartFailsStep ==
    ASSUME IInv, StartFails
    PROVE  IInv'
<1> USE DEF IInv, StartFails, HandleStartError
<1>1. state' # "Running"
  OBVIOUS
<1>2. Counting'
  BY DEF Counting
<1>3. main' = "loop"
  BY DEF Iterating
<1>4. OneCore'
  <2>1. CASE command = None
    BY <2>1 DEF OneCore
  <2>2. CASE command # None
    <3>1. DOMAIN cores' = {}
      BY <2>2 DEF Others, OneCore, Iterating
    <3> QED
      BY <3>1 DEF OneCore
  <2> QED
    BY <2>1, <2>2
<1>5. Launching' /\ Current'
  BY <1>1, <1>3 DEF Launching, Current
<1> QED
  BY <1>2, <1>4, <1>5

(* A core counts as running only if no request came while it settled.        *)
LEMMA SettledStep ==
    ASSUME IInv, Settled
    PROVE  IInv'
<1> USE DEF IInv, Settled
<1>1. Counting'
  BY DEF Counting
<1>2. Launching'
  BY DEF Launching
<1>3. OneCore' /\ Current'
  <2>1. CASE Superseded
    BY <2>1 DEF OneCore, Current, Alive
  <2>2. CASE ~Superseded /\ Alive
    <3>1. cores'[process'].command = command'
      BY <2>2 DEF Launching, Superseded
    <3> QED
      BY <3>1, <2>2 DEF OneCore, Current
  <2>3. CASE ~Superseded /\ ~Alive
    <3>1. DOMAIN cores = {}
      BY <2>3 DEF OneCore, Alive
    <3> QED
      BY <3>1, <2>3 DEF OneCore, Current, Alive
  <2> QED
    BY <2>1, <2>2, <2>3
<1> QED
  BY <1>1, <1>2, <1>3

(* Every other step of the main thread leaves no core or leaves them alone.  *)
LEMMA LoopStep ==
    ASSUME IInv, StartUp \/ Scheduled \/ Exited \/ StopProcess \/ Finish
    PROVE  IInv'
<1> USE DEF IInv
<1>1. CASE StartUp
  BY <1>1, NoCores DEF StartUp, Counting, Launching, OneCore, Current, Alive
<1>2. CASE Scheduled
  BY <1>2 DEF Scheduled, Iterating, Counting, Launching, OneCore, Current, Alive
<1>3. CASE Exited
  BY <1>3 DEF Exited, HandleStartError, Iterating, Counting, Launching, OneCore, Current, Alive
<1>4. CASE StopProcess
  BY <1>4, NoCores DEF StopProcess, Iterating, Counting, Launching, OneCore, Current, Alive
<1>5. CASE Finish
  BY <1>5, NoCores DEF Finish, Counting, Launching, OneCore, Current, Alive
<1> QED
  BY <1>1, <1>2, <1>3, <1>4, <1>5

(* A core that dies is no other core's.                                      *)
LEMMA DieStep ==
    ASSUME IInv, Die
    PROVE  IInv'
<1>1. PICK i \in DOMAIN cores : cores' = [j \in DOMAIN cores \ {i} |-> cores[j]]
  BY DEF Die
<1>2. DOMAIN cores' \subseteq DOMAIN cores /\ \A j \in DOMAIN cores' : cores'[j] = cores[j]
  BY <1>1
<1>3. UNCHANGED daemonVars
  BY DEF Die
<1> QED
  BY <1>2, <1>3 DEF daemonVars, IInv, Counting, Launching, OneCore, Current, Alive

(* What happens to the service and its user.                                 *)
LEMMA WorldStep ==
    ASSUME IInv, Save \/ Tick \/ SwitchSession \/ Quit \/ Crash \/ Restart
    PROVE  IInv'
<1> USE DEF IInv
<1>1. CASE Save
  BY <1>1 DEF Save, daemonVars, Counting, Launching, OneCore, Current, Alive
<1>2. CASE Tick
  BY <1>2 DEF Tick, Counting, Launching, OneCore, Current, Alive
<1>3. CASE SwitchSession
  BY <1>3 DEF SwitchSession, daemonVars, Counting, Launching, OneCore, Current, Alive
<1>4. CASE Quit
  BY <1>4 DEF Quit, Counting, Launching, OneCore, Current, Alive
<1>5. CASE Crash
  BY <1>5 DEF Crash, Counting, Launching, OneCore, Current, Alive
<1>6. CASE Restart
  BY <1>6 DEF Restart, Boot, Counting, Launching, OneCore, Current, Alive
<1> QED
  BY <1>1, <1>2, <1>3, <1>4, <1>5, <1>6

LEMMA Inductive == IInv /\ [Next]_vars => IInv'
<1> SUFFICES ASSUME IInv, [Next]_vars PROVE IInv'
  OBVIOUS
<1>1. CASE SetConfigFile \/ ClearSettings
  BY <1>1 DEF SetConfigFile, ClearSettings, daemonVars, IInv, Counting, Launching, OneCore, Current, Alive
<1>2. CASE ApplyWatchdogCommand
  BY <1>2, RequestStep DEF ApplyWatchdogCommand
<1>3. CASE ClearWatchdogCommand
  BY <1>3, RequestStep DEF ClearWatchdogCommand
<1>4. CASE MainLoop
  BY <1>4, StartProcessStep, StartFailsStep, SettledStep, LoopStep DEF MainLoop
<1>5. CASE World
  BY <1>5, DieStep, WorldStep DEF World
<1>6. CASE UNCHANGED vars
  BY <1>6 DEF vars, daemonVars, IInv, Counting, Launching, OneCore, Current, Alive
<1> QED
  BY <1>1, <1>2, <1>3, <1>4, <1>5, <1>6 DEF Next, Request

LEMMA Supervised == Spec => []IInv
  BY Starting, Inductive, PTL DEF Spec

(* No core runs beside the one the service knows (startProcess,              *)
(* shutdownExistingProcesses).                                               *)
THEOREM Alone == Spec => []OneCore
<1>1. IInv => OneCore
  BY DEF IInv
<1> QED
  BY Supervised, <1>1, PTL

(* A core that counts as started is the one asked for last, though it        *)
(* settles outside the mutex (mainLoop).                                     *)
THEOREM Asked == Spec => []Current
<1>1. IInv => Current
  BY DEF IInv
<1> QED
  BY Supervised, <1>1, PTL

=============================================================================
