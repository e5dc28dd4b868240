---------------------------- MODULE MCEventQueue ----------------------------
(* EventQueue with two posting threads, an event and a Quit, a one-shot and *)
(* a periodic timer.                                                        *)
EXTENDS EventQueue

CONSTANTS short, periodic
MCDuration == [t \in Timers |-> IF t = short THEN 1 ELSE 2]
=============================================================================
