------------------------------ MODULE MainLoop ------------------------------
(***************************************************************************)
(* The main thread from main() to the end of the process, its signal       *)
(* handler, and the threads the handler starts.                            *)
(*                                                                         *)
(* BaseServer.serve_forever and shutdown are the standard library's: a     *)
(* flag that the loop tests before and after each select, and an event     *)
(* that is set when the loop has ended.  A Python signal handler runs on   *)
(* the main thread between two of its steps, wherever it is; each signal   *)
(* has a number.                                                           *)
(***************************************************************************)
EXTENDS Integers, FiniteSets

CONSTANT MaxSignals   \* bound: signals that are sent

VARIABLES main,     \* where the main thread is
          flag,     \* __shutdown_request
          down,     \* the event __is_shut_down
          stopper,  \* the thread each signal has started
          exit      \* "running", or how the process ended

mainVars == <<main, flag, down, stopper, exit>>

Signals == 1..MaxSignals
Looping == {"test", "select", "picked"}
Places == Looping \cup {"starting", "ready", "unwind", "close", "dbclose", "ended"}

MainTypeOK ==
    /\ main \in Places
    /\ flag \in BOOLEAN /\ down \in BOOLEAN
    /\ stopper \in [Signals -> {"none", "started", "waiting", "done", "refused"}]
    /\ exit \in {"running", "clean", "failed", "killed"}

MainInit ==
    /\ main = "starting"
    /\ flag = FALSE
    /\ down = FALSE
    /\ stopper = [s \in Signals |-> "none"]
    /\ exit = "running"

StopperTasks == {s \in Signals : stopper[s] \in {"started", "waiting"}}

NextSignal(s) == stopper[s] = "none" /\ \A r \in 1..(s - 1) : stopper[r] # "none"

\* build_app and make_server are done, the socket listens; signal.signal.
Register ==
    /\ main = "starting"
    /\ main' = "ready"
    /\ UNCHANGED <<flag, down, stopper, exit>>

\* Before that a signal has its default effect.
KilledEarly ==
    /\ MaxSignals > 0
    /\ main = "starting"
    /\ main' = "ended"
    /\ exit' = "killed"
    /\ UNCHANGED <<flag, down, stopper>>

\* Plausible bug, for a mutant: the handler calls server.shutdown() itself, and
\* the main thread waits for the event that only the main thread sets.
SignalShutsDown(s) ==
    /\ main \notin {"starting", "ended"}
    /\ NextSignal(s)
    /\ stopper' = [stopper EXCEPT ![s] = "waiting"]
    /\ flag' = TRUE
    /\ main' = "blocked"
    /\ UNCHANGED <<down, exit>>

\* The handler: a thread that calls server.shutdown, and back.
SignalStarts(s) ==
    /\ main \notin {"starting", "ended"}
    /\ NextSignal(s)
    /\ stopper' = [stopper EXCEPT ![s] = "started"]
    /\ UNCHANGED <<main, flag, down, exit>>

\* No further thread can be started: Thread.start raises, in the main thread,
\* which leaves the loop, or the finally it is in.
SignalRaises(s) ==
    /\ main \notin {"starting", "ended"}
    /\ NextSignal(s)
    /\ stopper' = [stopper EXCEPT ![s] = "refused"]
    /\ main' = CASE main \in Looping -> "unwind" [] main = "unwind" -> "close"
                 [] OTHER -> "ended"
    /\ exit' = "failed"
    /\ UNCHANGED <<flag, down>>

\* Raised while a connection is in hand, it is taken for that connection's
\* failure (_handle_request_noblock), and the signal is lost.
SignalSwallowed(s) ==
    /\ main = "picked"
    /\ NextSignal(s)
    /\ stopper' = [stopper EXCEPT ![s] = "refused"]
    /\ main' = "test"
    /\ UNCHANGED <<flag, down, exit>>

\* shutdown(): set the flag, then wait for the event.
SetFlag(s) ==
    /\ stopper[s] = "started"
    /\ stopper' = [stopper EXCEPT ![s] = "waiting"]
    /\ flag' = TRUE
    /\ UNCHANGED <<main, down, exit>>

Released(s) ==
    /\ stopper[s] = "waiting"
    /\ down
    /\ stopper' = [stopper EXCEPT ![s] = "done"]
    /\ UNCHANGED <<main, flag, down, exit>>

StopperStep(s) == main # "ended" /\ (SetFlag(s) \/ Released(s))

\* serve_forever.
EnterLoop ==
    /\ main = "ready"
    /\ main' = "test"
    /\ down' = FALSE
    /\ UNCHANGED <<flag, stopper, exit>>

TestFlag ==
    /\ main = "test"
    /\ main' = IF flag THEN "unwind" ELSE "select"
    /\ UNCHANGED <<flag, down, stopper, exit>>

\* select returns, for a connection or after poll_interval, and the flag is
\* tested again.
Selected(ready) ==
    /\ main = "select"
    /\ main' = IF flag THEN "unwind" ELSE IF ready THEN "picked" ELSE "test"
    /\ UNCHANGED <<flag, down, stopper, exit>>

\* _handle_request_noblock takes one connection.
Taken ==
    /\ main = "picked"
    /\ main' = "test"
    /\ UNCHANGED <<flag, down, stopper, exit>>

Unwind ==
    /\ main = "unwind"
    /\ main' = "close"
    /\ flag' = FALSE
    /\ down' = TRUE
    /\ UNCHANGED <<stopper, exit>>

\* server.server_close(); block_on_close waits for no daemon thread.
ServerClose ==
    /\ main = "close"
    /\ main' = "dbclose"
    /\ UNCHANGED <<flag, down, stopper, exit>>

\* app.conn.close(): opens and migrates a connection of the main thread's own
\* first, which may raise.  The process ends either way.
DbClose ==
    /\ main = "dbclose"
    /\ main' = "ended"
    /\ exit' \in IF exit = "running" THEN {"clean", "failed"} ELSE {exit}
    /\ UNCHANGED <<flag, down, stopper>>
=============================================================================
