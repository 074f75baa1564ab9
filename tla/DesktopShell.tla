---------------------------- MODULE DesktopShell ----------------------------
(***************************************************************************)
(* One process of OMYM2 Desktop: the main thread starts the embedded       *)
(* server, waits until it answers, shows the native window and stops the   *)
(* server when that has closed (desktop_runtime.py, server.py), while the  *)
(* server's thread, the monitor of the document (window.py) and the user   *)
(* go on by themselves.                                                    *)
(***************************************************************************)
EXTENDS Naturals

CONSTANT ReadinessAttempts      \* DESKTOP_READINESS_MAX_ATTEMPTS

VARIABLES
    main,       \* the main thread: where it is, its probes, whether it is failing
    server,     \* the server: "none", "starting", "serving", "exited", "failed"
    exitAsked,  \* should_exit
    listener,   \* the listening socket is open
    window,     \* the window: "none", "loading", "closed"
    document,   \* what the WebView told of it
    monitor,    \* the monitor thread
    failures,   \* the failures recorded for the main thread to raise
    userClosed, \* the user closed the window
    trouble     \* something went wrong

shellVars == <<main, server, exitAsked, listener, window, document, monitor, failures,
               userClosed, trouble>>

serverVars == <<server, exitAsked, listener>>
windowVars == <<window, document, monitor, failures, userClosed>>

ShellInit ==
    /\ main = [pc |-> "listen", attempt |-> 1, failing |-> FALSE]
    /\ server = "none" /\ exitAsked = FALSE /\ listener = FALSE
    /\ window = "none" /\ document = [loaded |-> FALSE, response |-> "none", bridge |-> FALSE]
    /\ monitor = "idle" /\ failures = 0 /\ userClosed = FALSE /\ trouble = FALSE

On(pc) == main.pc = pc
Goes(pc) == main' = [main EXCEPT !.pc = pc]
Alive == server \in {"starting", "serving"}

\* An error: the server is stopped, if it has one, then the error is raised.
Raises == main' = [main EXCEPT !.pc = "stop", !.failing = TRUE] /\ trouble' = TRUE

-----------------------------------------------------------------------------
(* The main thread: start. *)

OpenListener ==
    /\ On("listen")
    /\ \/ Goes("thread") /\ listener' = TRUE /\ UNCHANGED trouble
       \/ Raises /\ UNCHANGED listener
    /\ UNCHANGED <<server, exitAsked, windowVars>>

\* The backend is configured and its thread started, or the listener is closed again.
StartThread ==
    /\ On("thread")
    /\ \/ Goes("probe") /\ server' = "starting" /\ UNCHANGED <<listener, trouble>>
       \/ Raises /\ listener' = FALSE /\ UNCHANGED server
    /\ UNCHANGED <<exitAsked, windowVars>>

\* Probe Bootstrap, unless the thread has ended; an answer counts if the thread
\* still lives. Too many probes, or a probe that raises, and the start fails.
ProbeServer ==
    /\ On("probe")
    /\ \/ ~Alive /\ Raises
       \/ server = "serving" /\ Goes("confirm") /\ UNCHANGED trouble
       \/ Alive /\ IF main.attempt < ReadinessAttempts
                   THEN main' = [main EXCEPT !.attempt = @ + 1] /\ UNCHANGED trouble
                   ELSE Raises
       \/ Alive /\ Raises
    /\ UNCHANGED <<serverVars, windowVars>>

ConfirmReady ==
    /\ On("confirm")
    /\ IF Alive THEN Goes("show") /\ UNCHANGED trouble ELSE Raises
    /\ UNCHANGED <<serverVars, windowVars>>

-----------------------------------------------------------------------------
(* The main thread: the window. *)

\* The environment and the WebView runtime are checked, the window is created, its
\* event loop runs with the monitor beside it. A renderer that is not the
\* supported one, or an exception, ends the loop.
ShowWindow ==
    /\ On("show")
    /\ \/ /\ Goes("loop") /\ window' = "loading" /\ monitor' = "waits"
          /\ UNCHANGED <<trouble>>
       \/ Raises /\ UNCHANGED <<window, monitor>>
    /\ UNCHANGED <<serverVars, document, failures, userClosed>>

\* The loop ends with the window; a failure recorded by then is raised.
LeaveLoop ==
    /\ On("loop")
    /\ \/ /\ window = "closed"
          /\ IF failures > 0 THEN Raises ELSE Goes("stop") /\ UNCHANGED trouble
       \/ Raises
    /\ window' = "closed"
    /\ UNCHANGED <<serverVars, document, monitor, failures, userClosed>>

-----------------------------------------------------------------------------
(* The main thread: stop. *)

\* Nothing to stop, or the server is asked to exit.
RequestStop ==
    /\ On("stop")
    /\ IF server = "none" THEN Goes("end") /\ UNCHANGED exitAsked
       ELSE Goes("join") /\ exitAsked' = TRUE
    /\ UNCHANGED <<server, listener, windowVars, trouble>>

\* Mutant of JoinServer: the server's own failure is forgotten with its thread.
ForgetsFailure ==
    /\ On("join") /\ ~Alive
    /\ listener' = FALSE
    /\ Goes("end")
    /\ UNCHANGED <<server, exitAsked, windowVars, trouble>>

\* The thread has answered what it accepted and ended; then the listener is closed
\* and the thread's failure raised, unless an error is being raised already.
JoinServer ==
    /\ On("join") /\ ~Alive
    /\ listener' = FALSE
    /\ main' = [main EXCEPT !.pc = "end", !.failing = @ \/ server = "failed"]
    /\ UNCHANGED <<server, exitAsked, windowVars, trouble>>

-----------------------------------------------------------------------------
(* The server's thread. *)

ServerReady ==
    /\ server = "starting" /\ server' = "serving"
    /\ UNCHANGED <<main, exitAsked, listener, windowVars, trouble>>

ServerExits ==
    /\ Alive
    /\ \/ exitAsked /\ UNCHANGED trouble
       \/ server = "starting" /\ trouble' = TRUE     \* its lifespan fails
    /\ server' = "exited"
    /\ UNCHANGED <<main, exitAsked, listener, windowVars>>

ServerFails ==
    /\ Alive
    /\ server' = "failed" /\ trouble' = TRUE
    /\ UNCHANGED <<main, exitAsked, listener, windowVars>>

-----------------------------------------------------------------------------
(* The document and its monitor. *)

DocumentEvent ==
    /\ window = "loading"
    /\ \/ ~document.loaded /\ document' = [document EXCEPT !.loaded = TRUE] /\ UNCHANGED trouble
       \/ /\ document.response = "none"
          /\ \/ document' = [document EXCEPT !.response = "ok"] /\ UNCHANGED trouble
             \/ document' = [document EXCEPT !.response = "error"] /\ trouble' = TRUE
       \/ ~document.bridge /\ ~document.loaded /\ document' = [document EXCEPT !.bridge = TRUE]
          /\ UNCHANGED trouble
    /\ UNCHANGED <<main, serverVars, window, monitor, failures, userClosed>>

UserCloses ==
    /\ window = "loading"
    /\ window' = "closed" /\ userClosed' = TRUE
    /\ UNCHANGED <<main, serverVars, document, monitor, failures, trouble>>

Complete == document.loaded /\ document.response # "none"

\* The monitor wakes when the document is complete, the window has closed, or in vain.
MonitorWakes ==
    /\ monitor = "waits"
    /\ \/ window = "closed" /\ monitor' = "done" /\ UNCHANGED trouble
       \/ Complete /\ monitor' = "judges" /\ UNCHANGED trouble
       \/ ~Complete /\ window # "closed" /\ monitor' = "fails" /\ trouble' = TRUE
    /\ UNCHANGED <<main, serverVars, window, document, failures, userClosed>>

MonitorJudges ==
    /\ monitor = "judges"
    /\ IF document.response = "ok" /\ document.bridge
       THEN monitor' = "done" /\ UNCHANGED trouble
       ELSE monitor' = "fails" /\ trouble' = TRUE
    /\ UNCHANGED <<main, serverVars, window, document, failures, userClosed>>

\* Recorded first, then the window is closed.
RecordFailure ==
    /\ monitor = "fails"
    /\ failures' = failures + 1 /\ monitor' = "destroys"
    /\ UNCHANGED <<main, serverVars, window, document, userClosed, trouble>>

DestroyWindow ==
    /\ monitor = "destroys"
    /\ window' = "closed" /\ monitor' = "done"
    /\ UNCHANGED <<main, serverVars, document, failures, userClosed, trouble>>

ShellNext ==
    \/ OpenListener \/ StartThread \/ ProbeServer \/ ConfirmReady \/ ShowWindow \/ LeaveLoop
    \/ RequestStop \/ JoinServer
    \/ ServerReady \/ ServerExits \/ ServerFails
    \/ DocumentEvent \/ UserCloses \/ MonitorWakes \/ MonitorJudges \/ RecordFailure \/ DestroyWindow

ShellSpec == ShellInit /\ [][ShellNext]_shellVars

-----------------------------------------------------------------------------
(* Properties. *)

\* The process ends with its server's thread gone and the port released. It reports
\* success only if the user closed the window and the server served until it was
\* asked to stop, and failure only if something failed, whichever of the threads
\* noticed first. No listener is closed under a thread that may accept on it.
DesktopEndsTruthfully ==
    /\ Alive => listener
    /\ On("end") =>
          /\ ~Alive /\ ~listener
          /\ main.failing => trouble
          /\ ~main.failing => userClosed /\ server = "exited"
=============================================================================
