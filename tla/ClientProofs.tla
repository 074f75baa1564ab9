---------------------------- MODULE ClientProofs ----------------------------
(***************************************************************************)
(* What holds of the three front ends for every value of the constants:    *)
(* the Desktop process, whatever its threads do to each other; a page of   *)
(* the Web frontend, whatever becomes of its requests and of the server    *)
(* that answers them, and what it offers; one command, whatever other      *)
(* processes do between two of its reads.                                  *)
(***************************************************************************)
EXTENDS DesktopShell, OperationClient, Capabilities, CommandLine, FiniteSetTheorems,
        SequenceTheorems, WellFoundedInduction, TLAPS

-----------------------------------------------------------------------------
(* The Desktop process. *)

MainSteps == {"listen", "thread", "probe", "confirm", "show", "loop", "stop", "join", "end"}

ShellTypeOK ==
    /\ main \in [pc : MainSteps, attempt : Nat, failing : BOOLEAN]
    /\ server \in {"none", "starting", "serving", "exited", "failed"}
    /\ window \in {"none", "loading", "closed"}
    /\ monitor \in {"idle", "waits", "judges", "fails", "destroys", "done"}
    /\ failures \in Nat

\* The port belongs to the server's thread from before that starts until it has ended.
PortIsHeld ==
    /\ Alive => listener
    /\ On("listen") => ~listener
    /\ On("thread") => listener
    /\ On("end") => ~Alive /\ ~listener

\* The main thread knows whether it has a server: without one it gets no further than
\* the start, fails, and leaves no port open.
ServerIsKnown ==
    /\ main.pc \in {"listen", "thread"} => server = "none"
    /\ server = "none" => \/ main.pc \in {"listen", "thread"}
                          \/ main.pc \in {"stop", "end"} /\ main.failing /\ ~listener

\* A thread that ended was asked to, or something went wrong; only the main
\* thread asks, once it has nothing left to do but wait.
EndingsHaveCauses ==
    /\ exitAsked => main.pc \in {"join", "end"}
    /\ server = "exited" => exitAsked \/ trouble
    /\ server = "failed" => trouble
    /\ main.failing => trouble

\* Who closed the window: the user, or the monitor, which records a failure first.
ClosingsHaveCauses ==
    /\ monitor = "destroys" => failures > 0
    /\ On("loop") /\ window = "closed" => failures > 0 \/ userClosed
    /\ main.pc \in {"stop", "join", "end"} => main.failing \/ userClosed
    /\ On("end") => main.failing \/ server = "exited"

ShellInv ==
    ShellTypeOK /\ PortIsHeld /\ ServerIsKnown /\ EndingsHaveCauses /\ ClosingsHaveCauses

LEMMA ShellStarts == ShellInit => ShellInv
BY DEF ShellInit, ShellInv, ShellTypeOK, PortIsHeld, ServerIsKnown, EndingsHaveCauses,
       ClosingsHaveCauses, MainSteps, On, Alive

\* What moving on and raising an error do to the main thread.
LEMMA MainMoves ==
    ASSUME ShellTypeOK
    PROVE  /\ \A pc \in MainSteps : Goes(pc) =>
                 /\ main' \in [pc : MainSteps, attempt : Nat, failing : BOOLEAN]
                 /\ main'.pc = pc /\ main'.failing = main.failing
           /\ Raises =>
                 /\ main' \in [pc : MainSteps, attempt : Nat, failing : BOOLEAN]
                 /\ main'.pc = "stop" /\ main'.failing = TRUE /\ trouble'
<1>1. ASSUME NEW pc \in MainSteps, Goes(pc)
      PROVE  /\ main' \in [pc : MainSteps, attempt : Nat, failing : BOOLEAN]
             /\ main'.pc = pc /\ main'.failing = main.failing
  BY <1>1 DEF ShellTypeOK, Goes
<1>2. ASSUME Raises
      PROVE  /\ main' \in [pc : MainSteps, attempt : Nat, failing : BOOLEAN]
             /\ main'.pc = "stop" /\ main'.failing = TRUE /\ trouble'
  BY <1>2 DEF ShellTypeOK, Raises, MainSteps
<1> QED
  BY <1>1, <1>2

\* The main thread, until it stops.
LEMMA MainKeeps ==
    ASSUME ShellInv,
           OpenListener \/ StartThread \/ ProbeServer \/ ConfirmReady \/ ShowWindow \/ LeaveLoop
    PROVE  ShellInv'
<1> USE DEF ShellInv, PortIsHeld, ServerIsKnown, EndingsHaveCauses, ClosingsHaveCauses, On, Alive,
            serverVars, windowVars
<1>2. CASE OpenListener
  <2>1. CASE Raises /\ UNCHANGED listener
    BY <1>2, <2>1, MainMoves DEF OpenListener, ShellTypeOK
  <2>2. CASE Goes("thread") /\ listener' = TRUE /\ UNCHANGED trouble
    <3>1. main'.pc = "thread" /\ main'.failing = main.failing
          /\ main' \in [pc : MainSteps, attempt : Nat, failing : BOOLEAN]
      BY <2>2, MainMoves DEF MainSteps
    <3> QED
      BY <1>2, <2>2, <3>1 DEF OpenListener, ShellTypeOK
  <2> QED
    BY <1>2, <2>1, <2>2 DEF OpenListener
<1>3. CASE StartThread
  <2>1. CASE Raises /\ listener' = FALSE /\ UNCHANGED server
    BY <1>3, <2>1, MainMoves DEF StartThread, ShellTypeOK
  <2>2. CASE Goes("probe") /\ server' = "starting" /\ UNCHANGED <<listener, trouble>>
    <3>1. main'.pc = "probe" /\ main'.failing = main.failing
          /\ main' \in [pc : MainSteps, attempt : Nat, failing : BOOLEAN]
      BY <2>2, MainMoves DEF MainSteps
    <3> QED
      BY <1>3, <2>2, <3>1 DEF StartThread, ShellTypeOK
  <2> QED
    BY <1>3, <2>1, <2>2 DEF StartThread
<1>4. CASE ProbeServer
  <2>1. CASE main' = [main EXCEPT !.attempt = @ + 1] /\ UNCHANGED trouble
    <3>1. /\ main' \in [pc : MainSteps, attempt : Nat, failing : BOOLEAN]
          /\ main'.pc = main.pc /\ main'.failing = main.failing
      BY <2>1 DEF ShellTypeOK
    <3> QED
      BY <1>4, <2>1, <3>1 DEF ProbeServer, ShellTypeOK
  <2>2. CASE Raises \/ (server = "serving" /\ Goes("confirm") /\ UNCHANGED trouble)
    BY <1>4, <2>2, MainMoves DEF ProbeServer, ShellTypeOK, MainSteps
  <2> QED
    BY <1>4, <2>1, <2>2 DEF ProbeServer
<1>5. CASE ConfirmReady
  BY <1>5, MainMoves DEF ConfirmReady, ShellTypeOK, MainSteps
<1>6. CASE ShowWindow
  BY <1>6, MainMoves DEF ShowWindow, ShellTypeOK, MainSteps
<1>7. CASE LeaveLoop
  BY <1>7, MainMoves DEF LeaveLoop, ShellTypeOK, MainSteps
<1> QED
  BY <1>2, <1>3, <1>4, <1>5, <1>6, <1>7

\* The main thread stops the server and waits for its thread.
LEMMA StopKeeps ==
    ASSUME ShellInv, RequestStop \/ JoinServer
    PROVE  ShellInv'
<1> USE DEF ShellInv, PortIsHeld, ServerIsKnown, EndingsHaveCauses, ClosingsHaveCauses, On, Alive,
            windowVars
<1>1. CASE RequestStop
  BY <1>1, MainMoves, ZenonT(60) DEF RequestStop, ShellTypeOK, MainSteps
<1>2. CASE JoinServer
  <2>1. /\ main.pc = "join" /\ ~Alive /\ listener' = FALSE
        /\ main' = [main EXCEPT !.pc = "end", !.failing = @ \/ server = "failed"]
        /\ UNCHANGED <<server, exitAsked, window, document, monitor, failures, userClosed, trouble>>
    BY <1>2 DEF JoinServer
  <2>2. (main.failing \/ server = "failed") \in BOOLEAN
    OBVIOUS
  <2>3. /\ main' \in [pc : MainSteps, attempt : Nat, failing : BOOLEAN]
        /\ main'.pc = "end" /\ main'.failing = (main.failing \/ server = "failed")
    BY <2>1, <2>2 DEF ShellTypeOK, MainSteps
  <2> QED
    BY <2>1, <2>3 DEF ShellTypeOK
<1> QED
  BY <1>1, <1>2

\* The server's thread, the document, its monitor and the user.
LEMMA OthersKeep ==
    ASSUME ShellInv,
           \/ ServerReady \/ ServerExits \/ ServerFails \/ DocumentEvent \/ UserCloses
           \/ MonitorWakes \/ MonitorJudges \/ RecordFailure \/ DestroyWindow
           \/ UNCHANGED shellVars
    PROVE  ShellInv'
<1> USE DEF ShellInv, ShellTypeOK, PortIsHeld, ServerIsKnown, EndingsHaveCauses,
            ClosingsHaveCauses, On, Alive, serverVars, windowVars
<1>1. CASE ServerReady \/ ServerExits \/ ServerFails
  BY <1>1 DEF ServerReady, ServerExits, ServerFails
<1>2. CASE DocumentEvent \/ UserCloses
  BY <1>2 DEF DocumentEvent, UserCloses
<1>3. CASE MonitorWakes \/ MonitorJudges
  BY <1>3 DEF MonitorWakes, MonitorJudges
<1>4. CASE RecordFailure \/ DestroyWindow
  BY <1>4 DEF RecordFailure, DestroyWindow
<1>5. CASE UNCHANGED shellVars
  BY <1>5 DEF shellVars
<1> QED
  BY <1>1, <1>2, <1>3, <1>4, <1>5

\* desktop_runtime.py, server.py: however the main thread, the server's thread and
\* the monitor interleave, the process ends with the thread gone and the port
\* released, reports success only if the user closed a window whose server served
\* to the end, failure only if something failed, and never closes the listener
\* under a live thread.
THEOREM DesktopStaysTruthful == ShellSpec => []DesktopEndsTruthfully
<1>1. ShellInv /\ [ShellNext]_shellVars => ShellInv'
  BY MainKeeps, StopKeeps, OthersKeep DEF ShellNext
<1>2. ShellInv => DesktopEndsTruthfully
  BY DEF ShellInv, PortIsHeld, EndingsHaveCauses, ClosingsHaveCauses, DesktopEndsTruthfully, On
<1> QED
  BY <1>1, <1>2, ShellStarts, PTL DEF ShellSpec

-----------------------------------------------------------------------------
(* A page of the Web frontend. *)

Rows == {"none", "expired"} \cup Active \cup Terminal
Kinds == Starts \cup {"cancel"}

PageType ==
    [pc : {"idle", "sent", "answered", "resent", "again"}, click : Clicks \cup {NoClick},
     kind : Kinds \cup {"none"}, token : Nat, copy : Nat,
     answer : Rows \cup {"csrf", "conflict", "error", "cancelled"},
     shows : Clicks \cup {NoClick}, guard : BOOLEAN, poll : Rows \cup {"off", "timer", "sent"},
     status : {"none"} \cup Active \cup Terminal, can : BOOLEAN, offers : SUBSET Kinds,
     cancelled : BOOLEAN]

Handlings == {"sent", "looked", "busy", "holds", "committed"}
Requests == [key : Clicks, kind : Kinds, token : Nat, copy : Nat, at : Handlings]

LedgerTypeOK ==
    /\ ledger \in [Clicks -> Rows]
    /\ outcome \in [Clicks -> {"none"} \cup Terminal]
    /\ process \in [token : Nat, up : BOOLEAN]

ClientTypeOK ==
    /\ LedgerTypeOK
    /\ page \in PageType /\ page.token <= process.token
    /\ wire \subseteq Requests
    /\ told \in [Clicks -> {"none", "accepted", "refused", "unknown"}]

\* A row keeps how its Operation ended until it is forgotten.
RowsTellEndings ==
    \A k \in Clicks : /\ outcome[k] # "none" <=> ledger[k] \in Terminal \cup {"expired"}
                      /\ ledger[k] \in Terminal => outcome[k] = ledger[k]

\* A click is on its way until the page says what became of it.
ClickIsUnderWay ==
    /\ page.pc # "idle" => page.click \in Clicks /\ page.kind \in Kinds /\ told[page.click] = "none"
    /\ page.pc = "idle" /\ page.click \in Clicks => told[page.click] # "none"
    /\ page.pc \in {"sent", "resent"} => page.answer = "none"

\* A request is of a click the page waits for, or has said something of.
RequestsAreKnown ==
    \A r \in wire : /\ r.token <= process.token
                    /\ r.key = page.click \/ told[r.key] # "none"
                    /\ r.key = page.click /\ page.pc # "idle" => r.kind = page.kind

\* Only a living process handles requests, its own; what one of them accepted is
\* queued until it is dispatched, and nobody else accepted it.
HandlersHold ==
    /\ \A r \in wire : r.at # "sent" => process.up /\ r.token = process.token
    /\ \A r \in wire : r.at = "committed" => ledger[r.key] = "queued"
    /\ \A r, s \in wire : r.at = "committed" /\ s.at = "committed" /\ r.key = s.key => r = s

\* No copy of the request is left that the process could accept, nor any to come.
NoneLeft(k) == \A r \in wire : r.key = k => r.token < process.token

Unstarted(k) == k \in overtaken \/ (ledger[k] = "none" /\ NoneLeft(k))

\* A refusal stays one, on its way to the page and after, unless it was overtaken.
RefusalsStand ==
    /\ \A k \in Clicks : told[k] = "refused" => Unstarted(k)
    /\ page.pc \in {"answered", "again"} /\ page.answer = "conflict" /\ page.kind \in Starts
         => Unstarted(page.click)

\* What the page holds of its last request is still so.
AnswerHolds ==
    /\ page.pc \in {"answered", "again"} /\ page.answer \in Terminal
         => outcome[page.click] = page.answer
    /\ page.answer = "cancelled" => plan = "cancelled"

\* So is what it read of the Operation it shows.
PollHolds ==
    /\ page.poll # "off" => page.shows \in Clicks
    /\ page.poll \in Terminal => outcome[page.shows] = page.poll
    /\ page.shows = NoClick => page.status = "none"

ClientInv ==
    /\ ClientTypeOK /\ RowsTellEndings /\ ClickIsUnderWay /\ RequestsAreKnown /\ HandlersHold
    /\ RefusalsStand /\ AnswerHolds /\ PollHolds /\ ClientTellsTruth

LEMMA ClientStarts == ClientInit => ClientInv
<1> SUFFICES ASSUME ClientInit PROVE ClientInv
  OBVIOUS
<1> USE DEF ClientInit
<1>1. page \in PageType /\ page.token <= process.token
  BY DEF PageType, Rows, Kinds, Starts
<1>2. ClientTypeOK
  BY <1>1 DEF ClientTypeOK, LedgerTypeOK, Rows
<1>3. /\ page.pc = "idle" /\ page.click = NoClick /\ page.answer = "none" /\ page.shows = NoClick
      /\ page.poll = "off" /\ page.status = "none" /\ page.cancelled = FALSE
  OBVIOUS
<1>4. RowsTellEndings
  BY DEF RowsTellEndings, Terminal
<1>5. ClickIsUnderWay /\ AnswerHolds /\ PollHolds
  BY <1>3, ClickAssumption DEF ClickIsUnderWay, AnswerHolds, PollHolds, Terminal
<1>6. RequestsAreKnown /\ HandlersHold /\ RefusalsStand
  BY <1>3 DEF RequestsAreKnown, HandlersHold, RefusalsStand
<1>7. ClientTellsTruth
  BY <1>3 DEF ClientTellsTruth, Terminal
<1> QED
  BY <1>2, <1>4, <1>5, <1>6, <1>7 DEF ClientInv

(* The server.  Whatever it does, an ending stays an ending, a cancelled Plan stays *)
(* cancelled, and only the rows of the keys it answers appear. *)

Advances(keys) ==
    /\ LedgerTypeOK' /\ RowsTellEndings'
    /\ \A k \in Clicks : outcome[k] # "none" => outcome'[k] = outcome[k]
    /\ \A k \in Clicks \ keys : ledger[k] = "none" => ledger'[k] = "none"
    /\ plan = "cancelled" => plan' = "cancelled"

\* Work starts, ends, is interrupted and forgotten.
LEMMA WorkAdvances ==
    ASSUME ClientInv, WorkStarts \/ WorkEnds \/ Restart \/ Forget \/ OtherClient
    PROVE  Advances({})
<1>1. LedgerTypeOK /\ RowsTellEndings
  BY DEF ClientInv, ClientTypeOK
<1> USE DEF Advances, LedgerTypeOK, RowsTellEndings, Rows, Active, Terminal
<1>2. CASE WorkStarts
  BY <1>1, <1>2 DEF WorkStarts
<1>3. CASE WorkEnds
  BY <1>1, <1>3 DEF WorkEnds, Released
<1>4. CASE Restart
  <2>1. CASE process.up
    <3>1. process' \in [token : Nat, up : BOOLEAN] /\ UNCHANGED <<ledger, outcome, plan>>
      BY <1>1, <1>4, <2>1 DEF Restart
    <3> QED
      BY <1>1, <3>1
  <2>2. CASE ~process.up
    <3>1. /\ process' = [token |-> process.token + 1, up |-> TRUE]
          /\ plan' = Released
          /\ ledger' = Interrupt(ledger, {k \in Clicks : ledger[k] \in Active})
          /\ outcome' = Interrupt(outcome, {k \in Clicks : ledger[k] \in Active})
      BY <1>4, <2>2 DEF Restart
    <3>2. process' \in [token : Nat, up : BOOLEAN]
      BY <1>1, <3>1
    <3>3. \A k \in Clicks :
             /\ ledger'[k] = IF ledger[k] \in Active THEN "interrupted" ELSE ledger[k]
             /\ outcome'[k] = IF ledger[k] \in Active THEN "interrupted" ELSE outcome[k]
      BY <3>1 DEF Interrupt
    <3>4. LedgerTypeOK'
      BY <1>1, <3>1, <3>2 DEF Interrupt
    <3>5. RowsTellEndings'
      BY <1>1, <3>3
    <3>6. \A k \in Clicks : outcome[k] # "none" => outcome'[k] = outcome[k]
      BY <1>1, <3>3
    <3>7. \A k \in Clicks : ledger[k] = "none" => ledger'[k] = "none"
      BY <1>1, <3>3
    <3> QED
      BY <3>1, <3>4, <3>5, <3>6, <3>7 DEF Released
  <2> QED
    BY <2>1, <2>2
<1>5. CASE Forget
  BY <1>1, <1>5 DEF Forget
<1>6. CASE OtherClient
  <2>1. UNCHANGED <<ledger, outcome, process>> /\ (plan = "cancelled" => plan' = "cancelled")
    BY <1>6 DEF OtherClient, Released
  <2> QED
    BY <1>1, <2>1
<1> QED
  BY <1>2, <1>3, <1>4, <1>5, <1>6

\* None of it takes what a request accepted before that is dispatched, and a process
\* that dies takes with it the requests in its hands.
LEMMA WorkSparesHandlers ==
    ASSUME ClientInv, WorkStarts \/ WorkEnds \/ Restart \/ Forget \/ OtherClient
    PROVE  /\ HandlersHold' /\ UNCHANGED <<page, told, overtaken>>
           /\ wire' \subseteq wire /\ process.token <= process'.token
<1>1. LedgerTypeOK /\ HandlersHold /\ wire \subseteq Requests /\ process.token \in Nat
  BY DEF ClientInv, ClientTypeOK, LedgerTypeOK
<1> USE DEF HandlersHold, LedgerTypeOK
<1>2. CASE WorkStarts
  <2>1. PICK k \in Clicks : /\ \A r \in wire : r.key = k => r.at # "committed"
                            /\ ledger' = [ledger EXCEPT ![k] = "running"]
    BY <1>2 DEF WorkStarts
  <2>2. UNCHANGED <<process, wire, page, told, overtaken>>
    BY <1>2 DEF WorkStarts
  <2>3. \A r \in wire : r.at = "committed" => ledger'[r.key] = ledger[r.key]
    BY <1>1, <2>1 DEF Requests
  <2> QED
    BY <1>1, <2>2, <2>3
<1>3. CASE WorkEnds \/ Forget
  <2>1. PICK k \in Clicks, s \in Rows : ledger[k] # "queued" /\ ledger' = [ledger EXCEPT ![k] = s]
    BY <1>3 DEF WorkEnds, Forget, Rows, Terminal
  <2>2. UNCHANGED <<process, wire, page, told, overtaken>>
    BY <1>3 DEF WorkEnds, Forget
  <2>3. \A r \in wire : r.at = "committed" => ledger'[r.key] = ledger[r.key]
    BY <1>1, <2>1 DEF Requests
  <2> QED
    BY <1>1, <2>2, <2>3
<1>4. CASE Restart
  <2>1. CASE process.up
    <3>1. /\ process'.token = process.token /\ wire' \subseteq wire
          /\ \A r \in wire' : r.at = "sent"
      BY <1>1, <1>4, <2>1 DEF Restart
    <3> QED
      BY <1>1, <1>4, <3>1 DEF Restart
  <2>2. CASE ~process.up
    <3>1. process'.token = process.token + 1 /\ UNCHANGED <<wire, page, told, overtaken>>
      BY <1>4, <2>2 DEF Restart
    <3>2. \A r \in wire : r.at = "sent"
      BY <1>1, <2>2
    <3> QED
      BY <1>1, <3>1, <3>2
  <2> QED
    BY <2>1, <2>2
<1>5. CASE OtherClient
  BY <1>1, <1>5 DEF OtherClient
<1> QED
  BY <1>2, <1>3, <1>4, <1>5

\* None of it reaches the page before the page asks.
LEMMA ServerKeeps ==
    ASSUME ClientInv, Advances({}), HandlersHold', UNCHANGED <<page, told, overtaken>>,
           wire' \subseteq wire, process.token <= process'.token
    PROVE  ClientInv'
<1>1. /\ page \in PageType /\ wire \subseteq Requests /\ process.token \in Nat
      /\ process'.token \in Nat
  BY DEF ClientInv, ClientTypeOK, Advances, LedgerTypeOK
<1>2. ClientTypeOK'
  BY <1>1 DEF ClientInv, ClientTypeOK, Advances, PageType
<1>3. ClickIsUnderWay' /\ RequestsAreKnown'
  BY <1>1 DEF ClientInv, ClickIsUnderWay, RequestsAreKnown, Requests
<1>4. \A k \in Clicks : Unstarted(k) => Unstarted(k)'
  BY <1>1 DEF Unstarted, NoneLeft, Advances, Requests
<1>5. RefusalsStand'
  BY <1>4 DEF ClientInv, ClickIsUnderWay, RefusalsStand
<1>6. AnswerHolds' /\ PollHolds'
  BY DEF ClientInv, ClickIsUnderWay, AnswerHolds, PollHolds, Advances, Terminal
<1>7. page.status \in Terminal \/ (~page.guard /\ page.shows # NoClick) => page.shows \in Clicks
  BY <1>1 DEF ClientInv, PollHolds, PageType, Terminal
<1>8. ClientTellsTruth'
  BY <1>5, <1>7 DEF ClientInv, ClientTellsTruth, RefusalsStand, Unstarted, Advances, Terminal
<1> QED
  BY <1>2, <1>3, <1>5, <1>6, <1>8 DEF ClientInv, Advances

\* A request thread goes one step on, and may accept what nobody has accepted.
LEMMA ProceedingKeeps ==
    ASSUME ClientInv, NEW r \in wire, NEW at \in Handlings \ {"sent"}, Proceeds(r, at),
           process.up, r.token = process.token, UNCHANGED <<outcome, process, told, overtaken>>,
           \/ at # "committed" /\ UNCHANGED <<ledger, plan>>
           \/ /\ ledger[r.key] = "none" /\ ledger' = [ledger EXCEPT ![r.key] = "queued"]
              /\ plan = "cancelled" => plan' = "cancelled"
    PROVE  ClientInv'
<1>1. /\ LedgerTypeOK /\ RowsTellEndings /\ HandlersHold /\ page \in PageType
      /\ wire \subseteq Requests /\ r \in Requests /\ UNCHANGED page
  BY DEF ClientInv, ClientTypeOK, Proceeds
<1>2. PICK s : /\ s = [r EXCEPT !.at = at] /\ wire' = (wire \ {r}) \cup {s}
  BY DEF Proceeds
<1>3. /\ s \in Requests /\ s.at = at /\ s.key = r.key /\ s.kind = r.kind /\ s.token = r.token
  BY <1>1, <1>2 DEF Requests
<1>4. /\ LedgerTypeOK' /\ RowsTellEndings'
      /\ \A k \in Clicks : outcome[k] # "none" => outcome'[k] = outcome[k]
      /\ plan = "cancelled" => plan' = "cancelled"
      /\ \A k \in Clicks : k # r.key => ledger'[k] = ledger[k]
      /\ ledger[r.key] # "none" => ledger'[r.key] = ledger[r.key]
      /\ at = "committed" => ledger[r.key] = "none" /\ ledger'[r.key] = "queued"
  BY <1>1 DEF LedgerTypeOK, RowsTellEndings, Rows, Active, Terminal, Requests
<1>5. ClientTypeOK'
  BY <1>1, <1>2, <1>3, <1>4 DEF ClientInv, ClientTypeOK
<1>6. ClickIsUnderWay' /\ RequestsAreKnown'
  <2>1. ClickIsUnderWay'
    BY <1>1 DEF ClientInv, ClickIsUnderWay
  <2>2. \A q \in wire' : q = s \/ q \in wire
    BY <1>2
  <2>3. /\ s.token <= process.token
        /\ s.key = page.click \/ told[s.key] # "none"
        /\ s.key = page.click /\ page.pc # "idle" => s.kind = page.kind
    BY <1>3 DEF ClientInv, RequestsAreKnown
  <2>4. RequestsAreKnown'
    BY <1>1, <2>2, <2>3 DEF ClientInv, RequestsAreKnown
  <2> QED
    BY <2>1, <2>4
<1>7. \A q \in wire : q.at = "committed" => ledger[q.key] = "queued" /\ ledger'[q.key] = "queued"
  BY <1>1, <1>4 DEF HandlersHold, Requests
<1>8. HandlersHold'
  <2>1. \A q \in wire' : q.at # "sent" => process'.up /\ q.token = process'.token
    BY <1>1, <1>2, <1>3 DEF HandlersHold
  <2>2. \A q \in wire' : q.at = "committed" => ledger'[q.key] = "queued"
    BY <1>2, <1>3, <1>4, <1>7
  <2>3. \A q \in wire : q.at = "committed" /\ at = "committed" => q.key # r.key
    BY <1>4, <1>7
  <2>4. \A p, q \in wire' : p.at = "committed" /\ q.at = "committed" /\ p.key = q.key => p = q
    <3> SUFFICES ASSUME NEW p \in wire', NEW q \in wire', p.at = "committed",
                        q.at = "committed", p.key = q.key
                 PROVE  p = q
      OBVIOUS
    <3>1. (p = s \/ p \in wire) /\ (q = s \/ q \in wire)
      BY <1>2
    <3>2. (p = s <=> q = s)
      BY <1>3, <2>3, <3>1
    <3> QED
      BY <1>1, <3>1, <3>2 DEF HandlersHold
  <2> QED
    BY <2>1, <2>2, <2>4 DEF HandlersHold
<1>9. \A k \in Clicks : Unstarted(k) => Unstarted(k)'
  <2> SUFFICES ASSUME NEW k \in Clicks, Unstarted(k), k \notin overtaken PROVE Unstarted(k)'
    BY DEF Unstarted
  <2>1. ledger[k] = "none" /\ NoneLeft(k) /\ k # r.key
    BY <1>1 DEF Unstarted, NoneLeft, LedgerTypeOK
  <2>2. NoneLeft(k)'
    BY <1>2, <1>3, <2>1 DEF NoneLeft
  <2> QED
    BY <1>4, <2>1, <2>2 DEF Unstarted
<1>10. RefusalsStand'
  BY <1>1, <1>9 DEF ClientInv, ClickIsUnderWay, RefusalsStand
<1>11. AnswerHolds' /\ PollHolds'
  BY <1>1, <1>4 DEF ClientInv, ClickIsUnderWay, AnswerHolds, PollHolds, Terminal
<1>12. page.status \in Terminal \/ (~page.guard /\ page.shows # NoClick) => page.shows \in Clicks
  BY <1>1 DEF ClientInv, PollHolds, PageType, Terminal
<1>13. ClientTellsTruth'
  BY <1>1, <1>4, <1>10, <1>12 DEF ClientInv, ClientTellsTruth, RefusalsStand, Unstarted, Terminal
<1> QED
  BY <1>4, <1>5, <1>6, <1>8, <1>10, <1>11, <1>13 DEF ClientInv

\* An answer that is true when it is given is held by the page as such, or lost.
LEMMA AnswersKeep ==
    ASSUME ClientInv, NEW r \in wire, Advances({}), UNCHANGED <<process, told>>,
           \/ UNCHANGED ledger
           \/ r.at = "committed" /\ ledger' = [ledger EXCEPT ![r.key] = "interrupted"],
           overtaken \subseteq overtaken',
           NEW answer \in Rows \cup {"csrf", "conflict", "error", "cancelled"},
           Answers(r, answer),
           answer \in Terminal => outcome'[r.key] = answer,
           answer = "conflict" /\ r.kind \in Starts => Unstarted(r.key)',
           answer = "cancelled" => plan' = "cancelled"
    PROVE  ClientInv'
<1>1. /\ page \in PageType /\ r.key \in Clicks /\ HandlersHold /\ wire \subseteq Requests
      /\ LedgerTypeOK
  BY DEF ClientInv, ClientTypeOK, Requests
<1>2. wire' = wire \ {r}
  BY DEF Answers
<1>3. /\ page' \in PageType
      /\ UNCHANGED <<page.click, page.kind, page.token, page.shows, page.guard, page.poll,
                     page.status, page.cancelled>>
      /\ \/ UNCHANGED page
         \/ /\ Waiting /\ page.click = r.key
            /\ page'.pc \in {"answered", "again"} /\ page'.answer = answer
  <2>1. CASE UNCHANGED page
    BY <1>1, <2>1
  <2>2. CASE page' # page
    <3>1. Waiting /\ page.click = r.key
      BY <2>2 DEF Answers
    <3>2. PICK step \in {"answered", "again"} :
             page' = [page EXCEPT !.pc = step, !.answer = answer]
      BY <2>2 DEF Answers
    <3>3. page' \in PageType
      BY <1>1, <3>2 DEF PageType
    <3>4. page'.pc = step /\ page'.answer = answer
      BY <1>1, <3>2 DEF PageType
    <3>5. UNCHANGED <<page.click, page.kind, page.token, page.shows, page.guard, page.poll,
                      page.status, page.cancelled>>
      BY <3>2
    <3> QED
      BY <3>1, <3>3, <3>4, <3>5
  <2> QED
    BY <2>1, <2>2
<1>4. ClientTypeOK'
  BY <1>2, <1>3 DEF ClientInv, ClientTypeOK, Advances
<1>5. ClickIsUnderWay'
  BY <1>3 DEF ClientInv, ClickIsUnderWay, Waiting
<1>6. RequestsAreKnown'
  BY <1>2, <1>3 DEF ClientInv, RequestsAreKnown, Waiting
<1>7. HandlersHold'
  <2>1. \A q \in wire' : q.at = "committed" => ledger'[q.key] = ledger[q.key]
    BY <1>1, <1>2 DEF HandlersHold, LedgerTypeOK, Requests
  <2> QED
    BY <1>1, <1>2, <2>1 DEF HandlersHold
<1>8. \A k \in Clicks : Unstarted(k) => Unstarted(k)'
  BY <1>2 DEF Unstarted, NoneLeft, Advances
<1>9. Waiting => page.kind \in Kinds
  BY DEF ClientInv, ClickIsUnderWay, Waiting
<1>10. Waiting /\ page.click = r.key => r.kind = page.kind
  BY DEF ClientInv, RequestsAreKnown, Waiting
<1>11. RefusalsStand'
  BY <1>1, <1>3, <1>8, <1>10 DEF ClientInv, ClickIsUnderWay, RefusalsStand
<1>12. AnswerHolds'
  BY <1>1, <1>3 DEF ClientInv, ClickIsUnderWay, AnswerHolds, Advances, Terminal
<1>13. PollHolds'
  BY <1>3 DEF ClientInv, PollHolds, Advances, Terminal
<1>14. page.status \in Terminal \/ (~page.guard /\ page.shows # NoClick) => page.shows \in Clicks
  BY <1>1 DEF ClientInv, PollHolds, PageType, Terminal
<1>15. ClientTellsTruth'
  BY <1>3, <1>11, <1>14 DEF ClientInv, ClientTellsTruth, RefusalsStand, Unstarted, Advances, Terminal
<1> QED
  BY <1>4, <1>5, <1>6, <1>7, <1>11, <1>12, <1>13, <1>15 DEF ClientInv, Advances

\* Whoever is refused has not started, and no copy of the request is left that could,
\* unless that is remembered.
LEMMA RefusingKeeps ==
    ASSUME ClientInv, NEW r \in wire, r.token = process.token, UNCHANGED <<process, told>>,
           r.kind \in Starts => ledger[r.key] = "none", Refuse(r)
    PROVE  ClientInv'
<1>1. /\ LedgerTypeOK /\ RowsTellEndings /\ r.key \in Clicks /\ wire \subseteq Requests
      /\ process.token \in Nat
  BY DEF ClientInv, ClientTypeOK, LedgerTypeOK, Requests
<1>2. /\ Answers(r, "conflict") /\ UNCHANGED <<ledger, outcome, plan>>
      /\ overtaken \subseteq overtaken' /\ wire' = wire \ {r}
  BY DEF Refuse, Answers, clientRows
<1>3. r.key \in overtaken' \/ \A s \in wire' : s.key = r.key => s.token # process.token
  BY <1>2 DEF Refuse
<1>4. r.kind \in Starts => Unstarted(r.key)'
  <2>1. \A s \in wire' : s.token \in Nat /\ s.token <= process.token
    BY <1>1, <1>2 DEF ClientInv, RequestsAreKnown, Requests
  <2> QED
    BY <1>1, <1>2, <1>3, <2>1 DEF Unstarted, NoneLeft
<1>5. Advances({})
  BY <1>1, <1>2 DEF Advances, LedgerTypeOK, RowsTellEndings
<1> QED
  BY <1>1, <1>2, <1>4, <1>5, AnswersKeep DEF Terminal

\* An answer that reports what there is.
LEMMA ReportingKeeps ==
    ASSUME ClientInv, NEW r \in wire, UNCHANGED <<process, told>>,
           \/ Replay(r)
           \/ /\ UNCHANGED <<clientRows, overtaken>>
              /\ Answers(r, "csrf") \/ Answers(r, "error")
    PROVE  ClientInv'
<1>1. LedgerTypeOK /\ RowsTellEndings /\ r.key \in Clicks
  BY DEF ClientInv, ClientTypeOK, Requests
<1>2. UNCHANGED <<ledger, outcome, plan, overtaken>>
  BY DEF Replay, clientRows
<1>3. Advances({})
  BY <1>1, <1>2 DEF Advances, LedgerTypeOK, RowsTellEndings
<1>4. CASE Replay(r)
  <2>1. ledger[r.key] \in Rows /\ ledger[r.key] \notin {"conflict", "cancelled"}
    BY <1>1 DEF LedgerTypeOK, Rows, Active, Terminal
  <2>2. ledger[r.key] \in Terminal => outcome'[r.key] = ledger[r.key]
    BY <1>1, <1>2 DEF RowsTellEndings
  <2> QED
    BY <1>2, <1>3, <1>4, <2>1, <2>2, AnswersKeep DEF Replay
<1>5. CASE Answers(r, "csrf") \/ Answers(r, "error")
  BY <1>2, <1>3, <1>5, AnswersKeep DEF Terminal
<1> QED
  BY <1>4, <1>5

\* Every answer the server gives is true when it gives it.
LEMMA HandlingKeeps ==
    ASSUME ClientInv, HandleRequest
    PROVE  ClientInv'
<1>1. PICK r \in wire :
         \/ RefuseToken(r)
         \/ /\ r.token = process.token
            /\ \/ r.kind \in Starts
                  /\ (Look(r) \/ TakeLock(r) \/ SecondLook(r) \/ Reserve(r) \/ Dispatch(r))
               \/ r.kind = "cancel" /\ (LockToCancel(r) \/ CancelPlan(r))
               \/ Fail(r)
  BY DEF HandleRequest
<1>2. /\ LedgerTypeOK /\ RowsTellEndings /\ r.key \in Clicks /\ process.up
      /\ UNCHANGED <<busy, process, told>> /\ HandlersHold
  BY DEF ClientInv, ClientTypeOK, HandleRequest, Requests
<1> USE DEF Handlings
<1>3. CASE RefuseToken(r) \/ Fail(r)
  BY <1>2, <1>3, ReportingKeeps DEF RefuseToken, Fail
<1>4. CASE r.token = process.token /\ Look(r)
  <2>1. CASE Replay(r)
    BY <1>2, <2>1, ReportingKeeps
  <2>2. CASE Proceeds(r, "looked") /\ UNCHANGED <<clientRows, overtaken>>
    BY <1>2, <1>4, <2>2, ProceedingKeeps DEF clientRows
  <2> QED
    BY <1>4, <2>1, <2>2 DEF Look
<1>5. CASE r.token = process.token /\ TakeLock(r)
  BY <1>2, <1>5, ProceedingKeeps DEF TakeLock, clientRows
<1>6. CASE r.token = process.token /\ SecondLook(r)
  BY <1>2, <1>6, ReportingKeeps, RefusingKeeps DEF SecondLook
<1>7. CASE r.token = process.token /\ Reserve(r)
  <2>1. CASE Replay(r)
    BY <1>2, <2>1, ReportingKeeps
  <2>2. CASE ledger[r.key] = "none" /\ Refuse(r)
    BY <1>2, <1>7, <2>2, RefusingKeeps
  <2>3. CASE /\ ledger[r.key] = "none" /\ (r.kind = "apply" => plan = "ready")
             /\ Proceeds(r, "committed")
             /\ ledger' = [ledger EXCEPT ![r.key] = "queued"]
             /\ plan' = IF r.kind = "apply" THEN "applying" ELSE plan
             /\ UNCHANGED <<outcome, overtaken>>
    BY <1>2, <1>7, <2>3, ProceedingKeeps
  <2> QED
    BY <1>7, <2>1, <2>2, <2>3 DEF Reserve
<1>8. CASE Dispatch(r)
  <2>1. ledger[r.key] = "queued" /\ outcome[r.key] = "none" /\ r.at = "committed"
    BY <1>2, <1>8 DEF Dispatch, HandlersHold, RowsTellEndings, Terminal
  <2>2. CASE Answers(r, "queued") /\ UNCHANGED <<clientRows, overtaken>>
    <3>1. Advances({})
      BY <1>2, <2>2 DEF Advances, LedgerTypeOK, RowsTellEndings, clientRows
    <3> QED
      BY <1>2, <2>2, <3>1, AnswersKeep DEF clientRows, Rows, Active, Terminal
  <2>3. CASE /\ Answers(r, "error") /\ UNCHANGED overtaken
             /\ ledger' = [ledger EXCEPT ![r.key] = "interrupted"]
             /\ outcome' = [outcome EXCEPT ![r.key] = "interrupted"]
             /\ plan' = Released
    <3>1. plan = "cancelled" => plan' = "cancelled"
      BY <2>3 DEF Released
    <3>2. Advances({})
      BY <1>2, <2>1, <2>3, <3>1 DEF Advances, LedgerTypeOK, RowsTellEndings, Rows, Terminal
    <3> QED
      BY <1>2, <2>1, <2>3, <3>2, AnswersKeep DEF Terminal
  <2> QED
    BY <1>8, <2>2, <2>3 DEF Dispatch
<1>9. CASE r.token = process.token /\ r.kind = "cancel" /\ LockToCancel(r)
  <2>1. CASE Refuse(r)
    BY <1>2, <1>9, <2>1, RefusingKeeps DEF Starts
  <2>2. CASE Proceeds(r, "holds") /\ UNCHANGED <<clientRows, overtaken>>
    BY <1>2, <1>9, <2>2, ProceedingKeeps DEF clientRows
  <2> QED
    BY <1>9, <2>1, <2>2 DEF LockToCancel
<1>10. CASE r.token = process.token /\ r.kind = "cancel" /\ CancelPlan(r)
  <2>1. CASE Refuse(r)
    BY <1>2, <1>10, <2>1, RefusingKeeps DEF Starts
  <2>2. CASE /\ plan' = "cancelled" /\ Answers(r, "cancelled")
             /\ UNCHANGED <<ledger, outcome, overtaken>>
    <3>1. Advances({})
      BY <1>2, <2>2 DEF Advances, LedgerTypeOK, RowsTellEndings
    <3> QED
      BY <1>2, <2>2, <3>1, AnswersKeep DEF Terminal
  <2> QED
    BY <1>10, <2>1, <2>2 DEF CancelPlan
<1> QED
  BY <1>1, <1>3, <1>4, <1>5, <1>6, <1>7, <1>8, <1>9, <1>10

(* The page. *)

\* Sending one more request of the page's click, while the page waits for its answer.
LEMMA SendingKeeps ==
    ASSUME ClientInv, page' \in PageType, page'.click \in Clicks, page'.kind \in Kinds,
           page'.pc \in {"sent", "resent"}, page'.token <= process.token,
           told[page'.click] = "none", page'.answer = "none",
           page'.click # page.click => page.click = NoClick \/ told[page.click] # "none",
           \A r \in wire : r.key = page'.click => r.kind = page'.kind,
           wire' = wire \cup {Request},
           UNCHANGED <<ledger, outcome, plan, process, told, overtaken>>,
           PollHolds',
           page'.status \in Terminal => outcome[page'.shows] = page'.status,
           ~page'.guard /\ page'.shows # NoClick => outcome[page'.shows] # "none",
           page'.cancelled => plan = "cancelled"
    PROVE  ClientInv'
<1>1. PICK new : /\ new = [key |-> page'.click, kind |-> page'.kind, token |-> page'.token,
                           copy |-> page'.copy, at |-> "sent"]
                 /\ wire' = wire \cup {new}
  BY DEF Request
<1>2. /\ new \in Requests /\ new.key = page'.click /\ new.kind = page'.kind
      /\ new.token = page'.token /\ new.at = "sent"
  BY <1>1 DEF Requests, Handlings, PageType
<1>3. ClientTypeOK'
  BY <1>1, <1>2 DEF ClientInv, ClientTypeOK, LedgerTypeOK
<1>4. RowsTellEndings' /\ ClickIsUnderWay' /\ AnswerHolds'
  BY DEF ClientInv, RowsTellEndings, ClickIsUnderWay, AnswerHolds
<1>5. \A r \in wire : r.key = page'.click \/ told[r.key] # "none"
  BY ClickAssumption DEF ClientInv, ClientTypeOK, RequestsAreKnown, Requests
<1>6. RequestsAreKnown'
  BY <1>1, <1>2, <1>5 DEF ClientInv, RequestsAreKnown
<1>7. HandlersHold'
  BY <1>1, <1>2 DEF ClientInv, HandlersHold
<1>8. \A k \in Clicks : k # page'.click /\ Unstarted(k) => Unstarted(k)'
  BY <1>1, <1>2 DEF Unstarted, NoneLeft
<1>9. RefusalsStand'
  BY <1>8 DEF ClientInv, RefusalsStand
<1>10. ClientTellsTruth'
  BY DEF ClientInv, ClientTellsTruth
<1> QED
  BY <1>3, <1>4, <1>6, <1>7, <1>9, <1>10 DEF ClientInv

\* A click draws a key nobody has used; a refused token is renewed, and the request
\* sent again under the same key; the browser sends it again by itself.
LEMMA ClickKeeps ==
    ASSUME ClientInv, NEW k \in Clicks, NEW kind \in Kinds, Click(k, kind)
    PROVE  ClientInv'
<1>1. /\ page \in PageType /\ page.token <= process.token /\ page.pc = "idle" /\ ~page.guard
      /\ told[k] = "none" /\ k # page.click
      /\ UNCHANGED <<ledger, outcome, plan, process, told, overtaken>>
  BY DEF ClientInv, ClientTypeOK, ClickIsUnderWay, Click, Enabled, serverState
<1>2. /\ page' \in PageType /\ page'.pc = "sent" /\ page'.click = k /\ page'.kind = kind
      /\ page'.answer = "none" /\ page'.token = page.token
      /\ UNCHANGED page.guard
      /\ \/ /\ UNCHANGED <<page.shows, page.poll, page.status>>
            /\ page'.cancelled = FALSE
         \/ /\ page'.shows = NoClick /\ page'.poll = "off" /\ page'.status = "none"
            /\ UNCHANGED page.cancelled
  <2>1. CASE kind = "cancel"
    <3>1. page' = [page EXCEPT !.pc = "sent", !.click = k, !.kind = kind, !.copy = 1,
                               !.answer = "none", !.cancelled = FALSE]
      BY <2>1 DEF Click
    <3> QED
      BY <1>1, <3>1 DEF PageType, Rows
  <2>2. CASE kind # "cancel"
    <3>1. page' = [page EXCEPT !.pc = "sent", !.click = k, !.kind = kind, !.copy = 1,
                               !.answer = "none", !.shows = NoClick, !.poll = "off",
                               !.status = "none"]
      BY <2>2 DEF Click
    <3> QED
      BY <1>1, <3>1 DEF PageType, Rows
  <2> QED
    BY <2>1, <2>2
<1>3. \A r \in wire : r.key # k
  BY <1>1 DEF ClientInv, RequestsAreKnown
<1>4. page.click = NoClick \/ told[page.click] # "none"
  BY <1>1 DEF ClientInv, ClickIsUnderWay, PageType
<1>5. PollHolds'
  BY <1>1, <1>2 DEF ClientInv, PollHolds, Terminal
<1>6. /\ page'.status \in Terminal => outcome[page'.shows] = page'.status
      /\ ~page'.guard /\ page'.shows # NoClick => outcome[page'.shows] # "none"
      /\ page'.cancelled => plan = "cancelled"
  BY <1>1, <1>2 DEF ClientInv, ClientTellsTruth, Terminal
<1>7. wire' = wire \cup {Request}
  BY DEF Click
<1> QED
  BY <1>1, <1>2, <1>3, <1>4, <1>5, <1>6, <1>7, SendingKeeps

LEMMA SendingAgainKeeps ==
    ASSUME ClientInv, RenewToken \/ Resend
    PROVE  ClientInv'
<1>1. /\ page \in PageType /\ page.pc # "idle" /\ process.token \in Nat
      /\ page.token <= process.token
      /\ page.click \in Clicks /\ page.kind \in Kinds /\ told[page.click] = "none"
      /\ UNCHANGED <<ledger, outcome, plan, process, told, overtaken>>
      /\ wire' = wire \cup {Request}
  BY DEF ClientInv, ClientTypeOK, LedgerTypeOK, ClickIsUnderWay, RenewToken, Resend, TokenRefused,
         Waiting, serverState
<1>2. /\ page' \in PageType /\ page'.pc \in {"sent", "resent"}
      /\ page'.answer = "none" /\ page'.token <= process.token
      /\ UNCHANGED <<page.click, page.kind, page.shows, page.poll, page.status, page.guard,
                     page.cancelled>>
  <2>1. CASE RenewToken
    <3>0. page.copy + 1 \in Nat
      BY <1>1 DEF PageType
    <3>1. PICK n \in Nat :
             page' = [page EXCEPT !.pc = "resent", !.token = process.token, !.copy = n,
                                  !.answer = "none"]
      BY <2>1, <3>0 DEF RenewToken
    <3>2. page' \in PageType
      BY <1>1, <3>1 DEF PageType, Rows
    <3>3. page'.pc = "resent" /\ page'.token = process.token /\ page'.answer = "none"
      BY <1>1, <3>1 DEF PageType
    <3>4. UNCHANGED <<page.click, page.kind, page.shows, page.poll, page.status, page.guard,
                      page.cancelled>>
      BY <1>1, <3>1 DEF PageType
    <3> QED
      BY <1>1, <3>2, <3>3, <3>4
  <2>2. CASE Resend
    <3>1. page' = [page EXCEPT !.copy = @ + 1] /\ page.pc \in {"sent", "resent"}
      BY <2>2 DEF Resend, Waiting
    <3>2. page.answer = "none"
      BY <3>1 DEF ClientInv, ClickIsUnderWay
    <3>3. page' \in PageType
      BY <1>1, <3>1 DEF PageType
    <3>4. /\ page'.pc = page.pc /\ page'.token = page.token /\ page'.answer = page.answer
          /\ UNCHANGED <<page.click, page.kind, page.shows, page.poll, page.status, page.guard,
                         page.cancelled>>
      BY <1>1, <3>1 DEF PageType
    <3> QED
      BY <1>1, <3>1, <3>2, <3>3, <3>4
  <2> QED
    BY <2>1, <2>2
<1>3. \A r \in wire : r.key = page.click => r.kind = page.kind
  BY <1>1 DEF ClientInv, RequestsAreKnown
<1>4. PollHolds'
  BY <1>1, <1>2 DEF ClientInv, PollHolds
<1>5. /\ page'.status \in Terminal => outcome[page'.shows] = page'.status
      /\ ~page'.guard /\ page'.shows # NoClick => outcome[page'.shows] # "none"
      /\ page'.cancelled => plan = "cancelled"
  BY <1>1, <1>2 DEF ClientInv, ClientTellsTruth
<1> QED
  BY <1>1, <1>2, <1>3, <1>4, <1>5, SendingKeeps

\* What became of the click, once the page says so.  Refused is said only of a start
\* that the server refused.
LEMMA VerdictKeeps ==
    ASSUME ClientInv, page.pc # "idle", page' \in PageType, page'.pc = "idle",
           page'.answer = "none",
           UNCHANGED <<ledger, outcome, plan, process, wire, overtaken, page.click, page.token>>,
           NEW verdict \in {"accepted", "refused", "unknown"},
           told' = [told EXCEPT ![page.click] = verdict],
           verdict = "refused" => Unstarted(page.click),
           PollHolds',
           page'.status \in Terminal => outcome[page'.shows] = page'.status,
           ~page'.guard /\ page'.shows # NoClick => outcome[page'.shows] # "none",
           page'.cancelled => plan = "cancelled"
    PROVE  ClientInv'
<1>1. /\ page.click \in Clicks /\ told'[page.click] = verdict
      /\ \A k \in Clicks : k # page.click => told'[k] = told[k]
  BY DEF ClientInv, ClientTypeOK, ClickIsUnderWay
<1>2. ClientTypeOK'
  BY <1>1 DEF ClientInv, ClientTypeOK, LedgerTypeOK
<1>3. RowsTellEndings' /\ ClickIsUnderWay' /\ AnswerHolds' /\ HandlersHold'
  BY <1>1 DEF ClientInv, RowsTellEndings, ClickIsUnderWay, AnswerHolds, HandlersHold
<1>4. \A r \in wire : r.key \in Clicks
  BY DEF ClientInv, ClientTypeOK, Requests
<1>5. RequestsAreKnown'
  BY <1>1, <1>4 DEF ClientInv, RequestsAreKnown
<1>6. \A k \in Clicks : Unstarted(k)' <=> Unstarted(k)
  BY DEF Unstarted, NoneLeft
<1>7. RefusalsStand'
  BY <1>1, <1>6 DEF ClientInv, RefusalsStand
<1>8. ClientTellsTruth'
  BY <1>7 DEF ClientTellsTruth, RefusalsStand, Unstarted
<1> QED
  BY <1>2, <1>3, <1>5, <1>7, <1>8 DEF ClientInv

\* The page says what it was answered, or that it does not know.
LEMMA SettlingKeeps ==
    ASSUME ClientInv, RenewalFails \/ LoseAnswer \/ StartSettles \/ CancelSettles
    PROVE  ClientInv'
<1>1. /\ page \in PageType /\ page.pc # "idle" /\ page.click \in Clicks
      /\ UNCHANGED <<ledger, outcome, plan, process, wire, overtaken>>
  BY DEF ClientInv, ClientTypeOK, ClickIsUnderWay, RenewalFails, LoseAnswer, StartSettles,
         CancelSettles, TokenRefused, Waiting, Settled, serverState
<1>2. PollHolds /\ ClientTellsTruth /\ AnswerHolds /\ RefusalsStand
  BY DEF ClientInv
<1>3. /\ Rested \in PageType /\ Rested.pc = "idle" /\ Rested.answer = "none"
      /\ Rested.click = page.click /\ Rested.token = page.token /\ Rested.shows = page.shows
      /\ Rested.poll = page.poll /\ Rested.status = page.status /\ Rested.guard = page.guard
      /\ Rested.cancelled = page.cancelled
  BY <1>1 DEF Rested, PageType, Rows
<1>4. ASSUME page' = Rested,
             NEW verdict \in {"accepted", "refused", "unknown"},
             told' = [told EXCEPT ![page.click] = verdict],
             verdict = "refused" => StartSettles /\ page.answer = "conflict"
      PROVE  ClientInv'
  <2>1. verdict = "refused" => Unstarted(page.click)
    BY <1>2, <1>4 DEF StartSettles, Settled, RefusalsStand
  <2>2. PollHolds'
    BY <1>1, <1>2, <1>3, <1>4 DEF PollHolds
  <2>3. /\ page'.status \in Terminal => outcome[page'.shows] = page'.status
        /\ ~page'.guard /\ page'.shows # NoClick => outcome[page'.shows] # "none"
        /\ page'.cancelled => plan = "cancelled"
    BY <1>1, <1>2, <1>3, <1>4 DEF ClientTellsTruth
  <2> QED
    BY <1>1, <1>3, <1>4, <2>1, <2>2, <2>3, VerdictKeeps
<1>5. CASE RenewalFails \/ LoseAnswer
  BY <1>4, <1>5 DEF RenewalFails, LoseAnswer
<1>6. CASE StartSettles
  <2>1. page.pc \in {"answered", "again"}
    BY <1>6 DEF StartSettles, Settled
  <2>2. CASE page.answer \in Active \cup Terminal
    <3>1. Guarded(page.answer) \in BOOLEAN
      BY DEF Guarded
    <3>2. PICK poll \in {"off", "timer"} :
             page' = [Rested EXCEPT !.shows = page.click, !.guard = Guarded(page.answer),
                                    !.status = page.answer, !.poll = poll]
      BY <1>6, <2>2 DEF StartSettles
    <3>3. /\ page' \in PageType /\ page'.pc = "idle" /\ page'.shows = page.click
          /\ page'.guard = Guarded(page.answer) /\ page'.status = page.answer
          /\ page'.poll \in {"off", "timer"}
      <4>1. page' \in PageType
        <5>1. /\ page.answer \in {"none"} \cup Active \cup Terminal
              /\ poll \in Rows \cup {"off", "timer", "sent"}
              /\ page.click \in Clicks \cup {NoClick}
          BY <1>1, <2>2
        <5> QED
          BY <1>3, <3>1, <3>2, <5>1 DEF PageType
      <4>2. /\ page'.pc = Rested.pc /\ page'.shows = page.click /\ page'.poll = poll
            /\ page'.guard = Guarded(page.answer) /\ page'.status = page.answer
        BY <1>3, <3>2 DEF PageType
      <4> QED
        BY <1>3, <4>1, <4>2
    <3>4. /\ page'.answer = "none" /\ UNCHANGED <<page.click, page.token, page.cancelled>>
      BY <1>3, <3>2
    <3>5. told' = [told EXCEPT ![page.click] = "accepted"]
      BY <1>6, <2>2 DEF StartSettles
    <3>6. page.answer \in Terminal => outcome[page.click] = page.answer
      BY <1>2, <2>1 DEF AnswerHolds
    <3>7. ~page'.guard => page.answer \in Terminal
      BY <2>2, <3>3 DEF Guarded
    <3>8. PollHolds'
      BY <1>1, <3>3, ClickAssumption DEF PollHolds, Terminal
    <3>9. /\ page'.status \in Terminal => outcome[page'.shows] = page'.status
          /\ ~page'.guard => outcome[page'.shows] # "none"
          /\ page'.cancelled => plan = "cancelled"
      BY <1>2, <3>3, <3>4, <3>6, <3>7 DEF Terminal, ClientTellsTruth
    <3> QED
      BY <1>1, <3>3, <3>4, <3>5, <3>8, <3>9, VerdictKeeps
  <2>3. CASE page.answer \notin Active \cup Terminal
    BY <1>4, <1>6, <2>3 DEF StartSettles
  <2> QED
    BY <2>2, <2>3
<1>7. CASE CancelSettles
  <2>1. PICK announced \in BOOLEAN :
           /\ page' = [Rested EXCEPT !.cancelled = announced]
           /\ announced => page.answer = "cancelled"
    BY <1>7 DEF CancelSettles
  <2>2. /\ page' \in PageType /\ page'.pc = "idle" /\ page'.cancelled = announced
        /\ page'.answer = "none"
        /\ UNCHANGED <<page.click, page.token, page.shows, page.poll, page.status, page.guard>>
    BY <1>3, <2>1 DEF PageType
  <2>3. PICK verdict \in {"accepted", "unknown"} : told' = [told EXCEPT ![page.click] = verdict]
    BY <1>7 DEF CancelSettles
  <2>4. page'.cancelled => plan = "cancelled"
    BY <1>2, <2>1, <2>2 DEF AnswerHolds
  <2>5. PollHolds'
    BY <1>1, <1>2, <2>2 DEF PollHolds
  <2>6. /\ page'.status \in Terminal => outcome[page'.shows] = page'.status
        /\ ~page'.guard /\ page'.shows # NoClick => outcome[page'.shows] # "none"
    BY <1>2, <2>2 DEF ClientTellsTruth
  <2> QED
    BY <1>1, <2>2, <2>3, <2>4, <2>5, <2>6, VerdictKeeps
<1> QED
  BY <1>5, <1>6, <1>7

\* Reading the Plan or the Operation changes only what the page read.
LEMMA ReadingKeeps ==
    ASSUME ClientInv, ReadDetail \/ PollSends \/ PollReads \/ PollReceives \/ PollFails
    PROVE  ClientInv'
<1>1. /\ page \in PageType /\ LedgerTypeOK /\ RowsTellEndings /\ PollHolds /\ ClientTellsTruth
      /\ UNCHANGED <<ledger, outcome, plan, process, wire, told, overtaken>>
  BY DEF ClientInv, ClientTypeOK, ReadDetail, PollSends, PollReads, PollReceives, PollFails,
         serverState
<1>2. ASSUME page' \in PageType, UNCHANGED <<page.pc, page.click, page.kind, page.token,
                                              page.answer, page.shows, page.cancelled>>,
             page'.poll # "off" => page.poll # "off",
             page'.poll \in Terminal => outcome[page.shows] = page'.poll,
             page'.status = page.status \/ page.poll # "off",
             page'.status \in Terminal => outcome[page.shows] = page'.status,
             page'.guard = page.guard \/ outcome[page.shows] # "none"
      PROVE  ClientInv'
  <2>1. ClientTypeOK' /\ RowsTellEndings' /\ ClickIsUnderWay' /\ AnswerHolds'
    BY <1>1, <1>2 DEF ClientInv, ClientTypeOK, LedgerTypeOK, RowsTellEndings, ClickIsUnderWay,
                      AnswerHolds
  <2>4. RequestsAreKnown' /\ HandlersHold' /\ RefusalsStand'
    BY <1>1, <1>2 DEF ClientInv, RequestsAreKnown, HandlersHold, RefusalsStand, Unstarted, NoneLeft
  <2>2. PollHolds'
    BY <1>1, <1>2, ClickAssumption DEF PollHolds
  <2>3. ClientTellsTruth'
    BY <1>1, <1>2 DEF ClientTellsTruth
  <2> QED
    BY <2>1, <2>2, <2>3, <2>4 DEF ClientInv
<1>3. CASE ReadDetail
  <2>1. PICK can \in BOOLEAN : page' = [page EXCEPT !.can = can]
    BY <1>3 DEF ReadDetail
  <2>2. /\ page' \in PageType
        /\ UNCHANGED <<page.pc, page.click, page.kind, page.token, page.answer, page.shows,
                       page.cancelled,
                       page.poll, page.status, page.guard>>
    BY <1>1, <2>1 DEF PageType
  <2> QED
    BY <1>1, <1>2, <2>2 DEF PollHolds, ClientTellsTruth
<1>4. CASE PollSends \/ PollReads \/ PollFails
  <2>1. PICK poll \in Rows \cup {"off", "timer", "sent"} :
           /\ page' = [page EXCEPT !.poll = poll]
           /\ poll \in {"off", "timer", "sent"} \/ (PollReads /\ poll = ledger[page.shows])
           /\ page.poll # "off"
    <3>1. CASE PollReads
      <4>1. page.poll = "sent" /\ page' = [page EXCEPT !.poll = ledger[page.shows]]
        BY <3>1 DEF PollReads
      <4>2. ledger[page.shows] \in Rows
        BY <1>1, <4>1 DEF PollHolds, LedgerTypeOK
      <4> QED
        BY <3>1, <4>1, <4>2
    <3>2. CASE PollSends \/ PollFails
      BY <3>2 DEF PollSends, PollFails
    <3> QED
      BY <1>4, <3>1, <3>2
  <2>2. /\ page' \in PageType /\ page'.poll = poll
        /\ UNCHANGED <<page.pc, page.click, page.kind, page.token, page.answer, page.shows,
                       page.cancelled,
                       page.status, page.guard>>
    BY <1>1, <2>1 DEF PageType
  <2>3. poll \in Terminal => outcome[page.shows] = poll
    BY <1>1, <2>1 DEF PollHolds, RowsTellEndings, Terminal
  <2> QED
    BY <1>1, <1>2, <2>1, <2>2, <2>3 DEF ClientTellsTruth
<1>5. CASE PollReceives
  <2>1. page.poll # "off" /\ page.shows \in Clicks
    BY <1>1, <1>5 DEF PollReceives, PollHolds
  <2>2. CASE page.poll \in Terminal
    <3>1. page' = [page EXCEPT !.poll = "off", !.status = page.poll, !.guard = FALSE]
      BY <1>5, <2>2 DEF PollReceives, Active, Terminal
    <3>2. /\ page' \in PageType /\ page'.poll = "off" /\ page'.status = page.poll
          /\ UNCHANGED <<page.pc, page.click, page.kind, page.token, page.answer, page.shows,
                       page.cancelled>>
      BY <1>1, <2>2, <3>1 DEF PageType
    <3>3. outcome[page.shows] = page.poll /\ page.poll # "none"
      BY <1>1, <2>2 DEF PollHolds, Terminal
    <3> QED
      BY <1>2, <2>1, <3>2, <3>3 DEF Terminal
  <2>3. CASE page.poll \notin Terminal
    <3>1. /\ page' \in PageType /\ page'.poll \in {"off", "timer"}
          /\ page'.status \in {page.status} \cup Active
          /\ UNCHANGED <<page.pc, page.click, page.kind, page.token, page.answer, page.shows,
                       page.cancelled,
                         page.guard>>
      <4>1. CASE page.poll \in Active
        <5>1. page' = [page EXCEPT !.poll = "timer", !.status = page.poll]
          BY <1>5, <4>1 DEF PollReceives, Active, Terminal
        <5> QED
          BY <1>1, <4>1, <5>1 DEF PageType
      <4>2. CASE page.poll \notin Active
        <5>1. page' = [page EXCEPT !.poll = "off"]
          BY <1>5, <2>3, <4>2 DEF PollReceives
        <5> QED
          BY <1>1, <5>1 DEF PageType
      <4> QED
        BY <4>1, <4>2
    <3>2. page'.poll \notin Terminal /\ (page'.status \in Terminal => page'.status = page.status)
      BY <3>1 DEF Terminal, Active
    <3> QED
      BY <1>1, <1>2, <2>1, <3>1, <3>2 DEF ClientTellsTruth
  <2> QED
    BY <2>2, <2>3
<1> QED
  BY <1>3, <1>4, <1>5

\* operation-start.ts, operation-polling.ts, plan-execution.ts against the routes and
\* the acceptance of operation_composition.py: whatever is lost, sent again by the
\* browser, handled at the same time or refused for its token, and however often the
\* server dies, an ending the page shows is how that Operation ended, its buttons are
\* free only after that, a click it calls refused started nothing unless the server
\* could still accept another copy of its request when it refused this one, and a
\* cancellation it announces happened.
THEOREM PageStaysTruthful == ClientSpec => []ClientTellsTruth
<1>1. ASSUME ClientInv, [ClientNext]_clientVars PROVE ClientInv'
  <2>1. CASE \E k \in Clicks, kind \in Starts \cup {"cancel"} : Click(k, kind)
    BY <1>1, <2>1, ClickKeeps DEF Kinds
  <2>2. CASE RenewToken \/ Resend
    BY <1>1, <2>2, SendingAgainKeeps
  <2>3. CASE RenewalFails \/ LoseAnswer \/ StartSettles \/ CancelSettles
    BY <1>1, <2>3, SettlingKeeps
  <2>4. CASE ReadDetail \/ PollSends \/ PollReads \/ PollReceives \/ PollFails
    BY <1>1, <2>4, ReadingKeeps
  <2>5. CASE HandleRequest
    BY <1>1, <2>5, HandlingKeeps
  <2>6. CASE WorkStarts \/ WorkEnds \/ Restart \/ Forget \/ OtherClient
    BY <1>1, <2>6, WorkAdvances, WorkSparesHandlers, ServerKeeps
  <2>7. CASE UNCHANGED clientVars
    <3>1. UNCHANGED <<ledger, outcome, plan, process, wire, page, told, overtaken>>
      BY <2>7 DEF clientVars
    <3>2. LedgerTypeOK' /\ RowsTellEndings' /\ HandlersHold' /\ process.token <= process'.token
      BY <1>1, <3>1 DEF ClientInv, ClientTypeOK, LedgerTypeOK, RowsTellEndings, HandlersHold
    <3> QED
      BY <1>1, <3>1, <3>2, ServerKeeps DEF Advances
  <2> QED
    BY <1>1, <2>1, <2>2, <2>3, <2>4, <2>5, <2>6, <2>7 DEF ClientNext
<1>2. ClientInv => ClientTellsTruth
  BY DEF ClientInv
<1> QED
  BY <1>1, <1>2, ClientStarts, PTL DEF ClientSpec

-----------------------------------------------------------------------------
(* What the pages offer. *)

\* There is at most one Library.
OneLibrary ==
    /\ conf \in [readable : BOOLEAN, valid : BOOLEAN, stored : BOOLEAN, policy : Policies]
    /\ shelf \in [Roots -> LibraryRow \cup {Nowhere}]
    /\ \A r, s \in Known : r = s

UndoRow ==
    [status : {"ready", "cancelled", "applying", "applied", "failed", "partial_failed"},
     covers : SUBSET SourceEvents,
     done : UNION {[c -> Outcomes \cup {"planned"}] : c \in SUBSET SourceEvents}]

\* Undo Plans are made of a Run that has ended and moved something.
UndosHaveSource ==
    /\ undos \in Seq(UndoRow)
    /\ undos # <<>> => ~source.running /\ Performed(Moves) # {}

\* A ready Undo Plan is the only one that is still to come, and all it covers is there to
\* be reversed.
ReadyUndoIsFresh ==
    \A i \in 1 .. Len(undos) : undos[i].status = "ready" =>
        /\ \A j \in 1 .. Len(undos) : j # i => undos[j].status \notin {"ready", "applying"}
        /\ undos[i].covers # {}
        /\ undos[i].covers \subseteq Performed(Moves) \ ReversedEvents

OffersInv == OneLibrary /\ UndosHaveSource /\ ReadyUndoIsFresh

Taken == \E i \in 1 .. Len(undos) : undos[i].status \in {"applying", "applied"}

\* CreateUndoPlan's checks, in the order it makes them.
LEMMA UndoDecisions ==
    /\ source.running => UndoDecision = "run_not_terminal"
    /\ ~source.running /\ source.refreshes => UndoDecision = "undo_refresh_metadata_unsupported"
    /\ ~source.running /\ ~source.refreshes /\ Unresolved =>
          UndoDecision = "pending_file_event_requires_review"
    /\ ~source.running /\ ~source.refreshes /\ ~Unresolved =>
          UndoDecision = IF Performed(Moves) = {} THEN "nothing_to_undo"
                         ELSE IF Taken THEN "already_undone_or_in_progress"
                         ELSE IF ReadyUndo # {} THEN "ready plan"
                         ELSE IF Performed(Moves) \ ReversedEvents = {} THEN "nothing_to_undo"
                         ELSE "new plan"
BY Zenon DEF UndoDecision, Taken

\* A new Undo Plan is made only when none is ready or taken, and something is left.
LEMMA NewPlanMeans ==
    ASSUME UndoDecision = "new plan"
    PROVE  /\ ~source.running /\ ~Taken /\ ReadyUndo = {}
           /\ Performed(Moves) \ ReversedEvents # {}
<1>1. ~source.running /\ ~source.refreshes /\ ~Unresolved
  BY UndoDecisions
<1> QED
  BY <1>1, UndoDecisions

LEMMA OffersStart == OffersInit => OffersInv
<1> SUFFICES ASSUME OffersInit PROVE OffersInv
  OBVIOUS
<1>1. OneLibrary
  BY DEF OffersInit, OneLibrary, Known
<1>2. undos = <<>>
  BY DEF OffersInit
<1> QED
  BY <1>1, <1>2 DEF OffersInv, UndosHaveSource, ReadyUndoIsFresh

\* The settings, the Libraries and the Plan change without the Undo Plans.
LEMMA RowsKeepOffers ==
    ASSUME OffersInv, EditSettings \/ UsePlan \/ MoveRoot \/ \E root \in Roots : Organize(root)
    PROVE  OffersInv'
<1>1. UNCHANGED <<source, undos>>
  BY DEF EditSettings, UsePlan, MoveRoot, Organize
<1>2. UndosHaveSource' /\ ReadyUndoIsFresh'
  BY <1>1 DEF OffersInv, UndosHaveSource, ReadyUndoIsFresh, Performed, ReversedEvents
<1>3. CASE EditSettings \/ UsePlan \/ MoveRoot
  <2>1. OneLibrary'
    BY <1>3 DEF EditSettings, UsePlan, MoveRoot, OffersInv, OneLibrary, Known
  <2> QED
    BY <1>2, <2>1 DEF OffersInv
<1>4. CASE \E root \in Roots : Organize(root)
  <2>1. PICK root \in Roots, row \in LibraryRow :
           shelf' = [shelf EXCEPT ![root] = row] /\ OrganizeAccepts(root) /\ conf' = conf
    BY <1>4 DEF Organize, OffersInv, OneLibrary, LibraryRow
  <2>2. \A r \in Known' : r = root \/ r \in Known
    BY <2>1 DEF Known, OffersInv, OneLibrary
  <2>3. \A r \in Known : r = root
    BY <2>1 DEF OrganizeAccepts, OffersInv, OneLibrary
  <2>4. OneLibrary'
    BY <2>1, <2>2, <2>3 DEF OffersInv, OneLibrary
  <2> QED
    BY <1>2, <2>4 DEF OffersInv
<1> QED
  BY <1>3, <1>4

\* The source Run ends before any Undo Plan is made of it.
LEMMA SourceKeepsOffers ==
    ASSUME OffersInv, EndSource
    PROVE  OffersInv'
<1>1. source.running /\ UNCHANGED <<conf, shelf, undos>>
  BY DEF EndSource
<1>2. undos = <<>>
  BY <1>1 DEF OffersInv, UndosHaveSource
<1> QED
  BY <1>1, <1>2 DEF OffersInv, OneLibrary, Known, UndosHaveSource, ReadyUndoIsFresh

\* A new Undo Plan covers what is left.
LEMMA CreateKeepsOffers ==
    ASSUME OffersInv, CreateUndo
    PROVE  OffersInv'
<1> DEFINE left == Performed(Moves) \ ReversedEvents
           new == [status |-> "ready", covers |-> left, done |-> [e \in left |-> "planned"]]
           n == Len(undos)
<1>1. undos' = Append(undos, new) /\ UNCHANGED <<conf, shelf, source>>
  BY DEF CreateUndo
<1>2. ~source.running /\ ~Taken /\ ReadyUndo = {} /\ left # {}
  BY NewPlanMeans DEF CreateUndo
<1>3. left \in SUBSET SourceEvents /\ [e \in left |-> "planned"] \in [left -> Outcomes \cup {"planned"}]
  BY DEF Performed
<1>4. new \in UndoRow
  BY <1>3 DEF UndoRow
<1>5. /\ undos \in Seq(UndoRow) /\ n \in Nat
      /\ undos' \in Seq(UndoRow) /\ undos' # <<>> /\ Len(undos') = n + 1 /\ undos'[n + 1] = new
      /\ \A i \in 1 .. n : undos'[i] = undos[i]
  BY <1>1, <1>4, AppendProperties DEF OffersInv, UndosHaveSource
<1>6. \A i \in 1 .. n : undos[i].status \notin {"ready", "applying"}
  BY <1>2 DEF Taken, ReadyUndo
<1>7. Performed(Moves)' = Performed(Moves)
  BY <1>1 DEF Performed
<1>8. ReversedEvents' = ReversedEvents
  <2>1. \A e \in SourceEvents : (e \in new.covers => new.done[e] # "succeeded")
    OBVIOUS
  <2> HIDE DEF new
  <2>2. \A i \in 1 .. n + 1 : i \in 1 .. n \/ i = n + 1
    BY <1>5
  <2> QED
    BY <1>5, <2>1, <2>2 DEF ReversedEvents
<1>9. new.covers = left /\ new.status = "ready"
  OBVIOUS
<1>10. ReadyUndoIsFresh'
  <2> HIDE DEF new, left
  <2> SUFFICES ASSUME NEW i \in 1 .. n + 1, undos'[i].status = "ready"
               PROVE  /\ \A j \in 1 .. n + 1 : j # i => undos'[j].status \notin {"ready", "applying"}
                      /\ undos'[i].covers # {}
                      /\ undos'[i].covers \subseteq Performed(Moves)' \ ReversedEvents'
    BY <1>5 DEF ReadyUndoIsFresh
  <2>1. i = n + 1
    BY <1>5, <1>6
  <2>2. \A j \in 1 .. n + 1 : j # i => j \in 1 .. n
    BY <1>5, <2>1
  <2>3. undos'[i].covers = Performed(Moves) \ ReversedEvents /\ undos'[i].covers # {}
    BY <1>2, <1>5, <1>9, <2>1 DEF left
  <2> QED
    BY <1>5, <1>6, <1>7, <1>8, <2>2, <2>3
<1>11. OneLibrary'
  BY <1>1 DEF OffersInv, OneLibrary, Known
<1>12. UndosHaveSource'
  BY <1>1, <1>2, <1>5, <1>7 DEF UndosHaveSource
<1> QED
  BY <1>10, <1>11, <1>12 DEF OffersInv

\* An Undo Plan that is no longer to come leaves none that is.
LEMMA UndoKeepsOffers ==
    ASSUME OffersInv, CancelUndo \/ ClaimUndo \/ EndUndo
    PROVE  OffersInv'
<1>1. PICK i \in 1 .. Len(undos), row \in UndoRow :
         /\ undos[i].status \in {"ready", "applying"} /\ row.status # "ready"
         /\ undos' = [undos EXCEPT ![i] = row]
  <2>1. undos \in Seq(UndoRow) /\ \A i \in 1 .. Len(undos) : undos[i] \in UndoRow
    BY DEF OffersInv, UndosHaveSource
  <2>2. CASE CancelUndo \/ ClaimUndo
    <3>1. PICK i \in ReadyUndo, s \in {"cancelled", "applying"} : undos' = [undos EXCEPT ![i].status = s]
      BY <2>2 DEF CancelUndo, ClaimUndo
    <3>2. i \in 1 .. Len(undos) /\ undos[i].status = "ready"
      BY DEF ReadyUndo
    <3>3. [undos[i] EXCEPT !.status = s] \in UndoRow /\ [undos[i] EXCEPT !.status = s].status = s
      BY <2>1, <3>2 DEF UndoRow
    <3>4. undos' = [undos EXCEPT ![i] = [undos[i] EXCEPT !.status = s]]
      BY <3>1
    <3> QED
      BY <3>2, <3>3, <3>4
  <2>3. CASE EndUndo
    <3>1. PICK i \in 1 .. Len(undos) :
             /\ undos[i].status = "applying"
             /\ \E ends \in [undos[i].covers -> Outcomes \cup {"planned"}],
                   s \in {"applied", "failed", "partial_failed"} :
                  undos' = [undos EXCEPT ![i].done = ends, ![i].status = s]
      BY <2>3 DEF EndUndo
    <3>2. PICK ends \in [undos[i].covers -> Outcomes \cup {"planned"}],
               s \in {"applied", "failed", "partial_failed"} :
             undos' = [undos EXCEPT ![i].done = ends, ![i].status = s]
      BY <3>1
    <3>3. undos[i].covers \in SUBSET SourceEvents
      BY <2>1 DEF UndoRow
    <3>4. ends \in UNION {[c -> Outcomes \cup {"planned"}] : c \in SUBSET SourceEvents}
      BY <3>3
    <3>5. /\ [undos[i] EXCEPT !.done = ends, !.status = s] \in UndoRow
          /\ [undos[i] EXCEPT !.done = ends, !.status = s].status = s
      BY <2>1, <3>4 DEF UndoRow
    <3>6. undos' = [undos EXCEPT ![i] = [undos[i] EXCEPT !.done = ends, !.status = s]]
      BY <3>2
    <3> QED
      BY <3>1, <3>5, <3>6
  <2> QED
    BY <2>2, <2>3
<1>2. /\ undos \in Seq(UndoRow) /\ undos' \in Seq(UndoRow) /\ Len(undos') = Len(undos)
      /\ \A j \in 1 .. Len(undos) : undos'[j] = IF j = i THEN row ELSE undos[j]
  BY <1>1, ExceptSeq DEF OffersInv, UndosHaveSource
<1>3. \A j \in 1 .. Len(undos) : undos'[j].status # "ready"
  BY <1>1, <1>2 DEF OffersInv, ReadyUndoIsFresh
<1>4. UNCHANGED <<conf, shelf, source>>
  BY DEF CancelUndo, ClaimUndo, EndUndo
<1>5. OneLibrary'
  BY <1>4 DEF OffersInv, OneLibrary, Known
<1>6. UndosHaveSource'
  BY <1>1, <1>2, <1>4 DEF OffersInv, UndosHaveSource, Performed
<1>7. ReadyUndoIsFresh'
  BY <1>2, <1>3 DEF ReadyUndoIsFresh
<1> QED
  BY <1>5, <1>6, <1>7 DEF OffersInv

\* With one Library at most, the only Library is the one the forms send.
LEMMA SoleIsKnown ==
    ASSUME OffersInv
    PROVE  Sole = Known /\ Chosen = Known
<1>1. IsFiniteSet(Known)
  BY RootsAssumption, FS_Subset DEF Known
<1>2. Sole = Known
  <2>1. CASE Known = {}
    BY <2>1 DEF Sole
  <2>2. CASE Known # {}
    <3>1. PICK r : Known = {r}
      BY <2>2 DEF OffersInv, OneLibrary
    <3>2. Cardinality(Known) = 1
      BY <3>1, FS_Singleton
    <3> QED
      BY <3>2 DEF Sole
  <2> QED
    BY <2>1, <2>2
<1>3. Chosen = Known
  <2>1. CASE Known = {}
    BY <1>2, <2>1 DEF Chosen
  <2>2. CASE Known # {}
    <3>1. PICK r : Known = {r}
      BY <2>2 DEF OffersInv, OneLibrary
    <3>2. (CHOOSE s \in Sole : TRUE) = r
      BY <1>2, <3>1
    <3> QED
      BY <1>2, <2>2, <3>1, <3>2 DEF Chosen
  <2> QED
    BY <2>1, <2>2
<1> QED
  BY <1>2, <1>3

\* What starts an Operation is offered exactly when the Library it would work on is fit.
LEMMA StartsAreHonest ==
    ASSUME OffersInv
    PROVE  /\ "start_operations" \in Offered <=> AddAccepts(Chosen)
           /\ "start_operations" \in Offered => CheckAccepts(Chosen)
           /\ "start_organize" \in Offered <=> \E root \in Roots : OrganizeAccepts(root)
<1>1. /\ "start_operations" \in Offered <=> Usable /\ conf.stored /\ LibraryReady
      /\ "start_organize" \in Offered <=> Usable /\ conf.stored
  BY DEF Offered
<1>2. LibraryReady <=>
         \E r \in Known : shelf[r].status = "registered" /\ shelf[r].policy = conf.policy
  BY SoleIsKnown DEF LibraryReady
<1>3. LibraryReady <=> PlanLibrary(Chosen) # {}
  <2>1. CASE Known = {}
    BY <1>2, <2>1, SoleIsKnown DEF PlanLibrary
  <2>2. CASE Known # {}
    BY <1>2, <2>2, SoleIsKnown DEF PlanLibrary
  <2> QED
    BY <2>1, <2>2
<1>4. LibraryReady => Chosen # {} /\ Chosen \cap Known # {}
  BY <1>2, SoleIsKnown
<1>5. \E root \in Roots : root \in Known \/ Known = {}
  BY RootsAssumption DEF Known
<1> QED
  BY <1>1, <1>3, <1>4, <1>5 DEF AddAccepts, CheckAccepts, OrganizeAccepts

\* The Run page gives a reason exactly when an Undo Plan would be refused.
LEMMA UndoIsHonest ==
    ASSUME OffersInv
    PROVE  /\ CanCreateUndo => UndoAccepted
           /\ Performed(Moves) = Performed({"audio"}) =>
                 IF UndoAccepted THEN CanCreateUndo ELSE UndoDecision \in UndoDisabledReasons
<1> DEFINE audio == Performed({"audio"})
<1>1. /\ "run_not_terminal" \in UndoDisabledReasons <=> source.running
      /\ "undo_refresh_metadata_unsupported" \in UndoDisabledReasons <=> source.refreshes
      /\ "pending_file_event_requires_review" \in UndoDisabledReasons <=> Unresolved
      /\ "nothing_to_undo" \in UndoDisabledReasons <=> ~Taken /\ audio \subseteq ReversedEvents
      /\ "already_undone_or_in_progress" \in UndoDisabledReasons <=> Taken
  BY DEF UndoDisabledReasons, Taken
<1>2. CanCreateUndo <=> /\ ~source.running /\ ~source.refreshes /\ ~Unresolved /\ ~Taken
                        /\ ~(audio \subseteq ReversedEvents)
  BY DEF CanCreateUndo, UndoDisabledReasons, Taken
<1>3. audio \subseteq Performed(Moves)
  BY DEF Performed, Moves
<1>4. Taken \/ ReadyUndo # {} => Performed(Moves) # {}
  BY DEF OffersInv, UndosHaveSource, Taken, ReadyUndo
<1>5. ReadyUndo # {} => Performed(Moves) \ ReversedEvents # {}
  BY DEF OffersInv, ReadyUndoIsFresh, ReadyUndo
<1> HIDE DEF audio
<1>6. CASE source.running \/ source.refreshes \/ Unresolved
  BY <1>1, <1>2, <1>6, UndoDecisions DEF UndoAccepted
<1>7. CASE ~source.running /\ ~source.refreshes /\ ~Unresolved
  <2>1. CASE Taken
    BY <1>1, <1>2, <1>4, <1>7, <2>1, UndoDecisions DEF UndoAccepted
  <2>2. CASE ~Taken
    BY <1>1, <1>2, <1>3, <1>5, <1>7, <2>2, UndoDecisions DEF UndoAccepted, audio
  <2> QED
    BY <2>1, <2>2
<1> QED
  BY <1>6, <1>7

\* bootstrap.py, plan and run presenters against the use cases: what a page offers is
\* accepted while nothing has changed, and what is refused was not offered, however
\* the settings, the Libraries, the Plan, the Run and its Undo Plans came to be.
THEOREM OffersStayHonest == OffersSpec => []OffersAreHonest
<1>1. ASSUME OffersInv, [OffersNext]_offerVars PROVE OffersInv'
  <2>1. CASE UNCHANGED offerVars
    BY <1>1, <2>1 DEF offerVars, OffersInv, OneLibrary, Known, UndosHaveSource, ReadyUndoIsFresh,
                      Performed, ReversedEvents
  <2> QED
    BY <1>1, <2>1, RowsKeepOffers, SourceKeepsOffers, CreateKeepsOffers, UndoKeepsOffers
       DEF OffersNext
<1>2. OffersInv => OffersAreHonest
  <2>1. "apply" \in PlanCapabilities <=> ClaimAccepts
    BY DEF PlanCapabilities, ClaimAccepts
  <2>2. "cancel" \in PlanCapabilities <=> CancelAccepts
    BY DEF PlanCapabilities, CancelAccepts
  <2> QED
    BY <2>1, <2>2, StartsAreHonest, UndoIsHonest DEF OffersAreHonest
<1> QED
  BY <1>1, <1>2, OffersStart, PTL DEF OffersSpec

-----------------------------------------------------------------------------
(* One command, beside other processes. *)

\* A bounded, nonempty set of numbers has a greatest.
LEMMA HasNewest ==
    ASSUME NEW n \in Nat, NEW S \in SUBSET (1 .. n), S # {}
    PROVE  Newest(S) \in S /\ \A m \in S : m <= Newest(S)
<1> DEFINE T == {n - s : s \in S}
<1>1. \A s \in S : s \in Nat /\ n - s \in Nat
  OBVIOUS
<1>2. T \subseteq Nat /\ T # {}
  BY <1>1
<1>3. PICK x \in T : \A y \in T : ~(y < x)
  <2> HIDE DEF T
  <2>1. PICK x \in T : \A y \in T : ~(<<y, x>> \in OpToRel(<, Nat))
    BY <1>2, NatLessThanWellFounded, WFMin
  <2>2. \A y \in T : y < x => <<y, x>> \in OpToRel(<, Nat)
    BY <1>2 DEF OpToRel
  <2> QED
    BY <2>1, <2>2
<1>4. PICK s \in S : x = n - s
  OBVIOUS
<1>5. \A m \in S : m <= s
  <2> SUFFICES ASSUME NEW m \in S PROVE m <= s
    OBVIOUS
  <2>1. m \in Nat /\ s \in Nat /\ n - m \in T
    BY <1>1
  <2>2. ~(n - m < n - s)
    BY <1>3, <1>4, <2>1
  <2> QED
    BY <2>1, <2>2
<1> QED
  BY <1>4, <1>5 DEF Newest

DocketRow ==
    [status : {"ready", "applying", "cancelled", "expired"} \cup Finals, undo : BOOLEAN,
     done : Nat, events : Nat, logged : BOOLEAN, run : Nat]

WithRun == {n \in DOMAIN docket : HasRun(n)}

\* A Plan is settled with all its actions, and a ready one has no Run; Runs are numbered
\* without a gap.
DocketHolds ==
    /\ docket \in Seq(DocketRow)
    /\ \A n \in 1 .. Len(docket) :
          /\ docket[n].done <= ActionRows
          /\ docket[n].status \in Finals => docket[n].done = ActionRows
          /\ docket[n].status = "ready" => docket[n].run = 0
    /\ {docket[n].run : n \in WithRun} = 1 .. Cardinality(WithRun)

\* What any process may do to the Plans.
DocketMoves ==
    \/ UNCHANGED docket
    \/ \E undo \in BOOLEAN : docket' = Append(docket, NewPlan(undo))
    \/ \E n \in 1 .. Len(docket), row \in DocketRow :
          /\ docket[n].status \notin Finals /\ docket' = [docket EXCEPT ![n] = row]
          /\ row.done <= ActionRows /\ row.status # "ready"
          /\ row.status \in Finals => row.done = ActionRows
          /\ row.run = docket[n].run \/ (docket[n].run = 0 /\ row.run = NextRun)

LEMMA DocketKeeps ==
    ASSUME DocketHolds, DocketMoves
    PROVE  /\ DocketHolds'
           /\ Len(docket) <= Len(docket') /\ Cardinality(WithRun) <= Cardinality(WithRun')
           /\ Len(docket') \in Nat /\ Cardinality(WithRun') \in Nat
           /\ \A n \in 1 .. Len(docket) : /\ n \in 1 .. Len(docket')
                                          /\ docket[n].status \in Finals => docket'[n] = docket[n]
<1> DEFINE size == Len(docket)
           runs == Cardinality(WithRun)
<1>1. docket \in Seq(DocketRow) /\ size \in Nat /\ DOMAIN docket = 1 .. size
  BY DEF DocketHolds
<1>2. IsFiniteSet(WithRun) /\ runs \in Nat
  <2>1. IsFiniteSet(1 .. size) /\ WithRun \in SUBSET (1 .. size)
    BY <1>1, FS_Interval DEF WithRun
  <2>2. IsFiniteSet(WithRun)
    BY <2>1, FS_Subset
  <2> QED
    BY <2>2, FS_CardinalityType
<1>3. CASE UNCHANGED docket
  <2>1. WithRun' = WithRun
    BY <1>3 DEF WithRun, HasRun
  <2> QED
    BY <1>1, <1>2, <1>3, <2>1 DEF DocketHolds
<1>4. CASE \E undo \in BOOLEAN : docket' = Append(docket, NewPlan(undo))
  <2>1. PICK undo \in BOOLEAN : docket' = Append(docket, NewPlan(undo))
    BY <1>4
  <2>2. NewPlan(undo) \in DocketRow
    BY DEF NewPlan, DocketRow
  <2>3. /\ docket' \in Seq(DocketRow) /\ Len(docket') = size + 1
        /\ docket'[size + 1] = NewPlan(undo) /\ \A n \in 1 .. size : docket'[n] = docket[n]
        /\ DOMAIN docket' = 1 .. size + 1
    BY <1>1, <2>1, <2>2, AppendProperties
  <2>4. /\ docket'[size + 1].status = "ready" /\ docket'[size + 1].run = 0
        /\ docket'[size + 1].done = 0
    BY <2>3 DEF NewPlan
  <2>5. WithRun' = WithRun
    BY <1>1, <2>3, <2>4 DEF WithRun, HasRun
  <2>6. {docket'[n].run : n \in WithRun'} = {docket[n].run : n \in WithRun}
    BY <1>1, <2>3, <2>5 DEF WithRun
  <2>7. ASSUME NEW n \in 1 .. size + 1
        PROVE  /\ docket'[n].done <= ActionRows
               /\ docket'[n].status \in Finals => docket'[n].done = ActionRows
               /\ docket'[n].status = "ready" => docket'[n].run = 0
    <3>1. n \in 1 .. size \/ n = size + 1
      BY <1>1
    <3> QED
      BY <2>3, <2>4, <3>1, ActionRowsAssumption DEF DocketHolds, Finals
  <2> QED
    BY <1>1, <1>2, <2>3, <2>5, <2>6, <2>7 DEF DocketHolds
<1>5. CASE \E n \in 1 .. Len(docket), row \in DocketRow :
             /\ docket[n].status \notin Finals /\ docket' = [docket EXCEPT ![n] = row]
             /\ row.done <= ActionRows /\ row.status # "ready"
             /\ row.status \in Finals => row.done = ActionRows
             /\ row.run = docket[n].run \/ (docket[n].run = 0 /\ row.run = NextRun)
  <2>1. PICK n \in 1 .. size, row \in DocketRow :
             /\ docket[n].status \notin Finals /\ docket' = [docket EXCEPT ![n] = row]
             /\ row.done <= ActionRows /\ row.status # "ready"
             /\ row.status \in Finals => row.done = ActionRows
             /\ row.run = docket[n].run \/ (docket[n].run = 0 /\ row.run = NextRun)
    BY <1>5
  <2>2. /\ docket' \in Seq(DocketRow) /\ Len(docket') = size /\ DOMAIN docket' = 1 .. size
        /\ \A m \in 1 .. size : docket'[m] = IF m = n THEN row ELSE docket[m]
    BY <1>1, <2>1, ExceptSeq
  <2>3. \A m \in 1 .. size :
          /\ docket'[m].done <= ActionRows
          /\ docket'[m].status \in Finals => docket'[m].done = ActionRows
          /\ docket'[m].status = "ready" => docket'[m].run = 0
    BY <2>1, <2>2 DEF DocketHolds
  <2>4. CASE row.run = docket[n].run
    <3>1. WithRun' = WithRun
      BY <1>1, <2>1, <2>2, <2>4 DEF WithRun, HasRun
    <3>2. {docket'[m].run : m \in WithRun'} = {docket[m].run : m \in WithRun}
      BY <1>1, <2>1, <2>2, <2>4, <3>1 DEF WithRun
    <3> QED
      BY <1>1, <1>2, <2>1, <2>2, <2>3, <3>1, <3>2 DEF DocketHolds
  <2>5. CASE docket[n].run = 0 /\ row.run = NextRun
    <3>1. NextRun = runs + 1
      BY DEF NextRun, WithRun
    <3>2. WithRun' = WithRun \cup {n} /\ n \notin WithRun
      BY <1>1, <1>2, <2>1, <2>2, <2>5, <3>1 DEF WithRun, HasRun
    <3>3. Cardinality(WithRun') = runs + 1
      BY <1>2, <3>2, FS_AddElement
    <3>4. {docket'[m].run : m \in WithRun'} = {docket[m].run : m \in WithRun} \cup {runs + 1}
      <4>1. \A m \in WithRun : m # n /\ docket'[m] = docket[m]
        BY <1>1, <2>2, <3>2 DEF WithRun
      <4>2. docket'[n].run = runs + 1
        BY <2>2, <2>5, <3>1
      <4> QED
        BY <3>2, <4>1, <4>2
    <3>5. (1 .. runs) \cup {runs + 1} = 1 .. runs + 1
      BY <1>2
    <3>6. {docket'[m].run : m \in WithRun'} = 1 .. Cardinality(WithRun')
      BY <3>3, <3>4, <3>5 DEF DocketHolds
    <3> QED
      BY <1>1, <1>2, <2>1, <2>2, <2>3, <3>3, <3>6 DEF DocketHolds
  <2> QED
    BY <2>1, <2>4, <2>5
<1> QED
  BY <1>3, <1>4, <1>5 DEF DocketMoves

LEMMA RunsAreCounted ==
    ASSUME DocketHolds
    PROVE  Cardinality(WithRun) \in Nat /\ Len(docket) \in Nat
<1>1. Len(docket) \in Nat /\ DOMAIN docket = 1 .. Len(docket)
  BY DEF DocketHolds
<1>2. WithRun \in SUBSET (1 .. Len(docket))
  BY <1>1 DEF WithRun
<1>3. IsFiniteSet(1 .. Len(docket))
  BY <1>1, FS_Interval
<1>4. IsFiniteSet(WithRun)
  BY <1>2, <1>3, FS_Subset
<1> QED
  BY <1>1, <1>4, FS_CardinalityType

Stages == {"parse", "plan", "check", "select", "confirm", "apply", "header", "rows", "list", "ended"}
Statuses == {"none", "ready", "applying", "cancelled", "expired"} \cup Finals

\* The command was to apply a Plan.
Applies == Has("--apply") \/ argv.command = "apply"

CommandTypeOK ==
    /\ argv.command \in DOMAIN Alphabet
    /\ Has("--apply") => argv.command \in {"add", "organize", "refresh", "undo"}
    /\ stage \in Stages /\ exit \in {"none", "usage", "success", "error"} /\ pick \in Nat
    /\ mine \in [plan : Nat, outcome : {"none"} \cup Finals, consent : BOOLEAN]

\* Only a command that was to apply a Plan gets to the question, and to the Plan only
\* with consent; nothing is applied or printed before the command ends.
CommandGoesOn ==
    /\ stage = "ended" <=> exit # "none"
    /\ stage # "ended" => mine.plan = 0 /\ said # "printed"
    /\ stage = "parse" => pick = 0 /\ mine = Nobody
    /\ stage = "plan" => argv.command # "apply"
    /\ stage \in {"select", "confirm", "apply"} => Applies
    /\ stage = "apply" => mine.consent
    /\ stage \in {"check", "header", "rows", "list"} => ~Applies
    /\ stage \in {"parse", "header"} => shown = Nothing
    /\ stage \in {"header", "list"} => pick = 0

\* The rows of a settled Plan or Run are settled, and no more than it has.
RowsHold ==
    stage = "rows" =>
        /\ pick \in 1 .. Len(docket)
        /\ shown \in [status : Statuses, rows : Seq(BOOLEAN)]
        /\ shown.status \in Finals => /\ docket[pick].status \in Finals
                                      /\ Len(shown.rows) <= Lasting
                                      /\ \A i \in 1 .. Len(shown.rows) : shown.rows[i] = TRUE

Size == IF argv.command = "history" THEN Cardinality(WithRun) ELSE Len(docket)

\* A listing goes down from the newest row there was; without a filter it leaves none out.
Descends(rows) ==
    /\ rows \in Seq(Nat)
    /\ \A i, j \in 1 .. Len(rows) : i < j => rows[j] < rows[i]
    /\ ~Has("ready") => \A i \in 1 .. Len(rows) : rows[i] = rows[1] + 1 - i

WalkHolds ==
    stage = "list" =>
        /\ argv.command \in {"plans", "history"}
        /\ shown \in [status : {"none"}, rows : Seq(Nat)]
        /\ Descends(shown.rows)
        /\ \A i \in 1 .. Len(shown.rows) : shown.rows[i] \in 1 .. Size

CommandInv ==
    /\ CommandTypeOK /\ DocketHolds /\ CommandGoesOn /\ RowsHold /\ WalkHolds /\ CommandsTellTruth

LEMMA CommandStarts == CommandInit => CommandInv
<1> SUFFICES ASSUME CommandInit PROVE CommandInv
  OBVIOUS
<1>1. Started
  BY DEF CommandInit
<1>2. /\ argv.command \in DOMAIN Alphabet
      /\ Has("--apply") => "--apply" \in Alphabet[argv.command]
  BY DEF CommandInit, Has
<1>3. Has("--apply") => argv.command \in {"add", "organize", "refresh", "undo"}
  BY <1>2 DEF Alphabet
<1>4. CommandTypeOK /\ CommandGoesOn
  BY <1>1, <1>2, <1>3 DEF Started, CommandTypeOK, CommandGoesOn, Stages, Nobody
<1>5. RowsHold /\ WalkHolds /\ CommandsTellTruth
  BY <1>1 DEF Started, RowsHold, WalkHolds, CommandsTellTruth, Nobody
<1>6. DocketHolds
  <2>1. \E e \in {0, 1} : \E first \in {NewPlan(FALSE)}, second \in {NewPlan(TRUE), [NewPlan(FALSE) EXCEPT
                              !.status = "applying", !.done = 1, !.events = e, !.run = 1]} :
          docket = <<first>> \/ docket = <<first, second>>
    BY Zenon DEF CommandInit
  <2>2. PICK first \in DocketRow, second \in DocketRow :
        /\ first.status = "ready" /\ first.done = 0 /\ first.run = 0
        /\ \/ second.status = "ready" /\ second.done = 0 /\ second.run = 0
           \/ second.status = "applying" /\ second.done = 1 /\ second.run = 1
        /\ docket = <<first>> \/ docket = <<first, second>>
    <3>1. /\ NewPlan(FALSE) \in DocketRow /\ NewPlan(TRUE) \in DocketRow
          /\ \A e \in {0, 1} : [NewPlan(FALSE) EXCEPT !.status = "applying", !.done = 1,
                                                       !.events = e, !.run = 1] \in DocketRow
      <4>1. NewPlan(FALSE) \in DocketRow /\ NewPlan(TRUE) \in DocketRow
        BY DEF NewPlan, DocketRow
      <4>2. ASSUME NEW e \in {0, 1}
            PROVE  [NewPlan(FALSE) EXCEPT !.status = "applying", !.done = 1,
                                          !.events = e, !.run = 1] \in DocketRow
        <5>1. e \in Nat /\ 1 \in Nat
          OBVIOUS
        <5> QED
          BY <4>1, <5>1 DEF DocketRow
      <4> QED
        BY <4>1, <4>2
    <3>2. /\ NewPlan(FALSE).status = "ready" /\ NewPlan(FALSE).done = 0 /\ NewPlan(FALSE).run = 0
          /\ NewPlan(TRUE).status = "ready" /\ NewPlan(TRUE).done = 0 /\ NewPlan(TRUE).run = 0
      BY DEF NewPlan
    <3>3. \A e \in {0, 1} : \A a \in {[NewPlan(FALSE) EXCEPT !.status = "applying", !.done = 1,
                                                            !.events = e, !.run = 1]} :
             a.status = "applying" /\ a.done = 1 /\ a.run = 1
      BY DEF NewPlan
    <3> QED
      BY Zenon, <2>1, <3>1, <3>2, <3>3
  <2>3. /\ docket \in Seq(DocketRow)
        /\ \A n \in 1 .. Len(docket) : docket[n] = first \/ (n = 2 /\ docket[n] = second)
        /\ DOMAIN docket = 1 .. Len(docket)
        /\ 1 \in DOMAIN docket /\ docket[1] = first
    <3>1. CASE docket = <<first>>
      BY <3>1
    <3>2. CASE docket = <<first, second>>
      BY <3>2
    <3> QED
      BY <2>2, <3>1, <3>2
  <2>4. {docket[n].run : n \in WithRun} = 1 .. Cardinality(WithRun)
    <3>1. CASE WithRun = {}
      <4>1. Cardinality(WithRun) = 0
        BY <3>1, FS_EmptySet
      <4> QED
        BY <3>1, <4>1
    <3>2. CASE WithRun # {}
      <4>1. WithRun = {2} /\ docket[2].run = 1
        BY <2>2, <2>3, <3>2 DEF WithRun, HasRun
      <4>2. Cardinality(WithRun) = 1
        BY <4>1, FS_Singleton
      <4> QED
        BY <4>1, <4>2
    <3> QED
      BY <3>1, <3>2
  <2> QED
    BY <2>2, <2>3, <2>4, ActionRowsAssumption DEF DocketHolds, Finals
<1> QED
  BY <1>4, <1>5, <1>6 DEF CommandInv

\* What a step makes of the row of a Plan.
LEMMA StatusChanges ==
    ASSUME NEW r \in DocketRow, NEW s \in {"applying", "cancelled", "expired"} \cup Finals
    PROVE  /\ [r EXCEPT !.status = s] \in DocketRow /\ [r EXCEPT !.status = s].status = s
           /\ [r EXCEPT !.status = s].done = r.done /\ [r EXCEPT !.status = s].run = r.run
BY DEF DocketRow

LEMMA LogChanges ==
    ASSUME NEW r \in DocketRow, NEW e \in Nat
    PROVE  LET row == [r EXCEPT !.events = e, !.logged = TRUE]
           IN /\ row \in DocketRow /\ row.status = r.status
              /\ row.done = r.done /\ row.run = r.run
BY DEF DocketRow

LEMMA SettleChanges ==
    ASSUME NEW r \in DocketRow, NEW d \in Nat
    PROVE  LET row == [r EXCEPT !.done = d, !.logged = FALSE]
           IN row \in DocketRow /\ row.status = r.status /\ row.done = d /\ row.run = r.run
BY DEF DocketRow

LEMMA ClaimChanges ==
    ASSUME NEW r \in DocketRow, NEW k \in Nat
    PROVE  /\ [r EXCEPT !.status = "applying", !.run = k] \in DocketRow
           /\ [r EXCEPT !.status = "applying", !.run = k].status = "applying"
           /\ [r EXCEPT !.status = "applying", !.run = k].done = r.done
           /\ [r EXCEPT !.status = "applying", !.run = k].run = k
BY DEF DocketRow

LEMMA RowMoves ==
    ASSUME NEW n \in 1 .. Len(docket), docket[n].status \notin Finals,
           NEW row \in DocketRow, docket' = [docket EXCEPT ![n] = row],
           row.done <= ActionRows, row.status # "ready",
           row.status \in Finals => row.done = ActionRows,
           row.run = docket[n].run \/ (docket[n].run = 0 /\ row.run = NextRun)
    PROVE  DocketMoves
BY DEF DocketMoves

\* Every step moves the Plans as a process may.
LEMMA CommandMovesDocket ==
    ASSUME CommandInv, CommandNext
    PROVE  DocketMoves
<1>1. /\ docket \in Seq(DocketRow) /\ Len(docket) \in Nat /\ DOMAIN docket = 1 .. Len(docket)
      /\ \A n \in 1 .. Len(docket) : /\ docket[n] \in DocketRow /\ docket[n].done <= ActionRows
                                     /\ docket[n].done \in Nat /\ docket[n].run \in Nat
                                     /\ docket[n].events \in Nat
  <2>1. /\ docket \in Seq(DocketRow)
        /\ \A n \in 1 .. Len(docket) : docket[n].done <= ActionRows
    BY DEF CommandInv, DocketHolds
  <2>2. Len(docket) \in Nat /\ DOMAIN docket = 1 .. Len(docket)
    BY <2>1
  <2>3. \A n \in 1 .. Len(docket) : docket[n] \in DocketRow
    BY <2>1
  <2>4. \A r \in DocketRow : r.done \in Nat /\ r.run \in Nat /\ r.events \in Nat
    BY DEF DocketRow
  <2> QED
    BY <2>1, <2>2, <2>3, <2>4
<1>2. NextRun \in Nat
  BY RunsAreCounted DEF CommandInv, NextRun, WithRun
<1>3. "ready" \notin Finals /\ "applying" \notin Finals /\ "cancelled" \notin Finals
      /\ "expired" \notin Finals /\ ActionRows \in Nat
  BY ActionRowsAssumption DEF Finals
<1>4. \A n \in ReadyPlans : /\ n \in 1 .. Len(docket) /\ docket[n].status \notin Finals
                            /\ docket[n].run = 0
  BY <1>1, <1>3 DEF CommandInv, DocketHolds, ReadyPlans
<1>5. ASSUME NEW n \in 1 .. Len(docket), docket[n].status \notin Finals,
             NEW s \in {"cancelled", "expired"},
             docket' = [docket EXCEPT ![n].status = s]
      PROVE  DocketMoves
  <2> DEFINE row == [docket[n] EXCEPT !.status = s]
  <2>1. /\ row \in DocketRow /\ row.status = s
        /\ row.done = docket[n].done /\ row.run = docket[n].run
    BY <1>1, StatusChanges
  <2>2. docket' = [docket EXCEPT ![n] = row]
    BY <1>5
  <2> HIDE DEF row
  <2>3. row.done <= ActionRows
    BY <1>1, <2>1
  <2>4. row.status # "ready"
    BY <1>3, <1>5, <2>1
  <2>5. row.status \in Finals => row.done = ActionRows
    BY <1>3, <1>5, <2>1
  <2> QED
    BY <1>5, <2>1, <2>2, <2>3, <2>4, <2>5, RowMoves
<1>6. CASE Fails
  <2>1. UNCHANGED docket
        \/ (pick \in ReadyPlans /\ docket' = [docket EXCEPT ![pick].status = "expired"])
    BY <1>6 DEF Fails
  <2> QED
    BY <1>3, <1>4, <1>5, <2>1 DEF DocketMoves
<1>7. CASE CreatePlans
  BY <1>7 DEF CreatePlans, DocketMoves
<1>8. CASE Execute
  <2>1. PICK ending \in Finals, events \in 0 .. ActionRows :
           /\ pick \in ReadyPlans
           /\ docket' = [docket EXCEPT ![pick].status = ending, ![pick].done = ActionRows,
                                       ![pick].events = events, ![pick].run = NextRun]
    BY <1>8 DEF Execute
  <2> DEFINE row == [docket[pick] EXCEPT !.status = ending, !.done = ActionRows,
                                        !.events = events, !.run = NextRun]
  <2>2. pick \in 1 .. Len(docket) /\ docket[pick].status \notin Finals /\ docket[pick].run = 0
    BY <1>4, <2>1
  <2>3. /\ row \in DocketRow /\ row.status = ending
        /\ row.done = ActionRows /\ row.run = NextRun
    <3>1. /\ docket[pick] \in DocketRow /\ ActionRows \in Nat /\ NextRun \in Nat
          /\ events \in Nat /\ ending \in Finals
      BY <1>1, <1>2, <1>3, <2>1, <2>2
    <3>2. row \in DocketRow
      BY <3>1 DEF DocketRow
    <3>3. row.status = ending /\ row.done = ActionRows /\ row.run = NextRun
      BY <3>1 DEF DocketRow
    <3> QED
      BY <3>2, <3>3
  <2>4. docket' = [docket EXCEPT ![pick] = row]
    BY <2>1
  <2> HIDE DEF row
  <2>5. row.done <= ActionRows
    BY <1>3, <2>3
  <2>6. row.status # "ready"
    BY <1>3, <2>3
  <2> QED
    BY <2>2, <2>3, <2>4, <2>5, <2>6, RowMoves
<1>9. CASE OthersStir
  <2>1. CASE \E undo \in BOOLEAN : docket' = Append(docket, NewPlan(undo))
    BY <2>1 DEF DocketMoves
  <2>2. CASE \E n \in ReadyPlans : docket' = [docket EXCEPT ![n].status = "cancelled"]
    BY <1>3, <1>4, <1>5, <2>2
  <2>3. CASE \E n \in ReadyPlans :
               docket' = [docket EXCEPT ![n].status = "applying", ![n].run = NextRun]
    <3>1. PICK n \in ReadyPlans :
             docket' = [docket EXCEPT ![n].status = "applying", ![n].run = NextRun]
      BY <2>3
    <3> DEFINE row == [docket[n] EXCEPT !.status = "applying", !.run = NextRun]
    <3>2. /\ n \in 1 .. Len(docket) /\ docket[n].status \notin Finals /\ docket[n].run = 0
          /\ docket[n].done <= ActionRows
      BY <1>1, <1>4, <3>1
    <3>3. /\ row \in DocketRow /\ row.status = "applying"
          /\ row.done = docket[n].done /\ row.run = NextRun
      BY <1>1, <1>2, <3>2, ClaimChanges
    <3>4. docket' = [docket EXCEPT ![n] = row]
      BY <3>1
    <3> HIDE DEF row
    <3>5. row.done <= ActionRows
      BY <3>2, <3>3
    <3>6. row.status # "ready" /\ row.status \notin Finals
      BY <1>3, <3>3
    <3> QED
      BY <3>2, <3>3, <3>4, <3>5, <3>6, RowMoves
  <2>4. CASE \E n \in DOMAIN docket :
               /\ docket[n].status = "applying"
               /\ \/ /\ docket[n].done < ActionRows /\ ~docket[n].logged
                     /\ docket' = [docket EXCEPT ![n].events = @ + 1, ![n].logged = TRUE]
                  \/ /\ docket[n].done < ActionRows
                     /\ docket' = [docket EXCEPT ![n].done = @ + 1, ![n].logged = FALSE]
                  \/ \E ending \in Finals :
                        docket' = [docket EXCEPT ![n].status = ending, ![n].done = ActionRows]
    <3>1. PICK n \in 1 .. Len(docket) :
               /\ docket[n].status = "applying"
               /\ \/ docket' = [docket EXCEPT ![n].events = docket[n].events + 1, ![n].logged = TRUE]
                  \/ /\ docket[n].done < ActionRows
                     /\ docket' = [docket EXCEPT ![n].done = docket[n].done + 1, ![n].logged = FALSE]
                  \/ \E ending \in Finals :
                        docket' = [docket EXCEPT ![n].status = ending, ![n].done = ActionRows]
      BY <1>1, <2>4
    <3>2. /\ docket[n] \in DocketRow /\ docket[n].done \in Nat /\ docket[n].done <= ActionRows
          /\ docket[n].events + 1 \in Nat /\ docket[n].done + 1 \in Nat
          /\ docket[n].status \notin Finals
      BY <1>1, <1>3, <3>1
    <3>3. CASE docket' = [docket EXCEPT ![n].events = docket[n].events + 1, ![n].logged = TRUE]
      <4> DEFINE row == [docket[n] EXCEPT !.events = docket[n].events + 1, !.logged = TRUE]
      <4>1. /\ row \in DocketRow /\ row.status = docket[n].status
            /\ row.done = docket[n].done /\ row.run = docket[n].run
        BY <3>2, LogChanges
      <4>2. docket' = [docket EXCEPT ![n] = row]
        BY <3>3
      <4> HIDE DEF row
      <4>3. row.status # "ready" /\ row.status \notin Finals /\ row.done <= ActionRows
        BY <1>3, <3>1, <3>2, <4>1
      <4> QED
        BY <3>2, <4>1, <4>2, <4>3, RowMoves
    <3>4. CASE /\ docket[n].done < ActionRows
               /\ docket' = [docket EXCEPT ![n].done = docket[n].done + 1, ![n].logged = FALSE]
      <4> DEFINE row == [docket[n] EXCEPT !.done = docket[n].done + 1, !.logged = FALSE]
      <4>1. /\ row \in DocketRow /\ row.status = docket[n].status
            /\ row.done = docket[n].done + 1 /\ row.run = docket[n].run
        BY <3>2, SettleChanges
      <4>2. docket' = [docket EXCEPT ![n] = row]
        BY <3>4
      <4> HIDE DEF row
      <4>3. row.done <= ActionRows
        BY <1>3, <3>2, <3>4, <4>1
      <4>4. row.status # "ready" /\ row.status \notin Finals
        BY <1>3, <3>1, <4>1
      <4> QED
        BY <3>2, <4>1, <4>2, <4>3, <4>4, RowMoves
    <3>5. ASSUME NEW ending \in Finals,
                 docket' = [docket EXCEPT ![n].status = ending, ![n].done = ActionRows]
          PROVE  DocketMoves
      <4> DEFINE row == [docket[n] EXCEPT !.status = ending, !.done = ActionRows]
      <4>1. /\ row \in DocketRow /\ row.status = ending
            /\ row.done = ActionRows /\ row.run = docket[n].run
        <5>1. ending \in Finals /\ ActionRows \in Nat /\ docket[n] \in DocketRow
          BY <1>3, <3>2
        <5>2. row \in DocketRow
          BY <5>1 DEF DocketRow
        <5>3. row.status = ending /\ row.done = ActionRows /\ row.run = docket[n].run
          BY <5>1 DEF DocketRow
        <5> QED
          BY <5>2, <5>3
      <4>2. docket' = [docket EXCEPT ![n] = row]
        BY <3>5
      <4> HIDE DEF row
      <4>3. row.done <= ActionRows /\ row.status # "ready"
        BY <1>3, <4>1
      <4> QED
        BY <3>2, <4>1, <4>2, <4>3, RowMoves
    <3> QED
      BY <3>1, <3>3, <3>4, <3>5
  <2> QED
    BY <1>9, <2>1, <2>2, <2>3, <2>4 DEF OthersStir
<1> QED
  BY <1>6, <1>7, <1>8, <1>9 DEF CommandNext, DocketMoves, Parse, ReturnUndoPlan, RegisterLibrary,
     CheckLibraryFiles, SelectPlan, Confirm, ReadHeader, ReadRows, ReadListing

\* The arguments are parsed once.
LEMMA ArgumentsStay ==
    ASSUME argv' = argv
    PROVE  /\ Has("--apply")' <=> Has("--apply")
           /\ Has("--limit")' <=> Has("--limit")
           /\ Has("ready")' <=> Has("ready")
           /\ Filtered' <=> Filtered
           /\ Applies' <=> Applies
BY DEF Has, Filtered, Applies

\* While others move the Plans, what the command knows stays as true as it was.
LEMMA StirsKeep ==
    ASSUME CommandInv, DocketMoves, UNCHANGED <<argv, stage, pick, shown, said, exit, mine>>,
           exit = "none" \/ UNCHANGED docket
    PROVE  CommandInv'
<1>1. /\ argv' = argv /\ stage' = stage /\ pick' = pick /\ shown' = shown
      /\ said' = said /\ exit' = exit /\ mine' = mine
  OBVIOUS
<1>2. /\ Has("--apply")' <=> Has("--apply")
      /\ Has("--limit")' <=> Has("--limit")
      /\ Has("ready")' <=> Has("ready")
      /\ Filtered' <=> Filtered
      /\ Applies' <=> Applies
  BY <1>1, ArgumentsStay
<1>3. /\ DocketHolds' /\ Len(docket) <= Len(docket')
      /\ Cardinality(WithRun) <= Cardinality(WithRun')
      /\ \A n \in 1 .. Len(docket) : /\ n \in 1 .. Len(docket')
                                     /\ docket[n].status \in Finals => docket'[n] = docket[n]
  BY DocketKeeps DEF CommandInv
<1>4. CommandTypeOK'
  BY <1>1, <1>2 DEF CommandInv, CommandTypeOK
<1>5. CommandGoesOn'
  BY <1>1, <1>2 DEF CommandInv, CommandGoesOn
<1>6. RowsHold'
  BY <1>1, <1>3 DEF CommandInv, RowsHold, Lasting
<1>7. WalkHolds'
  <2>1. /\ Len(docket) \in Nat /\ Len(docket') \in Nat
        /\ Cardinality(WithRun) \in Nat /\ Cardinality(WithRun') \in Nat
    BY RunsAreCounted, DocketKeeps DEF CommandInv
  <2>2. Size \in Nat /\ Size' \in Nat /\ Size <= Size'
    BY <1>1, <1>3, <2>1 DEF Size
  <2>3. (1 .. Size) \subseteq (1 .. Size')
    BY <2>2
  <2>4. Descends(shown.rows)' <=> Descends(shown.rows)
    BY <1>1, <1>2 DEF Descends
  <2> QED
    BY <1>1, <2>3, <2>4 DEF CommandInv, WalkHolds
<1>8. CommandsTellTruth'
  <2>1. CASE exit = "none"
    <3>1. said # "printed"
      BY <2>1 DEF CommandInv, CommandGoesOn
    <3> QED
      BY <1>1, <1>2, <3>1 DEF CommandInv, CommandsTellTruth
  <2>2. CASE UNCHANGED docket
    <3>1. Lasting' = Lasting
      BY <1>1, <2>2 DEF Lasting
    <3> QED
      BY <1>1, <1>2, <3>1 DEF CommandInv, CommandsTellTruth
  <2> QED
    BY <2>1, <2>2
<1> QED
  BY <1>3, <1>4, <1>5, <1>6, <1>7, <1>8 DEF CommandInv

\* A command that has not ended has promised nothing.
LEMMA StepsOn ==
    ASSUME CommandInv, DocketMoves, argv' = argv, stage # "ended",
           exit' = exit, said' # "printed", mine'.plan = 0,
           CommandTypeOK', CommandGoesOn', RowsHold', WalkHolds'
    PROVE  CommandInv'
<1>1. exit' = "none"
  BY DEF CommandInv, CommandGoesOn
<1>2. CommandsTellTruth'
  BY <1>1 DEF CommandsTellTruth
<1> QED
  BY <1>2, DocketKeeps DEF CommandInv

\* A command that ends without a listing: success is earned, and so is what it applied.
LEMMA EndsSilently ==
    ASSUME CommandInv, DocketMoves, argv' = argv, stage' = "ended", said' # "printed",
           exit' \in {"success", "error"}, pick' \in Nat,
           mine' \in [plan : Nat, outcome : {"none"} \cup Finals, consent : BOOLEAN],
           exit' = "success" /\ Applies =>
              said' = "registered" \/ (mine'.plan = pick' /\ mine'.outcome = "applied"),
           mine'.plan # 0 => mine'.consent /\ Applies
    PROVE  CommandInv'
<1>1. /\ Has("--apply")' <=> Has("--apply")
      /\ Applies' <=> Applies
  BY ArgumentsStay
<1>2. CommandTypeOK'
  BY <1>1 DEF CommandInv, CommandTypeOK, Stages
<1>3. CommandGoesOn' /\ RowsHold' /\ WalkHolds'
  BY DEF CommandGoesOn, RowsHold, WalkHolds
<1>4. CommandsTellTruth'
  <2>1. exit' = "success" /\ Applies' =>
           said' = "registered" \/ (mine'.plan = pick' /\ mine'.outcome = "applied")
    BY <1>1
  <2>2. mine'.plan # 0 => mine'.consent /\ Applies'
    BY <1>1
  <2>3. exit' # "usage"
    OBVIOUS
  <2> QED
    BY <2>1, <2>2, <2>3 DEF CommandsTellTruth, Applies
<1> QED
  BY <1>2, <1>3, <1>4, DocketKeeps DEF CommandInv

LEMMA ParseKeeps == CommandInv /\ Parse => CommandInv'
<1> SUFFICES ASSUME CommandInv, Parse PROVE CommandInv'
  OBVIOUS
<1>1. /\ argv' = argv /\ pick' = pick /\ shown' = shown /\ mine' = mine /\ docket' = docket
      /\ stage = "parse"
  BY DEF Parse
<1>2. /\ pick = 0 /\ mine = Nobody /\ shown = Nothing /\ mine.plan = 0
      /\ exit = "none" /\ said # "printed"
  BY <1>1 DEF CommandInv, CommandGoesOn
<1>3. /\ Has("--apply")' <=> Has("--apply")
      /\ Applies' <=> Applies
  BY <1>1, ArgumentsStay
<1>4. CASE Understood
  <2>1. stage' = (IF FirstStage = "apply" THEN "select" ELSE FirstStage)
        /\ exit' = exit /\ said' = said
    BY <1>4 DEF Parse
  <2>2. CASE argv.command \in {"plans", "history"}
    <3>1. stage' \in {"header", "list"}
      BY <2>1, <2>2 DEF FirstStage
    <3>2. ~Applies
      BY <2>2 DEF CommandInv, CommandTypeOK, Applies
    <3>3. WalkHolds'
      <4>1. shown' \in [status : {"none"}, rows : Seq(Nat)] /\ shown'.rows = <<>>
        BY <1>1, <1>2 DEF Nothing
      <4>2. Descends(shown.rows)'
        BY <4>1 DEF Descends
      <4> QED
        BY <1>1, <2>2, <4>1, <4>2 DEF WalkHolds
    <3>4. CommandTypeOK'
      BY <1>1, <1>2, <1>3, <2>1, <3>1 DEF CommandInv, CommandTypeOK, Stages
    <3>5. CommandGoesOn' /\ RowsHold'
      BY <1>1, <1>2, <1>3, <2>1, <3>1, <3>2 DEF CommandGoesOn, RowsHold
    <3> QED
      BY <1>1, <1>2, <2>1, <3>3, <3>4, <3>5, StepsOn DEF DocketMoves
  <2>3. CASE argv.command \notin {"plans", "history"}
    <3>1. /\ stage' \in {"plan", "check", "select"}
          /\ stage' = "check" => argv.command = "check"
          /\ stage' = "select" <=> argv.command = "apply"
      BY <2>1, <2>3 DEF FirstStage
    <3>2. stage' = "select" => Applies
      BY <3>1 DEF Applies
    <3>3. stage' = "check" => ~Applies
      BY <3>1 DEF CommandInv, CommandTypeOK, Applies
    <3>4. CommandTypeOK'
      BY <1>1, <1>2, <1>3, <2>1, <3>1 DEF CommandInv, CommandTypeOK, Stages
    <3>5. CommandGoesOn' /\ RowsHold' /\ WalkHolds'
      BY <1>1, <1>2, <1>3, <2>1, <3>1, <3>2, <3>3 DEF CommandGoesOn, RowsHold, WalkHolds
    <3> QED
      BY <1>1, <1>2, <2>1, <3>4, <3>5, StepsOn DEF DocketMoves
  <2> QED
    BY <2>2, <2>3
<1>5. CASE ~Understood
  <2>1. stage' = "ended" /\ exit' = "usage" /\ said' = "usage"
    BY <1>5 DEF Parse, Ends
  <2>2. CommandTypeOK'
    BY <1>1, <1>3, <2>1 DEF CommandInv, CommandTypeOK, Stages
  <2>3. CommandGoesOn' /\ RowsHold' /\ WalkHolds' /\ CommandsTellTruth'
    BY <1>1, <1>2, <2>1 DEF CommandGoesOn, RowsHold, WalkHolds, CommandsTellTruth
  <2> QED
    BY <1>1, <2>2, <2>3, DocketKeeps DEF CommandInv, DocketMoves
<1> QED
  BY <1>4, <1>5

\* The commands that make or find a Plan, or fail.
LEMMA AnnouncementKeeps ==
    ASSUME CommandInv, DocketMoves, argv' = argv, stage = "plan", shown' = shown, mine' = mine,
           pick' \in Nat, Announces
    PROVE  CommandInv'
<1>1. /\ mine.plan = 0 /\ argv.command # "apply" /\ exit = "none" /\ said' = "created"
      /\ mine \in [plan : Nat, outcome : {"none"} \cup Finals, consent : BOOLEAN]
  BY DEF CommandInv, CommandGoesOn, CommandTypeOK, Announces
<1>2. /\ Has("--apply")' <=> Has("--apply")
      /\ Applies' <=> Applies
  BY ArgumentsStay
<1>3. CASE Has("--apply")
  <2>1. stage' = "confirm" /\ exit' = exit /\ Applies
    BY <1>3 DEF Announces, Applies
  <2>2. CommandTypeOK'
    BY <1>1, <1>2, <2>1 DEF CommandInv, CommandTypeOK, Stages
  <2>3. CommandGoesOn' /\ RowsHold' /\ WalkHolds'
    BY <1>1, <1>2, <2>1 DEF CommandGoesOn, RowsHold, WalkHolds
  <2> QED
    BY <1>1, <2>1, <2>2, <2>3, StepsOn
<1>4. CASE ~Has("--apply")
  <2>1. stage' = "ended" /\ exit' = "success" /\ ~Applies
    BY <1>1, <1>4 DEF Announces, Applies
  <2> QED
    BY <1>1, <2>1, EndsSilently
<1> QED
  BY <1>3, <1>4

LEMMA EarlyEndsKeep ==
    CommandInv /\ (Fails \/ RegisterLibrary \/ CheckLibraryFiles) => CommandInv'
<1> SUFFICES ASSUME CommandInv, Fails \/ RegisterLibrary \/ CheckLibraryFiles PROVE CommandInv'
  OBVIOUS
<1>1. DocketMoves
  BY CommandMovesDocket DEF CommandNext
<1>2. /\ argv' = argv /\ pick' = pick /\ mine' = mine /\ stage' = "ended" /\ stage # "ended"
      /\ said' # "printed" /\ exit' \in {"success", "error"}
      /\ exit' = "success" => said' = "registered" \/ stage = "check"
  BY DEF Fails, RegisterLibrary, CheckLibraryFiles, Ends
<1>3. /\ pick \in Nat /\ mine.plan = 0
      /\ mine \in [plan : Nat, outcome : {"none"} \cup Finals, consent : BOOLEAN]
      /\ stage = "check" => ~Applies
  BY <1>2 DEF CommandInv, CommandGoesOn, CommandTypeOK
<1> QED
  BY <1>1, <1>2, <1>3, EndsSilently

LEMMA PlanningKeeps == CommandInv /\ (CreatePlans \/ ReturnUndoPlan) => CommandInv'
<1> SUFFICES ASSUME CommandInv, CreatePlans \/ ReturnUndoPlan PROVE CommandInv'
  OBVIOUS
<1>1. DocketMoves
  BY CommandMovesDocket DEF CommandNext
<1>2. /\ argv' = argv /\ shown' = shown /\ mine' = mine /\ stage = "plan"
      /\ Announces \/ Ends("error", "error")
  BY DEF CreatePlans, ReturnUndoPlan
<1>3. Len(docket) \in Nat /\ DOMAIN docket = 1 .. Len(docket)
  BY DEF CommandInv, DocketHolds
<1>4. pick' \in Nat
  BY <1>3 DEF CreatePlans, ReturnUndoPlan, ReadyPlans
<1>5. CASE Announces
  BY <1>1, <1>2, <1>4, <1>5, AnnouncementKeeps
<1>6. CASE Ends("error", "error")
  <2>1. stage' = "ended" /\ exit' = "error" /\ said' # "printed"
    BY <1>6 DEF Ends
  <2>2. /\ mine.plan = 0
        /\ mine \in [plan : Nat, outcome : {"none"} \cup Finals, consent : BOOLEAN]
    BY <1>2 DEF CommandInv, CommandGoesOn, CommandTypeOK
  <2> QED
    BY <1>1, <1>2, <1>4, <2>1, <2>2, EndsSilently
<1> QED
  BY <1>2, <1>5, <1>6

\* The way to the application.
LEMMA ConfirmationKeeps == CommandInv /\ (SelectPlan \/ Confirm) => CommandInv'
<1> SUFFICES ASSUME CommandInv, SelectPlan \/ Confirm PROVE CommandInv'
  OBVIOUS
<1>1. DocketMoves
  BY CommandMovesDocket DEF CommandNext
<1>2. /\ argv' = argv /\ shown' = shown /\ stage \in {"select", "confirm"}
      /\ said' # "printed"
  BY DEF SelectPlan, Confirm, Ends, CommandInv, CommandGoesOn
<1>3. /\ mine.plan = 0 /\ Applies /\ exit = "none"
      /\ mine \in [plan : Nat, outcome : {"none"} \cup Finals, consent : BOOLEAN]
  BY <1>2 DEF CommandInv, CommandGoesOn, CommandTypeOK
<1>4. /\ Has("--apply")' <=> Has("--apply")
      /\ Applies' <=> Applies
  BY <1>2, ArgumentsStay
<1>5. pick' \in Nat
  <2>1. Len(docket) \in Nat /\ DOMAIN docket = 1 .. Len(docket) /\ pick \in Nat
    BY DEF CommandInv, DocketHolds, CommandTypeOK
  <2>2. ReadyPlans \in SUBSET (1 .. Len(docket))
    BY <2>1 DEF ReadyPlans
  <2>3. ASSUME ReadyPlans # {} PROVE Newest(ReadyPlans) \in Nat
    <3>1. Newest(ReadyPlans) \in ReadyPlans
      <4>1. \A S \in SUBSET (1 .. Len(docket)) : S # {} => Newest(S) \in S
        <5> SUFFICES ASSUME NEW S \in SUBSET (1 .. Len(docket)), S # {} PROVE Newest(S) \in S
          OBVIOUS
        <5> QED
          BY <2>1, HasNewest
      <4> QED
        BY Zenon, <2>2, <2>3, <4>1
    <3>2. (1 .. Len(docket)) \subseteq Nat
      BY <2>1
    <3> QED
      BY Zenon, <2>2, <3>1, <3>2
  <2>4. \/ pick' = pick \/ pick' \in 1 .. Len(docket) + 1
        \/ ReadyPlans # {} /\ pick' = Newest(ReadyPlans)
    BY Zenon DEF SelectPlan, Confirm
  <2> QED
    BY <2>1, <2>3, <2>4
<1>6. /\ mine'.plan = 0
      /\ mine' \in [plan : Nat, outcome : {"none"} \cup Finals, consent : BOOLEAN]
  BY <1>3 DEF SelectPlan, Confirm
<1>7. CASE stage' = "ended"
  <2>1. exit' = "error"
    BY <1>7 DEF SelectPlan, Confirm, Ends
  <2> QED
    BY <1>1, <1>2, <1>5, <1>6, <1>7, <2>1, EndsSilently
<1>8. CASE stage' # "ended"
  <2>1. exit' = exit /\ stage' \in {"confirm", "apply"} /\ (stage' = "apply" => mine'.consent)
    BY <1>3, <1>8 DEF SelectPlan, Confirm, Ends
  <2>2. CommandTypeOK'
    BY <1>2, <1>4, <1>5, <1>6, <2>1 DEF CommandInv, CommandTypeOK, Stages
  <2>3. CommandGoesOn' /\ RowsHold' /\ WalkHolds'
    BY <1>2, <1>3, <1>4, <1>6, <2>1 DEF CommandGoesOn, RowsHold, WalkHolds
  <2> QED
    BY <1>1, <1>2, <1>6, <2>1, <2>2, <2>3, StepsOn
<1> QED
  BY <1>7, <1>8

LEMMA ExecutionKeeps == CommandInv /\ Execute => CommandInv'
<1> SUFFICES ASSUME CommandInv, Execute PROVE CommandInv'
  OBVIOUS
<1>1. DocketMoves
  BY CommandMovesDocket DEF CommandNext
<1>2. PICK ending \in Finals :
         /\ mine' = [mine EXCEPT !.plan = pick, !.outcome = ending]
         /\ Ends(ExitOf(ending), "completed") \/ Ends("error", "error")
  BY DEF Execute
<1>3. argv' = argv /\ pick' = pick /\ stage = "apply" /\ pick \in Nat /\ Applies
  BY DEF Execute, CommandInv, CommandTypeOK, CommandGoesOn
<1>4. mine.consent /\ mine \in [plan : Nat, outcome : {"none"} \cup Finals, consent : BOOLEAN]
  BY <1>3 DEF CommandInv, CommandTypeOK, CommandGoesOn
<1>5. /\ mine' \in [plan : Nat, outcome : {"none"} \cup Finals, consent : BOOLEAN]
      /\ mine'.plan = pick /\ mine'.outcome = ending /\ mine'.consent
  BY <1>2, <1>3, <1>4
<1>6. /\ stage' = "ended" /\ said' # "printed" /\ exit' \in {"success", "error"}
      /\ exit' = "success" => ending = "applied"
  BY <1>2 DEF Ends, ExitOf, Finals
<1> QED
  BY <1>1, <1>3, <1>5, <1>6, EndsSilently

\* What is printed of one Plan or Run.
LEMMA HeaderKeeps == CommandInv /\ ReadHeader => CommandInv'
<1> SUFFICES ASSUME CommandInv, ReadHeader PROVE CommandInv'
  OBVIOUS
<1>1. DocketMoves
  BY CommandMovesDocket DEF CommandNext
<1>2. /\ argv' = argv /\ mine' = mine /\ docket' = docket /\ stage = "header"
      /\ mine.plan = 0 /\ said # "printed" /\ ~Applies /\ pick \in Nat
      /\ mine \in [plan : Nat, outcome : {"none"} \cup Finals, consent : BOOLEAN]
  BY DEF ReadHeader, CommandInv, CommandGoesOn, CommandTypeOK
<1>3. /\ Has("--apply")' <=> Has("--apply")
      /\ Applies' <=> Applies
  BY <1>2, ArgumentsStay
<1>4. CASE Ends("error", "not found") /\ pick' = pick
  <2>1. stage' = "ended" /\ exit' = "error" /\ said' # "printed"
    BY <1>4 DEF Ends
  <2> QED
    BY <1>1, <1>2, <1>4, <2>1, EndsSilently
<1>5. CASE /\ \E n \in DOMAIN docket :
                 pick' = n /\ shown' = [Nothing EXCEPT !.status = docket[n].status]
           /\ stage' = "rows" /\ exit' = exit /\ said' = said
  <2>1. PICK n \in DOMAIN docket :
           pick' = n /\ shown' = [Nothing EXCEPT !.status = docket[n].status]
    BY <1>5
  <2>2. /\ docket \in Seq(DocketRow) /\ Len(docket) \in Nat /\ n \in 1 .. Len(docket)
    BY <2>1 DEF CommandInv, DocketHolds
  <2>3. docket[n] \in DocketRow
    BY <2>2
  <2>4. docket[n].status \in Statuses
    BY <2>3 DEF DocketRow, Statuses
  <2>5. /\ shown' \in [status : Statuses, rows : Seq(BOOLEAN)]
        /\ shown'.status = docket[n].status /\ shown'.rows = <<>>
    <3>1. shown' = [status |-> docket[n].status, rows |-> <<>>]
      BY <2>1 DEF Nothing
    <3>2. <<>> \in Seq(BOOLEAN)
      OBVIOUS
    <3> HIDE <2>1
    <3> QED
      BY <2>4, <3>1, <3>2
  <2>6. Len(shown'.rows) = 0 /\ 0 <= Lasting'
    <3>1. docket[n].events \in Nat
      BY <2>3 DEF DocketRow
    <3>2. docket'[pick'].events \in Nat
      BY <1>2, <2>1, <3>1
    <3> QED
      BY <2>5, <3>2, ActionRowsAssumption DEF Lasting
  <2>7. RowsHold'
    BY <1>2, <2>1, <2>2, <2>5, <2>6 DEF RowsHold
  <2>8. CommandTypeOK'
    BY <1>2, <1>3, <1>5, <2>1, <2>2 DEF CommandInv, CommandTypeOK, Stages
  <2>9. CommandGoesOn' /\ WalkHolds'
    BY <1>2, <1>3, <1>5 DEF CommandInv, CommandGoesOn, WalkHolds
  <2> QED
    BY <1>1, <1>2, <1>5, <2>7, <2>8, <2>9, StepsOn
<1> QED
  BY <1>4, <1>5 DEF ReadHeader

LEMMA RowsKeep == CommandInv /\ ReadRows => CommandInv'
<1> SUFFICES ASSUME CommandInv, ReadRows PROVE CommandInv'
  OBVIOUS
<1> DEFINE row == Len(shown.rows) + 1
           last == Lasting
<1>1. DocketMoves
  BY CommandMovesDocket DEF CommandNext
<1>2. /\ argv' = argv /\ mine' = mine /\ docket' = docket /\ pick' = pick /\ stage = "rows"
      /\ mine.plan = 0 /\ said # "printed" /\ ~Applies /\ exit = "none"
  BY DEF ReadRows, CommandInv, CommandGoesOn
<1>3. /\ Has("--apply")' <=> Has("--apply")
      /\ Filtered' <=> Filtered
      /\ Applies' <=> Applies
  BY <1>2, ArgumentsStay
<1>4. /\ pick \in 1 .. Len(docket)
      /\ shown \in [status : Statuses, rows : Seq(BOOLEAN)]
      /\ shown.status \in Finals => /\ docket[pick].status \in Finals
                                    /\ Len(shown.rows) <= last
                                    /\ \A i \in 1 .. Len(shown.rows) : shown.rows[i] = TRUE
  BY <1>2 DEF CommandInv, RowsHold
<1>5. shown.rows \in Seq(BOOLEAN) /\ Len(shown.rows) \in Nat /\ Len(docket) \in Nat
      /\ DOMAIN shown.rows = 1 .. Len(shown.rows) /\ pick # 0
  BY <1>4 DEF CommandInv, DocketHolds
<1>6. /\ docket[pick].status \in Finals => docket[pick].done = ActionRows
      /\ Lasting' = Lasting /\ Lasting \in Nat
  <2>1. docket[pick] \in DocketRow
    BY <1>4, <1>5 DEF CommandInv, DocketHolds
  <2>2. docket[pick].events \in Nat
    BY <2>1 DEF DocketRow
  <2>3. Lasting \in Nat
    BY <2>2, ActionRowsAssumption DEF Lasting
  <2> QED
    BY <1>2, <1>4, <2>3 DEF CommandInv, DocketHolds, Lasting
<1>7. CASE row <= last /\ ~Filtered
  <2>1. /\ shown' = [shown EXCEPT !.rows = Append(shown.rows, argv.command = "history" \/ row <= docket[pick].done)]
        /\ stage' = stage /\ exit' = exit /\ said' = said
    BY <1>7 DEF ReadRows
  <2>2. PICK v \in BOOLEAN : v <=> argv.command = "history" \/ row <= docket[pick].done
    OBVIOUS
  <2>3. shown' = [shown EXCEPT !.rows = Append(shown.rows, v)]
    BY <2>1, <2>2
  <2>4. /\ Append(shown.rows, v) \in Seq(BOOLEAN) /\ Len(Append(shown.rows, v)) = row
        /\ \A i \in 1 .. Len(shown.rows) : Append(shown.rows, v)[i] = shown.rows[i]
        /\ Append(shown.rows, v)[row] = v
    BY <1>5, AppendProperties
  <2>5. /\ shown' \in [status : Statuses, rows : Seq(BOOLEAN)] /\ shown'.status = shown.status
        /\ shown'.rows = Append(shown.rows, v)
    BY <1>4, <2>3, <2>4
  <2>6. ASSUME shown.status \in Finals
        PROVE  row <= last /\ \A i \in 1 .. row : shown'.rows[i] = TRUE
    <3>1. docket[pick].done = ActionRows /\ (argv.command = "history" \/ last = ActionRows)
      BY <1>4, <1>6, <2>6 DEF Lasting
    <3>2. row <= last
      BY <1>7
    <3>3. v = TRUE
      BY <2>2, <3>1, <3>2
    <3>4. \A i \in 1 .. row : i \in 1 .. Len(shown.rows) \/ i = row
      BY <1>5
    <3>5. \A i \in 1 .. Len(shown.rows) : shown'.rows[i] = TRUE
      BY <1>4, <2>4, <2>5, <2>6
    <3>6. shown'.rows[row] = TRUE
      BY <2>4, <2>5, <3>3
    <3> HIDE DEF row, last
    <3> QED
      BY <3>2, <3>4, <3>5, <3>6
  <2>7. RowsHold'
    <3>1. Len(shown'.rows) = row /\ last = Lasting'
      BY <1>6, <2>4, <2>5
    <3> HIDE DEF row, last
    <3> QED
      BY <1>2, <1>4, <2>5, <2>6, <3>1 DEF RowsHold
  <2> HIDE DEF row, last
  <2>8. CommandTypeOK'
    BY <1>2, <1>3, <2>1 DEF CommandInv, CommandTypeOK
  <2>9. CommandGoesOn' /\ WalkHolds'
    BY <1>2, <1>3, <2>1 DEF CommandInv, CommandGoesOn, WalkHolds
  <2> QED
    BY <1>1, <1>2, <2>1, <2>7, <2>8, <2>9, StepsOn
<1>8. CASE ~(row <= last /\ ~Filtered)
  <2>1. stage' = "ended" /\ exit' = "success" /\ said' = "printed" /\ shown' = shown
    BY <1>8 DEF ReadRows, Ends
  <2>2. ASSUME shown.status \in Finals, ~Filtered
        PROVE  Len(shown.rows) = last /\ \A i \in DOMAIN shown.rows : shown.rows[i]
    <3>1. ~(row <= last) /\ Len(shown.rows) <= last
      BY <1>4, <1>8, <2>2
    <3>2. Len(shown.rows) = last
      BY <1>5, <1>6, <3>1
    <3> QED
      BY <1>4, <1>5, <2>2, <3>2
  <2> HIDE DEF row, last
  <2>3. CommandTypeOK'
    BY <1>2, <1>3, <2>1 DEF CommandInv, CommandTypeOK, Stages
  <2>4. CommandGoesOn' /\ RowsHold' /\ WalkHolds'
    BY <2>1 DEF CommandGoesOn, RowsHold, WalkHolds
  <2>5. CommandsTellTruth'
    <3>1. shown'.status \in Finals /\ ~Filtered' =>
             Len(shown'.rows) = Lasting' /\ \A i \in DOMAIN shown'.rows : shown'.rows[i]
      BY <1>3, <1>6, <2>1, <2>2 DEF last
    <3>2. ~Applies' /\ exit' # "usage" /\ mine'.plan = 0 /\ pick' # 0
      BY <1>2, <1>3, <1>5, <2>1
    <3> QED
      BY <3>1, <3>2 DEF CommandsTellTruth, Applies
  <2> QED
    BY <1>1, <2>3, <2>4, <2>5, DocketKeeps DEF CommandInv
<1> QED
  BY <1>7, <1>8

\* A listing goes on with a number below those it has: the one below the last of them,
\* unless there is a filter.
LEMMA WalkGrows ==
    ASSUME NEW rows \in Seq(Nat), Descends(rows), NEW next \in Nat,
           \A i \in 1 .. Len(rows) : next < rows[i],
           ~Has("ready") => Len(rows) = 0 \/ next = rows[Len(rows)] - 1
    PROVE  Descends(Append(rows, next))
<1> DEFINE k == Len(rows)
           grown == Append(rows, next)
<1>1. /\ k \in Nat /\ \A i \in 1 .. k : rows[i] \in Nat
      /\ \A i, j \in 1 .. k : i < j => rows[j] < rows[i]
      /\ ~Has("ready") => \A i \in 1 .. k : rows[i] = rows[1] + 1 - i
  BY DEF Descends
<1>2. /\ grown \in Seq(Nat) /\ Len(grown) = k + 1 /\ grown[k + 1] = next
      /\ \A i \in 1 .. k : grown[i] = rows[i]
  BY AppendProperties
<1>3. \A i \in 1 .. k + 1 : i \in 1 .. k \/ i = k + 1
  BY <1>1
<1>4. k \in Nat /\ (\A i \in 1 .. k : next < rows[i])
      /\ (~Has("ready") => k = 0 \/ next = rows[k] - 1)
  BY <1>1
<1> HIDE DEF grown, k
<1>5. ASSUME NEW i \in 1 .. k + 1, NEW j \in 1 .. k + 1, i < j PROVE grown[j] < grown[i]
  <2>1. i \in 1 .. k
    BY <1>4, <1>5
  <2>2. CASE j \in 1 .. k
    BY <1>1, <1>2, <1>5, <2>1, <2>2
  <2>3. CASE j = k + 1
    BY <1>2, <1>4, <2>1, <2>3
  <2> QED
    BY <1>3, <2>2, <2>3
<1>6. ASSUME ~Has("ready"), NEW i \in 1 .. k + 1 PROVE grown[i] = grown[1] + 1 - i
  <2>1. CASE k = 0
    <3>1. i = 1 /\ grown[i] = next
      BY <1>2, <2>1
    <3> QED
      BY <3>1
  <2>2. CASE k # 0
    <3>1. 1 \in 1 .. k /\ k \in 1 .. k /\ next = rows[k] - 1 /\ grown[1] = rows[1]
      BY <1>2, <1>4, <1>6, <2>2
    <3>2. rows[k] = rows[1] + 1 - k /\ rows[1] \in Nat
      BY <1>1, <1>6, <3>1
    <3>3. CASE i \in 1 .. k
      BY <1>1, <1>2, <1>6, <3>1, <3>3
    <3>4. CASE i = k + 1
      BY <1>2, <1>4, <3>1, <3>2, <3>4
    <3> QED
      BY <1>3, <3>3, <3>4
  <2> QED
    BY <2>1, <2>2
<1> QED
  BY <1>2, <1>5, <1>6 DEF Descends, grown

LEMMA WalkIsWhole ==
    ASSUME NEW rows \in Seq(Nat), Len(rows) # 0, rows[Len(rows)] = 1,
           \A i \in 1 .. Len(rows) : rows[i] = rows[1] + 1 - i
    PROVE  {rows[i] : i \in 1 .. Len(rows)} = 1 .. rows[1]
<1>1. Len(rows) \in Nat /\ Len(rows) \in 1 .. Len(rows) /\ 1 \in 1 .. Len(rows)
  OBVIOUS
<1>2. rows[1] \in Nat
  BY <1>1
<1>3. rows[1] = Len(rows)
  <2>1. rows[Len(rows)] = rows[1] + 1 - Len(rows)
    BY <1>1
  <2> QED
    BY <1>1, <1>2, <2>1
<1>4. \A x \in 1 .. rows[1] : rows[1] + 1 - x \in 1 .. Len(rows) /\ rows[rows[1] + 1 - x] = x
  BY <1>1, <1>2, <1>3
<1>5. \A i \in 1 .. Len(rows) : rows[i] \in 1 .. rows[1]
  BY <1>1, <1>2, <1>3
<1> QED
  BY <1>4, <1>5

LEMMA WalkEnds ==
    ASSUME CommandInv, DocketMoves, stage = "list", argv' = argv, mine' = mine, pick' = pick,
           stage' = "ended", exit' = "success", said' = "printed",
           shown'.status = "none",
           \A i, j \in DOMAIN shown'.rows : i < j => shown'.rows[j] < shown'.rows[i],
           shown'.rows # <<>> /\ ~Has("ready") /\ ~Has("--limit") =>
              {shown'.rows[i] : i \in DOMAIN shown'.rows} = 1 .. shown'.rows[1]
    PROVE  CommandInv'
<1>1. mine.plan = 0 /\ ~Applies /\ mine'.plan = 0 /\ "none" \notin Finals
  BY DEF CommandInv, CommandGoesOn, Finals
<1>2. /\ Has("--apply")' <=> Has("--apply")
      /\ Has("--limit")' <=> Has("--limit")
      /\ Has("ready")' <=> Has("ready")
      /\ Applies' <=> Applies
  BY ArgumentsStay
<1>3. CommandTypeOK'
  BY <1>2 DEF CommandInv, CommandTypeOK, Stages
<1>4. CommandGoesOn' /\ RowsHold' /\ WalkHolds'
  BY DEF CommandGoesOn, RowsHold, WalkHolds
<1>5. CommandsTellTruth'
  <2>1. ~Applies' /\ exit' # "usage" /\ mine'.plan = 0 /\ shown'.status \notin Finals
    BY <1>1, <1>2
  <2>2. shown'.rows # <<>> /\ ~Has("ready")' /\ ~Has("--limit")' =>
           {shown'.rows[i] : i \in DOMAIN shown'.rows} = 1 .. shown'.rows[1]
    BY <1>2
  <2> QED
    BY <2>1, <2>2 DEF CommandsTellTruth, Applies
<1> QED
  BY <1>3, <1>4, <1>5, DocketKeeps DEF CommandInv

\* A page of a listing: the next row below those printed, if there is one.
LEMMA ListingKeeps == CommandInv /\ ReadListing => CommandInv'
<1> SUFFICES ASSUME CommandInv, ReadListing PROVE CommandInv'
  OBVIOUS
<1> DEFINE rows == shown.rows
           k == Len(rows)
           rest == {n \in Listed : \A i \in DOMAIN rows : n < rows[i]}
<1>1. DocketMoves
  BY CommandMovesDocket DEF CommandNext
<1>2. /\ argv' = argv /\ mine' = mine /\ docket' = docket /\ pick' = pick /\ stage = "list"
      /\ mine.plan = 0 /\ said # "printed" /\ ~Applies /\ exit = "none" /\ pick = 0
  BY DEF ReadListing, CommandInv, CommandGoesOn
<1>3. /\ Has("--apply")' <=> Has("--apply")
      /\ Has("--limit")' <=> Has("--limit")
      /\ Has("ready")' <=> Has("ready")
      /\ Applies' <=> Applies
  BY <1>2, ArgumentsStay
<1>4. /\ argv.command \in {"plans", "history"}
      /\ shown \in [status : {"none"}, rows : Seq(Nat)]
      /\ Descends(rows)
      /\ \A i \in 1 .. k : rows[i] \in 1 .. Size
  BY <1>2 DEF CommandInv, WalkHolds
<1>5. /\ rows \in Seq(Nat) /\ k \in Nat /\ DOMAIN rows = 1 .. k
      /\ \A i \in 1 .. k : rows[i] \in Nat
      /\ \A i, j \in 1 .. k : i < j => rows[j] < rows[i]
      /\ ~Has("ready") => \A i \in 1 .. k : rows[i] = rows[1] + 1 - i
  BY <1>4 DEF Descends
<1>6. Cardinality(WithRun) \in Nat /\ Len(docket) \in Nat /\ Size \in Nat
  BY RunsAreCounted DEF CommandInv, Size
<1>7. Size' = Size
  BY <1>2 DEF Size, WithRun, HasRun
<1>8. Listed \subseteq 1 .. Size /\ (~Has("ready") => Listed = 1 .. Size)
  <2>1. CASE argv.command = "history"
    <3>1. Listed = {docket[n].run : n \in WithRun}
      BY <2>1 DEF Listed, WithRun
    <3> QED
      BY <2>1, <3>1 DEF Size, CommandInv, DocketHolds
  <2>2. CASE argv.command # "history"
    <3>1. Listed = {n \in DOMAIN docket : Has("ready") => docket[n].status = "ready"}
          /\ Size = Len(docket)
      BY <2>2 DEF Listed, Size
    <3>2. DOMAIN docket = 1 .. Len(docket)
      BY DEF CommandInv, DocketHolds
    <3> QED
      BY <3>1, <3>2
  <2> QED
    BY <2>1, <2>2
<1>9. rest \in SUBSET (1 .. Size)
  BY <1>8
\* What is left of a listing without a filter, and that it is left whole.
<1>10. ASSUME ~Has("ready")
       PROVE  /\ k = 0 => rest = 1 .. Size
              /\ k # 0 => rest = 1 .. rows[k] - 1 /\ rows[k] \in 1 .. Size
  <2>1. Listed = 1 .. Size
    BY <1>8, <1>10
  <2>2. CASE k = 0
    BY <1>5, <2>1, <2>2
  <2>3. CASE k # 0
    <3>1. k \in 1 .. k /\ rows[k] \in 1 .. Size
      BY <1>4, <1>5, <2>3
    <3>2. \A i \in 1 .. k : rows[k] <= rows[i]
      <4> SUFFICES ASSUME NEW i \in 1 .. k PROVE rows[k] <= rows[i]
        OBVIOUS
      <4>1. i = k \/ i < k
        BY <1>5
      <4>2. rows[i] \in Nat /\ rows[k] \in Nat
        BY <1>5, <3>1
      <4>3. i < k => rows[k] < rows[i]
        BY <1>5, <3>1
      <4> QED
        BY <4>1, <4>2, <4>3
    <3>3. \A n \in 1 .. Size : (\A i \in 1 .. k : n < rows[i]) <=> n < rows[k]
      <4> SUFFICES ASSUME NEW n \in 1 .. Size, n < rows[k], NEW i \in 1 .. k PROVE n < rows[i]
        BY <3>1
      <4>1. rows[i] \in Nat /\ rows[k] \in Nat /\ n \in Nat
        BY <1>5, <1>6, <3>1
      <4> QED
        BY <3>2, <4>1
    <3>4. rest = {n \in 1 .. Size : n < rows[k]}
      BY <1>5, <2>1, <3>3
    <3>5. {n \in 1 .. Size : n < rows[k]} = 1 .. rows[k] - 1
      BY <1>6, <3>1
    <3> QED
      BY <2>3, <3>1, <3>4, <3>5
  <2> QED
    BY <2>2, <2>3
<1>11. CASE rest = {}
  <2>1. stage' = "ended" /\ exit' = "success" /\ said' = "printed" /\ shown' = shown
    BY <1>11 DEF ReadListing, Ends
  <2>2. ASSUME rows # <<>>, ~Has("ready") PROVE {rows[i] : i \in 1 .. k} = 1 .. rows[1]
    <3>1. k # 0
      BY <1>5, <2>2
    <3>2. rest = 1 .. rows[k] - 1 /\ rows[k] \in 1 .. Size
      BY <1>10, <2>2, <3>1
    <3> HIDE DEF rest
    <3>3. rows[k] = 1
      <4>1. rows[k] \in Nat /\ rows[k] >= 1
        BY <1>6, <3>2
      <4>2. 1 \notin 1 .. rows[k] - 1
        BY <1>11, <3>2
      <4> QED
        BY <4>1, <4>2
    <3> QED
      BY <1>5, <2>2, <3>1, <3>3, WalkIsWhole
  <2>3. shown'.status = "none" /\ shown'.rows = rows
    BY <1>4, <2>1
  <2> HIDE DEF rest
  <2>4. \A i, j \in DOMAIN shown'.rows : i < j => shown'.rows[j] < shown'.rows[i]
    BY <1>5, <2>3
  <2>5. shown'.rows # <<>> /\ ~Has("ready") =>
           {shown'.rows[i] : i \in DOMAIN shown'.rows} = 1 .. shown'.rows[1]
    BY <1>5, <2>2, <2>3
  <2> QED
    BY <1>1, <1>2, <2>1, <2>3, <2>4, <2>5, WalkEnds
<1>12. CASE rest # {}
  <2> DEFINE next == Newest(rest)
             grown == Append(rows, next)
  <2>1. /\ shown' = [shown EXCEPT !.rows = grown]
        /\ IF LastPage(rest) THEN stage' = "ended" /\ exit' = "success" /\ said' = "printed"
                             ELSE stage' = stage /\ exit' = exit /\ said' = said
    BY <1>12 DEF ReadListing, Ends
  <2>2. next \in rest /\ \A m \in rest : m <= next
    <3> HIDE DEF rest
    <3>1. \A S \in SUBSET (1 .. Size) : S # {} => Newest(S) \in S /\ \A m \in S : m <= Newest(S)
      <4> SUFFICES ASSUME NEW S \in SUBSET (1 .. Size), S # {}
                   PROVE  Newest(S) \in S /\ \A m \in S : m <= Newest(S)
        OBVIOUS
      <4> QED
        BY <1>6, HasNewest
    <3> QED
      BY Zenon, <1>9, <1>12, <3>1
  <2> HIDE DEF next
  <2>3. next \in 1 .. Size /\ \A i \in 1 .. k : next < rows[i]
    BY <1>5, <1>9, <2>2
  <2>4. next \in Nat
    BY <1>6, <2>3
  <2>5. /\ grown \in Seq(Nat) /\ Len(grown) = k + 1 /\ grown[k + 1] = next
        /\ \A i \in 1 .. k : grown[i] = rows[i]
    BY <1>5, <2>4, AppendProperties
  <2> HIDE DEF rest
  <2>6. ASSUME ~Has("ready") PROVE rest = 1 .. next /\ (k # 0 => next = rows[k] - 1)
    <3>1. CASE k = 0
      <4>1. rest = 1 .. Size
        BY <1>10, <2>6, <3>1
      <4>2. next = Size
        BY <1>6, <2>2, <2>3, <4>1
      <4> QED
        BY <3>1, <4>1, <4>2
    <3>2. CASE k # 0
      <4>1. rest = 1 .. rows[k] - 1 /\ rows[k] \in 1 .. Size
        BY <1>10, <2>6, <3>2
      <4>2. next = rows[k] - 1
        BY <1>6, <2>2, <2>4, <4>1
      <4> QED
        BY <4>1, <4>2
    <3> QED
      BY <3>1, <3>2
  <2>7. \A i \in 1 .. k + 1 : grown[i] \in 1 .. Size
    <3> HIDE DEF grown
    <3>1. \A i \in 1 .. k + 1 : i \in 1 .. k \/ i = k + 1
      BY <1>5
    <3> QED
      BY <1>4, <2>3, <2>5, <3>1
  <2>8. Descends(grown)
    BY <1>4, <1>5, <2>3, <2>4, <2>6, WalkGrows
  <2> HIDE DEF grown
  <2>9. /\ shown' \in [status : {"none"}, rows : Seq(Nat)] /\ shown'.status = "none"
        /\ shown'.rows = grown
    BY <1>4, <2>1, <2>5
  <2>10. CASE LastPage(rest)
    <3>1. stage' = "ended" /\ exit' = "success" /\ said' = "printed"
      BY <2>1, <2>10
    <3>2. /\ DOMAIN grown = 1 .. Len(grown) /\ Len(grown) # 0
          /\ \A i, j \in 1 .. Len(grown) : i < j => grown[j] < grown[i]
          /\ ~Has("ready") => \A i \in 1 .. Len(grown) : grown[i] = grown[1] + 1 - i
      BY <1>5, <2>5, <2>8 DEF Descends
    <3>3. ASSUME ~Has("ready"), ~Has("--limit")
          PROVE  {grown[i] : i \in 1 .. Len(grown)} = 1 .. grown[1]
      <4>1. Cardinality(rest) = 1
        BY <2>10, <3>3 DEF LastPage
      <4>2. IsFiniteSet(rest)
        <5>1. IsFiniteSet(1 .. Size)
          BY <1>6, FS_Interval
        <5> QED
          BY <1>9, <5>1, FS_Subset
      <4>3. PICK x : rest = {x}
        BY <4>1, <4>2, FS_Singleton
      <4>4. rest = 1 .. next /\ 1 \in 1 .. next /\ next \in 1 .. next
        BY <2>3, <2>4, <2>6, <3>3
      <4>5. next = 1
        BY <4>3, <4>4
      <4>6. grown[Len(grown)] = 1
        BY <2>5, <4>5
      <4> QED
        BY <2>5, <3>2, <3>3, <4>6, WalkIsWhole
    <3>4. \A i, j \in DOMAIN shown'.rows : i < j => shown'.rows[j] < shown'.rows[i]
      BY <2>9, <3>2
    <3>5. ~Has("ready") /\ ~Has("--limit") =>
             {shown'.rows[i] : i \in DOMAIN shown'.rows} = 1 .. shown'.rows[1]
      BY <2>9, <3>2, <3>3
    <3> QED
      BY <1>1, <1>2, <2>9, <3>1, <3>4, <3>5, WalkEnds
  <2>11. CASE ~LastPage(rest)
    <3>1. stage' = stage /\ exit' = exit /\ said' = said
      BY <2>1, <2>11
    <3>3. WalkHolds'
      <4>1. Descends(shown.rows)'
        BY <1>2, <1>3, <2>8, <2>9 DEF Descends
      <4> QED
        BY <1>2, <1>4, <1>7, <2>5, <2>7, <2>9, <4>1 DEF WalkHolds
    <3>4. CommandTypeOK'
      BY <1>2, <1>3, <3>1 DEF CommandInv, CommandTypeOK
    <3>5. CommandGoesOn' /\ RowsHold'
      BY <1>2, <1>3, <3>1 DEF CommandInv, CommandGoesOn, RowsHold
    <3> QED
      BY <1>1, <1>2, <3>1, <3>3, <3>4, <3>5, StepsOn
  <2> QED
    BY <2>10, <2>11
<1> QED
  BY <1>11, <1>12

\* adapters/cli: a script may believe the exit code and the reader what is printed,
\* whatever the arguments, however many Plans there are and actions a Plan has, and
\* whatever other processes do to the Plans meanwhile.
THEOREM CommandsStayTruthful == CommandSpec => []CommandsTellTruth
<1>1. ASSUME CommandInv, [CommandNext]_commandVars PROVE CommandInv'
  <2>1. CASE UNCHANGED commandVars
    <3>1. /\ DocketMoves
          /\ UNCHANGED <<argv, stage, pick, shown, said, exit, mine, docket>>
      BY <2>1 DEF commandVars, DocketMoves
    <3> QED
      BY <1>1, <3>1, StirsKeep
  <2>2. CASE OthersStir
    <3>1. /\ DocketMoves
          /\ UNCHANGED <<argv, stage, pick, shown, said, exit, mine>> /\ exit = "none"
      BY <1>1, <2>2, CommandMovesDocket DEF CommandNext, OthersStir
    <3> QED
      BY <1>1, <3>1, StirsKeep
  <2> QED
    BY <1>1, <2>1, <2>2, ParseKeeps, EarlyEndsKeep, PlanningKeeps, ConfirmationKeeps,
       ExecutionKeeps, HeaderKeeps, RowsKeep, ListingKeeps DEF CommandNext
<1>2. CommandInv => CommandsTellTruth
  BY DEF CommandInv
<1> QED
  BY <1>1, <1>2, CommandStarts, PTL DEF CommandSpec
=============================================================================
