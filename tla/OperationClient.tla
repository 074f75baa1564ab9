--------------------------- MODULE OperationClient ---------------------------
(***************************************************************************)
(* One page of the Web frontend that starts work on a Plan, cancels it, or *)
(* asks for a new one (operation-start.ts, operation-polling.ts,           *)
(* operation-guard.ts, plan-execution.ts, plan-execution-controls.tsx),    *)
(* against the server's answers (routes/operations.py, routes/plans.py).   *)
(* The server may die and start again, answers may be lost, the browser    *)
(* may send a request a second time by itself, other clients work on the   *)
(* same Library.  A request is handled in steps, several at once, as       *)
(* operation_composition.py accepts it.  How the server runs an Operation  *)
(* is OperationRuntime's subject: here it is queued, runs and ends.        *)
(***************************************************************************)
EXTENDS Naturals

CONSTANTS
    Clicks,       \* the clicks, each with the idempotency key it draws
    NoClick,
    MaxRestarts,  \* bound: how often the server process may die
    MaxResends    \* bound: how often the browser sends a request again by itself

ASSUME ClickAssumption == NoClick \notin Clicks

VARIABLES
    ledger,   \* the server's row of each key, or "none"
    outcome,  \* ghost: how the Operation of each key ended
    plan,     \* the status of the Plan the page shows
    busy,     \* another client's Operation is active
    process,  \* the server: its number, which stands for its token, and whether it is up
    wire,     \* the requests not yet answered, each with how far its handling is
    page,     \* the page: see ClientInit
    told,     \* what each click was told: "none", "accepted", "refused", "unknown"
    overtaken,\* history: the keys refused while a copy of the request could still be accepted
    resends   \* bounded by MaxResends

clientVars == <<ledger, outcome, plan, busy, process, wire, page, told, overtaken, resends>>

Active == {"queued", "running"}
Terminal == {"succeeded", "failed", "interrupted"}
Starts == {"apply", "create"}

ClientInit ==
    /\ ledger = [k \in Clicks |-> "none"] /\ outcome = [k \in Clicks |-> "none"]
    /\ plan = "ready" /\ busy = FALSE
    /\ process = [token |-> 0, up |-> TRUE]
    /\ wire = {}
    /\ \E offers \in {{"apply", "cancel"}, {"create"}} :   \* a Plan's page, a planning page
       page = [pc |-> "idle",       \* the mutation: idle, sent, answered, resent, again
               click |-> NoClick, kind |-> "none", token |-> 0,
               copy |-> 0,          \* the copy of the request it waits for
               answer |-> "none",   \* what the server said to the last request
               shows |-> NoClick,   \* the Operation the page follows
               guard |-> FALSE,     \* hasActiveOperation
               poll |-> "off",      \* off, timer, sent, or what was read
               status |-> "none",   \* the last status shown of it
               can |-> TRUE,        \* the capabilities, as read last
               offers |-> offers,
               cancelled |-> FALSE] \* the cancellation was announced
    /\ told = [k \in Clicks |-> "none"]
    /\ overtaken = {} /\ resends = 0

serverState == <<ledger, outcome, plan, busy, process, overtaken>>

-----------------------------------------------------------------------------
(* The page: a click. *)

\* isActiveOperation: whether accepted work keeps the page's buttons disabled.
Guarded(status) == status \in Active

\* locallyBusy and the capabilities: which buttons can be pressed.
Enabled(kind) ==
    /\ kind \in page.offers /\ page.pc = "idle" /\ ~page.guard
    /\ kind \in {"apply", "cancel"} => page.can

\* The request of the page's click, under the token it holds.
Request ==
    [key |-> page'.click, kind |-> page'.kind, token |-> page'.token, copy |-> page'.copy,
     at |-> "sent"]   \* sent; then in the server: looked, busy, holds, committed

\* A click draws a new key and sends the request. A new start replaces the
\* Operation that was shown.
Click(k, kind) ==
    /\ told[k] = "none" /\ \A j \in Clicks : page.click = j => told[j] # "none"
    /\ Enabled(kind)
    /\ page' = IF kind = "cancel"
               THEN [page EXCEPT !.pc = "sent", !.click = k, !.kind = kind, !.copy = 1,
                                 !.answer = "none", !.cancelled = FALSE]
               ELSE [page EXCEPT !.pc = "sent", !.click = k, !.kind = kind, !.copy = 1,
                                 !.answer = "none", !.shows = NoClick,
                                 !.poll = "off", !.status = "none"]
    /\ wire' = wire \union {Request}
    /\ UNCHANGED <<serverState, told, resends>>

\* isCsrfInvalid: a refused token, and only that, is renewed: Bootstrap is read
\* again and the same request sent once more, under the same key.
TokenRefused == page.pc = "answered" /\ page.answer = "csrf"

RenewToken ==
    /\ TokenRefused /\ process.up
    /\ page' = [page EXCEPT !.pc = "resent", !.token = process.token, !.copy = @ + 1,
                            !.answer = "none"]
    /\ wire' = wire \union {Request}
    /\ UNCHANGED <<serverState, told, resends>>

\* The mutation is over.
Rested == [page EXCEPT !.pc = "idle", !.kind = "none", !.answer = "none", !.copy = 0]

\* Bootstrap cannot be read: the click failed.
RenewalFails ==
    /\ TokenRefused
    /\ page' = Rested
    /\ told' = [told EXCEPT ![page.click] = "unknown"]
    /\ UNCHANGED <<serverState, wire, resends>>

Waiting == page.pc \in {"sent", "resent"}
Settled == (page.pc = "answered" /\ ~TokenRefused) \/ page.pc = "again"

\* The connection breaks, and the browser sends the request once more by itself: the
\* copies before may be lost, still arrive, or be in the server's hands; their answers
\* no longer reach the page.
Resend ==
    /\ Waiting /\ resends < MaxResends
    /\ resends' = resends + 1
    /\ page' = [page EXCEPT !.copy = @ + 1]
    /\ wire' = wire \union {Request}
    /\ UNCHANGED <<serverState, told>>

\* Or the page learns of it: OperationTransportError, whatever became of the request.
LoseAnswer ==
    /\ Waiting
    /\ page' = Rested
    /\ told' = [told EXCEPT ![page.click] = "unknown"]
    /\ UNCHANGED <<serverState, wire, resends>>

\* operationOrThrow: an Operation, active or ended, is shown and followed; active
\* work guards the buttons.
StartSettles ==
    /\ Settled /\ page.kind \in Starts
    /\ LET status == page.answer IN
       IF status \in Active \union Terminal
       THEN /\ page' = [Rested EXCEPT !.shows = page.click,
                                      !.guard = Guarded(status), !.status = status,
                                      !.poll = IF status \in Terminal THEN "off" ELSE "timer"]
            /\ told' = [told EXCEPT ![page.click] = "accepted"]
       ELSE /\ page' = Rested
            /\ told' = [told EXCEPT ![page.click] =
                           IF status = "conflict" THEN "refused" ELSE "unknown"]
    /\ UNCHANGED <<serverState, wire, resends>>

\* planDetailOrThrow: the cancelled Plan is announced, an error shown.
CancelSettles ==
    /\ Settled /\ page.kind = "cancel"
    /\ page' = [Rested EXCEPT !.cancelled = page.answer = "cancelled"]
    /\ told' = [told EXCEPT ![page.click] =
                           IF page.answer = "cancelled" THEN "accepted" ELSE "unknown"]
    /\ UNCHANGED <<serverState, wire, resends>>

\* The Plan's detail, with its capabilities, is read again.
ReadDetail ==
    /\ process.up /\ page.pc = "idle" /\ "apply" \in page.offers
    /\ page' = [page EXCEPT !.can = plan = "ready"]
    /\ UNCHANGED <<serverState, wire, told, resends>>
-----------------------------------------------------------------------------
(* The page: polling the accepted Operation. *)

PollSends ==
    /\ page.poll = "timer"
    /\ page' = [page EXCEPT !.poll = "sent"]
    /\ UNCHANGED <<serverState, wire, told, resends>>

\* The server reads the row: 410 once it is a tombstone, 404 when that is purged.
PollReads ==
    /\ page.poll = "sent" /\ process.up
    /\ page' = [page EXCEPT !.poll = ledger[page.shows]]
    /\ UNCHANGED <<serverState, wire, told, resends>>

\* What was read arrives: active work is polled again, ended work shown, and it
\* frees the buttons; any other answer ends the polling.
PollReceives ==
    /\ page.poll \notin {"off", "timer", "sent"}
    /\ page' = CASE page.poll \in Active -> [page EXCEPT !.poll = "timer", !.status = page.poll]
                 [] page.poll \in Terminal -> [page EXCEPT !.poll = "off", !.status = page.poll,
                                                           !.guard = FALSE]
                 [] OTHER -> [page EXCEPT !.poll = "off"]
    /\ UNCHANGED <<serverState, wire, told, resends>>

\* No answer, or a 5xx: polled again when it is a transport error or retryable.
PollFails ==
    /\ page.poll = "sent"
    /\ \E next \in {"timer", "off"} : page' = [page EXCEPT !.poll = next]
    /\ UNCHANGED <<serverState, wire, told, resends>>

-----------------------------------------------------------------------------
(* The server: a request is handled in steps, each its own transaction or lock call. *)

\* The answer ends the handling, and reaches the page if it still waits for this copy.
Answers(r, answer) ==
    /\ page' = IF Waiting /\ page.click = r.key /\ page.copy = r.copy
               THEN [page EXCEPT !.pc = IF @ = "sent" THEN "answered" ELSE "again",
                                 !.answer = answer]
               ELSE page
    /\ wire' = wire \ {r}

Proceeds(r, at) ==
    /\ wire' = (wire \ {r}) \union {[r EXCEPT !.at = at]}
    /\ UNCHANGED page

clientRows == <<ledger, outcome, plan>>

\* The apply that claimed the Plan has ended, one way or the other.
Released == IF plan = "applying" THEN "applied" ELSE plan

\* The exclusive lock is free: no worker, no other client, no request holds it.
Idle ==
    /\ ~busy /\ \A k \in Clicks : ledger[k] \notin Active
    /\ \A r \in wire : r.at # "holds"

\* enforce_csrf_token: a token of another process is refused before the route runs.
RefuseToken(r) ==
    /\ r.token # process.token
    /\ Answers(r, "csrf")
    /\ UNCHANGED <<clientRows, overtaken>>

\* _acceptance_response: a key the server has seen replays its Operation: 202 while
\* it is active, 200 when it has ended, 410 once it is forgotten.
Replay(r) ==
    /\ ledger[r.key] # "none"
    /\ Answers(r, ledger[r.key])
    /\ UNCHANGED <<clientRows, overtaken>>

\* A typed 409. If this process could still accept another copy, that is remembered.
Refuse(r) ==
    /\ Answers(r, "conflict")
    /\ overtaken' = IF \E s \in wire \ {r} : s.key = r.key /\ s.token = process.token
                    THEN overtaken \union {r.key} ELSE overtaken
    /\ UNCHANGED clientRows

\* ClassifyOperationReplayUseCase, before anything is locked.
Look(r) ==
    /\ r.at = "sent"
    /\ \/ Replay(r)
       \/ ledger[r.key] = "none" /\ Proceeds(r, "looked") /\ UNCHANGED <<clientRows, overtaken>>

\* The lock is taken if it is free, and never waited for. It can be busy at any time:
\* the supervisor's reconciliation takes it as well.
TakeLock(r) ==
    /\ r.at = "looked"
    /\ (Idle /\ Proceeds(r, "holds")) \/ Proceeds(r, "busy")
    /\ UNCHANGED <<clientRows, overtaken>>

\* Mutant of SecondLook: a busy lock is a refusal, without a second look at the key.
RefuseAtOnce(r) == r.at = "busy" /\ Refuse(r)

\* Under a busy lock the key is looked up again: who holds the lock may have accepted it.
\* (Only which 409 it is depends on the Plan.)
SecondLook(r) ==
    /\ r.at = "busy"
    /\ Replay(r) \/ (ledger[r.key] = "none" /\ Refuse(r))

\* Under the lock, in one transaction: the key is classified once more, a Plan that is
\* not ready is refused, else the Operation is accepted and an apply claims its Plan.
Reserve(r) ==
    /\ r.at = "holds"
    /\ \/ Replay(r)
       \/ ledger[r.key] = "none" /\ r.kind = "apply" /\ plan # "ready" /\ Refuse(r)
       \/ /\ ledger[r.key] = "none" /\ (r.kind = "apply" => plan = "ready")
          /\ Proceeds(r, "committed")
          /\ ledger' = [ledger EXCEPT ![r.key] = "queued"]
          /\ plan' = IF r.kind = "apply" THEN "applying" ELSE plan
          /\ UNCHANGED <<outcome, overtaken>>

\* submit, to the executor, with the lock; a RuntimeError interrupts what was accepted.
Dispatch(r) ==
    /\ r.at = "committed"
    /\ \/ Answers(r, "queued") /\ UNCHANGED clientRows
       \/ /\ Answers(r, "error")
          /\ ledger' = [ledger EXCEPT ![r.key] = "interrupted"]
          /\ outcome' = [outcome EXCEPT ![r.key] = "interrupted"]
          /\ plan' = Released
    /\ UNCHANGED overtaken

\* execute_exclusive: a cancellation takes the lock, or is refused.
LockToCancel(r) ==
    /\ r.at = "sent"
    /\ \/ Idle /\ Proceeds(r, "holds") /\ UNCHANGED <<clientRows, overtaken>>
       \/ Refuse(r)

\* CancelPlanUseCase: only a ready Plan.
CancelPlan(r) ==
    /\ r.at = "holds"
    /\ \/ /\ plan = "ready" /\ plan' = "cancelled"
          /\ Answers(r, "cancelled") /\ UNCHANGED <<ledger, outcome, overtaken>>
       \/ plan # "ready" /\ Refuse(r)

\* handle_unexpected_error: an error nobody expected, before anything was done.
Fail(r) ==
    /\ r.at # "committed"
    /\ Answers(r, "error")
    /\ UNCHANGED <<clientRows, overtaken>>

\* One step of one of the request threads.
HandleRequest ==
    /\ process.up
    /\ \E r \in wire :
          \/ RefuseToken(r)
          \/ /\ r.token = process.token
             /\ \/ r.kind \in Starts
                   /\ (Look(r) \/ TakeLock(r) \/ SecondLook(r) \/ Reserve(r) \/ Dispatch(r))
                \/ r.kind = "cancel" /\ (LockToCancel(r) \/ CancelPlan(r))
                \/ Fail(r)
    /\ UNCHANGED <<busy, process, told, resends>>

-----------------------------------------------------------------------------
(* The rest of the server, and the other clients. *)

\* The executor runs what was dispatched to it.
WorkStarts ==
    /\ process.up
    /\ \E k \in Clicks :
          /\ ledger[k] = "queued" /\ \A r \in wire : r.key = k => r.at # "committed"
          /\ ledger' = [ledger EXCEPT ![k] = "running"]
    /\ UNCHANGED <<outcome, plan, busy, process, wire, page, told, overtaken, resends>>

Interrupt(rows, keys) == [k \in Clicks |-> IF k \in keys THEN "interrupted" ELSE rows[k]]

WorkEnds ==
    /\ process.up
    /\ \E k \in Clicks, s \in {"succeeded", "failed"} :
          /\ ledger[k] = "running"
          /\ ledger' = [ledger EXCEPT ![k] = s] /\ outcome' = [outcome EXCEPT ![k] = s]
    /\ plan' = Released
    /\ UNCHANGED <<busy, process, wire, page, told, overtaken, resends>>

\* The process dies, and with it the requests it was handling; the next one has a new
\* token, and reconciles what was left active before it answers anything.
Restart ==
    /\ process.token < MaxRestarts
    /\ IF process.up
       THEN /\ process' = [process EXCEPT !.up = FALSE]
            /\ wire' = {r \in wire : r.at = "sent"}
            /\ UNCHANGED <<ledger, outcome, plan, busy>>
       ELSE /\ process' = [token |-> process.token + 1, up |-> TRUE]
            /\ busy' = FALSE
            /\ plan' = Released
            /\ LET left == {k \in Clicks : ledger[k] \in Active}
               IN  ledger' = Interrupt(ledger, left) /\ outcome' = Interrupt(outcome, left)
            /\ UNCHANGED wire
    /\ UNCHANGED <<page, told, overtaken, resends>>

\* Retention: an ended Operation becomes a tombstone (which is purged long after its
\* request can still arrive).
Forget ==
    /\ process.up
    /\ \E k \in Clicks : ledger[k] \in Terminal /\ ledger' = [ledger EXCEPT ![k] = "expired"]
    /\ UNCHANGED <<outcome, plan, busy, process, wire, page, told, overtaken, resends>>

\* Another client's work, which may claim or cancel this Plan.
OtherClient ==
    /\ process.up
    /\ \/ busy /\ busy' = FALSE /\ plan' = Released
       \/ Idle /\ busy' = TRUE /\ plan' \in IF plan = "ready" THEN {"ready", "applying"} ELSE {plan}
       \/ Idle /\ plan = "ready" /\ plan' = "cancelled" /\ UNCHANGED busy
    /\ UNCHANGED <<ledger, outcome, process, wire, page, told, overtaken, resends>>

ClientNext ==
    \/ \E k \in Clicks, kind \in Starts \union {"cancel"} : Click(k, kind)
    \/ RenewToken \/ RenewalFails \/ Resend \/ LoseAnswer
    \/ StartSettles \/ CancelSettles \/ ReadDetail
    \/ PollSends \/ PollReads \/ PollReceives \/ PollFails
    \/ HandleRequest \/ WorkStarts \/ WorkEnds \/ Restart \/ Forget \/ OtherClient

ClientSpec == ClientInit /\ [][ClientNext]_clientVars

-----------------------------------------------------------------------------
\* The page never says what is not so. An ending it shows is how that Operation
\* ended, even after the row was forgotten; buttons are free again only when the
\* Operation the page followed has ended; a click told it was refused, through
\* however many tokens and copies, started nothing, unless the server could still
\* accept another copy when it refused this one; an announced cancellation happened.
ClientTellsTruth ==
    /\ page.status \in Terminal => outcome[page.shows] = page.status
    /\ ~page.guard /\ page.shows # NoClick => outcome[page.shows] # "none"
    /\ \A k \in Clicks : told[k] = "refused" => ledger[k] = "none" \/ k \in overtaken
    /\ page.cancelled => plan = "cancelled"
=============================================================================
