----------------------------- MODULE UndoPlanner -----------------------------
(***************************************************************************)
(* CreateUndoPlanUseCase: the inverse of a settled Plan's Run, from its    *)
(* succeeded FileEvents and from earlier attempts to undo them. It reads   *)
(* and saves in one transaction.                                           *)
(***************************************************************************)
EXTENDS LibraryState

\* Earlier Undo Plans of the Run of Plan n, and what they reversed for good.
Attempts(n) == {m \in DOMAIN plans : plans[m].type = "undo" /\ plans[m].from = n}

ReversedBy(attempts) ==
    UNION {{plans[m].actions[i].reverses : i \in {j \in ActionsOf(m) :
                plans[m].actions[j].event = "succeeded"}} : m \in attempts}

Reversed(n) == ReversedBy(Attempts(n))

Succeeded(n) == {i \in ActionsOf(n) : plans[n].actions[i].event = "succeeded"}

Pending(n) == \E i \in ActionsOf(n) : plans[n].actions[i].event = "pending"

\* _companion_provenance_is_valid: the asset still belongs to the Track the
\* action gave it to, and all the audio it followed was moved by this Run.
CompanionProvenance(n, i) ==
    LET a == plans[n].actions[i] IN
    /\ a.asset \in ActiveAssets /\ assets[a.asset].owner = a.track
    /\ assets[a.asset].kind = a.kind /\ InLibrary(a.target)
    /\ \A d \in a.deps : /\ plans[n].actions[d].kind = "audio"
                         /\ plans[n].actions[d].event = "succeeded"
    /\ a.owner # 0 => a.owner \in a.deps /\ plans[n].actions[a.owner].track = a.track
    /\ External(a.source) => plans[n].type = "add"

\* _validate_source_history, the reasons to refuse.
UndoAllowed(n) ==
    /\ plans[n].status \in Settled
    /\ \A i \in ActionsOf(n) : plans[n].actions[i].op # "refresh"
    /\ \A m \in Attempts(n) \cup {n} : ~Pending(m)
    /\ \A i \in Succeeded(n) \ Reversed(n) :
          CASE plans[n].actions[i].kind = "audio"       -> TRUE
            [] plans[n].actions[i].kind = "unprocessed" -> plans[n].type = "add"
            [] OTHER                                    -> CompanionProvenance(n, i)
    /\ Succeeded(n) # {}
    /\ \A m \in Attempts(n) : plans[m].status \notin {"applying", "applied"}

\* Mutant of ReadyUndo: only an Undo Plan under way counts.
ForgetsReadyUndo(n) == {m \in Attempts(n) : plans[m].status = "applying"}

\* A ready Undo Plan of the Run is returned again.
ReadyUndo(n) == {m \in Attempts(n) : plans[m].status = "ready"}

\* _audio_candidate: the Track where it is now, as it was when it was recorded.
UndoAudio(a, type) ==
    LET t == a.track
        p == tracks[t].path
        base == [Candidate("audio", p) EXCEPT !.target = a.source, !.track = t] IN
    CASE t \notin ActiveTracks        -> [base EXCEPT !.reason = "source_changed"]
      [] At(p) = Gone                 -> [base EXCEPT !.reason = "source_missing"]
      [] At(p) # tracks[t].content    -> [base EXCEPT !.reason = "source_changed", !.content = At(p)]
      [] External(a.source) /\ type # "add"
                                      -> [base EXCEPT !.reason = "invalid_path", !.content = At(p)]
      [] At(a.source) # Gone          -> [base EXCEPT !.reason = "target_exists", !.content = At(p)]
      [] OTHER                        -> [base EXCEPT !.content = At(p)]

\* _companion_candidate and _unprocessed_candidate: a file that must still be
\* where p and what content say.
UndoFile(a, p, content) ==
    LET base == [Candidate(a.kind, p) EXCEPT !.target = a.source, !.content = At(p)] IN
    CASE At(p) = Gone          -> [base EXCEPT !.reason = "source_missing"]
      [] At(p) # content       -> [base EXCEPT !.reason = "source_changed"]
      [] At(a.source) # Gone   -> [base EXCEPT !.reason = "target_exists"]
      [] OTHER                 -> base

UndoCandidate(n, i) ==
    LET a == plans[n].actions[i] IN
    CASE a.kind = "audio"       -> UndoAudio(a, plans[n].type)
      [] a.kind = "unprocessed" -> UndoFile(a, a.target, a.content)
      [] OTHER -> [UndoFile(a, assets[a.asset].path, assets[a.asset].content) EXCEPT
                      !.asset = a.asset, !.track = assets[a.asset].owner]

\* Where among the reversed actions left the inverse of action i comes.
InverseOf(left, i) == Max({0} \cup {k \in DOMAIN left : left[k] = i})

\* Mutant of InverseDependencies: an inverse depends as its source action did.
KeepsDirection(n, left, i) == {InverseOf(left, j) : j \in plans[n].actions[i].deps} \ {0}

\* An inverse depends on the inverses of what depended on its source action.
InverseDependencies(n, left, i) ==
    {InverseOf(left, j) : j \in {k \in Succeeded(n) : i \in plans[n].actions[k].deps}} \ {0}

\* The inverse actions of left, in its order.
Inverses(n, left) ==
    [k \in 1 .. Len(left) |->
        LET a == plans[n].actions[left[k]]
            c == UndoCandidate(n, left[k]) IN
        [kind |-> c.kind, op |-> "move", source |-> c.source, target |-> c.target,
         content |-> c.content, track |-> c.track, asset |-> c.asset,
         owner |-> IF a.owner = 0 THEN 0 ELSE InverseOf(left, a.owner),
         deps |-> InverseDependencies(n, left, left[k]),
         reason |-> c.reason, reverses |-> left[k], event |-> "none",
         status |-> IF Unblocked(c) THEN "planned" ELSE "blocked"]]

\* The actions of a Run by their events, the last first.
LastFirst(moved) ==
    [k \in 1 .. Cardinality(moved) |->
        CHOOSE i \in moved : Cardinality({j \in moved : j >= i}) = k]

\* Mutant of UndoActions: files are reversed in the order they were moved in.
UndoesForward(n) == Inverses(n, SetToSortSeq(Succeeded(n) \ Reversed(n), <))

\* What is not reversed yet, last event first.
UndoActions(n) == Inverses(n, LastFirst(Succeeded(n) \ Reversed(n)))
=============================================================================
