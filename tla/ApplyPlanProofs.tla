--------------------------- MODULE ApplyPlanProofs ---------------------------
(***************************************************************************)
(* Proofs about ApplyPlan for every Plan, of any length and shape: type    *)
(* correctness, the truth of the recorded evidence, the order of dependent *)
(* actions, and the truth of the reported outcome.                         *)
(***************************************************************************)
EXTENDS ApplyPlan, FiniteSetTheorems, TLAPS

-----------------------------------------------------------------------------
(* The inductive invariant.                                                *)

BeforeEvent == {"root", "verify", "capture", "intend", "refreshed"}
Moving      == MoverSteps \cup {"moved", "unmoved"}
AtAction    == BeforeEvent \cup Moving
Looping     == AtAction \cup {"start", "next"}
Over        == {"raised", "gone", "done"}

\* The counters never run ahead of the action the worker stands at.
Counting ==
    /\ successes + failures <= IF stopped THEN current ELSE current - 1
    /\ sequence <= current
    /\ stopped => pc \in Over \cup {"finish"}
    /\ pc = "start" => current = 1
    /\ pc = "finish" /\ ~stopped => current = LastAction + 1

\* Where the worker stands, its action is planned and its file in hand.
Standing ==
    /\ pc \in AtAction => current \in Eligible /\ status[current] = "planned"
    /\ pc \in Moving \cup {"intend"} => current \in Mutating
    /\ pc = "refreshed" => Kind[current] = "refresh"
    /\ pc \in BeforeEvent \cup {"open", "claim"} => target[current] \in {"free", "foreign"}
    /\ pc \in MoverSteps \cup {"unmoved"} => target[current] # "moved"
    /\ pc = "moved" => target[current] \in {"moved", "namesake"} \/ current \in raced["unlink"]
    /\ pc \in Moving => event[current] = "pending"
    /\ plan = "applying" <=> pc # "done"

\* What a check of the mover found holds until the call it guards, unless
\* others came in between.
Guarded ==
    /\ pc = "unlink" => \/ source[current] = "planned" /\ LooksClaimed(current)
                        \/ current \in raced["unlink"]
    /\ pc = "discard" => LooksClaimed(current) \/ current \in raced["discard"]

Ready(a) ==
    /\ \A d \in Deps[a] : status[d] = "applied"
    /\ Kind[a] = "companion" /\ PlanType # "undo" /\ Owner[a] # 0 => Owner[a] \in managed

\* Actions ahead are untouched, actions behind have been decided, and the one
\* in hand has had its dependencies checked before it is observed.
Ahead ==
    \A a \in Actions :
        pc \in Looping /\ (a > current \/ (a = current /\ pc \notin Moving)) =>
            /\ event[a] = "none" /\ target[a] \in {"free", "foreign"}
            /\ status[a] \in {"planned", "blocked"}

Behind ==
    \A a \in Actions : pc \in Looping \cup {"finish"} /\ a < current => status[a] # "planned"

Checked == pc \in Moving \cup {"capture", "intend", "refreshed"} => Ready(current)

\* What the rows of one action say about each other.
RowsAgree ==
    \A a \in Actions :
        /\ a \in Blocked <=> status[a] = "blocked"
        /\ status[a] = "interrupted" => pc = "done"
        /\ a \notin Mutating => event[a] = "none"
        /\ event[a] # "none" => a \in Eligible
        /\ event[a] = "pending" => status[a] = IF pc = "done" THEN "interrupted" ELSE "planned"
        /\ event[a] = "pending" => pc \in Over \/ (pc \in Moving /\ a = current)

\* The counters in memory add up to what the rows say.
Tally ==
    pc # "done" =>
        /\ successes > 0 <=> \E a \in Eligible : status[a] = "applied"
        /\ failures > 0 <=> stopped \/ \E a \in Eligible : status[a] = "failed"
        /\ stopped => successes = 0 \/ \E a \in Eligible : status[a] = "planned"
        /\ operation = "running"

IInv ==
    /\ TypeOK /\ Counting /\ Standing /\ Guarded /\ Ahead /\ Behind /\ Checked /\ RowsAgree /\ Tally
    /\ EvidenceIsTrue /\ DependenciesFirst /\ OutcomeIsTrue

USE PlanAssumption
    DEF Actions, Mutating, Eligible, Transactions, MoverSteps, BeforeEvent, Moving, AtAction,
        Looping, Over, worker, journal, disk, outside, outcome

-----------------------------------------------------------------------------
(* Each step keeps the invariant: the loop,                               *)

LEMMA StartKeeps ==
    ASSUME IInv, Start
    PROVE  IInv'
<1>1. TypeOK'
  <2>1. CASE root = "reviewed"
    BY <2>1 DEF IInv, TypeOK, Start, Goto
  <2>2. CASE root # "reviewed"
    <3>1. failures' \in 0 .. LastAction + 1
      BY <2>2 DEF IInv, TypeOK, Counting, Standing, Start, Stop
    <3> QED
      BY <2>2, <3>1 DEF IInv, TypeOK, Start, Stop, Goto
  <2> QED
    BY <2>1, <2>2
<1>2. Counting'
  BY DEF IInv, Counting, TypeOK, Standing, Start, Stop, Goto
<1>3. Standing'
  BY DEF IInv, Standing, TypeOK, Counting, Ahead, RowsAgree, Start, Stop, Goto
<1>4. Ahead'
  BY DEF IInv, Ahead, TypeOK, Counting, Standing, Start, Stop, Goto
<1>5. Behind'
  BY DEF IInv, Behind, TypeOK, Counting, Standing, RowsAgree, Start, Stop, Goto
<1>6. Checked'
  BY DEF IInv, Checked, TypeOK, Standing, Ready, Start, Stop, Goto
<1>7. RowsAgree'
  BY DEF IInv, RowsAgree, TypeOK, Counting, Standing, Ahead, Start, Stop, Goto
<1>8. Tally'
  BY DEF IInv, Tally, TypeOK, Counting, Standing, RowsAgree, Ahead, Start, Stop, Goto
<1>9. EvidenceIsTrue'
  BY DEF IInv, EvidenceIsTrue, TypeOK, Standing, RowsAgree, Ahead, Start, Stop, Goto
<1>10. DependenciesFirst'
  BY DEF IInv, DependenciesFirst, TypeOK, Standing, Checked, Ready, RowsAgree, Start, Stop,
         Goto
<1>11. OutcomeIsTrue'
  BY DEF IInv, OutcomeIsTrue, TypeOK, Counting, Standing, Behind, RowsAgree, Tally, Start,
         Stop, Goto
<1>12. Guarded'
  BY DEF IInv, Guarded, LooksClaimed, TypeOK, Standing, Counting, Start, Stop, Goto
<1> QED
  BY <1>1, <1>2, <1>3, <1>4, <1>5, <1>6, <1>7, <1>8, <1>9, <1>10, <1>11, <1>12 DEF IInv

LEMMA PassOverKeeps ==
    ASSUME IInv, PassOver
    PROVE  IInv'
<1>1. TypeOK'
  BY DEF IInv, TypeOK, Counting, Standing, PassOver
<1>2. Counting' /\ Standing'
  BY DEF IInv, Counting, Standing, TypeOK, Ahead, RowsAgree, PassOver
<1>3. Ahead' /\ Behind' /\ Checked'
  BY DEF IInv, Ahead, Behind, Checked, TypeOK, Counting, Standing, RowsAgree, Ready, PassOver
<1>4. RowsAgree' /\ Tally'
  BY DEF IInv, RowsAgree, Tally, TypeOK, Counting, Standing, Ahead, PassOver
<1>5. EvidenceIsTrue' /\ DependenciesFirst' /\ OutcomeIsTrue'
  BY DEF IInv, EvidenceIsTrue, DependenciesFirst, OutcomeIsTrue, TypeOK, Standing, RowsAgree,
         Ahead, Checked, Ready, Counting, Behind, Tally, PassOver
<1>6. Guarded'
  BY DEF IInv, Guarded, LooksClaimed, TypeOK, Standing, Counting, PassOver
<1> QED
  BY <1>1, <1>2, <1>3, <1>4, <1>5, <1>6 DEF IInv

LEMMA ApplySkipKeeps ==
    ASSUME IInv, ApplySkip
    PROVE  IInv'
<1>1. TypeOK'
  BY DEF IInv, TypeOK, Counting, Standing, ApplySkip, SetStatus
<1>2. Counting' /\ Standing'
  BY DEF IInv, Counting, Standing, TypeOK, Ahead, RowsAgree, ApplySkip, SetStatus
<1>3. Ahead' /\ Behind' /\ Checked'
  BY DEF IInv, Ahead, Behind, Checked, TypeOK, Counting, Standing, RowsAgree, Ready,
         ApplySkip, SetStatus
<1>4. RowsAgree' /\ Tally'
  BY DEF IInv, RowsAgree, Tally, TypeOK, Counting, Standing, Ahead, ApplySkip, SetStatus
<1>5. EvidenceIsTrue' /\ DependenciesFirst' /\ OutcomeIsTrue'
  BY DEF IInv, EvidenceIsTrue, DependenciesFirst, OutcomeIsTrue, TypeOK, Standing, RowsAgree,
         Ahead, Checked, Ready, Counting, Behind, Tally, ApplySkip, SetStatus
<1>6. Guarded'
  BY DEF IInv, Guarded, LooksClaimed, TypeOK, Standing, Counting, ApplySkip, SetStatus
<1> QED
  BY <1>1, <1>2, <1>3, <1>4, <1>5, <1>6 DEF IInv

LEMMA TakeActionKeeps ==
    ASSUME IInv, TakeAction
    PROVE  IInv'
<1>1. TypeOK'
  BY DEF IInv, TypeOK, Counting, Standing, TakeAction, Goto
<1>2. Counting' /\ Standing'
  BY DEF IInv, Counting, Standing, TypeOK, Ahead, RowsAgree, TakeAction, Goto
<1>3. Ahead' /\ Behind' /\ Checked'
  BY DEF IInv, Ahead, Behind, Checked, TypeOK, Counting, Standing, RowsAgree, Ready,
         TakeAction, Goto
<1>4. RowsAgree' /\ Tally'
  BY DEF IInv, RowsAgree, Tally, TypeOK, Counting, Standing, Ahead, TakeAction, Goto
<1>5. EvidenceIsTrue' /\ DependenciesFirst' /\ OutcomeIsTrue'
  BY DEF IInv, EvidenceIsTrue, DependenciesFirst, OutcomeIsTrue, TypeOK, Standing, RowsAgree,
         Ahead, Checked, Ready, Counting, Behind, Tally, TakeAction, Goto
<1>6. Guarded'
  BY DEF IInv, Guarded, LooksClaimed, TypeOK, Standing, Counting, TakeAction, Goto
<1> QED
  BY <1>1, <1>2, <1>3, <1>4, <1>5, <1>6 DEF IInv

LEMMA CheckRootKeeps ==
    ASSUME IInv, CheckRoot
    PROVE  IInv'
<1>1. TypeOK'
  <2>1. CASE root = "reviewed"
    BY <2>1 DEF IInv, TypeOK, CheckRoot, Goto
  <2>2. CASE root # "reviewed"
    <3>1. failures' \in 0 .. LastAction + 1
      BY <2>2 DEF IInv, TypeOK, Counting, Standing, CheckRoot, Stop
    <3> QED
      BY <2>2, <3>1 DEF IInv, TypeOK, CheckRoot, Stop, Goto
  <2> QED
    BY <2>1, <2>2
<1>2. Counting'
  BY DEF IInv, Counting, TypeOK, Standing, CheckRoot, Stop, Goto
<1>3. Standing'
  BY DEF IInv, Standing, TypeOK, Counting, Ahead, RowsAgree, CheckRoot, Stop, Goto
<1>4. Ahead'
  BY DEF IInv, Ahead, TypeOK, Counting, Standing, CheckRoot, Stop, Goto
<1>5. Behind'
  BY DEF IInv, Behind, TypeOK, Counting, Standing, RowsAgree, CheckRoot, Stop, Goto
<1>6. Checked'
  BY DEF IInv, Checked, TypeOK, Standing, Ready, CheckRoot, Stop, Goto
<1>7. RowsAgree'
  BY DEF IInv, RowsAgree, TypeOK, Counting, Standing, Ahead, CheckRoot, Stop, Goto
<1>8. Tally'
  <2>1. CASE root = "reviewed"
    BY <2>1 DEF IInv, Tally, Standing, CheckRoot, Goto
  <2>2. CASE root # "reviewed"
    <3>1. /\ failures' > 0 /\ stopped' /\ successes' = successes /\ status' = status
          /\ operation' = operation /\ pc # "done"
      BY <2>2 DEF IInv, TypeOK, CheckRoot, Stop, Goto
    <3>2. current \in Eligible /\ status[current] = "planned"
      BY DEF IInv, Counting, Standing, Ahead, CheckRoot
    <3> QED
      BY <3>1, <3>2 DEF IInv, Tally
  <2> QED
    BY <2>1, <2>2
<1>9. EvidenceIsTrue'
  BY DEF IInv, EvidenceIsTrue, TypeOK, Standing, RowsAgree, Ahead, CheckRoot, Stop, Goto
<1>10. DependenciesFirst'
  BY DEF IInv, DependenciesFirst, TypeOK, Standing, Checked, Ready, RowsAgree, CheckRoot,
         Stop, Goto
<1>11. OutcomeIsTrue'
  BY DEF IInv, OutcomeIsTrue, TypeOK, Counting, Standing, Behind, RowsAgree, Tally, CheckRoot,
         Stop, Goto
<1>12. Guarded'
  BY DEF IInv, Guarded, LooksClaimed, TypeOK, Standing, Counting, CheckRoot, Stop, Goto
<1> QED
  BY <1>1, <1>2, <1>3, <1>4, <1>5, <1>6, <1>7, <1>8, <1>9, <1>10, <1>11, <1>12 DEF IInv

LEMMA FailActionKeeps ==
    ASSUME IInv, pc \in {"verify", "capture"}, FailAction
    PROVE  IInv'
<1>1. TypeOK'
  BY DEF IInv, TypeOK, Counting, Standing, FailAction, Advance, SetStatus, Goto
<1>2. Counting'
  BY DEF IInv, Counting, TypeOK, Standing, FailAction, Advance, SetStatus, Goto
<1>3. Standing'
  BY DEF IInv, Standing, TypeOK, Counting, Ahead, RowsAgree, FailAction, Advance, SetStatus,
         Goto
<1>4. Ahead'
  BY DEF IInv, Ahead, TypeOK, Counting, Standing, FailAction, Advance, SetStatus, Goto
<1>5. Behind'
  BY DEF IInv, Behind, TypeOK, Counting, Standing, RowsAgree, FailAction, Advance, SetStatus,
         Goto
<1>6. Checked'
  BY DEF IInv, Checked, TypeOK, Standing, Ready, FailAction, Advance, SetStatus, Goto
<1>7. RowsAgree'
  BY DEF IInv, RowsAgree, TypeOK, Counting, Standing, Ahead, FailAction, Advance, SetStatus,
         Goto
<1>8. Tally'
  BY DEF IInv, Tally, TypeOK, Counting, Standing, RowsAgree, Ahead, FailAction, Advance,
         SetStatus, Goto
<1>9. EvidenceIsTrue'
  BY DEF IInv, EvidenceIsTrue, TypeOK, Standing, RowsAgree, Ahead, FailAction, Advance,
         SetStatus, Goto
<1>10. DependenciesFirst'
  BY DEF IInv, DependenciesFirst, TypeOK, Standing, Checked, Ready, RowsAgree, FailAction,
         Advance, SetStatus, Goto
<1>11. OutcomeIsTrue'
  BY DEF IInv, OutcomeIsTrue, TypeOK, Counting, Standing, Behind, RowsAgree, Tally,
         FailAction, Advance, SetStatus, Goto
<1>12. Guarded'
  BY DEF IInv, Guarded, LooksClaimed, TypeOK, Standing, Counting, FailAction, Advance, SetStatus,
         Goto
<1> QED
  BY <1>1, <1>2, <1>3, <1>4, <1>5, <1>6, <1>7, <1>8, <1>9, <1>10, <1>11, <1>12 DEF IInv

LEMMA VerifyPassesKeeps ==
    ASSUME IInv, pc = "verify", Verified(current),
           pc' = "capture",
           UNCHANGED <<worker, journal, disk, outside, outcome>>
    PROVE  IInv'
<1>1. TypeOK'
  BY DEF IInv, TypeOK, Counting, Standing, Verified, DependenciesApplied, OwnerHolds
<1>2. Counting' /\ Standing'
  BY DEF IInv, Counting, Standing, TypeOK, Ahead, RowsAgree, Verified, DependenciesApplied,
         OwnerHolds
<1>3. Ahead' /\ Behind' /\ Checked'
  BY DEF IInv, Ahead, Behind, Checked, TypeOK, Counting, Standing, RowsAgree, Ready, Verified,
         DependenciesApplied, OwnerHolds
<1>4. RowsAgree' /\ Tally'
  BY DEF IInv, RowsAgree, Tally, TypeOK, Counting, Standing, Ahead, Verified,
         DependenciesApplied, OwnerHolds
<1>5. EvidenceIsTrue' /\ DependenciesFirst' /\ OutcomeIsTrue'
  BY DEF IInv, EvidenceIsTrue, DependenciesFirst, OutcomeIsTrue, TypeOK, Standing, RowsAgree,
         Ahead, Checked, Ready, Counting, Behind, Tally, Verified, DependenciesApplied,
         OwnerHolds
<1>6. Guarded'
  BY DEF IInv, Guarded, LooksClaimed, TypeOK, Standing, Counting, Verified, DependenciesApplied,
         OwnerHolds
<1> QED
  BY <1>1, <1>2, <1>3, <1>4, <1>5, <1>6 DEF IInv

LEMMA CapturePassesKeeps ==
    ASSUME IInv, pc = "capture",
           pc' = IF Kind[current] = "refresh" THEN "refreshed" ELSE "intend",
           UNCHANGED <<worker, journal, disk, outside, outcome>>
    PROVE  IInv'
<1>1. TypeOK'
  BY DEF IInv, TypeOK, Counting, Standing
<1>2. Counting' /\ Standing'
  BY DEF IInv, Counting, Standing, TypeOK, Ahead, RowsAgree
<1>3. Ahead' /\ Behind' /\ Checked'
  BY DEF IInv, Ahead, Behind, Checked, TypeOK, Counting, Standing, RowsAgree, Ready
<1>4. RowsAgree' /\ Tally'
  BY DEF IInv, RowsAgree, Tally, TypeOK, Counting, Standing, Ahead
<1>5. EvidenceIsTrue' /\ DependenciesFirst' /\ OutcomeIsTrue'
  BY DEF IInv, EvidenceIsTrue, DependenciesFirst, OutcomeIsTrue, TypeOK, Standing, RowsAgree,
         Ahead, Checked, Ready, Counting, Behind, Tally
<1>6. Guarded'
  BY DEF IInv, Guarded, LooksClaimed, TypeOK, Standing, Counting
<1> QED
  BY <1>1, <1>2, <1>3, <1>4, <1>5, <1>6 DEF IInv

LEMMA RefreshTrackKeeps ==
    ASSUME IInv, RefreshTrack
    PROVE  IInv'
<1>1. TypeOK'
  BY DEF IInv, TypeOK, Counting, Standing, RefreshTrack, Advance, SetStatus, Goto
<1>2. Counting' /\ Standing'
  BY DEF IInv, Counting, Standing, TypeOK, Ahead, RowsAgree, RefreshTrack, Advance, SetStatus,
         Goto
<1>3. Ahead' /\ Behind' /\ Checked'
  BY DEF IInv, Ahead, Behind, Checked, TypeOK, Counting, Standing, RowsAgree, Ready,
         RefreshTrack, Advance, SetStatus, Goto
<1>4. RowsAgree' /\ Tally'
  BY DEF IInv, RowsAgree, Tally, TypeOK, Counting, Standing, Ahead, RefreshTrack, Advance,
         SetStatus, Goto
<1>5. EvidenceIsTrue' /\ DependenciesFirst' /\ OutcomeIsTrue'
  BY DEF IInv, EvidenceIsTrue, DependenciesFirst, OutcomeIsTrue, TypeOK, Standing, RowsAgree,
         Ahead, Checked, Ready, Counting, Behind, Tally, RefreshTrack, Advance, SetStatus,
         Goto
<1>6. Guarded'
  BY DEF IInv, Guarded, LooksClaimed, TypeOK, Standing, Counting, RefreshTrack, Advance,
         SetStatus, Goto
<1> QED
  BY <1>1, <1>2, <1>3, <1>4, <1>5, <1>6 DEF IInv

LEMMA IntendKeeps ==
    ASSUME IInv, Intend
    PROVE  IInv'
<1>1. TypeOK'
  BY DEF IInv, TypeOK, Counting, Standing, Intend, Goto
<1>2. Counting' /\ Standing'
  BY DEF IInv, Counting, Standing, TypeOK, Ahead, RowsAgree, Intend, Goto
<1>3. Ahead' /\ Behind' /\ Checked'
  BY DEF IInv, Ahead, Behind, Checked, TypeOK, Counting, Standing, RowsAgree, Ready, Intend,
         Goto
<1>4. RowsAgree' /\ Tally'
  BY DEF IInv, RowsAgree, Tally, TypeOK, Counting, Standing, Ahead, Intend, Goto
<1>5. EvidenceIsTrue' /\ DependenciesFirst' /\ OutcomeIsTrue'
  BY DEF IInv, EvidenceIsTrue, DependenciesFirst, OutcomeIsTrue, TypeOK, Standing, RowsAgree,
         Ahead, Checked, Ready, Counting, Behind, Tally, Intend, Goto
<1>6. Guarded'
  BY DEF IInv, Guarded, LooksClaimed, TypeOK, Standing, Counting, Intend, Goto
<1> QED
  BY <1>1, <1>2, <1>3, <1>4, <1>5, <1>6 DEF IInv

-----------------------------------------------------------------------------
(* the file mover and the record of what it did,                           *)

\* The mover works on the files alone, and stays in its part of the loop.
LEMMA MoveTouchesFiles ==
    ASSUME MoveFile
    PROVE  /\ UNCHANGED <<worker, journal, outside, outcome>>
           /\ pc \in Moving /\ pc' \in Moving
BY DEF MoveFile, OpenSource, ClaimTarget, CheckMove, UnlinkSource, MatchTarget, DiscardTarget,
       MoverStep, Goto

\* A check of the mover, or a call that raised: no file is touched.
LEMMA MoverKeeps ==
    ASSUME IInv, MoverStep(pc'), UNCHANGED disk,
           \/ pc = "open" /\ pc' = "claim"
           \/ pc = "check" /\ pc' = "unlink" /\ source[current] = "planned" /\ LooksClaimed(current)
           \/ pc = "cleanup" /\ pc' = "discard" /\ LooksClaimed(current)
           \/ pc \in MoverSteps /\ pc' \in {"cleanup", "unmoved"}
    PROVE  IInv'
<1>1. TypeOK'
  BY DEF IInv, TypeOK, Counting, Standing, MoverStep
<1>2. Counting' /\ Standing'
  BY DEF IInv, Counting, Standing, Guarded, LooksClaimed, TypeOK, Ahead, RowsAgree, MoverStep
<1>3. Guarded'
  BY DEF IInv, Guarded, LooksClaimed, TypeOK, Standing, MoverStep
<1>4. Ahead' /\ Behind' /\ Checked'
  BY DEF IInv, Ahead, Behind, Checked, TypeOK, Counting, Standing, RowsAgree, Ready, MoverStep
<1>5. RowsAgree' /\ Tally'
  BY DEF IInv, RowsAgree, Tally, TypeOK, Counting, Standing, Ahead, MoverStep
<1>6. EvidenceIsTrue'
  BY DEF IInv, EvidenceIsTrue, TypeOK, Standing, RowsAgree, Counting, MoverStep
<1>7. DependenciesFirst'
  BY DEF IInv, DependenciesFirst, TypeOK, Standing, Checked, Ready, Ahead, Counting, MoverStep
<1>8. OutcomeIsTrue'
  BY DEF IInv, OutcomeIsTrue, MoverStep
<1> QED
  BY <1>1, <1>2, <1>3, <1>4, <1>5, <1>6, <1>7, <1>8 DEF IInv

LEMMA ClaimsKeeps ==
    ASSUME IInv, pc = "claim", target[current] = "free",
           target' = [target EXCEPT ![current] = "claimed"],
           stray' \in {stray, stray \cup {current}},
           MoverStep("check"),
           UNCHANGED source
    PROVE  IInv'
<1>1. TypeOK'
  BY DEF IInv, TypeOK, Counting, Standing, MoverStep, Goto
<1>2. Counting' /\ Standing'
  BY DEF IInv, Counting, Standing, Guarded, LooksClaimed, TypeOK, Ahead, RowsAgree, MoverStep, Goto
<1>3. Guarded'
  BY DEF IInv, Guarded, LooksClaimed, TypeOK, Standing, MoverStep, Goto
<1>4. Ahead' /\ Behind' /\ Checked'
  BY DEF IInv, Ahead, Behind, Checked, TypeOK, Counting, Standing, RowsAgree, Ready, MoverStep, Goto
<1>5. RowsAgree' /\ Tally'
  BY DEF IInv, RowsAgree, Tally, TypeOK, Counting, Standing, Ahead, MoverStep, Goto
<1>6. EvidenceIsTrue'
  BY DEF IInv, EvidenceIsTrue, TypeOK, Standing, RowsAgree, Counting, MoverStep, Goto
<1>7. DependenciesFirst'
  BY DEF IInv, DependenciesFirst, TypeOK, Standing, Checked, Ready, Ahead, Counting, MoverStep, Goto
<1>8. OutcomeIsTrue'
  BY DEF IInv, OutcomeIsTrue, MoverStep, Goto
<1> QED
  BY <1>1, <1>2, <1>3, <1>4, <1>5, <1>6, <1>7, <1>8 DEF IInv

LEMMA UnlinksKeeps ==
    ASSUME IInv, pc = "unlink",
           source' = [source EXCEPT ![current] = "missing"],
           target' = IF target[current] = "claimed"
                     THEN [target EXCEPT ![current] = "moved"] ELSE target,
           MoverStep("moved"),
           UNCHANGED stray
    PROVE  IInv'
<1>1. TypeOK'
  BY DEF IInv, TypeOK, Counting, Standing, MoverStep, Goto
<1>2. Counting' /\ Standing'
  BY DEF IInv, Counting, Standing, Guarded, LooksClaimed, TypeOK, Ahead, RowsAgree, MoverStep, Goto
<1>3. Guarded'
  BY DEF IInv, Guarded, LooksClaimed, TypeOK, Standing, MoverStep, Goto
<1>4. Ahead' /\ Behind' /\ Checked'
  BY DEF IInv, Ahead, Behind, Checked, TypeOK, Counting, Standing, RowsAgree, Ready, MoverStep, Goto
<1>5. RowsAgree' /\ Tally'
  BY DEF IInv, RowsAgree, Tally, TypeOK, Counting, Standing, Ahead, MoverStep, Goto
<1>6. EvidenceIsTrue'
  BY DEF IInv, EvidenceIsTrue, TypeOK, Standing, RowsAgree, Counting, MoverStep, Goto
<1>7. DependenciesFirst'
  BY DEF IInv, DependenciesFirst, TypeOK, Standing, Checked, Ready, Ahead, Counting, MoverStep, Goto
<1>8. OutcomeIsTrue'
  BY DEF IInv, OutcomeIsTrue, MoverStep, Goto
<1> QED
  BY <1>1, <1>2, <1>3, <1>4, <1>5, <1>6, <1>7, <1>8 DEF IInv

LEMMA DiscardsKeeps ==
    ASSUME IInv, DiscardTarget
    PROVE  IInv'
<1>1. TypeOK'
  BY DEF IInv, TypeOK, Counting, Standing, DiscardTarget, MoverStep, Goto
<1>2. Counting' /\ Standing'
  BY DEF IInv, Counting, Standing, Guarded, LooksClaimed, TypeOK, Ahead, RowsAgree,
         DiscardTarget, MoverStep, Goto
<1>3. Guarded'
  BY DEF IInv, Guarded, LooksClaimed, TypeOK, Standing, DiscardTarget, MoverStep, Goto
<1>4. Ahead' /\ Behind' /\ Checked'
  BY DEF IInv, Ahead, Behind, Checked, TypeOK, Counting, Standing, RowsAgree, Ready,
         DiscardTarget, MoverStep, Goto
<1>5. RowsAgree' /\ Tally'
  BY DEF IInv, RowsAgree, Tally, TypeOK, Counting, Standing, Ahead, DiscardTarget, MoverStep, Goto
<1>6. EvidenceIsTrue' /\ DependenciesFirst' /\ OutcomeIsTrue'
  <2>1. EvidenceIsTrue'
    BY DEF IInv, EvidenceIsTrue, TypeOK, Standing, RowsAgree, Ahead, DiscardTarget, MoverStep, Goto
  <2>2. DependenciesFirst'
    BY DEF IInv, DependenciesFirst, TypeOK, Standing, Checked, Ready, RowsAgree, DiscardTarget,
           MoverStep, Goto
  <2>3. OutcomeIsTrue'
    BY DEF IInv, OutcomeIsTrue, TypeOK, Counting, Standing, Behind, RowsAgree, Tally,
           DiscardTarget, MoverStep, Goto
  <2> QED
    BY <2>1, <2>2, <2>3
<1> QED
  BY <1>1, <1>2, <1>3, <1>4, <1>5, <1>6 DEF IInv

LEMMA RecordSuccessKeeps ==
    ASSUME IInv, RecordSuccess
    PROVE  IInv'
<1>1. TypeOK'
  BY DEF IInv, TypeOK, Counting, Standing, RecordSuccess, Advance, SetStatus, Goto
<1>2. Counting'
  BY DEF IInv, Counting, TypeOK, Standing, RecordSuccess, Advance, SetStatus, Goto
<1>3. Standing'
  BY DEF IInv, Standing, TypeOK, Counting, Ahead, RowsAgree, RecordSuccess, Advance,
         SetStatus, Goto
<1>4. Ahead'
  BY DEF IInv, Ahead, TypeOK, Counting, Standing, RecordSuccess, Advance, SetStatus, Goto
<1>5. Behind'
  BY DEF IInv, Behind, TypeOK, Counting, Standing, RowsAgree, RecordSuccess, Advance,
         SetStatus, Goto
<1>6. Checked'
  BY DEF IInv, Checked, TypeOK, Standing, Ready, RecordSuccess, Advance, SetStatus, Goto
<1>7. RowsAgree'
  BY DEF IInv, RowsAgree, TypeOK, Counting, Standing, Ahead, RecordSuccess, Advance,
         SetStatus, Goto
<1>8. Tally'
  BY DEF IInv, Tally, TypeOK, Counting, Standing, RowsAgree, Ahead, RecordSuccess, Advance,
         SetStatus, Goto
<1>9. EvidenceIsTrue'
  BY DEF IInv, EvidenceIsTrue, TypeOK, Standing, RowsAgree, Ahead, RecordSuccess, Advance,
         SetStatus, Goto
<1>10. DependenciesFirst'
  BY DEF IInv, DependenciesFirst, TypeOK, Standing, Checked, Ready, RowsAgree, RecordSuccess,
         Advance, SetStatus, Goto
<1>11. OutcomeIsTrue'
  BY DEF IInv, OutcomeIsTrue, TypeOK, Counting, Standing, Behind, RowsAgree, Tally,
         RecordSuccess, Advance, SetStatus, Goto
<1>12. Guarded'
  BY DEF IInv, Guarded, LooksClaimed, TypeOK, Standing, Counting, RecordSuccess, Advance,
         SetStatus, Goto
<1> QED
  BY <1>1, <1>2, <1>3, <1>4, <1>5, <1>6, <1>7, <1>8, <1>9, <1>10, <1>11, <1>12 DEF IInv

LEMMA RecordFailureKeeps ==
    ASSUME IInv, RecordFailure
    PROVE  IInv'
<1>1. TypeOK'
  BY DEF IInv, TypeOK, Counting, Standing, RecordFailure, Advance, SetStatus, Goto
<1>2. Counting'
  BY DEF IInv, Counting, TypeOK, Standing, RecordFailure, Advance, SetStatus, Goto
<1>3. Standing'
  BY DEF IInv, Standing, TypeOK, Counting, Ahead, RowsAgree, RecordFailure, Advance,
         SetStatus, Goto
<1>4. Ahead'
  BY DEF IInv, Ahead, TypeOK, Counting, Standing, RecordFailure, Advance, SetStatus, Goto
<1>5. Behind'
  BY DEF IInv, Behind, TypeOK, Counting, Standing, RowsAgree, RecordFailure, Advance,
         SetStatus, Goto
<1>6. Checked'
  BY DEF IInv, Checked, TypeOK, Standing, Ready, RecordFailure, Advance, SetStatus, Goto
<1>7. RowsAgree'
  BY DEF IInv, RowsAgree, TypeOK, Counting, Standing, Ahead, RecordFailure, Advance,
         SetStatus, Goto
<1>8. Tally'
  BY DEF IInv, Tally, TypeOK, Counting, Standing, RowsAgree, Ahead, RecordFailure, Advance,
         SetStatus, Goto
<1>9. EvidenceIsTrue'
  BY DEF IInv, EvidenceIsTrue, TypeOK, Standing, RowsAgree, Ahead, RecordFailure, Advance,
         SetStatus, Goto
<1>10. DependenciesFirst'
  BY DEF IInv, DependenciesFirst, TypeOK, Standing, Checked, Ready, RowsAgree, RecordFailure,
         Advance, SetStatus, Goto
<1>11. OutcomeIsTrue'
  BY DEF IInv, OutcomeIsTrue, TypeOK, Counting, Standing, Behind, RowsAgree, Tally,
         RecordFailure, Advance, SetStatus, Goto
<1>12. Guarded'
  BY DEF IInv, Guarded, LooksClaimed, TypeOK, Standing, Counting, RecordFailure, Advance,
         SetStatus, Goto
<1> QED
  BY <1>1, <1>2, <1>3, <1>4, <1>5, <1>6, <1>7, <1>8, <1>9, <1>10, <1>11, <1>12 DEF IInv

-----------------------------------------------------------------------------
(* the terminal transactions and the failures,                             *)

LEMMA FinishKeeps ==
    ASSUME IInv, Finish
    PROVE  IInv'
<1>1. TypeOK'
  BY DEF IInv, TypeOK, Counting, Standing, Finish, Verdict, Goto
<1>2. Counting'
  BY DEF IInv, Counting, TypeOK, Standing, Finish, Verdict, Goto
<1>3. Standing'
  BY DEF IInv, Standing, TypeOK, Counting, Ahead, RowsAgree, Finish, Verdict, Goto
<1>4. Ahead'
  BY DEF IInv, Ahead, TypeOK, Counting, Standing, Finish, Verdict, Goto
<1>5. Behind'
  BY DEF IInv, Behind, TypeOK, Counting, Standing, RowsAgree, Finish, Verdict, Goto
<1>6. Checked'
  BY DEF IInv, Checked, TypeOK, Standing, Ready, Finish, Verdict, Goto
<1>7. RowsAgree'
  BY DEF IInv, RowsAgree, TypeOK, Counting, Standing, Ahead, Finish, Verdict, Goto
<1>8. Tally'
  BY DEF IInv, Tally, TypeOK, Counting, Standing, RowsAgree, Ahead, Finish, Verdict, Goto
<1>9. EvidenceIsTrue'
  BY DEF IInv, EvidenceIsTrue, TypeOK, Standing, RowsAgree, Ahead, Finish, Verdict, Goto
<1>10. DependenciesFirst'
  BY DEF IInv, DependenciesFirst, TypeOK, Standing, Checked, Ready, RowsAgree, Finish,
         Verdict, Goto
<1>11. OutcomeIsTrue'
  <2> DEFINE applied == {a \in Eligible : status[a] = "applied"}
  <2>1. /\ status' = status /\ event' = event /\ stopped' = stopped
        /\ successes \in Nat /\ failures \in Nat
    BY DEF IInv, TypeOK, Finish
  <2>2. ~stopped => \A a \in Actions : status[a] # "planned"
    BY DEF IInv, TypeOK, Counting, Behind, Finish
  <2>3. \A a \in Eligible : status[a] \in {"planned", "applied", "failed"}
    BY DEF IInv, TypeOK, RowsAgree, Finish
  <2>3a. /\ successes > 0 <=> applied # {}
         /\ failures > 0 => stopped \/ \E a \in Eligible : status[a] = "failed"
         /\ stopped \/ (\E a \in Eligible : status[a] = "failed") => failures > 0
         /\ stopped => successes = 0 \/ \E a \in Eligible : status[a] = "planned"
    <3>1. pc # "done" /\ Tally
      BY DEF IInv, Finish
    <3> QED
      BY <3>1, Zenon DEF Tally
  <2>3b. Eligible \subseteq Actions
    BY DEF Eligible
  <2>4. plan' = "applied" => applied = Eligible
    <3> SUFFICES ASSUME plan' = "applied" PROVE applied = Eligible
      OBVIOUS
    <3>1. ~(failures > 0)
      BY <2>1 DEF Finish, Verdict
    <3> QED
      BY <2>2, <2>3, <2>3a, <2>3b, <3>1
  <2>5. plan' = "partial_failed" => applied # {} /\ applied # Eligible
    <3> SUFFICES ASSUME plan' = "partial_failed" PROVE applied # {} /\ applied # Eligible
      OBVIOUS
    <3>1. failures > 0 /\ successes > 0
      BY <2>1 DEF Finish, Verdict
    <3>2. applied # {}
      BY <2>3a, <3>1
    <3>3. \E a \in Eligible : status[a] # "applied"
      BY <2>1, <2>3a, <3>1
    <3> QED
      BY <3>2, <3>3
  <2>6. plan' = "failed" => applied = {}
    <3> SUFFICES ASSUME plan' = "failed" PROVE applied = {}
      OBVIOUS
    <3>1. ~(successes > 0)
      BY <2>1 DEF Finish, Verdict
    <3> QED
      BY <2>3a, <3>1
  <2>7. operation' = "succeeded" => ~stopped /\ \A a \in Actions : event[a] # "pending"
    BY DEF IInv, RowsAgree, Finish
  <2> QED
    BY <2>1, <2>2, <2>4, <2>5, <2>6, <2>7 DEF OutcomeIsTrue
<1>12. Guarded'
  BY DEF IInv, Guarded, LooksClaimed, TypeOK, Standing, Counting, Finish, Verdict, Goto
<1> QED
  BY <1>1, <1>2, <1>3, <1>4, <1>5, <1>6, <1>7, <1>8, <1>9, <1>10, <1>11, <1>12 DEF IInv

LEMMA ReconcileKeeps ==
    ASSUME IInv, Reconcile
    PROVE  IInv'
<1>1. TypeOK'
  BY DEF IInv, TypeOK, Counting, Standing, Reconcile, Verdict, Unconfirmed, Goto
<1>2. Counting'
  BY DEF IInv, Counting, TypeOK, Standing, Reconcile, Verdict, Unconfirmed, Goto
<1>3. Standing'
  BY DEF IInv, Standing, TypeOK, Counting, Ahead, RowsAgree, Reconcile, Verdict, Unconfirmed,
         Goto
<1>4. Ahead'
  BY DEF IInv, Ahead, TypeOK, Counting, Standing, Reconcile, Verdict, Unconfirmed, Goto
<1>5. Behind'
  BY DEF IInv, Behind, TypeOK, Counting, Standing, RowsAgree, Reconcile, Verdict, Unconfirmed,
         Goto
<1>6. Checked'
  BY DEF IInv, Checked, TypeOK, Standing, Ready, Reconcile, Verdict, Unconfirmed, Goto
<1>7. RowsAgree'
  BY DEF IInv, RowsAgree, TypeOK, Counting, Standing, Ahead, Reconcile, Verdict, Unconfirmed,
         Goto
<1>8. Tally'
  BY DEF IInv, Tally, TypeOK, Counting, Standing, RowsAgree, Ahead, Reconcile, Verdict,
         Unconfirmed, Goto
<1>9. EvidenceIsTrue'
  BY DEF IInv, EvidenceIsTrue, TypeOK, Standing, RowsAgree, Ahead, Reconcile, Verdict,
         Unconfirmed, Goto
<1>10. DependenciesFirst'
  BY DEF IInv, DependenciesFirst, TypeOK, Standing, Checked, Ready, RowsAgree, Reconcile,
         Verdict, Unconfirmed, Goto
<1>11. OutcomeIsTrue'
  <2> DEFINE applied == {a \in Eligible : status'[a] = "applied"}
             unsettled == \/ \E a \in Eligible : status'[a] \in {"failed", "interrupted"}
                          \/ \E a \in Actions : event[a] = "pending"
  <2>1. event' = event /\ stopped' = stopped /\ operation' # "succeeded"
    BY DEF Reconcile
  <2>2. \A a \in Actions : status'[a] # "planned"
    BY DEF Reconcile, Unconfirmed
  <2>3. \A a \in Eligible : status'[a] \in {"applied", "failed", "interrupted"}
    BY DEF IInv, TypeOK, RowsAgree, Reconcile, Unconfirmed
  <2>4. ASSUME NEW a \in Actions, event[a] = "pending"
        PROVE  a \in Eligible /\ status'[a] = "interrupted"
    BY <2>4 DEF IInv, RowsAgree, Reconcile, Unconfirmed
  <2>5. unsettled <=> applied # Eligible
    BY <2>3, <2>4
  <2>6. plan' = Verdict(applied # {}, unsettled)
    BY DEF Reconcile, Verdict
  <2>7. plan' = IF applied = Eligible THEN "applied"
                ELSE IF applied # {} THEN "partial_failed" ELSE "failed"
    BY <2>5, <2>6 DEF Verdict
  <2> HIDE DEF applied
  <2>8. /\ plan' = "applied" => applied = Eligible
        /\ plan' = "partial_failed" => applied # {} /\ applied # Eligible
        /\ plan' = "failed" => applied = {}
    BY <2>7
  <2> QED
    BY <2>1, <2>2, <2>8 DEF OutcomeIsTrue, applied
<1>12. Guarded'
  BY DEF IInv, Guarded, LooksClaimed, TypeOK, Standing, Counting, Reconcile, Verdict,
         Unconfirmed, Goto
<1> QED
  BY <1>1, <1>2, <1>3, <1>4, <1>5, <1>6, <1>7, <1>8, <1>9, <1>10, <1>11, <1>12 DEF IInv

LEMMA RaisesKeeps ==
    ASSUME IInv, Raises
    PROVE  IInv'
<1>1. TypeOK'
  BY DEF IInv, TypeOK, Counting, Standing, Raises, Goto
<1>2. Counting' /\ Standing'
  BY DEF IInv, Counting, Standing, TypeOK, Ahead, RowsAgree, Raises, Goto
<1>3. Ahead' /\ Behind' /\ Checked'
  BY DEF IInv, Ahead, Behind, Checked, TypeOK, Counting, Standing, RowsAgree, Ready, Raises,
         Goto
<1>4. RowsAgree' /\ Tally'
  BY DEF IInv, RowsAgree, Tally, TypeOK, Counting, Standing, Ahead, Raises, Goto
<1>5. EvidenceIsTrue' /\ DependenciesFirst' /\ OutcomeIsTrue'
  BY DEF IInv, EvidenceIsTrue, DependenciesFirst, OutcomeIsTrue, TypeOK, Standing, RowsAgree,
         Ahead, Checked, Ready, Counting, Behind, Tally, Raises, Goto
<1>6. Guarded'
  BY DEF IInv, Guarded, LooksClaimed, TypeOK, Standing, Counting, Raises, Goto
<1> QED
  BY <1>1, <1>2, <1>3, <1>4, <1>5, <1>6 DEF IInv

LEMMA CrashKeeps ==
    ASSUME IInv, Crash
    PROVE  IInv'
<1>1. TypeOK'
  BY DEF IInv, TypeOK, Counting, Standing, Crash, Goto
<1>2. Counting' /\ Standing'
  BY DEF IInv, Counting, Standing, TypeOK, Ahead, RowsAgree, Crash, Goto
<1>3. Ahead' /\ Behind' /\ Checked'
  BY DEF IInv, Ahead, Behind, Checked, TypeOK, Counting, Standing, RowsAgree, Ready, Crash,
         Goto
<1>4. RowsAgree' /\ Tally'
  BY DEF IInv, RowsAgree, Tally, TypeOK, Counting, Standing, Ahead, Crash, Goto
<1>5. EvidenceIsTrue' /\ DependenciesFirst' /\ OutcomeIsTrue'
  BY DEF IInv, EvidenceIsTrue, DependenciesFirst, OutcomeIsTrue, TypeOK, Standing, RowsAgree,
         Ahead, Checked, Ready, Counting, Behind, Tally, Crash, Goto
<1>6. Guarded'
  BY DEF IInv, Guarded, LooksClaimed, TypeOK, Standing, Counting, Crash, Goto
<1> QED
  BY <1>1, <1>2, <1>3, <1>4, <1>5, <1>6 DEF IInv

-----------------------------------------------------------------------------
(* and the edits of other programs.                                        *)

LEMMA RelinkKeeps ==
    ASSUME IInv, Relink
    PROVE  IInv'
<1>1. TypeOK'
  BY DEF IInv, TypeOK, Counting, Standing, Relink
<1>2. Counting' /\ Standing'
  BY DEF IInv, Counting, Standing, TypeOK, Ahead, RowsAgree, Relink
<1>3. Ahead' /\ Behind' /\ Checked'
  BY DEF IInv, Ahead, Behind, Checked, TypeOK, Counting, Standing, RowsAgree, Ready, Relink
<1>4. RowsAgree' /\ Tally'
  BY DEF IInv, RowsAgree, Tally, TypeOK, Counting, Standing, Ahead, Relink
<1>5. EvidenceIsTrue' /\ DependenciesFirst' /\ OutcomeIsTrue'
  BY DEF IInv, EvidenceIsTrue, DependenciesFirst, OutcomeIsTrue, TypeOK, Standing, RowsAgree,
         Ahead, Checked, Ready, Counting, Behind, Tally, Relink
<1>6. Guarded'
  BY DEF IInv, Guarded, LooksClaimed, TypeOK, Standing, Counting, Relink
<1> QED
  BY <1>1, <1>2, <1>3, <1>4, <1>5, <1>6 DEF IInv

LEMMA EditSourceKeeps ==
    ASSUME IInv, NEW x \in Eligible, EditSource(x)
    PROVE  IInv'
<1>1. TypeOK'
  BY DEF IInv, TypeOK, Counting, Standing, EditSource, Race
<1>2. Counting' /\ Standing'
  BY DEF IInv, Counting, Standing, TypeOK, Ahead, RowsAgree, EditSource, Race
<1>3. Ahead' /\ Behind' /\ Checked'
  BY DEF IInv, Ahead, Behind, Checked, TypeOK, Counting, Standing, RowsAgree, Ready,
         EditSource, Race
<1>4. RowsAgree' /\ Tally'
  BY DEF IInv, RowsAgree, Tally, TypeOK, Counting, Standing, Ahead, EditSource, Race
<1>5. EvidenceIsTrue' /\ DependenciesFirst' /\ OutcomeIsTrue'
  <2>1. EvidenceIsTrue'
    BY DEF IInv, EvidenceIsTrue, TypeOK, Standing, RowsAgree, Ahead, EditSource, Race
  <2>2. DependenciesFirst'
    BY DEF IInv, DependenciesFirst, TypeOK, Standing, Checked, Ready, RowsAgree, EditSource, Race
  <2>3. OutcomeIsTrue'
    BY DEF IInv, OutcomeIsTrue, TypeOK, Counting, Standing, Behind, RowsAgree, Tally, EditSource,
           Race
  <2> QED
    BY <2>1, <2>2, <2>3
<1>6. Guarded'
  BY DEF IInv, Guarded, LooksClaimed, TypeOK, Standing, Counting, EditSource, Race
<1> QED
  BY <1>1, <1>2, <1>3, <1>4, <1>5, <1>6 DEF IInv

LEMMA OccupyTargetKeeps ==
    ASSUME IInv, NEW x \in Eligible, OccupyTarget(x)
    PROVE  IInv'
<1>1. TypeOK'
  BY DEF IInv, TypeOK, Counting, Standing, OccupyTarget, Race
<1>2. Counting'
  BY DEF IInv, Counting, TypeOK, Standing, OccupyTarget, Race
<1>3. Standing'
  BY DEF IInv, Standing, TypeOK, Counting, Ahead, RowsAgree, OccupyTarget, Race
<1>4. Ahead'
  BY DEF IInv, Ahead, TypeOK, Counting, Standing, OccupyTarget, Race
<1>5. Behind'
  BY DEF IInv, Behind, TypeOK, Counting, Standing, RowsAgree, OccupyTarget, Race
<1>6. Checked'
  BY DEF IInv, Checked, TypeOK, Standing, Ready, OccupyTarget, Race
<1>7. RowsAgree'
  BY DEF IInv, RowsAgree, TypeOK, Counting, Standing, Ahead, OccupyTarget, Race
<1>8. Tally'
  BY DEF IInv, Tally, TypeOK, Counting, Standing, RowsAgree, Ahead, OccupyTarget, Race
<1>9. EvidenceIsTrue'
  BY DEF IInv, EvidenceIsTrue, TypeOK, Standing, RowsAgree, Ahead, OccupyTarget, Race
<1>10. DependenciesFirst'
  BY DEF IInv, DependenciesFirst, TypeOK, Standing, Checked, Ready, RowsAgree, OccupyTarget, Race
<1>11. OutcomeIsTrue'
  BY DEF IInv, OutcomeIsTrue, TypeOK, Counting, Standing, Behind, RowsAgree, Tally,
         OccupyTarget, Race
<1>12. Guarded'
  BY DEF IInv, Guarded, LooksClaimed, TypeOK, Standing, Counting, OccupyTarget, Race
<1> QED
  BY <1>1, <1>2, <1>3, <1>4, <1>5, <1>6, <1>7, <1>8, <1>9, <1>10, <1>11, <1>12 DEF IInv

-----------------------------------------------------------------------------
(* The invariant is inductive.                                             *)

LEMMA InitInv == Init => IInv
<1> SUFFICES ASSUME Init PROVE IInv
  OBVIOUS
<1>1. TypeOK
  <2>1. /\ current \in 1 .. LastAction + 1 /\ sequence \in 1 .. LastAction + 1
        /\ successes \in 0 .. LastAction /\ failures \in 0 .. LastAction + 1
        /\ edits \in 0 .. MaxEdits
    BY DEF Init
  <2>2. /\ number \in [Actions -> 0 .. LastAction]
        /\ status \in [Actions -> {"planned", "blocked", "applied", "failed", "interrupted"}]
        /\ event \in [Actions -> {"none", "pending", "succeeded", "failed"}]
        /\ source \in [Actions -> {"planned", "changed", "missing"}]
        /\ target \in [Actions -> {"free", "foreign", "namesake", "claimed", "moved"}]
    BY DEF Init
  <2> QED
    BY <2>1, <2>2 DEF Init, TypeOK
<1>2. /\ Counting /\ Standing /\ Guarded /\ Ahead /\ Behind /\ Checked /\ RowsAgree /\ Tally
  BY DEF Init, Counting, Standing, Guarded, Ahead, Behind, Checked, RowsAgree, Tally
<1>3. EvidenceIsTrue /\ DependenciesFirst /\ OutcomeIsTrue
  BY DEF Init, EvidenceIsTrue, DependenciesFirst, OutcomeIsTrue
<1> QED
  BY <1>1, <1>2, <1>3 DEF IInv

LEMMA WorkerKeeps ==
    ASSUME IInv, WorkerStep
    PROVE  IInv'
<1>1. CASE Verify
  <2>1. CASE Verified(current)
    BY <1>1, <2>1, VerifyPassesKeeps DEF Verify, Goto
  <2>2. CASE ~Verified(current)
    BY <1>1, <2>2, FailActionKeeps DEF Verify
  <2> QED
    BY <2>1, <2>2
<1>2. CASE Capture
  BY <1>2, CapturePassesKeeps, FailActionKeeps DEF Capture, Goto
<1>3. CASE OpenSource \/ CheckMove \/ MatchTarget
  <2>1. \E next \in Moving : MoverStep(next)
    BY <1>3 DEF OpenSource, CheckMove, MatchTarget
  <2>2. MoverStep(pc') /\ UNCHANGED disk
    BY <1>3, <2>1 DEF OpenSource, CheckMove, MatchTarget, MoverStep, Goto
  <2> QED
    BY <1>3, <2>2, MoverKeeps DEF OpenSource, CheckMove, MatchTarget, MoverStep, Goto
<1>4. CASE ClaimTarget
  <2>1. CASE pc' = "check"
    <3>1. stray' \in {stray, stray \cup {current}}
      BY <1>4, <2>1 DEF ClaimTarget, MoverStep, Goto
    <3> QED
      BY <1>4, <2>1, <3>1, ClaimsKeeps DEF ClaimTarget, MoverStep, Goto
  <2>2. CASE pc' # "check"
    BY <1>4, <2>2, MoverKeeps DEF ClaimTarget, MoverStep, Goto
  <2> QED
    BY <2>1, <2>2
<1>5. CASE UnlinkSource
  <2>1. CASE pc' = "moved"
    BY <1>5, <2>1, UnlinksKeeps DEF UnlinkSource, MoverStep, Goto
  <2>2. CASE pc' # "moved"
    BY <1>5, <2>2, MoverKeeps DEF UnlinkSource, MoverStep, Goto
  <2> QED
    BY <2>1, <2>2
<1> QED
  BY <1>1, <1>2, <1>3, <1>4, <1>5, StartKeeps, PassOverKeeps, ApplySkipKeeps, TakeActionKeeps,
     CheckRootKeeps, RefreshTrackKeeps, IntendKeeps, DiscardsKeeps, RecordSuccessKeeps,
     RecordFailureKeeps, FinishKeeps
  DEF WorkerStep, NextAction, MoveFile

LEMMA StutterKeeps ==
    ASSUME IInv, UNCHANGED vars
    PROVE  IInv'
<1>1. TypeOK' /\ Counting' /\ Standing' /\ Guarded'
  BY DEF vars, IInv, TypeOK, Counting, Standing, Guarded, LooksClaimed
<1>2. Ahead' /\ Behind' /\ Checked' /\ RowsAgree' /\ Tally'
  BY DEF vars, IInv, Ahead, Behind, Checked, Ready, RowsAgree, Tally
<1>3. EvidenceIsTrue' /\ DependenciesFirst' /\ OutcomeIsTrue'
  BY DEF vars, IInv, EvidenceIsTrue, DependenciesFirst, OutcomeIsTrue
<1> QED
  BY <1>1, <1>2, <1>3 DEF IInv

THEOREM Inductive == Spec => []IInv
<1>1. IInv /\ [Next]_vars => IInv'
  BY WorkerKeeps, ReconcileKeeps, RaisesKeeps, CrashKeeps, RelinkKeeps, EditSourceKeeps,
     OccupyTargetKeeps, StutterKeeps
  DEF Next, Others, Done
<1> QED
  BY InitInv, <1>1, PTL DEF Spec

-----------------------------------------------------------------------------
(* The theorems.                                                           *)

\* Every reachable state is well typed, for a Plan of any length: no counter or
\* sequence number passes the number of actions.
THEOREM TypeCorrect == Spec => []TypeOK
BY Inductive, PTL DEF IInv

\* FileEvents and action rows tell the truth about the files whatever the Plan
\* and wherever the process died (_record_pending_file_event and its
\* successors, _mark_unconfirmed_actions).
THEOREM EvidenceTruth == Spec => []EvidenceIsTrue
BY Inductive, PTL DEF IInv

\* No file is touched and no Track advanced before everything the action
\* depends on is durably applied (_dependencies_are_applied).
THEOREM DependenciesPrecede == Spec => []DependenciesFirst
BY Inductive, PTL DEF IInv

\* The worker's counting and the reconciliation's derivation report the same,
\* true outcome (_finish_apply, _reconciled_apply_outcome).
THEOREM OutcomeTruth == Spec => []OutcomeIsTrue
BY Inductive, PTL DEF IInv

\* The Library is registered only when every action of its organize Plan was
\* applied, and nothing takes that back (_register_successful_organize_plan).
THEOREM RegistrationEarned == Spec => []RegistrationIsEarned
<1> DEFINE SkipsHold == \A a \in Actions : status[a] = "failed" => a \in Eligible
           RInv == RegistrationIsEarned /\ (registered => pc = "done")
<1>1. Init => SkipsHold /\ RInv
  BY DEF Init, RegistrationIsEarned
<1>2. IInv /\ SkipsHold /\ [Next]_vars => SkipsHold'
  <2> SUFFICES ASSUME IInv, SkipsHold, [Next]_vars, NEW a \in Actions, status'[a] = "failed"
               PROVE  a \in Eligible
    OBVIOUS
  <2>1. CASE ApplySkip \/ RefreshTrack \/ RecordSuccess
    BY <2>1 DEF IInv, TypeOK, ApplySkip, RefreshTrack, RecordSuccess, SetStatus
  <2>2. CASE Verify \/ Capture \/ RecordFailure
    BY <2>2 DEF IInv, TypeOK, Standing, Verify, Capture, FailAction, RecordFailure, SetStatus
  <2>3. CASE Start \/ PassOver \/ TakeAction \/ CheckRoot \/ Intend \/ MoveFile \/ Finish
    BY <2>3, MoveTouchesFiles DEF Start, PassOver, TakeAction, CheckRoot, Intend, Finish
  <2>4. CASE Reconcile
    BY <2>4 DEF IInv, TypeOK, Reconcile, Unconfirmed
  <2>5. CASE Raises \/ Crash \/ Others \/ Done \/ UNCHANGED vars
    BY <2>5 DEF Raises, Crash, Others, Relink, EditSource, OccupyTarget, Done, vars
  <2> QED
    BY <2>1, <2>2, <2>3, <2>4, <2>5 DEF Next, WorkerStep, NextAction
<1>3. IInv /\ SkipsHold /\ RInv /\ [Next]_vars => RInv'
  <2> SUFFICES ASSUME IInv, SkipsHold, RInv, [Next]_vars PROVE RInv'
    OBVIOUS
  <2>1. CASE Finish
    <3>1. CASE registered' /\ ~registered
      <4>1. PlanType = "organize" /\ plan' = "applied" /\ failures = 0 /\ Blocked = {}
        BY <2>1, <3>1 DEF IInv, TypeOK, Finish, Verdict
      <4>2. ~stopped /\ \A a \in Actions : status[a] # "planned"
        BY <2>1, <4>1 DEF IInv, TypeOK, Tally, Counting, Behind, Finish
      <4>3. \A a \in Actions : status[a] # "failed"
        BY <2>1, <4>1 DEF IInv, TypeOK, Tally, Finish
      <4>4. \A a \in Actions : status[a] = "applied"
        BY <2>1, <4>1, <4>2, <4>3 DEF IInv, TypeOK, RowsAgree, Finish
      <4> QED
        BY <2>1, <4>1, <4>4 DEF Finish, RegistrationIsEarned, Goto
    <3>2. CASE ~(registered' /\ ~registered)
      BY <2>1, <3>2 DEF Finish, RegistrationIsEarned
    <3> QED
      BY <3>1, <3>2
  <2>2. CASE WorkerStep /\ ~Finish
    <3>1. registered' = registered /\ pc # "done"
      BY <2>2, MoveTouchesFiles
      DEF WorkerStep, Start, NextAction, PassOver, ApplySkip, TakeAction, CheckRoot, Verify,
          Capture, FailAction, RefreshTrack, Intend, RecordSuccess, RecordFailure
    <3> QED
      BY <3>1 DEF RegistrationIsEarned
  <2>3. CASE Reconcile \/ Raises \/ Crash
    <3>1. registered' = registered /\ pc # "done"
      BY <2>3 DEF Reconcile, Raises, Crash
    <3> QED
      BY <3>1 DEF RegistrationIsEarned
  <2>4. CASE Others \/ Done \/ UNCHANGED vars
    <3>1. UNCHANGED <<registered, pc, plan, status>>
      BY <2>4 DEF Others, Relink, EditSource, OccupyTarget, Done, vars
    <3> QED
      BY <3>1 DEF RegistrationIsEarned
  <2> QED
    BY <2>1, <2>2, <2>3, <2>4 DEF Next
<1> QED
  BY Inductive, <1>1, <1>2, <1>3, PTL DEF Spec

\* A reconciliation, a retry or a later action never rewrites recorded evidence.
THEOREM EvidenceStays == Spec => EvidenceIsFinal
<1> DEFINE Kept(a) == /\ status[a] # "planned" => status'[a] = status[a]
                      /\ event[a] \in {"succeeded", "failed"} => event'[a] = event[a]
                      /\ pc \in {"raised", "gone"} => event'[a] = event[a]
<1>1. IInv /\ [Next]_vars => [\A a \in Actions : Kept(a)]_vars
  <2> SUFFICES ASSUME IInv, Next, NEW a \in Actions PROVE Kept(a)
    OBVIOUS
  <2>1. CASE WorkerStep
    <3>1. CASE ApplySkip
      BY <3>1 DEF IInv, TypeOK, Counting, RowsAgree, Ahead, ApplySkip, SetStatus
    <3>2. CASE Verify \/ Capture
      BY <3>2 DEF IInv, TypeOK, Standing, Verify, Capture, FailAction, Advance, SetStatus, Goto
    <3>3. CASE RefreshTrack \/ Intend
      BY <3>3 DEF IInv, TypeOK, Standing, Ahead, RefreshTrack, Intend, Advance, SetStatus, Goto
    <3>4. CASE RecordSuccess \/ RecordFailure
      BY <3>4 DEF IInv, TypeOK, Standing, RecordSuccess, RecordFailure, Advance, SetStatus, Goto
    <3>5. CASE Start \/ PassOver \/ TakeAction \/ CheckRoot \/ MoveFile \/ Finish
      BY <3>5, MoveTouchesFiles DEF Start, PassOver, TakeAction, CheckRoot, Finish
    <3> QED
      BY <2>1, <3>1, <3>2, <3>3, <3>4, <3>5 DEF WorkerStep, NextAction
  <2>2. CASE Reconcile
    BY <2>2 DEF IInv, TypeOK, Reconcile, Unconfirmed
  <2>3. CASE Raises \/ Crash \/ Others \/ Done
    BY <2>3 DEF Raises, Crash, Others, Relink, EditSource, OccupyTarget, Done, vars
  <2> QED
    BY <2>1, <2>2, <2>3 DEF Next
<1> QED
  BY Inductive, <1>1, PTL DEF Spec, EvidenceIsFinal

\* The files of other programs outlive every step of the mover and its cleanup,
\* whenever they appear during a move: only one put at a path between the last
\* check and the unlink it guards is lost (link and O_EXCL in _claim_target,
\* _unlink_verified_source, _unlink_if_matches).
THEOREM OthersFilesStay == Spec => ForeignFilesSurvive
<1> DEFINE Stays(a) ==
      /\ target[a] = "foreign" => target'[a] = "foreign" \/ a \in raced["discard"]
      /\ source[a] = "changed" => source'[a] = "changed" \/ a \in raced["unlink"]
<1>1. IInv /\ [Next]_vars => [\A a \in Actions : Stays(a)]_vars
  <2> SUFFICES ASSUME IInv, Next, NEW a \in Actions PROVE Stays(a)
    OBVIOUS
  <2>1. CASE ClaimTarget
    BY <2>1 DEF IInv, TypeOK, ClaimTarget
  <2>2. CASE UnlinkSource
    BY <2>2 DEF IInv, TypeOK, Guarded, UnlinkSource
  <2>3. CASE DiscardTarget
    BY <2>3 DEF IInv, TypeOK, Guarded, LooksClaimed, DiscardTarget
  <2>4. CASE Others
    BY <2>4 DEF IInv, TypeOK, Others, Relink, EditSource, OccupyTarget
  <2>5. CASE OpenSource \/ CheckMove \/ MatchTarget
    BY <2>5 DEF OpenSource, CheckMove, MatchTarget
  <2>6. CASE WorkerStep /\ ~MoveFile
    BY <2>6 DEF WorkerStep, Start, NextAction, PassOver, ApplySkip, TakeAction, CheckRoot, Verify,
                Capture, FailAction, RefreshTrack, Intend, RecordSuccess, RecordFailure, Finish
  <2>7. CASE Reconcile \/ Raises \/ Crash \/ Done
    BY <2>7 DEF Reconcile, Raises, Crash, Done, vars
  <2> QED
    BY <2>1, <2>2, <2>3, <2>4, <2>5, <2>6, <2>7 DEF Next, WorkerStep, MoveFile
<1> QED
  BY Inductive, <1>1, PTL DEF Spec, ForeignFilesSurvive

-----------------------------------------------------------------------------
(* A changed Library root.                                                 *)

\* A mutation that began under a relinked root is the last one: the worker has
\* passed its claim, and the next root check stops it.
LastStray ==
    stray # {} => /\ root = "relinked"
                  /\ pc \notin {"start", "verify", "capture", "intend", "refreshed", "open",
                             "claim"}
                  /\ \A a, b \in stray : a = b

LEMMA StrayKeeps ==
    ASSUME IInv, LastStray, [Next]_vars
    PROVE  LastStray'
<1>1. CASE ClaimTarget
  <2>1. stray = {}
    BY <1>1 DEF LastStray, ClaimTarget
  <2>2. root' = root /\ stray' \in {stray, IF root = "relinked" THEN stray \cup {current} ELSE stray}
    BY <1>1 DEF ClaimTarget, MoverStep
  <2>3. pc' \in {"check", "unmoved"}
    BY <1>1 DEF ClaimTarget, MoverStep, Goto
  <2>4. stray' = {} \/ (root' = "relinked" /\ stray' = {current})
    BY <2>1, <2>2
  <2> QED
    BY <2>3, <2>4 DEF LastStray
<1>2. CASE Start \/ NextAction \/ CheckRoot
  BY <1>2 DEF LastStray, Start, NextAction, PassOver, ApplySkip, TakeAction, CheckRoot, Stop, Goto
<1>3. CASE \/ Verify \/ Capture \/ RefreshTrack \/ Intend
           \/ OpenSource \/ CheckMove \/ UnlinkSource \/ MatchTarget \/ DiscardTarget
           \/ RecordSuccess \/ RecordFailure \/ Finish
  BY <1>3 DEF LastStray, Verify, Capture, FailAction, RefreshTrack, Intend, OpenSource, CheckMove,
              UnlinkSource, MatchTarget, DiscardTarget, MoverStep, RecordSuccess, RecordFailure,
              Finish, Advance, Goto
<1>4. CASE Reconcile \/ Raises \/ Crash
  BY <1>4 DEF LastStray, Reconcile, Raises, Crash, Goto
<1>5. CASE Others \/ Done \/ UNCHANGED vars
  BY <1>5 DEF LastStray, Others, Relink, EditSource, OccupyTarget, Done, vars
<1> QED
  BY <1>1, <1>2, <1>3, <1>4, <1>5 DEF Next, WorkerStep, MoveFile

\* After the Library root changed, at most the action under way touches a file
\* (the root check at the head of the loop of apply_plan.py).
THEOREM RelinkStops == Spec => []StopsAtRelink
<1>1. Init => LastStray
  BY DEF Init, LastStray
<1>2. LastStray => StopsAtRelink
  <2> SUFFICES ASSUME LastStray PROVE Cardinality(stray) <= 1
    BY DEF StopsAtRelink
  <2>1. CASE stray = {}
    <3>1. Cardinality({}) = 0
      BY FS_EmptySet
    <3> QED
      BY <2>1, <3>1
  <2>2. CASE stray # {}
    <3>0. PICK a \in stray : TRUE
      BY <2>2
    <3>1. stray = {a}
      BY <2>2, <3>0 DEF LastStray
    <3>2. Cardinality({a}) = 1
      BY FS_Singleton
    <3> QED
      BY <3>1, <3>2
  <2> QED
    BY <2>1, <2>2
<1> QED
  BY <1>1, <1>2, StrayKeeps, Inductive, PTL DEF Spec

-----------------------------------------------------------------------------
(* The numbering of FileEvents.                                            *)

Recorded == {a \in Actions : event[a] # "none"}

\* While the worker is in its loop, its next sequence number is that of the
\* event in hand, or the one after the last.
SequenceCounts ==
    pc \in Looping =>
        sequence = IF pc \in Moving THEN Cardinality(Recorded) ELSE Cardinality(Recorded) + 1

OrderInv == SequenceCounts /\ EventsAreOrdered

LEMMA RecordedFinite ==
    /\ IsFiniteSet(Recorded) /\ Cardinality(Recorded) \in Nat
<1>1. IsFiniteSet(1 .. LastAction)
  BY FS_Interval
<1>2. Recorded \subseteq 1 .. LastAction
  BY DEF Recorded
<1> QED
  BY <1>1, <1>2, FS_Subset, FS_CardinalityType

\* Everything recorded before the action in hand stays numbered as it is; the
\* new event comes last and takes the next number.
LEMMA IntendOrders ==
    ASSUME IInv, OrderInv, Intend
    PROVE  OrderInv'
<1>1. /\ current \in Actions /\ event[current] = "none"
      /\ \A a \in Recorded : a < current
  BY DEF IInv, TypeOK, Standing, Ahead, Counting, Recorded, Intend
<1>2. Recorded' = Recorded \cup {current}
  BY <1>1 DEF IInv, TypeOK, Recorded, Intend
<1>3. Cardinality(Recorded') = Cardinality(Recorded) + 1
  BY <1>1, <1>2, RecordedFinite, FS_AddElement DEF Recorded
<1>4. sequence = Cardinality(Recorded) + 1
  BY DEF OrderInv, SequenceCounts, Intend
<1>5. SequenceCounts'
  BY <1>3, <1>4 DEF SequenceCounts, Intend, Goto, Recorded
<1>6. ASSUME NEW a \in Recorded'
      PROVE  number'[a] = Cardinality({b \in Recorded' : b <= a})
  <2>1. CASE a = current
    <3>1. {b \in Recorded' : b <= a} = Recorded'
      BY <1>1, <1>2, <2>1 DEF Recorded
    <3> QED
      BY <1>1, <1>3, <1>4, <2>1, <3>1 DEF IInv, TypeOK, Intend
  <2>2. CASE a # current
    <3>1. a \in Recorded /\ a < current
      BY <1>1, <1>2, <2>2
    <3>2. {b \in Recorded' : b <= a} = {b \in Recorded : b <= a}
      BY <1>1, <1>2, <3>1 DEF Recorded
    <3>3. number'[a] = number[a]
      BY <1>1, <2>2, <3>1 DEF IInv, TypeOK, Intend, Recorded
    <3> QED
      BY <3>1, <3>2, <3>3 DEF OrderInv, EventsAreOrdered, Recorded
  <2> QED
    BY <2>1, <2>2
<1>7. EventsAreOrdered'
  BY <1>6 DEF EventsAreOrdered, Recorded
<1> QED
  BY <1>5, <1>7 DEF OrderInv

LEMMA OrderKeeps ==
    ASSUME IInv, OrderInv, [Next]_vars
    PROVE  OrderInv'
<1>1. ASSUME Recorded' = Recorded, number' = number, SequenceCounts'
      PROVE  OrderInv'
  BY <1>1 DEF OrderInv, EventsAreOrdered, Recorded
<1>2. CASE Start \/ NextAction \/ CheckRoot \/ Verify \/ Capture \/ RefreshTrack \/ MoveFile
  <2>1. event' = event /\ number' = number
    BY <1>2, MoveTouchesFiles
    DEF Start, NextAction, PassOver, ApplySkip, TakeAction, CheckRoot, Verify, Capture, FailAction,
        RefreshTrack
  <2>2. /\ pc' \in Looping => pc \in Looping /\ (pc' \in Moving <=> pc \in Moving)
        /\ sequence' = sequence
    BY <1>2, MoveTouchesFiles
    DEF Start, NextAction, PassOver, ApplySkip, TakeAction, CheckRoot, Verify, Capture, FailAction,
        RefreshTrack, Advance, Stop, Goto
  <2>3. Recorded' = Recorded
    BY <2>1 DEF Recorded
  <2> QED
    BY <1>1, <2>1, <2>2, <2>3 DEF OrderInv, SequenceCounts
<1>3. CASE RecordSuccess \/ RecordFailure
  <2>0. current \in Actions /\ event[current] = "pending"
    BY <1>3 DEF IInv, Standing, RecordSuccess, RecordFailure
  <2>1. Recorded' = Recorded /\ number' = number
    <3>1. \A a \in Actions : event'[a] = "none" <=> event[a] = "none"
      BY <1>3, <2>0 DEF IInv, TypeOK, RecordSuccess, RecordFailure
    <3> QED
      BY <1>3, <3>1 DEF RecordSuccess, RecordFailure, Recorded
  <2>2. pc \in Moving /\ pc' = "next" /\ sequence' = sequence + 1
    BY <1>3 DEF RecordSuccess, RecordFailure, Advance, Goto
  <2>3. SequenceCounts'
    BY <2>1, <2>2 DEF OrderInv, SequenceCounts
  <2> QED
    BY <1>1, <2>1, <2>3
<1>4. CASE Finish \/ Reconcile \/ Raises \/ Crash
  <2>1. event' = event /\ number' = number /\ pc' \notin Looping
    BY <1>4 DEF Finish, Reconcile, Raises, Crash, Goto
  <2> QED
    BY <1>1, <2>1 DEF Recorded, SequenceCounts
<1>5. CASE Others \/ Done \/ UNCHANGED vars
  <2>1. UNCHANGED <<event, number, pc, sequence>>
    BY <1>5 DEF Others, Relink, EditSource, OccupyTarget, Done, vars
  <2> QED
    BY <1>1, <2>1 DEF Recorded, OrderInv, SequenceCounts
<1> QED
  BY <1>2, <1>3, <1>4, <1>5, IntendOrders DEF Next, WorkerStep

\* FileEvents are numbered without gaps in the order of the actions they record,
\* failed moves and crashes included (next_sequence_no in apply_plan.py).
THEOREM EventOrder == Spec => []EventsAreOrdered
<1>1. Init => OrderInv
  <2> SUFFICES ASSUME Init PROVE OrderInv
    OBVIOUS
  <2>1. Recorded = {}
    BY DEF Init, Recorded
  <2>2. Cardinality({}) = 0
    BY FS_EmptySet
  <2>3. SequenceCounts
    BY <2>1, <2>2 DEF Init, SequenceCounts
  <2>4. EventsAreOrdered
    BY <2>1 DEF EventsAreOrdered, Recorded
  <2> QED
    BY <2>3, <2>4 DEF OrderInv
<1>2. OrderInv => EventsAreOrdered
  BY DEF OrderInv
<1> QED
  BY <1>1, <1>2, OrderKeeps, Inductive, PTL DEF Spec
=============================================================================
