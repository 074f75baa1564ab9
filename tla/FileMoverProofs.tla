--------------------------- MODULE FileMoverProofs ---------------------------
(***************************************************************************)
(* Proofs about FileMover, for any number of steps of other programs.      *)
(* Types hold on every filesystem; the safety of a move is proved for one  *)
(* that does not hand the inode number of a removed file to a new one,     *)
(* which FileMoveInodeReuse shows to be needed.                            *)
(***************************************************************************)
EXTENDS FileMover, TLAPS

\* Program counters by what the mover has done so far.
Linked     == {"linked", "hash"}
SourceGone == {"unlinked", "moved"}

\* The route taken fits the claim made.
ClaimFits ==
    /\ pc \in Checks => claimed = "none"
    /\ pc \in Copying => claimed = "copy"
    /\ pc \in Linked => claimed = "original"
    /\ pc \in Removing \cup SourceGone \cup {"anchor", "cleanup", "discard"}
       => claimed # "none"

\* Nothing but the reviewed file, the claim and foreign files has a name.
NamesFit ==
    /\ entry["source"] \in {"none", "foreign", "original"}
    /\ entry["target"] \in {"none", "foreign"} \cup ({claimed} \ {"none"})

SourceKept ==
    \/ entry["source"] = "original"
    \/ history \cap {"taken", "interrupted"} # {}
    \/ pc \in SourceGone

SourceRemoved == pc \in SourceGone => entry["source"] # "original"

TargetKept ==
    pc \in Removing \cup SourceGone /\ "late" \notin history =>
        entry["target"] = claimed /\ "target" \notin strayed

CopyIsTrue ==
    pc \in Removing \cup SourceGone \cup {"anchor"} /\ "late" \notin history =>
        (claimed = "copy" => bytes["copy"] = "reviewed")

OriginalIsTrue ==
    pc \in {"match", "unlink"} \cup SourceGone /\ "late" \notin history =>
        bytes["original"] = "reviewed"

\* What the mover's stat told it still holds, unless somebody raced it.
StatHolds ==
    /\ pc = "unlink" /\ "source" \notin raced => entry["source"] = "original"
    /\ pc = "discard" /\ "target" \notin raced => entry["target"] = claimed

ClaimUndone == pc = "failed" /\ claimed # "none" => entry["target"] # claimed

Inv ==
    /\ TypeOK
    /\ ClaimFits
    /\ NamesFit
    /\ SourceKept
    /\ SourceRemoved
    /\ TargetKept
    /\ CopyIsTrue
    /\ OriginalIsTrue
    /\ StatHolds
    /\ ClaimUndone
-----------------------------------------------------------------------------
LEMMA InitTypes == Init => TypeOK
<1> SUFFICES ASSUME Init PROVE TypeOK OBVIOUS
<1>1. entry \in [Places -> {"none", "original", "copy", "foreign", "namesake"}]
  BY DEF Init
<1>2. bytes \in [{"original", "copy"} -> {"reviewed", "edited", "empty"}]
  BY DEF Init
<1>3. drift \in SUBSET {"mtime", "ctime"} /\ strayed \in SUBSET Places
  BY DEF Init
<1>4. raced \in SUBSET Places /\ history \in SUBSET {"taken", "late", "interrupted"}
  BY DEF Init
<1>5. disturbances \in 0 .. MaxDisturbances
  BY MoverAssumption DEF Init, MoverAssumption
<1>6. /\ pc \in Checks
      /\ claimed = "none" /\ rooted \in BOOLEAN /\ held \in BOOLEAN
  BY DEF Init, Checks
<1> QED BY <1>1, <1>2, <1>3, <1>4, <1>5, <1>6 DEF TypeOK

LEMMA MoverTypes ==
    ASSUME TypeOK, Mover
    PROVE  TypeOK'
<1> USE DEF TypeOK, Go, Look, files, past, Places, Checks, Copying, Removing, Ended
<1>1. CASE Open \/ Verify \/ Occupied BY <1>1 DEF Open, Verify, Occupied
<1>2. CASE Link \/ Create BY <1>2 DEF Link, Create, Claim
<1>3. CASE CheckLink \/ HashLink BY <1>3 DEF CheckLink, HashLink
<1>4. CASE StartCopy \/ Copy \/ SettleCopy BY <1>4 DEF StartCopy, Copy, SettleCopy
<1>5. CASE CheckTarget \/ Recheck \/ Rehash \/ MatchSource
  BY <1>5 DEF CheckTarget, Recheck, Rehash, MatchSource
<1>6. CASE UnlinkSource \/ Return BY <1>6 DEF UnlinkSource, Return
<1>7. CASE MatchTarget \/ UnlinkTarget BY <1>7 DEF MatchTarget, UnlinkTarget
<1>8. CASE Raise \/ Interrupt BY <1>8 DEF Raise, Interrupt
<1> QED BY <1>1, <1>2, <1>3, <1>4, <1>5, <1>6, <1>7, <1>8 DEF Mover

LEMMA OthersTypes ==
    ASSUME TypeOK, Others
    PROVE  TypeOK'
<1> USE MoverAssumption DEF MoverAssumption, TypeOK, Disturb, Mark, LateFor, Places
<1>1. ASSUME NEW f \in {"original", "copy"}, Edit(f) PROVE TypeOK'
  <2>1. drift' \in SUBSET {"mtime", "ctime"} BY <1>1 DEF Edit
  <2>2. history' \in SUBSET {"taken", "late", "interrupted"} BY <1>1 DEF Edit
  <2> QED BY <1>1, <2>1, <2>2 DEF Edit
<1>2. CASE Touch BY <1>2 DEF Touch
<1>3. ASSUME NEW p \in Places, Displace(p) PROVE TypeOK'
  <2>1. drift' \in SUBSET {"mtime", "ctime"} BY <1>3 DEF Displace
  <2>2. history' \in SUBSET {"taken", "late", "interrupted"} BY <1>3 DEF Displace
  <2>3. raced' \in SUBSET Places BY <1>3 DEF Displace
  <2>4. entry' \in [Places -> {"none", "original", "copy", "foreign", "namesake"}]
    BY <1>3 DEF Displace
  <2> QED BY <1>3, <2>1, <2>2, <2>3, <2>4 DEF Displace
<1>4. CASE \E p \in Places : Stray(p) BY <1>4 DEF Stray
<1> QED BY <1>1, <1>2, <1>3, <1>4 DEF Others

\* Every variable of the mover keeps its type.
THEOREM TypeCorrect == Spec => []TypeOK
<1>1. ASSUME TypeOK, [Next]_vars PROVE TypeOK'
  <2>1. CASE Next BY <1>1, <2>1, MoverTypes, OthersTypes DEF Next
  <2>2. CASE UNCHANGED vars BY <1>1, <2>2 DEF vars, files, past, TypeOK
  <2> QED BY <1>1, <2>1, <2>2
<1> QED BY InitTypes, <1>1, PTL DEF Spec
-----------------------------------------------------------------------------
LEMMA InitInv == Init => Inv
<1> SUFFICES ASSUME Init PROVE Inv OBVIOUS
<1>1. TypeOK BY InitTypes
<1> QED
  BY <1>1 DEF Init, Inv, ClaimFits, NamesFit, SourceKept, SourceRemoved,
    TargetKept, CopyIsTrue, OriginalIsTrue, StatHolds, ClaimUndone,
    Places, Checks, Copying, Removing, Linked, SourceGone

LEMMA MoverKeeps ==
    ASSUME InodeReuse = FALSE, Inv, Mover
    PROVE  Inv'
<1> USE DEF Inv, Go, Look, files, past, Checks, Copying, Removing, Ended, Linked,
    SourceGone, Shows, ClaimFits, NamesFit, SourceKept, SourceRemoved,
    TargetKept, CopyIsTrue, OriginalIsTrue, StatHolds, ClaimUndone
<1>0. TypeOK' BY MoverTypes
<1>1. CASE Open \/ Verify \/ Occupied BY <1>0, <1>1 DEF Open, Verify, Occupied
<1>2. CASE Link BY <1>0, <1>2 DEF Link, Claim, TypeOK, Places
<1>3. CASE Create BY <1>0, <1>3 DEF Create, Claim, TypeOK, Places
<1>4. CASE CheckLink BY <1>0, <1>4 DEF CheckLink
<1>5. CASE HashLink BY <1>0, <1>5 DEF HashLink
<1>6. CASE StartCopy \/ Copy BY <1>0, <1>6 DEF StartCopy, Copy, TypeOK
<1>7. CASE SettleCopy BY <1>0, <1>7 DEF SettleCopy, HashMatches
<1>8. CASE CheckTarget BY <1>0, <1>8 DEF CheckTarget
<1>9. CASE Recheck BY <1>0, <1>9 DEF Recheck
<1>10. CASE Rehash BY <1>0, <1>10 DEF Rehash, HashMatches
<1>11. CASE MatchSource BY <1>0, <1>11 DEF MatchSource
<1>12. CASE UnlinkSource BY <1>0, <1>12 DEF UnlinkSource, TypeOK, Places
<1>13. CASE Return BY <1>0, <1>13 DEF Return
<1>14. CASE MatchTarget BY <1>0, <1>14 DEF MatchTarget
<1>15. CASE UnlinkTarget BY <1>0, <1>15 DEF UnlinkTarget, TypeOK, Places
<1>16. CASE Raise BY <1>0, <1>16 DEF Raise
<1>17. CASE Interrupt BY <1>0, <1>17 DEF Interrupt
<1> QED
  BY <1>1, <1>2, <1>3, <1>4, <1>5, <1>6, <1>7, <1>8, <1>9, <1>10, <1>11, <1>12,
     <1>13, <1>14, <1>15, <1>16, <1>17 DEF Mover

LEMMA OthersKeep ==
    ASSUME InodeReuse = FALSE, Inv, Others
    PROVE  Inv'
<1> USE DEF Inv, Disturb, Mark, LateFor, Places, Checks, Copying, Removing, Ended,
    Linked, SourceGone, ClaimFits, NamesFit, SourceKept, SourceRemoved,
    TargetKept, CopyIsTrue, OriginalIsTrue, StatHolds, ClaimUndone
<1>0. TypeOK' BY OthersTypes
<1>1. CASE \E f \in {"original", "copy"} : Edit(f)
  BY <1>0, <1>1 DEF Edit, TypeOK
<1>2. CASE Touch BY <1>0, <1>2 DEF Touch
<1>3. CASE Displace("source") BY <1>0, <1>3 DEF Displace, TypeOK
<1>4. CASE Displace("target") BY <1>0, <1>4 DEF Displace, TypeOK
<1>5. CASE \E p \in Places : Stray(p) BY <1>0, <1>5 DEF Stray
<1> QED BY <1>1, <1>2, <1>3, <1>4, <1>5 DEF Others
-----------------------------------------------------------------------------
\* The invariant of a whole move.
THEOREM InvHolds == InodeReuse = FALSE => (Spec => []Inv)
<1> SUFFICES ASSUME InodeReuse = FALSE PROVE Spec => []Inv OBVIOUS
<1>1. ASSUME Inv, [Next]_vars PROVE Inv'
  <2>1. CASE Next BY <1>1, <2>1, MoverKeeps, OthersKeep DEF Next
  <2>2. CASE UNCHANGED vars
    BY <1>1, <2>2 DEF vars, files, past, Inv, TypeOK, ClaimFits, NamesFit,
      SourceKept, SourceRemoved, TargetKept, CopyIsTrue, OriginalIsTrue,
      StatHolds, ClaimUndone
  <2> QED BY <1>1, <2>1, <2>2
<1> QED BY InitInv, <1>1, PTL DEF Spec

\* At every moment of a move, so also when the process dies there, the reviewed
\* file or an equal copy has a name, unless history names the disturbance.
THEOREM NoFileIsLost == InodeReuse = FALSE => (Spec => []NothingLost)
<1> SUFFICES ASSUME InodeReuse = FALSE PROVE Spec => []NothingLost OBVIOUS
<1>1. ASSUME Inv PROVE NothingLost
  <2> SUFFICES ASSUME history = {} PROVE ~Lost BY DEF NothingLost
  <2>1. CASE pc \notin SourceGone
    BY <1>1, <2>1 DEF Inv, SourceKept, Lost, Places
  <2>2. CASE pc \in SourceGone
    <3>1. entry["target"] = claimed /\ claimed \in {"original", "copy"}
      BY <1>1, <2>2 DEF Inv, TypeOK, TargetKept, ClaimFits
    <3>2. claimed = "copy" => bytes["copy"] = bytes["original"]
      BY <1>1, <2>2 DEF Inv, CopyIsTrue, OriginalIsTrue
    <3> QED BY <3>1, <3>2 DEF Lost, Places
  <2> QED BY <2>1, <2>2
<1> QED BY InvHolds, <1>1, PTL

\* A returned move has put the reviewed content at the target and freed the source
\* name, unless another program came after the mover's last look.
THEOREM MovedIsTrue == InodeReuse = FALSE => (Spec => []MovedIsMoved)
<1> SUFFICES ASSUME InodeReuse = FALSE PROVE Spec => []MovedIsMoved OBVIOUS
<1>1. ASSUME Inv PROVE MovedIsMoved
  BY <1>1 DEF Inv, TypeOK, MovedIsMoved, TargetKept, CopyIsTrue, OriginalIsTrue,
    SourceRemoved, ClaimFits, SourceGone
<1> QED BY InvHolds, <1>1, PTL

\* A move that failed left the source in place and no claim at the target.
THEOREM FailureIsClean == InodeReuse = FALSE => (Spec => []FailureUndoesTheClaim)
<1> SUFFICES ASSUME InodeReuse = FALSE PROVE Spec => []FailureUndoesTheClaim OBVIOUS
<1>1. ASSUME Inv PROVE FailureUndoesTheClaim
  BY <1>1 DEF Inv, FailureUndoesTheClaim, SourceKept, ClaimUndone, SourceGone
<1> QED BY InvHolds, <1>1, PTL

\* The mover replaces nothing and removes only its own, except what takes the
\* place between its last stat and the unlink that follows.
THEOREM OnlyItsOwn == InodeReuse = FALSE => (Spec => TouchesOnlyItsOwn)
<1> SUFFICES ASSUME InodeReuse = FALSE PROVE Spec => TouchesOnlyItsOwn OBVIOUS
<1> DEFINE Honest ==
      \A p \in Places :
          disturbances' = disturbances /\ entry'[p] # entry[p]
          => \/ entry[p] = "none"
             \/ entry'[p] = "none" /\ (entry[p] = Own(p) \/ p \in raced)
<1>1. ASSUME Inv, [Next]_vars PROVE Honest \/ UNCHANGED vars
  <2>1. CASE Link \/ Create
    BY <1>1, <2>1 DEF Inv, TypeOK, Link, Create, Claim, Places
  <2>2. CASE UnlinkSource
    BY <1>1, <2>2 DEF Inv, TypeOK, UnlinkSource, Go, Places, Own, StatHolds
  <2>3. CASE UnlinkTarget
    BY <1>1, <2>3 DEF Inv, TypeOK, UnlinkTarget, Go, Places, Own, StatHolds
  <2>4. CASE Others
    <3>1. disturbances' = disturbances + 1
      BY <2>4 DEF Others, Edit, Touch, Displace, Stray, Disturb
    <3> QED BY <1>1, <3>1 DEF Inv, TypeOK
  <2>5. CASE entry' = entry BY <2>5
  <2>6. Mover => Link \/ Create \/ UnlinkSource \/ UnlinkTarget \/ entry' = entry
    BY DEF Mover, Open, Verify, Occupied, CheckLink, HashLink, StartCopy, Copy,
      SettleCopy, CheckTarget, Recheck, Rehash, MatchSource, Return, MatchTarget,
      Raise, Interrupt, Look, files
  <2> QED BY <1>1, <2>1, <2>2, <2>3, <2>4, <2>5, <2>6 DEF Next
<1> QED BY InvHolds, <1>1, PTL DEF Spec, TouchesOnlyItsOwn
=============================================================================
