------------------------------ MODULE FileMover ------------------------------
(***************************************************************************)
(* One FilesystemFileMover.move on a POSIX system, system call by system   *)
(* call, while other programs use the same directories. The mover opens    *)
(* the source, claims the target with a hard link or an exclusive copy,    *)
(* checks both again, and only then removes the source; when a check       *)
(* fails, or anything raises, it takes the claim back. It can hold nobody  *)
(* off: each check tells it what was true when it looked.                  *)
(*                                                                         *)
(* The model follows three files (the reviewed one, the mover's copy, and  *)
(* any file of another program) under two names. A process that dies       *)
(* leaves a state in which the mover simply takes no further step, so the  *)
(* invariants below are also what a crash leaves behind. Apply always      *)
(* names a target root (apply_plan.py 282, 358, 432), and the route of     *)
(* move without one is not modelled; nor are Windows handles.              *)
(***************************************************************************)
EXTENDS Naturals

CONSTANTS
    InodeReuse,     \* the filesystem may give a new file the number of a freed one
    MaxDisturbances \* bound on the steps of other programs

ASSUME MoverAssumption == InodeReuse \in BOOLEAN /\ MaxDisturbances \in Nat

Places == {"source", "target"}

VARIABLES
    pc,         \* the system call the mover makes next
    rooted,     \* a source root was given: Add's external audio has none
    claimed,    \* the file the mover put at the target, "none" before
    held,       \* the copy's descriptor is open, so its inode cannot be reused
    entry,      \* entry[p]: the file whose name is at p
    bytes,      \* bytes[f]: its content
    drift,      \* stat fields of the reviewed file that differ from those held
    strayed,    \* places whose parents other programs have moved away
    raced,      \* places changed between the mover's stat and its unlink (history)
    history,    \* what else other programs and interrupts did (history)
    disturbances

files == <<entry, bytes, drift, strayed>>
past  == <<raced, history, disturbances>>
vars  == <<pc, rooted, claimed, held, files, past>>

Checks   == {"open", "verify", "claim"}             \* nothing claimed yet
Copying  == {"created", "copy", "copied"}           \* the copy is still open
Removing == {"recheck", "rehash", "match", "unlink"} \* the target was checked
Ended    == {"moved", "failed", "littered"}

TypeOK ==
    /\ pc \in Checks \cup Copying \cup Removing \cup Ended
              \cup {"linked", "hash", "anchor", "unlinked", "cleanup", "discard"}
    /\ rooted \in BOOLEAN
    /\ claimed \in {"none", "original", "copy"}
    /\ held \in BOOLEAN
    /\ entry \in [Places -> {"none", "original", "copy", "foreign", "namesake"}]
    /\ bytes \in [{"original", "copy"} -> {"reviewed", "edited", "empty"}]
    /\ drift \in SUBSET {"mtime", "ctime"}
    /\ strayed \in SUBSET Places
    /\ raced \in SUBSET Places
    /\ history \in SUBSET {"taken", "late", "interrupted"}
    /\ disturbances \in 0 .. MaxDisturbances

\* Apply has just captured the source and committed the pending FileEvent.
Init ==
    /\ pc = "open" /\ claimed = "none" /\ held = FALSE
    /\ rooted \in BOOLEAN
    /\ \E there \in {"none", "foreign"} :
           entry = [p \in Places |-> IF p = "source" THEN "original" ELSE there]
    /\ bytes = [f \in {"original", "copy"} |->
                   IF f = "original" THEN "reviewed" ELSE "empty"]
    /\ drift = {} /\ strayed = {} /\ raced = {} /\ history = {}
    /\ disturbances = 0
-----------------------------------------------------------------------------
(* What the mover sees. *)

\* _stats_match compares device and inode number alone.
Shows(p, f) == entry[p] = f \/ (f = "copy" /\ entry[p] = "namesake")

\* Below a root the path is walked again from it (_verify_source_below_root);
\* the open descriptor is examined in any case.
SourceUnchanged ==
    /\ drift = {}
    /\ rooted => Shows("source", "original") /\ "source" \notin strayed

HashMatches(f) == bytes[f] = "reviewed"

Go(here, ok, there, otherwise) ==
    /\ pc = here
    /\ pc' = IF ok THEN there ELSE otherwise

Look(here, ok, there, otherwise) ==
    Go(here, ok, there, otherwise) /\ UNCHANGED <<rooted, claimed, held, files, past>>
-----------------------------------------------------------------------------
(* The mover. *)

\* The descriptor is kept only if it shows the token of Apply's capture.
Open == Look("open", SourceUnchanged /\ Shows("source", "original"), "verify", "failed")

Verify == Look("verify", SourceUnchanged, "claim", "failed")

\* A file another program holds at the target ends the move.
Occupied == entry["target"] # "none" /\ Look("claim", FALSE, "claim", "failed")

Claim(f, there) ==
    /\ entry["target"] = "none"
    /\ Go("claim", TRUE, there, "failed")
    /\ claimed' = f
    /\ entry' = [entry EXCEPT !["target"] = f]
    /\ UNCHANGED <<rooted, bytes, strayed, past>>

\* The hard link itself changes the ctime of the file.
Link ==
    /\ rooted
    /\ Claim("original", "linked")
    /\ drift' = drift \cup {"ctime"}
    /\ UNCHANGED held

\* O_CREAT | O_EXCL, without a source root or where the link was refused.
Create == Claim("copy", "created") /\ held' = TRUE /\ UNCHANGED drift

\* The ctime may have changed by the link alone, so it is not compared; what
\* fstat shows here is what the later checks compare with.
CheckLink ==
    /\ Go("linked", "mtime" \notin drift /\ Shows("target", "original"), "hash",
          IF entry["target"] = "none" THEN "failed" ELSE "cleanup")
    /\ drift' = {}
    /\ UNCHANGED <<rooted, claimed, held, entry, bytes, strayed, past>>

HashLink == Look("hash", HashMatches("original"), "anchor", "cleanup")

StartCopy == Look("created", drift = {}, "copy", "cleanup")

Copy ==
    /\ Go("copy", TRUE, "copied", "cleanup")
    /\ bytes' = [bytes EXCEPT !["copy"] = bytes["original"]]
    /\ UNCHANGED <<rooted, claimed, held, entry, drift, strayed, past>>

\* Both hashes and the last fstat, then _claim_and_copy_at closes the copy.
SettleCopy ==
    /\ Go("copied", HashMatches("copy") /\ HashMatches("original") /\ drift = {},
          "anchor", "cleanup")
    /\ held' = (pc' = "cleanup")
    /\ UNCHANGED <<rooted, claimed, files, past>>

\* Mutant of CheckTarget: the claim is trusted to be where it was put.
TrustsClaim == Look("anchor", TRUE, "recheck", "cleanup")

CheckTarget ==
    Look("anchor", Shows("target", claimed) /\ "target" \notin strayed,
         "recheck", "cleanup")

Recheck == Look("recheck", SourceUnchanged, "rehash", "cleanup")

\* Mutant of Rehash: the hash taken with the claim is trusted.
TrustsHash == Look("rehash", TRUE, "match", "cleanup")

Rehash == Look("rehash", HashMatches("original"), "match", "cleanup")

\* Mutant of MatchSource: the path is trusted to name the file of the descriptor.
TrustsPath == Look("match", TRUE, "unlink", "cleanup")

MatchSource == Look("match", Shows("source", "original"), "unlink", "cleanup")

\* The name is removed, whatever it is a name of by now.
UnlinkSource ==
    /\ Go("unlink", entry["source"] # "none", "unlinked", "cleanup")
    /\ entry' = [entry EXCEPT !["source"] = "none"]
    /\ UNCHANGED <<rooted, claimed, held, bytes, drift, strayed, past>>

Return == Look("unlinked", TRUE, "moved", "cleanup")

\* Mutant of MatchTarget: a failure leaves the claim behind.
KeepsClaim == Look("cleanup", FALSE, "discard", "failed")

MatchTarget == Look("cleanup", Shows("target", claimed), "discard", "failed")

UnlinkTarget ==
    /\ Go("discard", TRUE, "failed", "failed")
    /\ entry' = [entry EXCEPT !["target"] = "none"]
    /\ UNCHANGED <<rooted, claimed, held, bytes, drift, strayed, past>>

\* Any call may raise. The handlers cover every call but the fstat after the
\* link and the cleanup itself.
Raise ==
    /\ \/ pc \in Checks /\ pc' = "failed"
       \/ pc \in Copying \cup Removing \cup {"hash", "anchor"} /\ pc' = "cleanup"
       \/ pc \in {"linked", "cleanup", "discard"} /\ pc' = "littered"
    /\ UNCHANGED <<rooted, claimed, held, files, past>>

\* A KeyboardInterrupt that arrives with the return of os.unlink is raised inside
\* the try whose handler takes the claim back.
Interrupt ==
    /\ Go("unlinked", TRUE, "cleanup", "cleanup")
    /\ history' = history \cup {"interrupted"}
    /\ UNCHANGED <<rooted, claimed, held, files, raced, disturbances>>

Mover ==
    \/ Open \/ Verify \/ Occupied \/ Link \/ Create \/ CheckLink \/ HashLink
    \/ StartCopy \/ Copy \/ SettleCopy \/ CheckTarget \/ Recheck \/ Rehash
    \/ MatchSource \/ UnlinkSource \/ Return \/ MatchTarget \/ UnlinkTarget
    \/ Raise \/ Interrupt
-----------------------------------------------------------------------------
(* Other programs. "late" marks what they do to a file after the mover's   *)
(* last look at that side of it.                                           *)

Disturb ==
    /\ pc \notin Ended
    /\ disturbances < MaxDisturbances
    /\ disturbances' = disturbances + 1
    /\ UNCHANGED <<pc, rooted, claimed, held>>

Mark(happened) == history' = history \cup happened

LateFor(calls) == IF pc \in calls \cup {"unlinked"} THEN {"late"} ELSE {}

\* A program writes a file in place; a tag editor may put the mtime back.
Edit(f) ==
    /\ f \in {entry[p] : p \in Places}
    /\ Disturb
    /\ bytes' = [bytes EXCEPT ![f] = "edited"]
    /\ IF f = "original"
       THEN /\ \E shown \in SUBSET {"mtime"} : drift' = drift \cup {"ctime"} \cup shown
            /\ Mark(LateFor({"match", "unlink"}))
       ELSE /\ UNCHANGED drift
            /\ Mark(LateFor(Removing \cup {"anchor"}))
    /\ UNCHANGED <<entry, strayed, raced>>

\* chmod, or another hard link, of the reviewed file.
Touch ==
    /\ "original" \in {entry[p] : p \in Places}
    /\ Disturb
    /\ drift' = drift \cup {"ctime"}
    /\ UNCHANGED <<entry, bytes, strayed, raced, history>>

\* A name is removed, renamed away or replaced. Once the copy's descriptor is
\* closed, the file that replaces it may be given its inode number.
Displace(p) ==
    /\ Disturb
    /\ \E g \in {"none", "foreign", "namesake"} :
           /\ g = "namesake" =>
                  InodeReuse /\ p = "target" /\ claimed = "copy" /\ ~held
           /\ entry[p] # g
           /\ entry' = [entry EXCEPT ![p] = g]
    /\ drift' = IF entry[p] = "original" THEN drift \cup {"ctime"} ELSE drift
    /\ raced' = IF pc = (IF p = "source" THEN "unlink" ELSE "discard")
                THEN raced \cup {p} ELSE raced
    /\ IF p = "source"
       THEN Mark(IF entry[p] = "original" THEN {"taken"} ELSE {})
       ELSE Mark(LateFor(Removing))
    /\ UNCHANGED <<bytes, strayed>>

\* A parent directory is moved and another put in its place; the mover's
\* descriptors keep the old one.
Stray(p) ==
    /\ Disturb
    /\ strayed' = strayed \cup {p}
    /\ Mark(IF p = "target" THEN LateFor(Removing) ELSE {})
    /\ UNCHANGED <<entry, bytes, drift, raced>>

Others ==
    \/ \E f \in {"original", "copy"} : Edit(f)
    \/ Touch
    \/ \E p \in Places : Displace(p) \/ Stray(p)

Next == Mover \/ Others

Spec == Init /\ [][Next]_vars
-----------------------------------------------------------------------------
(* Properties. *)

Own(p) == IF p = "source" THEN "original" ELSE claimed

\* The mover never replaces a file and removes only the reviewed source and the
\* claim it made itself; another program's file can fall to it only by taking
\* the place between the mover's last stat and the unlink that follows it.
TouchesOnlyItsOwn ==
    [][\A p \in Places :
           disturbances' = disturbances /\ entry'[p] # entry[p]
           => \/ entry[p] = "none"
              \/ entry'[p] = "none" /\ (entry[p] = Own(p) \/ p \in raced)]_vars

\* No name is left for the reviewed file, nor for a copy of what it holds.
Lost ==
    \A p \in Places :
        /\ entry[p] # "original"
        /\ entry[p] = "copy" => bytes["copy"] # bytes["original"]

\* At every moment, so also when the process dies there, the reviewed file or an
\* equal copy has a name, edits of other programs included. The exceptions: the
\* source was taken away by another program, a file was changed after the
\* mover's last look at it, or an interrupt came with the removal of the source.
NothingLost == Lost => history # {}

\* What a succeeded FileEvent, and the row advanced with it, say of the disk: the
\* claim stands at the target below its root with the reviewed content, and the
\* source name is free unless another program took it again.
MovedIsMoved ==
    pc = "moved" /\ "late" \notin history =>
        /\ entry["target"] = claimed
        /\ bytes[claimed] = "reviewed"
        /\ "target" \notin strayed
        /\ entry["source"] # "original"

\* What a failed FileEvent says: the mover left the source where it was, and its
\* claim is gone from the target, so that the action can be planned again.
FailureUndoesTheClaim ==
    pc = "failed" =>
        /\ entry["source"] = "original" \/ history \cap {"taken", "interrupted"} # {}
        /\ claimed # "none" => entry["target"] # claimed

\* docs/contracts/path-identity-storage.md:48 "Failure cleanup may delete only
\* the exact target object claimed by this attempt": what the cleanup is about to
\* delete, and nobody changed since it looked, is its own claim.
CleanupDeletesItsClaim ==
    pc = "discard" /\ "target" \notin raced => entry["target"] = claimed
=============================================================================
