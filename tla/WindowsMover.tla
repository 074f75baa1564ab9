---------------------------- MODULE WindowsMover ----------------------------
(***************************************************************************)
(* One FilesystemFileMover.move on Windows (_move_with_windows_handles),   *)
(* native call by native call.  Unlike the POSIX route of FileMover, the   *)
(* retained handles hold other programs off: while the mover has the       *)
(* source open nobody else can open it for writing, rename or delete it,   *)
(* and the directories above it stay where they are.  What remains is a    *)
(* program that has mapped the file into memory before, which can still    *)
(* change its bytes, without a change of its times; calls that fail; and   *)
(* the death of the process, after which the system closes its handles     *)
(* and deletes what they marked.                                           *)
(***************************************************************************)
VARIABLES
    mover,    \* where the mover is
    held,     \* what it holds open, of "parents", "source", "target"
    original, \* the source: there, its bytes, read-only, marked for deletion
    made,     \* the target: whose it is, its bytes, read-only, marked
    sharer,   \* another program's hold on the source: "none", "open", "mapped"
    touched,  \* the source's times or size are not the reviewed ones
    mishaps   \* what went wrong beyond the mover's reach (history)

moverVars == <<mover, held, original, made, sharer, touched, mishaps>>

NoTarget == [owner |-> "none", bytes |-> "none", readonly |-> FALSE, marked |-> FALSE]

MoverInit ==
    /\ mover = "start" /\ held = {}
    /\ \E readonly \in BOOLEAN :
          original = [there |-> TRUE, bytes |-> "reviewed", readonly |-> readonly,
                      marked |-> FALSE, was |-> readonly]
    /\ made \in {NoTarget, [NoTarget EXCEPT !.owner = "other", !.bytes = "other"]}
    /\ sharer \in {"none", "open", "mapped"}   \* a mapping made before the review
    /\ touched = FALSE /\ mishaps = {}

-----------------------------------------------------------------------------
(* What the checks see. *)

\* verify_current: identity, size and times through the handle, and its path,
\* which the sharing modes keep.
SourceState == ~touched

HashesMatch(file) == file.bytes = "reviewed"

Step(from, to) == mover = from /\ mover' = to
Quietly == UNCHANGED <<original, made, sharer, touched, mishaps>>

\* Before the target is made an error just closes the handles.
Abandon(from) == Step(from, "closing") /\ UNCHANGED held /\ Quietly

\* Afterwards the target is taken back first.
TakeBack(from) == Step(from, "restore") /\ UNCHANGED held /\ Quietly

-----------------------------------------------------------------------------
(* The mover. *)

\* _open_windows_parent_chain and open_source, which is denied while anybody has
\* the source open for writing.
OpenSource ==
    \/ /\ Step("start", "verify") /\ sharer # "open"
       /\ held' = {"parents", "source"} /\ Quietly
    \/ Abandon("start")

\* The handle and the descriptor both show the reviewed file.
VerifySource ==
    \/ SourceState /\ Step("verify", "create") /\ UNCHANGED held /\ Quietly
    \/ Abandon("verify")

\* The target's directories are made and held, and the target itself is created
\* exclusively; created but not what was asked for, it is marked for deletion.
CreateTarget ==
    \/ /\ Step("create", "duplicate") /\ made = NoTarget
       /\ made' = [NoTarget EXCEPT !.owner = "mover", !.bytes = "partial"]
       /\ held' = held \union {"target"}
       /\ UNCHANGED <<original, sharer, touched, mishaps>>
    \/ Abandon("create")

\* A descriptor for the copy. The claim is not yet taken back if that fails.
DuplicateTarget ==
    \/ Step("duplicate", "copy") /\ UNCHANGED held /\ Quietly
    \/ /\ Step("duplicate", "closing")
       /\ mishaps' = mishaps \union {"left claim"}
       /\ UNCHANGED <<held, original, made, sharer, touched>>

CopySource ==
    \/ /\ Step("copy", "compare") /\ SourceState
       /\ \E bytes \in {original.bytes} \union
                       IF sharer = "mapped" THEN {"edited"} ELSE {} :
              made' = [made EXCEPT !.bytes = bytes]
       /\ UNCHANGED <<held, original, sharer, touched, mishaps>>
    \/ TakeBack("copy")

\* The descriptors are hashed after the copy, and once more when both files and
\* every directory above them have been verified.
CompareCopy ==
    \/ /\ Step("compare", "rehash") /\ SourceState
       /\ HashesMatch(made) /\ HashesMatch(original)
       /\ UNCHANGED held /\ Quietly
    \/ TakeBack("compare")

\* Mutant of HashesAgree: the source is not read again, its times have not changed.
TargetHashAgrees == HashesMatch(made)

HashesAgree == HashesMatch(made) /\ HashesMatch(original)

RehashBoth ==
    \/ /\ Step("rehash", "metadata") /\ SourceState /\ HashesAgree
       /\ UNCHANGED held /\ Quietly
    \/ TakeBack("rehash")

\* set_metadata: the copy gets the source's times and read-only attribute.
SetTargetMetadata ==
    \/ /\ Step("metadata", "delete")
       /\ made' = [made EXCEPT !.readonly = original.readonly]
       /\ UNCHANGED <<held, original, sharer, touched, mishaps>>
    \/ TakeBack("metadata")

\* delete_exact: a read-only file is made writable first.
ClearReadOnly ==
    \/ /\ Step("delete", "mark") /\ SourceState
       /\ original' = [original EXCEPT !.readonly = FALSE]
       /\ UNCHANGED <<held, made, sharer, touched, mishaps>>
    \/ TakeBack("delete")

\* The mark succeeds and move returns; or it fails and the attribute is put back,
\* if that can be done.
MarkSource ==
    \/ /\ Step("mark", "closing")
       /\ original' = [original EXCEPT !.marked = TRUE]
       /\ UNCHANGED <<held, made, sharer, touched, mishaps>>
    \/ /\ Step("mark", "restore")
       /\ \/ original' = [original EXCEPT !.readonly = original.was] /\ UNCHANGED mishaps
          \/ original' = original /\ mishaps' = mishaps \union {"left writable"}
       /\ UNCHANGED <<held, made, sharer, touched>>

\* An interrupt delivered as delete_exact returns runs the handler.
InterruptMove ==
    /\ mover = "closing" /\ original.marked /\ made.owner = "mover" /\ ~made.marked
    /\ mover' = "restore" /\ mishaps' = mishaps \union {"interrupted"}
    /\ UNCHANGED <<held, original, made, sharer, touched>>

-----------------------------------------------------------------------------
(* Taking the target back. *)

\* _cleanup_windows_target: writable again, as far as that can be done.
RestoreWritable ==
    /\ Step("restore", "remove")
    /\ \E readonly \in {FALSE, made.readonly} : made' = [made EXCEPT !.readonly = readonly]
    /\ UNCHANGED <<held, original, sharer, touched, mishaps>>

\* delete_exact on the target, through the handle that created it.
RemoveTarget ==
    /\ Step("remove", "closing")
    /\ \/ made' = [made EXCEPT !.marked = TRUE] /\ UNCHANGED mishaps
       \/ made' = made /\ mishaps' = mishaps \union {"left claim"}
    /\ UNCHANGED <<held, original, sharer, touched>>

\* The handles are closed, by the mover or by the system when the process has
\* died, and the marked files are gone.
CloseHandles ==
    /\ mover # "ended"
    /\ mover' = "ended" /\ held' = {}
    /\ mishaps' = IF mover = "closing" THEN mishaps ELSE mishaps \union {"died"}
    /\ original' = [original EXCEPT !.there = ~original.marked]
    /\ made' = IF made.marked THEN NoTarget ELSE made
    /\ UNCHANGED <<sharer, touched>>

-----------------------------------------------------------------------------
(* Other programs. *)

\* Bytes can be written while the file is open for writing, or mapped before; the
\* latter shows in no time stamp, and after the last hash nobody notices.
SharerWrites ==
    /\ sharer # "none" /\ original.there /\ original.bytes = "reviewed"
    /\ original' = [original EXCEPT !.bytes = "edited"]
    /\ touched' = (touched \/ sharer = "open")
    /\ mishaps' = IF mover \in {"metadata", "delete", "mark"} \/ original.marked
                  THEN mishaps \union {"late"} ELSE mishaps
    /\ UNCHANGED <<mover, held, made, sharer>>

\* Opening the file is denied while the mover holds it.
SharerOpens ==
    /\ "source" \notin held /\ original.there /\ sharer = "none" /\ sharer' = "open"
    /\ UNCHANGED <<mover, held, original, made, touched, mishaps>>

SharerLetsGo ==
    /\ sharer # "none"
    /\ sharer' \in {"none"} \union IF sharer = "open" THEN {"mapped"} ELSE {}
    /\ UNCHANGED <<mover, held, original, made, touched, mishaps>>

\* Another program takes the free name.
OtherTakesTarget ==
    /\ made = NoTarget
    /\ made' = [NoTarget EXCEPT !.owner = "other", !.bytes = "other"]
    /\ UNCHANGED <<mover, held, original, sharer, touched, mishaps>>

MoverNext ==
    \/ OpenSource \/ VerifySource \/ CreateTarget \/ DuplicateTarget \/ CopySource
    \/ CompareCopy \/ RehashBoth \/ SetTargetMetadata \/ ClearReadOnly \/ MarkSource
    \/ InterruptMove \/ RestoreWritable \/ RemoveTarget \/ CloseHandles
    \/ SharerWrites \/ SharerOpens \/ SharerLetsGo \/ OtherTakesTarget

MoverSpec == MoverInit /\ [][MoverNext]_moverVars

-----------------------------------------------------------------------------
\* At every instant, also if the process dies there, the file's current bytes exist
\* at the source, or complete and with its read-only attribute at the target: an
\* edit is never deleted unless it was made after the last hash, and the only other
\* exception is an interrupt as the deletion returns. A move that did not delete
\* the source leaves no file of its own and the source's attribute as it was,
\* unless the one call that would have undone it failed or the process died.
WindowsMoveIsSafe ==
    LET gone == ~original.there \/ original.marked
    IN  /\ gone /\ mishaps \cap {"interrupted", "late"} = {} =>
               /\ made.owner = "mover" /\ ~made.marked
               /\ made.bytes = original.bytes /\ made.readonly = original.was
        /\ mover = "ended" /\ original.there =>
               /\ made.owner = "mover" => mishaps \cap {"left claim", "died"} # {}
               /\ original.readonly # original.was =>
                     mishaps \cap {"left writable", "died"} # {}
=============================================================================
