---------------------------- MODULE SettingsStore ----------------------------
(***************************************************************************)
(* One settings file, the Web forms that save it by themselves while the   *)
(* user types (settings-form.tsx), the revision-checked save behind them   *)
(* (toml_config_store.py) and a text editor that honours neither the lock  *)
(* nor the revision. A version stands for one file: its bytes and identity,*)
(* which is what a revision is a digest of. Version 0 is no file.          *)
(***************************************************************************)
EXTENDS Naturals

CONSTANTS Tabs,         \* the forms open in a browser
          MaxVersions,  \* bound on the files written
          MaxEdits      \* bound on the edits of one form

VARIABLES
    installed,  \* the version at the path
    durable,    \* the versions a power loss may leave there
    unsynced,   \* versions whose bytes may not have reached the disk
    latest,     \* the last version written
    others,     \* versions the text editor wrote
    raced,      \* those it wrote in the final interval of a save
    acked,      \* the last save a form was told of
    tabs,       \* per form: the revision it would send, the versions its draft contains
    save        \* the save under the lock

fileVars == <<installed, durable, unsynced, latest, others>>
settingsVars == <<fileVars, raced, acked, tabs, save>>

NoSave == [pc |-> "none"]

SettingsInit ==
    /\ installed = 0 /\ durable = {0} /\ unsynced = {} /\ latest = 0 /\ others = {}
    /\ raced = {} /\ acked = 0
    /\ tabs = [t \in Tabs |-> [base |-> 0, known |-> {0}, dirty |-> FALSE, typed |-> FALSE,
                               edits |-> 0, state |-> "open"]]
    /\ save = NoSave

\* The user reloads the page: the draft is the file's.
LoadSettings(t) ==
    /\ tabs[t].state # "sent"
    /\ tabs' = [tabs EXCEPT ![t] = [@ EXCEPT !.base = installed, !.known = {installed},
                                             !.dirty = FALSE, !.state = "open"]]
    /\ UNCHANGED <<fileVars, raced, acked, save>>

EditDraft(t) ==
    /\ tabs[t].edits < MaxEdits
    /\ tabs' = [tabs EXCEPT ![t].dirty = TRUE, ![t].typed = TRUE, ![t].edits = @ + 1]
    /\ UNCHANGED <<fileVars, raced, acked, save>>

\* The autosave timer: one request at a time, none while paused. A busy lock
\* answers operation_in_progress, which pauses the form as any failure does.
SendDraft(t) ==
    /\ tabs[t].dirty /\ tabs[t].state = "open"
    /\ IF save = NoSave
       THEN /\ save' = [pc |-> "check", by |-> t, expected |-> tabs[t].base, temp |-> 0]
            /\ tabs' = [tabs EXCEPT ![t] = [@ EXCEPT !.state = "sent", !.typed = FALSE]]
       ELSE /\ tabs' = [tabs EXCEPT ![t].state = "failed"]
            /\ UNCHANGED save
    /\ UNCHANGED <<fileVars, raced, acked>>

RetrySave(t) ==
    /\ tabs[t].state = "failed"
    /\ tabs' = [tabs EXCEPT ![t].state = "open"]
    /\ UNCHANGED <<fileVars, raced, acked, save>>

\* The request ends without a save.
EndSave(state) ==
    /\ save' = NoSave
    /\ tabs' = [tabs EXCEPT ![save.by].state = state]

\* The revision at the path is the one the client read, or the answer is config_changed.
RequireRevision(pc) ==
    IF save.expected = installed
    THEN save' = [save EXCEPT !.pc = pc] /\ UNCHANGED tabs
    ELSE EndSave("conflict")

CheckRevision ==
    /\ save.pc = "check"
    /\ RequireRevision("temp")
    /\ UNCHANGED <<fileVars, raced, acked>>

\* A complete file beside the target, its bytes synced.
WriteTemp ==
    /\ save.pc = "temp" /\ latest < MaxVersions
    /\ latest' = latest + 1
    /\ save' = [save EXCEPT !.pc = "recheck", !.temp = latest']
    /\ UNCHANGED <<installed, durable, unsynced, others, raced, acked, tabs>>

\* Mutant of RecheckRevision: the revision is only checked before the file is written.
ChecksOnce ==
    /\ save.pc = "recheck"
    /\ save' = [save EXCEPT !.pc = "replace"]
    /\ UNCHANGED <<fileVars, raced, acked, tabs>>

RecheckRevision ==
    /\ save.pc = "recheck"
    /\ RequireRevision("replace")
    /\ UNCHANGED <<fileVars, raced, acked>>

ReplaceSettings ==
    /\ save.pc = "replace"
    /\ installed' = save.temp
    /\ durable' = durable \cup {save.temp}
    /\ save' = [save EXCEPT !.pc = "sync"]
    /\ UNCHANGED <<unsynced, latest, others, raced, acked, tabs>>

\* Mutant of SyncDirectory: the answer does not wait for the directory.
SkipsDirectorySync ==
    /\ save.pc = "sync"
    /\ save' = [save EXCEPT !.pc = "answer"]
    /\ UNCHANGED <<fileVars, raced, acked, tabs>>

\* POSIX, on a filesystem that can sync a directory.
SyncDirectory ==
    /\ save.pc = "sync"
    /\ durable' = {installed}
    /\ save' = [save EXCEPT !.pc = "answer"]
    /\ UNCHANGED <<installed, unsynced, latest, others, raced, acked, tabs>>

\* The answer is what the path holds now. The form takes over its revision, and
\* its values too unless the user went on typing.
AnswerSave ==
    /\ save.pc = "answer"
    /\ acked' = save.temp
    /\ save' = NoSave
    /\ LET form == tabs[save.by] IN
       tabs' = [tabs EXCEPT ![save.by] =
          [form EXCEPT !.base = installed, !.state = "open", !.dirty = form.dirty /\ form.typed,
                       !.known = form.known \cup {save.temp}
                                     \cup (IF form.typed THEN {} ELSE {installed})]]
    /\ UNCHANGED <<fileVars, raced>>

\* Any call raises, or the server dies; the client learns nothing else.
SaveFails ==
    /\ save # NoSave
    /\ EndSave("failed")
    /\ UNCHANGED <<fileVars, raced, acked>>

\* The text editor replaces the file at any moment and syncs nothing.
OtherWrites ==
    /\ latest < MaxVersions
    /\ latest' = latest + 1
    /\ installed' = latest'
    /\ durable' = durable \cup {latest'}
    /\ unsynced' = unsynced \cup {latest'}
    /\ others' = others \cup {latest'}
    /\ raced' = IF save.pc \in {"replace", "sync", "answer"} THEN raced \cup {latest'} ELSE raced
    /\ UNCHANGED <<acked, tabs, save>>

SettingsNext ==
    \/ \E t \in Tabs : LoadSettings(t) \/ EditDraft(t) \/ SendDraft(t) \/ RetrySave(t)
    \/ CheckRevision \/ WriteTemp \/ RecheckRevision \/ ReplaceSettings \/ SyncDirectory
    \/ AnswerSave \/ SaveFails \/ OtherWrites

SettingsSpec == SettingsInit /\ [][SettingsNext]_settingsVars

-----------------------------------------------------------------------------
(* Properties. *)

\* No save replaces settings that the draft it stores does not contain, whatever
\* several forms and a text editor did, but for a file written in the final
\* interval of a save (docs/contracts/config.md:44). That interval reaches up to
\* the answer: the revision returned is read from the path, after the replacement.
\* And a power loss always leaves a complete file, at least as new as the last save
\* a form was told of.
SavesAreKept ==
    /\ [][save.pc = "replace" /\ installed' # installed =>
             installed \in tabs[save.by].known \cup raced]_settingsVars
    /\ [](\A v \in durable : v >= acked /\ (v \in unsynced => v \in others))
=============================================================================
