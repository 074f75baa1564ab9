--------------------------- MODULE SnapshotReaders ---------------------------
(***************************************************************************)
(* What a read of a file or directory returns while other programs rewrite *)
(* files, put others in their place or swap the directory. The readers:    *)
(*   content    companion and unprocessed files below a directory held     *)
(*              open (file_content_snapshot_reader.py)                     *)
(*   fallback   the same by path, where descriptors cannot be walked       *)
(*   windows    the same through handles that share neither rename nor     *)
(*              deletion (win32_file_handles.py)                           *)
(*   audio      tags and hash of an audio file, read by path               *)
(*              (file_snapshot_reader.py)                                  *)
(*   config     the settings (toml_config_store.py)                        *)
(*   listing    the names in a directory held open                         *)
(*              (source_inventory_reader.py)                               *)
(*   paths, entries  the same by path, and through Windows handles         *)
(* A file state stands for all that stat compares: device, inode, size,    *)
(* mtime and change time. One directory stands for the chain from the root *)
(* to the parent; what a listing sees is the directory it looked at.       *)
(***************************************************************************)
EXTENDS Naturals

CONSTANTS MaxFiles,         \* bound on the files that ever have the name
          MaxWrites,        \* bound on the rewrites of one file
          MaxSwaps,         \* bound on the swaps of the directory
          ReadAttempts      \* CONFIG_SNAPSHOT_READ_MAX_ATTEMPTS

ASSUME FilesAssumption == MaxFiles \in Nat /\ MaxFiles >= 2

Dirs == {1, 2}
FileReaders == {"content", "fallback", "windows", "audio", "config"}
Listers == {"listing", "paths", "entries"}
NoFile == 0
NoState == <<>>

VARIABLES dir,      \* the directory at the parent's path
          entry,    \* what the name is in each directory
          writes,   \* per file: its content
          files,    \* the files there have been
          swaps,
          read      \* the reader

filesVars == <<dir, entry, writes, files, swaps>>
readVars == <<filesVars, read>>

StateOf(f) == IF f = NoFile THEN NoState ELSE <<f, writes[f]>>
StateIn(d) == StateOf(entry[d])

ReadInit ==
    /\ dir = 1 /\ entry = [d \in Dirs |-> d]
    /\ writes = [f \in 1 .. MaxFiles |-> 0] /\ files = 2 /\ swaps = 0
    /\ \E kind \in FileReaders \cup Listers :
          read = [kind |-> kind, pc |-> "chain", dir |-> 1, file |-> NoFile, listed |-> NoState,
                  seen |-> {}, part |-> "first", attempt |-> 1]

At(pc) == read.pc = pc
Ended == read.pc \in {"done", "failed", "missing"}

\* The directories and the file a Windows reader holds keep their names: their
\* handles do not share deletion.
DirectoryHeld == read.kind = "windows" /\ ~At("chain") /\ ~Ended
FileHeld(d) ==
    DirectoryHeld /\ d = read.dir /\ read.file # NoFile /\ entry[d] = read.file

-----------------------------------------------------------------------------
(* The other programs. *)

RewriteFile ==
    /\ \E f \in 1 .. files : writes[f] < MaxWrites /\ writes' = [writes EXCEPT ![f] = @ + 1]
    /\ UNCHANGED <<dir, entry, files, swaps, read>>

\* A file under the name that was not there before; a file renamed back has
\* another change time.
ReplaceFile ==
    /\ files < MaxFiles
    /\ files' = files + 1
    /\ \E d \in Dirs : ~FileHeld(d) /\ entry' = [entry EXCEPT ![d] = files']
    /\ UNCHANGED <<dir, writes, swaps, read>>

RemoveFile ==
    /\ \E d \in Dirs : /\ entry[d] # NoFile /\ ~FileHeld(d)
                       /\ entry' = [entry EXCEPT ![d] = NoFile]
    /\ UNCHANGED <<dir, writes, files, swaps, read>>

\* Another directory at the parent's path. No file's state changes.
SwapDirectory ==
    /\ swaps < MaxSwaps /\ ~DirectoryHeld
    /\ swaps' = swaps + 1 /\ dir' = 3 - dir
    /\ UNCHANGED <<entry, writes, files, read>>

-----------------------------------------------------------------------------
(* The readers. *)

ReaderTo(pc) == read' = [read EXCEPT !.pc = pc]
ReadFails == ReaderTo("failed")

\* The settings are read again, a bounded number of times.
Unstable ==
    IF read.kind = "config" /\ read.attempt < ReadAttempts
    THEN read' = [read EXCEPT !.pc = "open", !.attempt = @ + 1, !.seen = {}]
    ELSE ReadFails

\* The parents are opened (content, windows) or their identities read (fallback).
OpenChain ==
    /\ At("chain") /\ read.kind \in FileReaders
    /\ read' = [read EXCEPT !.dir = dir, !.pc = IF read.kind = "config" THEN "open" ELSE "list"]
    /\ UNCHANGED filesVars

\* Where the reader looks the name up.
Looked == IF read.kind \in {"content", "windows", "listing"} THEN read.dir ELSE dir

\* The state the name has; a Windows reader opens the file and takes its handle's.
ListFile ==
    /\ At("list")
    /\ IF entry[Looked] = NoFile THEN ReadFails
       ELSE read' = [read EXCEPT !.pc = IF read.kind = "windows" THEN "project" ELSE "open",
                                 !.file = IF read.kind = "windows" THEN entry[Looked] ELSE @,
                                 !.listed = StateIn(Looked)]
    /\ UNCHANGED filesVars

\* Mutant of SameState: only the identity of the file is compared.
SameFile(s, t) == s # NoState /\ t # NoState /\ s[1] = t[1]

\* _same_file_state, _same_filesystem_identity, before == after.
SameState(s, t) == s = t

\* The descriptor of a Windows handle shows the state the handle has.
ProjectState ==
    /\ At("project")
    /\ IF SameState(StateOf(read.file), read.listed) THEN ReaderTo("read") ELSE ReadFails
    /\ UNCHANGED filesVars

\* The open file is the listed one, but for tags and hash of an audio file, which
\* are opened by path and compared with nothing; the settings have no listed state.
OpenFile ==
    /\ At("open")
    /\ IF entry[Looked] = NoFile THEN IF read.kind = "config" THEN ReaderTo("absent") ELSE ReadFails
       ELSE IF read.kind \in {"content", "fallback"} /\ StateIn(Looked) # read.listed THEN ReadFails
       ELSE read' = [read EXCEPT !.pc = "read", !.file = entry[Looked],
                        !.listed = IF read.kind = "config" THEN StateIn(Looked) ELSE @]
    /\ UNCHANGED filesVars

\* No settings file, if there still is none: the defaults are in effect.
ConfirmAbsent ==
    /\ At("absent")
    /\ IF entry[dir] = NoFile THEN ReaderTo("missing") ELSE Unstable
    /\ UNCHANGED filesVars

\* Content is read in several calls.
ReadChunk ==
    /\ At("read")
    /\ read' = [read EXCEPT !.seen = @ \cup {StateOf(read.file)}]
    /\ UNCHANGED filesVars

\* All read: the descriptor's state must not have changed. An audio file's tags
\* are followed by its hash.
EndRead ==
    /\ At("read") /\ read.seen # {}
    /\ IF read.kind = "audio"
       THEN read' = [read EXCEPT !.pc = IF read.part = "first" THEN "open" ELSE "leaf",
                                 !.part = "last"]
       ELSE IF ~SameState(read.listed, StateOf(read.file)) THEN Unstable
       ELSE ReaderTo(IF read.kind = "config" THEN "leaf" ELSE "parents")
    /\ UNCHANGED filesVars

\* The path still leads through the same directories,
VerifyParents ==
    /\ At("parents")
    /\ IF dir = read.dir THEN ReaderTo("leaf") ELSE ReadFails
    /\ UNCHANGED filesVars

\* and to a file in the state that was read. A Windows handle's path is that of
\* its file, whose state is looked at again.
VerifyLeaf ==
    /\ At("leaf")
    /\ IF SameState(IF read.kind = "windows" THEN StateOf(read.file) ELSE StateIn(Looked), read.listed)
       THEN ReaderTo("done")
       ELSE Unstable
    /\ UNCHANGED filesVars

-----------------------------------------------------------------------------
(* The inventories. A directory found in its parent is entered, *)

\* The mapping from what a lister looks at to what it has seen.
NamesOf(d) == <<d>>

ObserveDirectory ==
    /\ At("chain") /\ read.kind \in Listers
    /\ read' = [read EXCEPT !.dir = dir, !.listed = NamesOf(dir), !.pc = "enter"]
    /\ UNCHANGED filesVars

\* opened under its name, or only looked at again, and has to be the one found;
EnterDirectory ==
    /\ At("enter")
    /\ IF dir = read.dir THEN ReaderTo("names") ELSE ReadFails
    /\ UNCHANGED filesVars

\* its names are read, through the descriptor or by path;
ReadNames ==
    /\ At("names")
    /\ read' = [read EXCEPT !.seen = @ \cup {NamesOf(Looked)}, !.pc = "stat"]
    /\ UNCHANGED filesVars

\* every entry is looked at in the same way. One that has gone is left out.
StatEntry ==
    /\ At("stat")
    /\ read' = [read EXCEPT !.seen = IF entry[Looked] = NoFile THEN @ ELSE @ \cup {NamesOf(Looked)},
                            !.pc = IF read.kind = "paths" THEN "again" ELSE "left"]
    /\ UNCHANGED filesVars

\* By path, the directory is looked at after its names were read;
SameDirectory == dir = read.dir

LookAgain ==
    /\ At("again")
    /\ IF SameDirectory THEN ReaderTo("left") ELSE ReadFails
    /\ UNCHANGED filesVars

\* in any case once all of it has been seen.
LeaveDirectory ==
    /\ At("left")
    /\ IF SameDirectory THEN ReaderTo("done") ELSE ReadFails
    /\ UNCHANGED filesVars

ReadNext ==
    \/ RewriteFile \/ ReplaceFile \/ RemoveFile \/ SwapDirectory
    \/ OpenChain \/ ListFile \/ OpenFile \/ ConfirmAbsent \/ ReadChunk \/ EndRead
    \/ ProjectState \/ VerifyParents \/ VerifyLeaf
    \/ ObserveDirectory \/ EnterDirectory \/ ReadNames \/ StatEntry \/ LookAgain \/ LeaveDirectory

ReadSpec == ReadInit /\ [][ReadNext]_readVars

-----------------------------------------------------------------------------
(* Properties. *)

\* A snapshot is of one file in one state: the bytes (and tags) it was computed
\* from are those of the identity it carries, whatever was rewritten, replaced or
\* removed during the read; a listing is of one directory. What is read by path
\* (tags and hash of audio, names without a descriptor) promises this only while
\* nobody swaps the directory there and back.
SnapshotsAreOfOneFile ==
    At("done") => \/ read.seen = {read.listed}
                  \/ read.kind \in {"audio", "paths", "entries"} /\ swaps > 1
=============================================================================
