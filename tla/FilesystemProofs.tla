-------------------------- MODULE FilesystemProofs --------------------------
(***************************************************************************)
(* Proofs about the calls that touch files beside other programs: the move *)
(* on Windows (WindowsMover) and the reads of files and directories        *)
(* (SnapshotReaders), for any number of steps of the other programs; and   *)
(* about the years and discs in the paths of albums (PathNames), for any   *)
(* number of files.                                                        *)
(***************************************************************************)
EXTENDS WindowsMover, SnapshotReaders, PathNames,
        FiniteSetTheorems, WellFoundedInduction, TLAPS

-----------------------------------------------------------------------------
(* The move on Windows. *)

Opening == {"start", "verify", "create"}
Making == {"duplicate", "copy", "compare", "rehash", "metadata", "delete", "mark"}
Undoing == {"restore", "remove"}

Mishaps == {"left claim", "left writable", "interrupted", "late", "died"}

MoverTypeOK ==
    /\ mover \in Opening \cup Making \cup Undoing \cup {"closing", "ended"}
    /\ held \in SUBSET {"parents", "source", "target"}
    /\ original \in [there : BOOLEAN, bytes : {"reviewed", "edited"}, readonly : BOOLEAN,
                     marked : BOOLEAN, was : BOOLEAN]
    /\ made \in [owner : {"none", "mover", "other"},
                 bytes : {"none", "partial", "reviewed", "edited", "other"},
                 readonly : BOOLEAN, marked : BOOLEAN]
    /\ sharer \in {"none", "open", "mapped"}
    /\ touched \in BOOLEAN /\ mishaps \in SUBSET Mishaps

\* While the mover holds the source nobody has it open for writing.
SourceIsHeld ==
    /\ mover \in {"verify", "create"} \cup Making \cup Undoing => "source" \in held
    /\ original.marked /\ mover # "ended" => "source" \in held
    /\ "source" \in held => sharer # "open"

\* The source is marked last, and gone only at the end.
MarkedLast ==
    /\ original.marked => mover \in {"closing", "ended"} \cup Undoing
    /\ original.marked /\ mover \in Undoing => "interrupted" \in mishaps
    /\ original.there <=> ~(mover = "ended" /\ original.marked)

\* The target is the mover's from its creation until it is taken back.
ClaimIsMovers ==
    /\ mover \in Opening => made.owner # "mover"
    /\ mover \in Making \cup Undoing => made.owner = "mover" /\ ~made.marked
    /\ made.marked => mover = "closing" /\ made.owner = "mover"

\* What was hashed last is what is there, unless a mapping changed it since.
HashesHold ==
    mover \in {"metadata", "delete", "mark"} =>
        /\ made.bytes = "reviewed"
        /\ original.bytes = "reviewed" \/ "late" \in mishaps

\* The attribute is the source's own, but for the time around the mark.
AttributeKept ==
    /\ mover \in {"delete", "mark"} => made.readonly = original.was
    /\ mover \in Opening \cup (Making \ {"mark"}) => original.readonly = original.was
    /\ original.readonly # original.was =>
          mover = "mark" \/ original.marked \/ mishaps \cap {"left writable", "died"} # {}

\* The copy stands for the source that is marked.
CopyStands ==
    original.marked /\ mishaps \cap {"interrupted", "late"} = {} =>
        /\ made.owner = "mover" /\ ~made.marked
        /\ made.bytes = original.bytes /\ made.readonly = original.was

\* The mover leaves no file of its own beside a source that stays.
NothingLeft ==
    mover \in {"closing", "ended"} /\ ~original.marked /\ made.owner = "mover" =>
        \/ mover = "closing" /\ made.marked
        \/ mishaps \cap {"left claim", "died"} # {}

MoverInv ==
    /\ MoverTypeOK
    /\ SourceIsHeld
    /\ MarkedLast
    /\ ClaimIsMovers
    /\ HashesHold
    /\ AttributeKept
    /\ CopyStands
    /\ NothingLeft

\* The file is the reviewed one or edited since, and nothing has been done.
LEMMA MoverStart == MoverInit => MoverInv
<1> SUFFICES ASSUME MoverInit
             PROVE  MoverInv
  OBVIOUS
<1>1. PICK readonly \in BOOLEAN :
         original = [there |-> TRUE, bytes |-> "reviewed", readonly |-> readonly,
                     marked |-> FALSE, was |-> readonly]
  BY DEF MoverInit
<1> DEFINE taken == [owner |-> "other", bytes |-> "other", readonly |-> FALSE, marked |-> FALSE]
<1>2. made \in {NoTarget, taken}
  BY DEF MoverInit, NoTarget
<1>3. /\ NoTarget.owner # "mover" /\ ~NoTarget.marked
      /\ taken.owner # "mover" /\ ~taken.marked
  BY DEF NoTarget
<1>4. /\ mover = "start" /\ held = {} /\ mishaps = {}
      /\ made.owner # "mover" /\ ~made.marked
  BY <1>2, <1>3 DEF MoverInit
<1>5. original.there /\ ~original.marked /\ original.readonly = original.was
  BY <1>1, Zenon
<1>6. MoverTypeOK
  <2>1. original \in [there : BOOLEAN, bytes : {"reviewed", "edited"}, readonly : BOOLEAN,
                      marked : BOOLEAN, was : BOOLEAN]
    BY <1>1
  <2>2. made \in [owner : {"none", "mover", "other"},
                  bytes : {"none", "partial", "reviewed", "edited", "other"},
                  readonly : BOOLEAN, marked : BOOLEAN]
    <3>1. taken \in [owner : {"none", "mover", "other"},
                     bytes : {"none", "partial", "reviewed", "edited", "other"},
                     readonly : BOOLEAN, marked : BOOLEAN]
      OBVIOUS
    <3>2. NoTarget \in [owner : {"none", "mover", "other"},
                        bytes : {"none", "partial", "reviewed", "edited", "other"},
                        readonly : BOOLEAN, marked : BOOLEAN]
      BY DEF NoTarget
    <3> QED
      BY <1>2, <3>1, <3>2
  <2>3. sharer \in {"none", "open", "mapped"} /\ touched \in BOOLEAN
    BY DEF MoverInit
  <2> QED
    BY <1>4, <2>1, <2>2, <2>3 DEF MoverTypeOK, Opening
<1>7. SourceIsHeld /\ MarkedLast /\ ClaimIsMovers
  BY <1>4, <1>5 DEF SourceIsHeld, MarkedLast, ClaimIsMovers, Opening, Making, Undoing
<1>8. HashesHold /\ AttributeKept /\ CopyStands /\ NothingLeft
  BY <1>4, <1>5 DEF HashesHold, AttributeKept, CopyStands, NothingLeft
<1> QED
  BY <1>6, <1>7, <1>8 DEF MoverInv

\* Types are kept by every call.
LEMMA MoverTypes == ASSUME MoverTypeOK, MoverNext PROVE MoverTypeOK'
<1> USE DEF MoverTypeOK, Opening, Making, Undoing, Mishaps, Step, Quietly, Abandon, TakeBack
<1>1. CASE OpenSource
  BY <1>1 DEF OpenSource, NoTarget
<1>2. CASE VerifySource
  BY <1>2 DEF VerifySource, NoTarget
<1>3. CASE CreateTarget
  BY <1>3, ZenonT(60) DEF CreateTarget, NoTarget
<1>4. CASE DuplicateTarget
  BY <1>4 DEF DuplicateTarget, NoTarget
<1>5. CASE CopySource
  BY <1>5, ZenonT(60) DEF CopySource, NoTarget
<1>6. CASE CompareCopy
  BY <1>6 DEF CompareCopy, NoTarget
<1>7. CASE RehashBoth
  BY <1>7 DEF RehashBoth, NoTarget
<1>8. CASE SetTargetMetadata
  BY <1>8 DEF SetTargetMetadata, NoTarget
<1>9. CASE ClearReadOnly
  BY <1>9 DEF ClearReadOnly, NoTarget
<1>10. CASE MarkSource
  BY <1>10 DEF MarkSource, NoTarget
<1>11. CASE InterruptMove
  BY <1>11 DEF InterruptMove, NoTarget
<1>12. CASE RestoreWritable
  BY <1>12 DEF RestoreWritable, NoTarget
<1>13. CASE RemoveTarget
  BY <1>13 DEF RemoveTarget, NoTarget
<1>14. CASE CloseHandles
  BY <1>14 DEF CloseHandles, NoTarget
<1>15. CASE SharerWrites
  BY <1>15 DEF SharerWrites, NoTarget
<1>16. CASE SharerOpens
  <2>1. /\ sharer' \in {"none", "open", "mapped"}
        /\ UNCHANGED <<mover, held, original, made, touched, mishaps>>
    BY <1>16 DEF SharerOpens
  <2>2. /\ mover' = mover /\ held' = held /\ original' = original /\ made' = made
        /\ touched' = touched /\ mishaps' = mishaps
    BY <2>1
  <2> QED
    BY <2>1, <2>2, Zenon
<1>17. CASE SharerLetsGo
  <2>1. /\ sharer' \in {"none", "open", "mapped"}
        /\ UNCHANGED <<mover, held, original, made, touched, mishaps>>
    BY <1>17 DEF SharerLetsGo
  <2>2. /\ mover' = mover /\ held' = held /\ original' = original /\ made' = made
        /\ touched' = touched /\ mishaps' = mishaps
    BY <2>1
  <2> QED
    BY <2>1, <2>2, Zenon
<1>18. CASE OtherTakesTarget
  BY <1>18 DEF OtherTakesTarget, NoTarget
<1> QED
  BY <1>1, <1>2, <1>3, <1>4, <1>5, <1>6, <1>7, <1>8, <1>9, <1>10, <1>11, <1>12, <1>13, <1>14, <1>15, <1>16, <1>17, <1>18 DEF MoverNext

\* Every call of the mover and every step of the other programs keeps the invariant.
LEMMA MoverKeeps == ASSUME MoverInv, MoverNext PROVE MoverInv'
<1> USE DEF Opening, Making, Undoing, Mishaps, Step, Quietly, Abandon, TakeBack, MoverInv, SourceIsHeld,
       MarkedLast, ClaimIsMovers, HashesHold, AttributeKept, CopyStands, NothingLeft, NoTarget
<1>0. MoverTypeOK'
  BY MoverTypes
<1>1. CASE OpenSource
  BY <1>0, <1>1, ZenonT(60) DEF OpenSource, MoverTypeOK, HashesAgree, HashesMatch, SourceState
<1>2. CASE VerifySource
  BY <1>0, <1>2, ZenonT(60) DEF VerifySource, MoverTypeOK, HashesAgree, HashesMatch, SourceState
<1>3. CASE CreateTarget
  BY <1>0, <1>3, ZenonT(60) DEF CreateTarget, MoverTypeOK, HashesAgree, HashesMatch, SourceState
<1>4. CASE DuplicateTarget
  BY <1>0, <1>4, ZenonT(60) DEF DuplicateTarget, MoverTypeOK, HashesAgree, HashesMatch, SourceState
<1>5. CASE CopySource
  BY <1>0, <1>5, ZenonT(60) DEF CopySource, MoverTypeOK, HashesAgree, HashesMatch, SourceState
<1>6. CASE CompareCopy
  BY <1>0, <1>6, ZenonT(60) DEF CompareCopy, MoverTypeOK, HashesAgree, HashesMatch, SourceState
<1>7. CASE RehashBoth
  BY <1>0, <1>7, ZenonT(60) DEF RehashBoth, MoverTypeOK, HashesAgree, HashesMatch, SourceState
<1>8. CASE SetTargetMetadata
  <2>1. CASE TakeBack("metadata")
    BY <1>0, <2>1 DEF MoverTypeOK
  <2>2. CASE ~TakeBack("metadata")
    <3>1. /\ mover = "metadata" /\ mover' = "delete"
          /\ made' = [made EXCEPT !.readonly = original.readonly]
          /\ UNCHANGED <<held, original, sharer, touched, mishaps>>
      BY <1>8, <2>2 DEF SetTargetMetadata
    <3>2. /\ made'.readonly = original.readonly /\ made'.owner = made.owner
          /\ made'.bytes = made.bytes /\ made'.marked = made.marked
      BY <3>1 DEF MoverTypeOK
    <3> QED
      BY <1>0, <3>1, <3>2
  <2> QED
    BY <2>1, <2>2
<1>9. CASE ClearReadOnly
  BY <1>0, <1>9, ZenonT(60) DEF ClearReadOnly, MoverTypeOK, HashesAgree, HashesMatch, SourceState
<1>10. CASE MarkSource
  <2>1. mover = "mark" /\ UNCHANGED <<held, made, sharer, touched>> /\ ~original.marked
        /\ original.there
    BY <1>10 DEF MarkSource
  <2>2. CASE mover' = "closing"
    <3>1. mishaps' = mishaps /\ original' = [original EXCEPT !.marked = TRUE]
      BY <1>10, <2>2 DEF MarkSource
    <3>2. /\ original'.marked /\ original'.there = original.there
          /\ original'.bytes = original.bytes /\ original'.was = original.was
          /\ original'.readonly = original.readonly
      BY <3>1 DEF MoverTypeOK
    <3> QED
      BY <1>0, <2>1, <2>2, <3>1, <3>2
  <2>3. CASE mover' = "restore" /\ mishaps' = mishaps
    <3>1. original' = [original EXCEPT !.readonly = original.was] \/ original' = original
      BY <1>10, <2>3 DEF MarkSource
    <3> QED
      BY <1>0, <1>10, <2>1, <2>3, <3>1, ZenonT(60) DEF MarkSource, MoverTypeOK
  <2>4. CASE mover' = "restore" /\ mishaps' # mishaps
    <3>1. original' = original /\ mishaps' = mishaps \union {"left writable"}
      BY <1>10, <2>4 DEF MarkSource
    <3> QED
      BY <1>0, <2>1, <2>4, <3>1
  <2> QED
    BY <1>10, <2>2, <2>3, <2>4 DEF MarkSource
<1>11. CASE InterruptMove
  <2>1. /\ mover = "closing" /\ original.marked /\ made.owner = "mover" /\ ~made.marked
        /\ mover' = "restore" /\ mishaps' = mishaps \union {"interrupted"}
        /\ UNCHANGED <<held, original, made, sharer, touched>>
    BY <1>11 DEF InterruptMove
  <2> QED
    BY <1>0, <2>1
<1>12. CASE RestoreWritable
  BY <1>0, <1>12, ZenonT(60) DEF RestoreWritable, MoverTypeOK, HashesAgree, HashesMatch, SourceState
<1>13. CASE RemoveTarget
  BY <1>0, <1>13, ZenonT(60) DEF RemoveTarget, MoverTypeOK, HashesAgree, HashesMatch, SourceState
<1>14. CASE CloseHandles
  BY <1>0, <1>14, ZenonT(60) DEF CloseHandles, MoverTypeOK, HashesAgree, HashesMatch, SourceState
<1>15. CASE SharerWrites
  BY <1>0, <1>15, ZenonT(60) DEF SharerWrites, MoverTypeOK, HashesAgree, HashesMatch, SourceState
<1>16. CASE SharerOpens
  BY <1>0, <1>16, ZenonT(60) DEF SharerOpens, MoverTypeOK, HashesAgree, HashesMatch, SourceState
<1>17. CASE SharerLetsGo
  BY <1>0, <1>17, ZenonT(60) DEF SharerLetsGo, MoverTypeOK, HashesAgree, HashesMatch, SourceState
<1>18. CASE OtherTakesTarget
  BY <1>0, <1>18, ZenonT(60) DEF OtherTakesTarget, MoverTypeOK, HashesAgree, HashesMatch, SourceState
<1> QED
  BY <1>1, <1>2, <1>3, <1>4, <1>5, <1>6, <1>7, <1>8, <1>9, <1>10, <1>11, <1>12, <1>13, <1>14, <1>15, <1>16, <1>17, <1>18 DEF MoverNext

\* The file is never lost and the mover leaves nothing of its own beside it,
\* whichever call fails and wherever the process dies.
THEOREM WindowsMoveStaysSafe == MoverSpec => []WindowsMoveIsSafe
<1>1. MoverInv /\ [MoverNext]_moverVars => MoverInv'
  <2> SUFFICES ASSUME MoverInv, [MoverNext]_moverVars
               PROVE  MoverInv'
    OBVIOUS
  <2>1. CASE UNCHANGED moverVars
    <3>1. /\ mover' = mover /\ held' = held /\ original' = original /\ made' = made
          /\ sharer' = sharer /\ touched' = touched /\ mishaps' = mishaps
      BY <2>1 DEF moverVars
    <3>2. MoverTypeOK'
      <4>1. /\ mover' \in Opening \cup Making \cup Undoing \cup {"closing", "ended"}
            /\ held' \in SUBSET {"parents", "source", "target"}
            /\ sharer' \in {"none", "open", "mapped"} /\ mishaps' \in SUBSET Mishaps
        BY <3>1 DEF MoverInv, MoverTypeOK
      <4>2. touched' \in BOOLEAN
        BY <3>1, Zenon DEF MoverInv, MoverTypeOK
      <4>3. /\ original' \in [there : BOOLEAN, bytes : {"reviewed", "edited"},
                              readonly : BOOLEAN, marked : BOOLEAN, was : BOOLEAN]
            /\ made' \in [owner : {"none", "mover", "other"},
                          bytes : {"none", "partial", "reviewed", "edited", "other"},
                          readonly : BOOLEAN, marked : BOOLEAN]
        BY <3>1 DEF MoverInv, MoverTypeOK
      <4> QED
        BY <4>1, <4>2, <4>3 DEF MoverTypeOK
    <3>3. SourceIsHeld' /\ MarkedLast' /\ ClaimIsMovers' /\ HashesHold'
      BY <3>1 DEF MoverInv, SourceIsHeld, MarkedLast, ClaimIsMovers, HashesHold
    <3>4. AttributeKept' /\ CopyStands' /\ NothingLeft'
      BY <3>1 DEF MoverInv, AttributeKept, CopyStands, NothingLeft
    <3> QED
      BY <3>2, <3>3, <3>4 DEF MoverInv
  <2> QED
    BY <2>1, MoverKeeps
<1>2. MoverInv => WindowsMoveIsSafe
  <2> SUFFICES ASSUME MoverInv
               PROVE  WindowsMoveIsSafe
    OBVIOUS
  <2>1. ASSUME ~original.there \/ original.marked, mishaps \cap {"interrupted", "late"} = {}
        PROVE  /\ made.owner = "mover" /\ ~made.marked
               /\ made.bytes = original.bytes /\ made.readonly = original.was
    BY <2>1 DEF MoverInv, MarkedLast, CopyStands
  <2>2. ASSUME mover = "ended", original.there
        PROVE  /\ made.owner = "mover" => mishaps \cap {"left claim", "died"} # {}
               /\ original.readonly # original.was =>
                     mishaps \cap {"left writable", "died"} # {}
    BY <2>2 DEF MoverInv, MarkedLast, NothingLeft, AttributeKept
  <2> QED
    BY <2>1, <2>2 DEF WindowsMoveIsSafe
<1> QED
  BY <1>1, <1>2, MoverStart, PTL DEF MoverSpec

-----------------------------------------------------------------------------
(* The reads. *)

States == {NoState} \cup (Nat \X Nat) \cup {<<1>>, <<2>>}

FileSteps ==
    {"chain", "list", "project", "open", "absent", "read", "parents", "leaf", "done", "failed",
     "missing"}
ListSteps == {"chain", "enter", "names", "stat", "again", "left", "done", "failed"}

ReadType ==
    [kind : FileReaders \cup Listers, pc : FileSteps \cup ListSteps, dir : Dirs, file : Nat,
     listed : States, seen : SUBSET States, part : {"first", "last"}, attempt : Nat]

ReadTypeOK ==
    /\ dir \in Dirs /\ swaps \in Nat
    /\ files \in Nat /\ 2 <= files /\ files <= MaxFiles
    /\ entry \in [Dirs -> 0 .. files]
    /\ writes \in [1 .. MaxFiles -> Nat]
    /\ read \in ReadType
    /\ read.pc \in (IF read.kind \in FileReaders THEN FileSteps ELSE ListSteps)
    /\ read.pc \in {"project", "read"} => read.file \in 1 .. files
    /\ read.pc = "project" => read.kind = "windows"
    /\ read.pc \in {"absent", "missing"} => read.kind = "config"
    /\ read.pc = "open" => read.kind # "windows"

\* No file has a name in both directories.
FilesDiffer == entry[1] = entry[2] => entry[1] = NoFile

\* Readers that compare the file they opened with the one they listed: what they
\* have seen of it is no older than that, and once the states have been compared
\* it is that.
SnapshotHolds ==
    read.kind \in {"content", "fallback", "windows", "config"} =>
        /\ read.pc \in {"chain", "list", "open", "absent", "project"} => read.seen = {}
        /\ read.pc \in {"project", "read"} =>
              \E w \in Nat : /\ read.listed = <<read.file, w>>
                             /\ w <= writes[read.file]
                             /\ \A s \in read.seen : \E v \in Nat :
                                   s = <<read.file, v>> /\ w <= v /\ v <= writes[read.file]
        /\ read.pc \in {"parents", "leaf", "done"} => read.seen = {read.listed}

\* An audio file is opened by path, twice. As long as the path still shows what was
\* listed, nothing else has been seen, unless the directory was swapped twice.
AudioHolds ==
    read.kind = "audio" =>
        /\ read.pc \in {"chain", "list", "open", "read", "leaf", "done", "failed"}
        /\ read.pc \in {"chain", "list"} => read.seen = {}
        /\ read.pc \in {"open", "read", "leaf"} =>
              \E f \in 1 .. files, w \in Nat :
                  /\ read.listed = <<f, w>> /\ w <= writes[f]
                  /\ swaps = 0 => entry[3 - dir] # f
                  /\ swaps <= 1 /\ entry[dir] = f /\ writes[f] = w =>
                        /\ read.seen \subseteq {read.listed}
                        /\ read.pc = "read" => read.file = f
        /\ read.pc = "leaf" => read.seen # {}
        /\ read.pc = "done" => read.seen = {read.listed} \/ swaps > 1

\* A directory that is where it was found has been there all the time, unless it
\* was swapped twice.
ListingHolds ==
    read.kind \in Listers =>
        /\ read.pc = "chain" => read.seen = {}
        /\ read.pc \in {"enter", "names", "stat", "again", "left"} =>
              /\ read.listed = <<read.dir>>
              /\ dir # read.dir => swaps >= 1
              /\ read.kind = "listing" \/ (swaps <= 1 /\ dir = read.dir) =>
                    read.seen \subseteq {read.listed}
        /\ read.pc \in {"stat", "again", "left"} => read.seen # {}
        /\ read.pc = "done" =>
              read.seen = {read.listed} \/ (read.kind # "listing" /\ swaps > 1)

ReadInv == ReadTypeOK /\ FilesDiffer /\ SnapshotHolds /\ AudioHolds /\ ListingHolds

\* The state of a name or of a file is one of those a reader can carry.
LEMMA StatesOf ==
    ASSUME ReadTypeOK
    PROVE  /\ \A f \in 0 .. files : StateOf(f) \in States
           /\ \A f \in 1 .. files : StateOf(f) = <<f, writes[f]>> /\ writes[f] \in Nat
           /\ \A d \in Dirs : entry[d] \in 0 .. files /\ StateIn(d) \in States
<1> USE DEF ReadTypeOK
<1>1. \A f \in 1 .. files : f \in 1 .. MaxFiles /\ f # NoFile /\ f \in Nat
  BY FilesAssumption DEF NoFile
<1>2. \A f \in 1 .. files : StateOf(f) = <<f, writes[f]>> /\ writes[f] \in Nat
  BY <1>1 DEF StateOf
<1>3. \A f \in 1 .. files : StateOf(f) \in Nat \X Nat
  BY <1>1, <1>2
<1>4. StateOf(0) = NoState
  BY DEF StateOf, NoFile
<1>5. \A f \in 0 .. files : f = 0 \/ f \in 1 .. files
  OBVIOUS
<1>6. \A f \in 0 .. files : StateOf(f) \in States
  BY <1>3, <1>4, <1>5 DEF States
<1> QED
  BY <1>2, <1>6 DEF StateIn

\* Reading starts in a world of two files, one in each directory.
LEMMA ReadStart == ReadInit => ReadInv
<1> SUFFICES ASSUME ReadInit
             PROVE  ReadInv
  OBVIOUS
<1>1. PICK kind \in FileReaders \cup Listers :
         read = [kind |-> kind, pc |-> "chain", dir |-> 1, file |-> NoFile, listed |-> NoState,
                 seen |-> {}, part |-> "first", attempt |-> 1]
  BY DEF ReadInit
<1>2. read \in ReadType
  BY <1>1 DEF ReadType, FileSteps, States, Dirs, NoFile
<1>3. read.pc = "chain" /\ read.seen = {}
  BY <1>1
<1>4. /\ dir \in Dirs /\ swaps \in Nat /\ files \in Nat /\ 2 <= files /\ files <= MaxFiles
      /\ entry \in [Dirs -> 0 .. files] /\ writes \in [1 .. MaxFiles -> Nat]
  BY FilesAssumption DEF ReadInit, Dirs
<1>5. ReadTypeOK
  BY <1>2, <1>3, <1>4 DEF ReadTypeOK, FileSteps, ListSteps
<1>6. FilesDiffer
  BY DEF ReadInit, FilesDiffer, Dirs, NoFile
<1> QED
  BY <1>3, <1>5, <1>6 DEF ReadInv, SnapshotHolds, AudioHolds, ListingHolds

\* What the reader moves to leaves everything else of it as it was.
LEMMA ReaderMoves ==
    ASSUME ReadTypeOK, NEW step \in FileSteps \cup ListSteps, ReaderTo(step)
    PROVE  /\ read' \in ReadType /\ read'.pc = step
           /\ read'.kind = read.kind /\ read'.dir = read.dir /\ read'.file = read.file
           /\ read'.listed = read.listed /\ read'.seen = read.seen /\ read'.part = read.part
BY DEF ReaderTo, ReadTypeOK, ReadType

\* What the other programs do stays within the types and the two directories.
LEMMA WorldTypes ==
    ASSUME ReadTypeOK, FilesDiffer, RewriteFile \/ ReplaceFile \/ RemoveFile \/ SwapDirectory
    PROVE  ReadTypeOK' /\ FilesDiffer'
<1> USE FilesAssumption DEF ReadTypeOK, FilesDiffer, Dirs, NoFile
<1>1. read' = read
  BY DEF RewriteFile, ReplaceFile, RemoveFile, SwapDirectory
<1>2. CASE RewriteFile
  BY <1>1, <1>2 DEF RewriteFile
<1>3. CASE ReplaceFile
  <2>1. files' = files + 1 /\ files < MaxFiles /\ UNCHANGED <<dir, writes, swaps>>
    BY <1>3 DEF ReplaceFile
  <2>2. PICK d \in Dirs : entry' = [entry EXCEPT ![d] = files']
    BY <1>3 DEF ReplaceFile
  <2>3. entry' \in [Dirs -> 0 .. files']
    BY <2>1, <2>2
  <2>4. FilesDiffer'
    BY <2>1, <2>2
  <2> QED
    BY <1>1, <2>1, <2>3, <2>4
<1>4. CASE RemoveFile
  BY <1>1, <1>4 DEF RemoveFile
<1>5. CASE SwapDirectory
  BY <1>1, <1>5 DEF SwapDirectory
<1> QED
  BY <1>2, <1>3, <1>4, <1>5

\* Nothing the other programs do makes an old state current again.
LEMMA WorldKeeps ==
    ASSUME ReadInv, RewriteFile \/ ReplaceFile \/ RemoveFile \/ SwapDirectory
    PROVE  ReadInv'
<1>1. ReadTypeOK /\ FilesDiffer /\ SnapshotHolds /\ AudioHolds /\ ListingHolds
  BY DEF ReadInv
<1>2. ReadTypeOK' /\ FilesDiffer'
  BY <1>1, WorldTypes
<1>3. read' = read
  BY DEF RewriteFile, ReplaceFile, RemoveFile, SwapDirectory
<1>4. /\ dir \in Dirs /\ swaps \in Nat /\ files \in Nat /\ files <= MaxFiles
      /\ entry \in [Dirs -> 0 .. files] /\ writes \in [1 .. MaxFiles -> Nat]
      /\ 3 - dir \in Dirs /\ 3 - dir # dir /\ 3 - (3 - dir) = dir
  BY <1>1 DEF ReadTypeOK, Dirs
<1>5. \A f \in 1 .. files : f \in 1 .. files' /\ f \in 1 .. MaxFiles
                          /\ writes[f] \in Nat /\ writes'[f] \in Nat /\ writes[f] <= writes'[f]
  <2>1. \A f \in 1 .. files : f \in 1 .. MaxFiles /\ writes[f] \in Nat
    BY <1>4, FilesAssumption
  <2>2. files' \in {files, files + 1}
    BY DEF RewriteFile, ReplaceFile, RemoveFile, SwapDirectory
  <2>3. (1 .. files) \subseteq (1 .. files')
    BY <1>4, <2>2
  <2>4. CASE RewriteFile
    <3>1. PICK g : writes' = [writes EXCEPT ![g] = writes[g] + 1]
      BY <2>4 DEF RewriteFile
    <3>2. \A f \in 1 .. files : writes'[f] \in {writes[f], writes[f] + 1}
      BY <1>4, <2>1, <3>1
    <3> QED
      BY <2>1, <2>3, <3>2
  <2>5. CASE ReplaceFile \/ RemoveFile \/ SwapDirectory
    <3>1. writes' = writes
      BY <2>5 DEF ReplaceFile, RemoveFile, SwapDirectory
    <3> QED
      BY <2>1, <2>3, <3>1
  <2> QED
    BY <2>4, <2>5
<1>6. /\ swaps \in Nat /\ swaps' \in Nat
      /\ (swaps' = swaps /\ dir' = dir) \/ (swaps' = swaps + 1 /\ dir' = 3 - dir)
  <2>1. RewriteFile \/ ReplaceFile \/ RemoveFile => swaps' = swaps /\ dir' = dir
    BY DEF RewriteFile, ReplaceFile, RemoveFile
  <2>2. SwapDirectory => swaps' = swaps + 1 /\ dir' = 3 - dir
    BY DEF SwapDirectory
  <2> QED
    BY <1>4, <2>1, <2>2
<1>7. SnapshotHolds'
  <2> SUFFICES ASSUME read.kind \in {"content", "fallback", "windows", "config"},
                      read.pc \in {"project", "read"}
               PROVE  (\E w \in Nat : /\ read.listed = <<read.file, w>>
                             /\ w <= writes[read.file]
                             /\ \A s \in read.seen : \E v \in Nat :
                                   s = <<read.file, v>> /\ w <= v /\ v <= writes[read.file])'
    BY <1>1, <1>3 DEF SnapshotHolds
  <2>1. read.file \in 1 .. files
    BY <1>1 DEF ReadTypeOK
  <2>2. PICK w \in Nat : /\ read.listed = <<read.file, w>>
                        /\ w <= writes[read.file]
                        /\ \A s \in read.seen : \E v \in Nat :
                              s = <<read.file, v>> /\ w <= v /\ v <= writes[read.file]
    BY <1>1 DEF SnapshotHolds
  <2>3. \A v \in Nat : v <= writes[read.file] => v <= writes'[read.file]
    BY <1>5, <2>1
  <2>4. w <= writes'[read.file]
    BY <2>2, <2>3
  <2>5. \A s \in read.seen : \E v \in Nat :
           s = <<read.file, v>> /\ w <= v /\ v <= writes'[read.file]
    BY <2>2, <2>3
  <2> QED
    BY <1>3, <2>2, <2>4, <2>5
<1>8. AudioHolds'
  <2>1. CASE read.kind # "audio" \/ read.pc \notin {"open", "read", "leaf"}
    BY <1>1, <1>3, <1>6, <2>1 DEF AudioHolds
  <2>2. CASE read.kind = "audio" /\ read.pc \in {"open", "read", "leaf"}
    <3>1. PICK f \in 1 .. files, w \in Nat :
             /\ read.listed = <<f, w>> /\ w <= writes[f]
             /\ swaps = 0 => entry[3 - dir] # f
             /\ swaps <= 1 /\ entry[dir] = f /\ writes[f] = w =>
                   /\ read.seen \subseteq {read.listed}
                   /\ read.pc = "read" => read.file = f
      BY <1>1, <2>2 DEF AudioHolds
    <3>2. f \in 1 .. files' /\ w <= writes'[f]
      BY <1>5, <3>1
    <3>3. swaps' = 0 => entry'[3 - dir'] # f
      <4>1. CASE ReplaceFile
        <5>1. files' = files + 1 /\ f # files + 1
          BY <1>4, <4>1 DEF ReplaceFile
        <5>2. PICK d \in Dirs : entry' = [entry EXCEPT ![d] = files']
          BY <4>1 DEF ReplaceFile
        <5> QED
          BY <1>4, <1>6, <3>1, <4>1, <5>1, <5>2 DEF ReplaceFile
      <4>2. CASE RemoveFile
        BY <1>4, <3>1, <4>2 DEF RemoveFile, NoFile
      <4>3. CASE RewriteFile
        BY <3>1, <4>3 DEF RewriteFile
      <4>4. CASE SwapDirectory
        BY <1>4, <4>4 DEF SwapDirectory
      <4> QED
        BY <4>1, <4>2, <4>3, <4>4
    <3>4. ASSUME swaps' <= 1, entry'[dir'] = f, writes'[f] = w
          PROVE  swaps <= 1 /\ entry[dir] = f /\ writes[f] = w
      <4>1. CASE ReplaceFile
        <5>1. files' = files + 1 /\ f # files + 1 /\ UNCHANGED <<dir, writes, swaps>>
          BY <1>4, <4>1 DEF ReplaceFile
        <5>2. PICK d \in Dirs : entry' = [entry EXCEPT ![d] = files']
          BY <4>1 DEF ReplaceFile
        <5>3. entry'[dir] = entry[dir] \/ entry'[dir] = files + 1
          BY <1>4, <5>1, <5>2
        <5> QED
          BY <3>4, <5>1, <5>3
      <4>2. CASE RemoveFile
        BY <1>4, <3>4, <4>2 DEF RemoveFile, NoFile
      <4>3. CASE RewriteFile
        <5>1. writes[f] = w
          BY <1>4, <1>5, <3>1, <3>4, <4>3 DEF RewriteFile
        <5> QED
          BY <3>4, <4>3, <5>1 DEF RewriteFile
      <4>4. CASE SwapDirectory
        BY <1>4, <3>1, <3>4, <4>4 DEF SwapDirectory
      <4> QED
        BY <4>1, <4>2, <4>3, <4>4
    <3>5. swaps' <= 1 /\ entry'[dir'] = f /\ writes'[f] = w =>
             /\ read.seen \subseteq {read.listed}
             /\ read.pc = "read" => read.file = f
      BY <3>1, <3>4
    <3>6. (\E g \in 1 .. files, v \in Nat :
              /\ read.listed = <<g, v>> /\ v <= writes[g]
              /\ swaps = 0 => entry[3 - dir] # g
              /\ swaps <= 1 /\ entry[dir] = g /\ writes[g] = v =>
                    /\ read.seen \subseteq {read.listed}
                    /\ read.pc = "read" => read.file = g)'
      BY <1>3, <3>1, <3>2, <3>3, <3>5
    <3> QED
      BY <1>1, <1>3, <2>2, <3>6 DEF AudioHolds
  <2> QED
    BY <2>1, <2>2
<1>9. ListingHolds'
  <2>1. swaps' \in Nat /\ (swaps <= swaps')
    BY <1>6
  <2>2. ASSUME swaps' <= 1, dir' = read.dir, dir # read.dir => swaps >= 1
        PROVE  swaps <= 1 /\ dir = read.dir
    BY <1>4, <1>6, <2>2
  <2>3. ASSUME dir # read.dir => swaps >= 1, dir' # read.dir
        PROVE  swaps' >= 1
    BY <1>4, <1>6, <2>3
  <2> QED
    BY <1>1, <1>3, <1>4, <2>1, <2>2, <2>3 DEF ListingHolds
<1> QED
  BY <1>2, <1>7, <1>8, <1>9 DEF ReadInv

\* A read that fails, or finds no settings, promises nothing more.
LEMMA FailureKeeps ==
    ASSUME ReadInv, UNCHANGED filesVars,
           ReadFails \/ (read.kind = "config" /\ ReaderTo("missing"))
    PROVE  ReadInv'
<1>1. ReadTypeOK /\ FilesDiffer
  BY DEF ReadInv
<1>2. /\ read' \in ReadType /\ read'.kind = read.kind
      /\ read'.pc = "failed" \/ (read'.pc = "missing" /\ read.kind = "config")
  BY <1>1, ReaderMoves DEF ReadFails, FileSteps
<1>3. UNCHANGED <<dir, entry, writes, files, swaps>>
  BY DEF filesVars
<1>4. ReadTypeOK' /\ FilesDiffer'
  BY <1>1, <1>2, <1>3 DEF ReadTypeOK, FilesDiffer, FileSteps, ListSteps, FileReaders
<1>5. SnapshotHolds' /\ AudioHolds' /\ ListingHolds'
  BY <1>2 DEF SnapshotHolds, AudioHolds, ListingHolds, Listers
<1> QED
  BY <1>4, <1>5 DEF ReadInv

\* What changed while it was read is read again from the start, or given up.
LEMMA UnstableKeeps ==
    ASSUME ReadInv, UNCHANGED filesVars, Unstable
    PROVE  ReadInv'
<1>1. CASE read.kind = "config" /\ read.attempt < ReadAttempts
  <2>1. ReadTypeOK /\ FilesDiffer /\ read \in ReadType
    BY DEF ReadInv, ReadTypeOK
  <2>2. read' = [read EXCEPT !.pc = "open", !.attempt = @ + 1, !.seen = {}]
    BY <1>1 DEF Unstable
  <2>3. /\ read' \in ReadType /\ read'.kind = "config" /\ read'.pc = "open" /\ read'.seen = {}
    <3>1. read.attempt + 1 \in Nat
      BY <2>1 DEF ReadType
    <3> QED
      BY <1>1, <2>1, <2>2, <3>1 DEF ReadType, FileSteps
  <2>4. UNCHANGED <<dir, entry, writes, files, swaps>>
    BY DEF filesVars
  <2>5. ReadTypeOK' /\ FilesDiffer'
    BY <2>1, <2>3, <2>4 DEF ReadTypeOK, FilesDiffer, FileSteps, FileReaders
  <2>6. SnapshotHolds' /\ AudioHolds' /\ ListingHolds'
    BY <2>3 DEF SnapshotHolds, AudioHolds, ListingHolds, Listers
  <2> QED
    BY <2>5, <2>6 DEF ReadInv
<1>2. CASE ~(read.kind = "config" /\ read.attempt < ReadAttempts)
  BY <1>2, FailureKeeps DEF Unstable
<1> QED
  BY <1>1, <1>2

\* Opening the directory and the file: what is listed is what is there.
LEMMA OpeningKeeps ==
    ASSUME ReadInv, OpenChain \/ ListFile \/ OpenFile \/ ConfirmAbsent \/ ProjectState
    PROVE  ReadInv'
<1>1. /\ ReadTypeOK /\ FilesDiffer /\ SnapshotHolds /\ AudioHolds /\ ListingHolds
      /\ read \in ReadType /\ dir \in Dirs /\ read.dir \in Dirs /\ Looked \in Dirs
      /\ files \in Nat
  BY DEF ReadInv, ReadTypeOK, ReadType, Looked
<1>2. /\ UNCHANGED filesVars /\ UNCHANGED <<dir, entry, writes, files, swaps>>
  BY DEF filesVars, OpenChain, ListFile, OpenFile, ConfirmAbsent, ProjectState
<1>3. read.kind \in FileReaders => read.pc \in FileSteps
  BY <1>1 DEF ReadTypeOK
<1>4. \A d \in Dirs : entry[d] # NoFile =>
         /\ entry[d] \in 1 .. files /\ StateIn(d) = <<entry[d], writes[entry[d]]>>
         /\ writes[entry[d]] \in Nat /\ StateIn(d) \in States /\ entry[d] \in Nat
  BY <1>1, StatesOf DEF StateIn, NoFile
<1>5. ASSUME read' \in ReadType, read'.kind = read.kind, read.kind \in FileReaders,
             read'.pc \in FileSteps,
             read'.pc \in {"project", "read"} => read'.file \in 1 .. files,
             read'.pc = "project" => read.kind = "windows",
             read'.pc \in {"absent", "missing"} => read.kind = "config",
             read'.pc = "open" => read.kind # "windows"
      PROVE  ReadTypeOK' /\ FilesDiffer' /\ ListingHolds'
  BY <1>1, <1>2, <1>5 DEF ReadTypeOK, FilesDiffer, ListingHolds, FileReaders, Listers
<1>6. CASE OpenChain
  <2>1. read' = [read EXCEPT !.dir = dir, !.pc = IF read.kind = "config" THEN "open" ELSE "list"]
        /\ read.kind \in FileReaders /\ read.pc = "chain"
    BY <1>6 DEF OpenChain, At
  <2>2. /\ read' \in ReadType /\ read'.kind = read.kind /\ read'.seen = read.seen
        /\ read'.pc = (IF read.kind = "config" THEN "open" ELSE "list")
    BY <1>1, <2>1 DEF ReadType, FileSteps
  <2>3. ReadTypeOK' /\ FilesDiffer' /\ ListingHolds'
    BY <1>5, <2>1, <2>2 DEF FileSteps
  <2>4. read.seen = {}
    BY <1>1, <2>1 DEF SnapshotHolds, AudioHolds, FileReaders
  <2>5. SnapshotHolds' /\ AudioHolds'
    BY <2>2, <2>4 DEF SnapshotHolds, AudioHolds
  <2> QED
    BY <2>3, <2>5 DEF ReadInv
<1>7. CASE ListFile /\ entry[Looked] = NoFile
  BY <1>2, <1>7, FailureKeeps DEF ListFile
<1>8. CASE ListFile /\ entry[Looked] # NoFile
  <2> DEFINE f == entry[Looked]
  <2>1. read' = [read EXCEPT !.pc = IF read.kind = "windows" THEN "project" ELSE "open",
                             !.file = IF read.kind = "windows" THEN f ELSE @,
                             !.listed = StateIn(Looked)]
        /\ read.pc = "list"
    BY <1>8 DEF ListFile, At
  <2>2. read.kind \in FileReaders
    BY <1>1, <2>1 DEF ReadTypeOK, ListSteps
  <2>3. /\ f \in 1 .. files /\ StateIn(Looked) = <<f, writes[f]>>
        /\ writes[f] \in Nat /\ StateIn(Looked) \in States /\ f \in Nat
    BY <1>1, <1>4, <1>8
  <2> HIDE DEF f
  <2>4. /\ read' \in ReadType /\ read'.kind = read.kind /\ read'.seen = read.seen
        /\ read'.pc = (IF read.kind = "windows" THEN "project" ELSE "open")
        /\ read.kind = "windows" => read'.file = f
        /\ read'.listed = <<f, writes[f]>>
    BY <1>1, <2>1, <2>3 DEF ReadType, FileSteps
  <2>5. ReadTypeOK' /\ FilesDiffer' /\ ListingHolds'
    BY <1>5, <2>2, <2>3, <2>4 DEF FileSteps
  <2>6. read.seen = {}
    BY <1>1, <2>1, <2>2 DEF SnapshotHolds, AudioHolds, FileReaders
  <2>7. SnapshotHolds'
    <3>1. read.kind = "windows" =>
             \E w \in Nat : read'.listed = <<read'.file, w>> /\ w <= writes'[read'.file]
      BY <1>2, <2>3, <2>4
    <3> QED
      BY <2>4, <2>6, <3>1 DEF SnapshotHolds
  <2>8. AudioHolds'
    <3>1. CASE read.kind = "audio"
      <4>1. Looked = dir /\ f = entry[dir]
        BY <3>1 DEF Looked, f
      <4>2. entry[3 - dir] # f
        BY <1>1, <1>8, <4>1 DEF FilesDiffer, Dirs, f
      <4>3. read'.pc = "open" /\ read'.seen = {}
        BY <2>4, <2>6, <3>1
      <4>4. f \in 1 .. files' /\ writes'[f] \in Nat /\ writes'[f] <= writes'[f]
            /\ read'.listed = <<f, writes'[f]>> /\ entry'[3 - dir'] # f
        BY <1>2, <2>3, <2>4, <4>2
      <4> QED
        BY <4>3, <4>4 DEF AudioHolds
    <3>2. CASE read.kind # "audio"
      BY <2>4, <3>2 DEF AudioHolds
    <3> QED
      BY <3>1, <3>2
  <2> QED
    BY <2>5, <2>7, <2>8 DEF ReadInv
<1>9. CASE OpenFile /\ entry[Looked] = NoFile
  <2>1. CASE read.kind # "config"
    BY <1>2, <1>9, <2>1, FailureKeeps DEF OpenFile
  <2>2. CASE read.kind = "config"
    <3>1. ReaderTo("absent") /\ read.pc = "open"
      BY <1>9, <2>2 DEF OpenFile, At
    <3>2. /\ read' \in ReadType /\ read'.kind = read.kind /\ read'.seen = read.seen
          /\ read'.pc = "absent"
      BY <1>1, <3>1, ReaderMoves DEF FileSteps
    <3>3. SnapshotHolds' /\ AudioHolds'
      BY <1>1, <2>2, <3>1, <3>2 DEF SnapshotHolds, AudioHolds
    <3> QED
      BY <1>5, <2>2, <3>2, <3>3 DEF ReadInv, FileSteps, FileReaders
  <2> QED
    BY <2>1, <2>2
<1>10. CASE OpenFile /\ entry[Looked] # NoFile
  <2>1. CASE read.kind \in {"content", "fallback"} /\ StateIn(Looked) # read.listed
    BY <1>2, <1>10, <2>1, FailureKeeps DEF OpenFile
  <2>2. CASE ~(read.kind \in {"content", "fallback"} /\ StateIn(Looked) # read.listed)
    <3> DEFINE f == entry[Looked]
    <3>1. read' = [read EXCEPT !.pc = "read", !.file = f,
                      !.listed = IF read.kind = "config" THEN StateIn(Looked) ELSE @]
          /\ read.pc = "open"
      BY <1>10, <2>2 DEF OpenFile, At
    <3>2. read.kind \in FileReaders
      BY <1>1, <3>1 DEF ReadTypeOK, ListSteps
    <3>3. /\ f \in 1 .. files /\ StateIn(Looked) = <<f, writes[f]>>
          /\ writes[f] \in Nat /\ StateIn(Looked) \in States /\ f \in Nat
      BY <1>1, <1>4, <1>10
    <3> HIDE DEF f
    <3>4. /\ read' \in ReadType /\ read'.kind = read.kind /\ read'.seen = read.seen
          /\ read'.pc = "read" /\ read'.file = f
          /\ read'.listed = (IF read.kind = "config" THEN StateIn(Looked) ELSE read.listed)
      BY <1>1, <3>1, <3>3 DEF ReadType, FileSteps
    <3>5. ReadTypeOK' /\ FilesDiffer' /\ ListingHolds'
      BY <1>5, <3>2, <3>3, <3>4 DEF FileSteps
    <3>6. SnapshotHolds'
      <4> SUFFICES ASSUME read.kind \in {"content", "fallback", "windows", "config"}
                   PROVE  read.seen = {} /\ (\E w \in Nat : read'.listed = <<read'.file, w>>
                                                           /\ w <= writes'[read'.file])
        BY <3>4 DEF SnapshotHolds
      <4>1. read.seen = {}
        BY <1>1, <3>1 DEF SnapshotHolds
      <4>2. read.kind # "windows"
        BY <1>1, <3>1 DEF ReadTypeOK
      <4>3. read'.listed = <<f, writes[f]>>
        BY <2>2, <3>3, <3>4, <4>2
      <4> QED
        BY <1>2, <3>3, <3>4, <4>1, <4>3
    <3>7. AudioHolds'
      <4> SUFFICES ASSUME read.kind = "audio"
                   PROVE  AudioHolds'
        BY <3>4 DEF AudioHolds
      <4>1. PICK g \in 1 .. files, w \in Nat :
               /\ read.listed = <<g, w>> /\ w <= writes[g]
               /\ swaps = 0 => entry[3 - dir] # g
               /\ swaps <= 1 /\ entry[dir] = g /\ writes[g] = w =>
                     read.seen \subseteq {read.listed}
        BY <1>1, <3>1 DEF AudioHolds
      <4>2. f = entry[dir]
        BY DEF Looked, f
      <4>3. read'.listed = read.listed
        BY <3>4
      <4> QED
        BY <1>2, <3>4, <4>1, <4>2, <4>3 DEF AudioHolds
    <3> QED
      BY <3>5, <3>6, <3>7 DEF ReadInv
  <2> QED
    BY <2>1, <2>2
<1>11. CASE ConfirmAbsent
  <2>1. CASE entry[dir] = NoFile
    <3>1. read.pc = "absent" /\ ReaderTo("missing")
      BY <1>11, <2>1 DEF ConfirmAbsent, At
    <3>2. read.kind = "config"
      BY <1>1, <3>1 DEF ReadTypeOK, ListSteps, FileReaders
    <3> QED
      BY <1>2, <3>1, <3>2, FailureKeeps
  <2>2. CASE entry[dir] # NoFile
    BY <1>2, <1>11, <2>2, UnstableKeeps DEF ConfirmAbsent
  <2> QED
    BY <2>1, <2>2
<1>12. CASE ProjectState
  <2>1. CASE SameState(StateOf(read.file), read.listed)
    <3>1. read.pc = "project" /\ ReaderTo("read")
      BY <1>12, <2>1 DEF ProjectState, At
    <3>2. read.kind = "windows" /\ read.file \in 1 .. files
      BY <1>1, <3>1 DEF ReadTypeOK, ListSteps, FileReaders
    <3>3. /\ read' \in ReadType /\ read'.kind = read.kind /\ read'.pc = "read"
          /\ read'.file = read.file /\ read'.listed = read.listed /\ read'.seen = read.seen
      BY <1>1, <3>1, ReaderMoves DEF FileSteps
    <3>4. SnapshotHolds' /\ AudioHolds'
      BY <1>1, <1>2, <3>1, <3>2, <3>3 DEF SnapshotHolds, AudioHolds
    <3> QED
      BY <1>5, <3>2, <3>3, <3>4 DEF ReadInv, FileSteps, FileReaders
  <2>2. CASE ~SameState(StateOf(read.file), read.listed)
    BY <1>2, <1>12, <2>2, FailureKeeps DEF ProjectState
  <2> QED
    BY <2>1, <2>2
<1> QED
  BY <1>6, <1>7, <1>8, <1>9, <1>10, <1>11, <1>12

\* Reading and checking: a state that is the listed one after the read was so
\* throughout, and all that was seen is of it.
LEMMA ReadingKeeps ==
    ASSUME ReadInv, ReadChunk \/ EndRead \/ VerifyParents \/ VerifyLeaf
    PROVE  ReadInv'
<1>1. /\ ReadTypeOK /\ FilesDiffer /\ SnapshotHolds /\ AudioHolds /\ ListingHolds
      /\ read \in ReadType /\ dir \in Dirs /\ files \in Nat /\ files <= MaxFiles
  BY DEF ReadInv, ReadTypeOK
<1>2. /\ UNCHANGED filesVars /\ UNCHANGED <<dir, entry, writes, files, swaps>>
  BY DEF filesVars, ReadChunk, EndRead, VerifyParents, VerifyLeaf
<1>3. read.kind \in FileReaders /\ read.kind \notin Listers
  BY <1>1 DEF ReadChunk, EndRead, VerifyParents, VerifyLeaf, At, ReadTypeOK, ListSteps, ReadType,
              FileReaders, Listers
<1>4. ASSUME read' \in ReadType, read'.kind = read.kind,
             read'.pc \in FileSteps \ {"project", "absent", "missing"},
             read'.pc = "read" => read'.file \in 1 .. files,
             read'.pc = "open" => read.kind # "windows"
      PROVE  ReadTypeOK' /\ FilesDiffer' /\ ListingHolds'
  BY <1>1, <1>2, <1>3, <1>4 DEF ReadTypeOK, FilesDiffer, ListingHolds
<1>5. CASE ReadChunk
  <2> DEFINE f == read.file
             chunk == StateOf(f)
  <2>1. read.pc = "read" /\ read' = [read EXCEPT !.seen = @ \cup {chunk}]
    BY <1>5 DEF ReadChunk, At
  <2>2. f \in 1 .. files /\ chunk = <<f, writes[f]>> /\ chunk \in States /\ writes[f] \in Nat
    BY <1>1, <2>1, StatesOf DEF ReadTypeOK
  <2> HIDE DEF f, chunk
  <2>3. /\ read' \in ReadType /\ read'.kind = read.kind /\ read'.pc = "read"
        /\ read'.file = read.file /\ read'.listed = read.listed
        /\ read'.seen = read.seen \cup {chunk}
    BY <1>1, <2>1, <2>2 DEF ReadType
  <2>4. ReadTypeOK' /\ FilesDiffer' /\ ListingHolds'
    BY <1>4, <2>2, <2>3 DEF FileSteps, f
  <2>5. SnapshotHolds'
    <3> SUFFICES ASSUME read.kind \in {"content", "fallback", "windows", "config"}
                 PROVE  SnapshotHolds'
      BY <2>3 DEF SnapshotHolds
    <3>1. PICK w \in Nat : /\ read.listed = <<f, w>> /\ w <= writes[f]
                          /\ \A s \in read.seen : \E v \in Nat :
                                s = <<f, v>> /\ w <= v /\ v <= writes[f]
      BY <1>1, <2>1 DEF SnapshotHolds, f
    <3>2. \A s \in read.seen \cup {chunk} : \E v \in Nat :
             s = <<f, v>> /\ w <= v /\ v <= writes[f]
      BY <2>2, <3>1
    <3> QED
      BY <1>2, <2>3, <3>1, <3>2 DEF SnapshotHolds, f
  <2>6. AudioHolds'
    <3> SUFFICES ASSUME read.kind = "audio"
                 PROVE  AudioHolds'
      BY <2>3 DEF AudioHolds
    <3>1. PICK g \in 1 .. files, w \in Nat :
             /\ read.listed = <<g, w>> /\ w <= writes[g]
             /\ swaps = 0 => entry[3 - dir] # g
             /\ swaps <= 1 /\ entry[dir] = g /\ writes[g] = w =>
                   read.seen \subseteq {read.listed} /\ f = g
      BY <1>1, <2>1 DEF AudioHolds, f
    <3>2. swaps <= 1 /\ entry[dir] = g /\ writes[g] = w =>
             read'.seen \subseteq {read.listed} /\ f = g
      BY <2>2, <2>3, <3>1
    <3> QED
      BY <1>2, <2>3, <3>1, <3>2 DEF AudioHolds, f
  <2> QED
    BY <2>4, <2>5, <2>6 DEF ReadInv
<1>6. CASE EndRead /\ read.kind = "audio"
  <2>1. /\ read.pc = "read" /\ read.seen # {}
        /\ read' = [read EXCEPT !.pc = IF read.part = "first" THEN "open" ELSE "leaf",
                               !.part = "last"]
    BY <1>6 DEF EndRead, At
  <2>2. /\ read' \in ReadType /\ read'.kind = read.kind /\ read'.pc \in {"open", "leaf"}
        /\ read'.listed = read.listed /\ read'.seen = read.seen
    BY <1>1, <2>1 DEF ReadType, FileSteps
  <2>3. ReadTypeOK' /\ FilesDiffer' /\ ListingHolds'
    BY <1>4, <1>6, <2>2 DEF FileSteps
  <2>4. PICK g \in 1 .. files, w \in Nat :
           /\ read.listed = <<g, w>> /\ w <= writes[g]
           /\ swaps = 0 => entry[3 - dir] # g
           /\ swaps <= 1 /\ entry[dir] = g /\ writes[g] = w =>
                 read.seen \subseteq {read.listed}
    BY <1>1, <1>6, <2>1 DEF AudioHolds
  <2>5. AudioHolds'
    BY <1>2, <2>1, <2>2, <2>4 DEF AudioHolds
  <2>6. SnapshotHolds'
    BY <1>6, <2>2 DEF SnapshotHolds
  <2> QED
    BY <2>3, <2>5, <2>6 DEF ReadInv
<1>7. CASE EndRead /\ read.kind # "audio"
  <2>1. read.pc = "read" /\ read.seen # {}
    BY <1>7 DEF EndRead, At
  <2>2. read.kind \in {"content", "fallback", "windows", "config"}
    BY <1>3, <1>7 DEF FileReaders
  <2>3. CASE ~SameState(read.listed, StateOf(read.file))
    BY <1>2, <1>7, <2>3, UnstableKeeps DEF EndRead
  <2>4. CASE SameState(read.listed, StateOf(read.file))
    <3> DEFINE f == read.file
               next == IF read.kind = "config" THEN "leaf" ELSE "parents"
    <3>1. ReaderTo(next)
      BY <1>7, <2>4 DEF EndRead
    <3>2. f \in 1 .. files /\ StateOf(f) = <<f, writes[f]>> /\ writes[f] \in Nat
      BY <1>1, <2>1, StatesOf DEF ReadTypeOK
    <3> HIDE DEF f
    <3>3. PICK w \in Nat : /\ read.listed = <<f, w>> /\ w <= writes[f]
                          /\ \A s \in read.seen : \E v \in Nat :
                                s = <<f, v>> /\ w <= v /\ v <= writes[f]
      BY <1>1, <2>1, <2>2 DEF SnapshotHolds, f
    <3>4. w = writes[f]
      BY <2>4, <3>2, <3>3 DEF SameState, f
    <3>5. \A s \in read.seen : s = read.listed
      <4> SUFFICES ASSUME NEW s \in read.seen
                   PROVE  s = read.listed
        OBVIOUS
      <4>1. PICK v \in Nat : s = <<f, v>> /\ w <= v /\ v <= writes[f]
        BY <3>3
      <4>2. v = w
        BY <3>2, <3>4, <4>1
      <4> QED
        BY <3>3, <4>1, <4>2
    <3>6. read.seen = {read.listed}
      BY <2>1, <3>5
    <3>7. next \in {"leaf", "parents"}
      OBVIOUS
    <3> HIDE DEF next
    <3>8. /\ read' \in ReadType /\ read'.kind = read.kind /\ read'.pc \in {"leaf", "parents"}
          /\ read'.listed = read.listed /\ read'.seen = read.seen
      BY <1>1, <3>1, <3>7, ReaderMoves DEF FileSteps
    <3>9. ReadTypeOK' /\ FilesDiffer' /\ ListingHolds'
      BY <1>4, <3>8 DEF FileSteps
    <3>10. SnapshotHolds' /\ AudioHolds'
      BY <2>2, <3>6, <3>8 DEF SnapshotHolds, AudioHolds
    <3> QED
      BY <3>9, <3>10 DEF ReadInv
  <2> QED
    BY <2>3, <2>4
<1>8. CASE VerifyParents
  <2>1. CASE dir = read.dir
    <3>1. read.pc = "parents" /\ ReaderTo("leaf")
      BY <1>8, <2>1 DEF VerifyParents, At
    <3>2. /\ read' \in ReadType /\ read'.kind = read.kind /\ read'.pc = "leaf"
          /\ read'.listed = read.listed /\ read'.seen = read.seen
      BY <1>1, <3>1, ReaderMoves DEF FileSteps
    <3>3. read.kind # "audio"
      BY <1>1, <3>1 DEF AudioHolds
    <3>4. SnapshotHolds' /\ AudioHolds'
      BY <1>1, <3>1, <3>2, <3>3 DEF SnapshotHolds, AudioHolds
    <3> QED
      BY <1>4, <3>2, <3>4 DEF ReadInv, FileSteps
  <2>2. CASE dir # read.dir
    BY <1>2, <1>8, <2>2, FailureKeeps DEF VerifyParents
  <2> QED
    BY <2>1, <2>2
<1>9. CASE VerifyLeaf
  <2> DEFINE now == IF read.kind = "windows" THEN StateOf(read.file) ELSE StateIn(Looked)
  <2>1. CASE SameState(now, read.listed)
    <3>1. read.pc = "leaf" /\ ReaderTo("done")
      BY <1>9, <2>1 DEF VerifyLeaf, At
    <3>2. /\ read' \in ReadType /\ read'.kind = read.kind /\ read'.pc = "done"
          /\ read'.listed = read.listed /\ read'.seen = read.seen
      BY <1>1, <3>1, ReaderMoves DEF FileSteps
    <3>3. SnapshotHolds'
      BY <1>1, <3>1, <3>2 DEF SnapshotHolds
    <3>4. AudioHolds'
      <4> SUFFICES ASSUME read.kind = "audio"
                   PROVE  read.seen = {read.listed} \/ swaps > 1
        BY <1>2, <3>2 DEF AudioHolds
      <4>1. PICK g \in 1 .. files, w \in Nat :
               /\ read.listed = <<g, w>>
               /\ swaps <= 1 /\ entry[dir] = g /\ writes[g] = w =>
                     read.seen \subseteq {read.listed}
        BY <1>1, <3>1 DEF AudioHolds
      <4>2. read.seen # {} /\ swaps \in Nat
        BY <1>1, <3>1 DEF AudioHolds, ReadTypeOK
      <4>3. StateOf(entry[dir]) = <<g, w>>
        BY <2>1, <4>1 DEF SameState, StateIn, Looked
      <4>4. entry[dir] \in 1 .. files
        <5>1. entry[dir] \in 0 .. files
          BY <1>1, StatesOf
        <5>2. entry[dir] # 0
          BY <4>3 DEF StateOf, NoFile, NoState
        <5> QED
          BY <1>1, <5>1, <5>2
      <4>5. entry[dir] = g /\ writes[g] = w
        BY <1>1, <4>3, <4>4, StatesOf
      <4> QED
        BY <4>1, <4>2, <4>5
    <3> QED
      BY <1>4, <3>2, <3>3, <3>4 DEF ReadInv, FileSteps
  <2>2. CASE ~SameState(now, read.listed)
    BY <1>2, <1>9, <2>2, UnstableKeeps DEF VerifyLeaf
  <2> QED
    BY <2>1, <2>2
<1> QED
  BY <1>5, <1>6, <1>7, <1>8, <1>9

\* Listing: what is looked at by path is the directory found, as long as it is there.
LEMMA ListingKeeps ==
    ASSUME ReadInv,
           \/ ObserveDirectory \/ EnterDirectory \/ ReadNames \/ StatEntry \/ LookAgain
           \/ LeaveDirectory
    PROVE  ReadInv'
<1>1. /\ ReadTypeOK /\ FilesDiffer /\ ListingHolds
      /\ read \in ReadType /\ dir \in Dirs /\ read.dir \in Dirs /\ Looked \in Dirs
      /\ swaps \in Nat
  BY DEF ReadInv, ReadTypeOK, ReadType, Looked
<1>2. /\ UNCHANGED filesVars /\ UNCHANGED <<dir, entry, writes, files, swaps>>
  BY DEF filesVars, ObserveDirectory, EnterDirectory, ReadNames, StatEntry, LookAgain,
         LeaveDirectory
<1>3. read.kind \in Listers /\ read.kind \notin FileReaders
      /\ read.kind \notin {"content", "fallback", "windows", "config", "audio"}
  BY <1>1 DEF ObserveDirectory, EnterDirectory, ReadNames, StatEntry, LookAgain, LeaveDirectory,
              At, ReadTypeOK, ReadType, FileSteps, FileReaders, Listers
<1>4. ASSUME read' \in ReadType, read'.kind = read.kind, read'.pc \in ListSteps
      PROVE  ReadTypeOK' /\ FilesDiffer' /\ SnapshotHolds' /\ AudioHolds'
  BY <1>1, <1>2, <1>3, <1>4
     DEF ReadTypeOK, FilesDiffer, SnapshotHolds, AudioHolds, ListSteps, FileReaders
<1>5. \A d \in Dirs : NamesOf(d) = <<d>> /\ <<d>> \in States
  BY DEF NamesOf, States, Dirs
<1>6. Looked = read.dir \/ (read.kind # "listing" /\ Looked = dir)
  BY <1>3 DEF Looked, Listers
<1>7. CASE ObserveDirectory
  <2>1. read.pc = "chain"
        /\ read' = [read EXCEPT !.dir = dir, !.listed = NamesOf(dir), !.pc = "enter"]
    BY <1>7 DEF ObserveDirectory, At
  <2>2. /\ read' \in ReadType /\ read'.kind = read.kind /\ read'.pc = "enter"
        /\ read'.dir = dir /\ read'.listed = <<dir>> /\ read'.seen = read.seen
    BY <1>1, <1>5, <2>1 DEF ReadType, ListSteps
  <2>3. ListingHolds'
    BY <1>1, <1>2, <1>3, <2>1, <2>2 DEF ListingHolds
  <2> QED
    BY <1>4, <2>2, <2>3 DEF ReadInv, ListSteps
<1>8. CASE EnterDirectory \/ LookAgain
  <2>1. CASE dir # read.dir
    BY <1>2, <1>8, <2>1, FailureKeeps DEF EnterDirectory, LookAgain, SameDirectory
  <2>2. CASE dir = read.dir
    <3>1. PICK step \in {"names", "left"} :
             ReaderTo(step) /\ (read.pc = "again" \/ step = "names")
             /\ read.pc \in {"enter", "again"} /\ (step = "left" => read.pc = "again")
      BY <1>8, <2>2 DEF EnterDirectory, LookAgain, SameDirectory, At
    <3>2. /\ read' \in ReadType /\ read'.kind = read.kind /\ read'.pc = step
          /\ read'.dir = read.dir /\ read'.listed = read.listed /\ read'.seen = read.seen
      BY <1>1, <3>1, ReaderMoves DEF ListSteps
    <3>3. ListingHolds'
      BY <1>1, <1>2, <1>3, <3>1, <3>2 DEF ListingHolds
    <3> QED
      BY <1>4, <3>1, <3>2, <3>3 DEF ReadInv, ListSteps
  <2> QED
    BY <2>1, <2>2
<1>9. CASE ReadNames \/ StatEntry
  <2> DEFINE seen == read'.seen
  <2>1. PICK found \in {read.seen, read.seen \cup {<<Looked>>}}, step \in {"stat", "again", "left"} :
           /\ read' = [read EXCEPT !.seen = found, !.pc = step]
           /\ read.pc \in {"names", "stat"}
           /\ read.pc = "names" => found = read.seen \cup {<<Looked>>}
    <3>1. NamesOf(Looked) = <<Looked>>
      BY <1>1, <1>5
    <3>2. CASE ReadNames
      BY <3>1, <3>2 DEF ReadNames, At
    <3>3. CASE StatEntry
      <4>1. read.pc = "stat"
        BY <3>3 DEF StatEntry, At
      <4>2. CASE entry[Looked] = NoFile
        BY <3>1, <3>3, <4>1, <4>2 DEF StatEntry
      <4>3. CASE entry[Looked] # NoFile
        BY <3>1, <3>3, <4>1, <4>3 DEF StatEntry
      <4> QED
        BY <4>2, <4>3
    <3> QED
      BY <1>9, <3>2, <3>3
  <2>2. /\ read' \in ReadType /\ read'.kind = read.kind
        /\ read'.pc \in {"stat", "again", "left"}
        /\ read'.dir = read.dir /\ read'.listed = read.listed
    <3>1. found \in SUBSET States
      BY <1>1, <1>5, <2>1 DEF ReadType
    <3> QED
      BY <1>1, <2>1, <3>1 DEF ReadType, ListSteps
  <2>3. /\ seen = read.seen \cup {<<Looked>>} \/ (read.pc = "stat" /\ seen = read.seen)
    BY <1>1, <1>5, <2>1 DEF ReadType
  <2>4. seen # {}
    BY <1>1, <1>3, <2>1, <2>3 DEF ListingHolds
  <2>5. ASSUME read.kind = "listing" \/ (swaps <= 1 /\ dir = read.dir)
        PROVE  seen \subseteq {read.listed}
    <3>1. Looked = read.dir /\ read.listed = <<read.dir>> /\ read.seen \subseteq {read.listed}
      BY <1>1, <1>3, <1>6, <2>1, <2>5 DEF ListingHolds
    <3> QED
      BY <2>3, <3>1
  <2>6. ListingHolds'
    BY <1>1, <1>2, <1>3, <2>1, <2>2, <2>4, <2>5 DEF ListingHolds
  <2> QED
    BY <1>4, <2>2, <2>6 DEF ReadInv, ListSteps
<1>10. CASE LeaveDirectory
  <2>1. CASE dir # read.dir
    BY <1>2, <1>10, <2>1, FailureKeeps DEF LeaveDirectory, SameDirectory
  <2>2. CASE dir = read.dir
    <3>1. read.pc = "left" /\ ReaderTo("done")
      BY <1>10, <2>2 DEF LeaveDirectory, SameDirectory, At
    <3>2. /\ read' \in ReadType /\ read'.kind = read.kind /\ read'.pc = "done"
          /\ read'.listed = read.listed /\ read'.seen = read.seen
      BY <1>1, <3>1, ReaderMoves DEF ListSteps
    <3>3. read.seen # {} /\ (read.kind = "listing" \/ swaps <= 1 =>
                               read.seen \subseteq {read.listed})
      BY <1>1, <1>3, <2>2, <3>1 DEF ListingHolds
    <3>4. read.seen = {read.listed} \/ (read.kind # "listing" /\ swaps > 1)
      BY <1>1, <3>3
    <3>5. ListingHolds'
      BY <1>2, <1>3, <3>2, <3>4 DEF ListingHolds
    <3> QED
      BY <1>4, <3>2, <3>5 DEF ReadInv, ListSteps
  <2> QED
    BY <2>1, <2>2
<1> QED
  BY <1>7, <1>8, <1>9, <1>10

\* Whatever is rewritten, replaced, removed or swapped during a read, a snapshot is
\* of one file in one state, and a listing of one directory.
THEOREM SnapshotsStayWhole == ReadSpec => []SnapshotsAreOfOneFile
<1>1. ReadInv /\ [ReadNext]_readVars => ReadInv'
  <2> SUFFICES ASSUME ReadInv, [ReadNext]_readVars
               PROVE  ReadInv'
    OBVIOUS
  <2>1. CASE UNCHANGED readVars
    BY <2>1 DEF readVars, filesVars, ReadInv, ReadTypeOK, FilesDiffer, SnapshotHolds, AudioHolds,
                ListingHolds
  <2> QED
    BY <2>1, WorldKeeps, OpeningKeeps, ReadingKeeps, ListingKeeps DEF ReadNext
<1>2. ReadInv => SnapshotsAreOfOneFile
  <2> SUFFICES ASSUME ReadInv, read.pc = "done"
               PROVE  \/ read.seen = {read.listed}
                      \/ read.kind \in {"audio", "paths", "entries"} /\ swaps > 1
    BY DEF SnapshotsAreOfOneFile, At
  <2>1. read.kind \in FileReaders \cup Listers
    BY DEF ReadInv, ReadTypeOK, ReadType
  <2> QED
    BY <2>1 DEF ReadInv, SnapshotHolds, AudioHolds, ListingHolds, FileReaders, Listers
<1> QED
  BY <1>1, <1>2, ReadStart, PTL DEF ReadSpec

-----------------------------------------------------------------------------
(* The albums. *)

\* A set of numbers has a least, a finite one a greatest.
LEMMA LeastIs ==
    ASSUME NEW S, S \subseteq Nat, S # {}
    PROVE  \E x \in S : \A y \in S : x <= y
<1>1. S \subseteq Nat /\ S # {}
  OBVIOUS
<1>2. PICK x \in S : \A y \in S : ~(<<y, x>> \in OpToRel(<, Nat))
  <2>1. \A R : IsWellFoundedOn(R, Nat) => \E x \in S : \A y \in S : ~(<<y, x>> \in R)
    BY <1>1, WFMin
  <2> QED
    BY <2>1, NatLessThanWellFounded
<1>3. \A y \in S : y < x => <<y, x>> \in OpToRel(<, Nat)
  BY DEF OpToRel
<1>4. \A y \in S : ~(y < x)
  BY <1>2, <1>3
<1> QED
  BY <1>4

LEMMA MinIs ==
    ASSUME NEW S, S \subseteq Nat, S # {}
    PROVE  Min(S) \in S /\ \A y \in S : Min(S) <= y
BY LeastIs DEF Min

LEMMA MaxIs ==
    ASSUME NEW S, S \subseteq Nat, S # {}, IsFiniteSet(S)
    PROVE  Max(S) \in S /\ \A y \in S : Max(S) >= y
<1> DEFINE Above(i) == {j \in S : j > i}
           T == {Cardinality(Above(i)) : i \in S}
<1>1. \A i \in S : IsFiniteSet(Above(i)) /\ Cardinality(Above(i)) \in Nat
  BY FS_Subset, FS_CardinalityType
<1>2. PICK c \in T : \A d \in T : c <= d
  <2>1. T \subseteq Nat /\ T # {}
    BY <1>1
  <2> HIDE DEF T
  <2> QED
    BY <2>1, LeastIs
<1>3. PICK s \in S : \A i \in S : Cardinality(Above(s)) <= Cardinality(Above(i))
  BY <1>2
<1>4. ASSUME NEW y \in S PROVE s >= y
  <2> SUFFICES ASSUME y > s PROVE FALSE
    OBVIOUS
  <2>1. Above(y) \in SUBSET Above(s) /\ y \in Above(s) /\ y \notin Above(y)
    <3>1. y > s /\ ~(y > y) /\ \A j \in S : j > y => j > s
      OBVIOUS
    <3> QED
      BY <3>1
  <2>2. Above(y) # Above(s)
    BY <2>1
  <2>3. Cardinality(Above(y)) <= Cardinality(Above(s)) /\ Cardinality(Above(y)) # Cardinality(Above(s))
    BY <1>1, <2>1, <2>2, FS_Subset
  <2> HIDE DEF Above
  <2> QED
    BY <1>1, <1>3, <2>3
<1> QED
  BY <1>4 DEF Max

-----------------------------------------------------------------------------
IsBatch(batch) == \E n \in Nat : batch \in [1 .. n -> TagSets]

Methods == {"latest", "oldest", "most_frequent"}

\* The files of an album that tell a year, and the years they tell.
Dated(batch, album) == {i \in DOMAIN batch : AlbumOf(batch[i]) = album /\ batch[i].year # 0}
Years(batch, album) == {batch[i].year : i \in Dated(batch, album)}
Count(batch, album, y) == Cardinality({i \in Dated(batch, album) : batch[i].year = y})

LEMMA YearsAreFinite ==
    ASSUME NEW batch, IsBatch(batch), NEW album
    PROVE  /\ IsFiniteSet(DOMAIN batch) /\ IsFiniteSet(Dated(batch, album))
           /\ Years(batch, album) \subseteq Nat /\ IsFiniteSet(Years(batch, album))
           /\ \A y : Count(batch, album, y) \in 0 .. Cardinality(Dated(batch, album))
           /\ Cardinality(Dated(batch, album)) \in Nat
<1>1. IsFiniteSet(DOMAIN batch)
  BY FS_Interval DEF IsBatch
<1>2. IsFiniteSet(Dated(batch, album)) /\ Cardinality(Dated(batch, album)) \in Nat
  BY <1>1, FS_Subset, FS_CardinalityType DEF Dated
<1>3. Years(batch, album) \subseteq Nat
  BY TagsAssumption DEF Years, Dated, IsBatch
<1>4. IsFiniteSet(Years(batch, album))
  <2> DEFINE f == [i \in Dated(batch, album) |-> batch[i].year]
  <2>1. f \in Surjection(Dated(batch, album), Years(batch, album))
    BY DEF Surjection, Years
  <2> HIDE DEF f
  <2>2. IsFiniteSet(Dated(batch, album))
    BY <1>2
  <2> QED
    BY <2>1, <2>2, FS_Surjection
<1>5. ASSUME NEW y PROVE Count(batch, album, y) \in 0 .. Cardinality(Dated(batch, album))
  BY <1>2, FS_Subset, FS_CardinalityType DEF Count
<1> QED
  BY <1>1, <1>2, <1>3, <1>4, <1>5

\* The year of an album is one that its files tell, if any does.
LEMMA YearIsTold ==
    ASSUME NEW batch, IsBatch(batch), NEW album, NEW method \in Methods
    PROVE  LET year == ResolveYear(batch, album, method) IN
           IF Years(batch, album) = {} THEN year = 0 ELSE year \in Years(batch, album)
<1> DEFINE dated == Dated(batch, album)
           years == Years(batch, album)
           count == [y \in years |-> Count(batch, album, y)]
           most == {y \in years : \A z \in years : count[z] <= count[y]}
<1>1. ResolveYear(batch, album, method) =
        CASE years = {} -> 0
          [] years # {} /\ method = "latest" -> Max(years)
          [] years # {} /\ method = "oldest" -> Min(years)
          [] years # {} /\ method = "most_frequent" -> Max(most)
  BY DEF ResolveYear, Years, Dated, Count
<1>2. years \subseteq Nat /\ IsFiniteSet(years)
  BY YearsAreFinite
<1>3. CASE years = {}
  BY <1>1, <1>3
<1>4. CASE years # {}
  <2>1. Max(years) \in years /\ Min(years) \in years
    BY <1>2, <1>4, MaxIs, MinIs
  <2>2. most \subseteq Nat /\ IsFiniteSet(most)
    BY <1>2, FS_Subset
  <2>3. most # {}
    <3> DEFINE n == Cardinality(dated)
               counts == {count[y] : y \in years}
    <3>1. n \in Nat /\ \A y \in years : count[y] \in 0 .. n
      BY YearsAreFinite
    <3>2. counts \subseteq Nat /\ counts # {} /\ counts \in SUBSET (0 .. n)
      BY <1>4, <3>1
    <3>3. IsFiniteSet(0 .. n)
      BY <3>1, FS_Interval
    <3>4. IsFiniteSet(counts)
      BY <3>2, <3>3, FS_Subset
    <3> HIDE DEF count
    <3>5. Max(counts) \in counts /\ \A c \in counts : Max(counts) >= c
      <4> HIDE DEF counts
      <4> QED
        BY <3>2, <3>4, MaxIs
    <3>6. PICK y \in years : count[y] = Max(counts)
      BY <3>5
    <3>7. \A z \in years : count[z] <= count[y]
      BY <3>1, <3>5, <3>6
    <3> QED
      BY <3>7
  <2>4. Max(most) \in most
    <3> HIDE DEF most
    <3> QED
      BY <2>2, <2>3, MaxIs
  <2>5. Max(most) \in years
    BY <2>4
  <2> HIDE DEF most
  <2> QED
    BY <1>1, <1>4, <2>1, <2>5 DEF Methods
<1> QED
  BY <1>3, <1>4

\* What the files of a batch say once their years are settled.
LEMMA RedatedIs ==
    ASSUME NEW batch, IsBatch(batch), NEW method \in Methods
    PROVE  LET dated == Redated(batch, method) IN
           /\ DOMAIN dated = DOMAIN batch
           /\ \A i \in DOMAIN batch :
                 /\ AlbumOf(dated[i]) = AlbumOf(batch[i])
                 /\ dated[i].year = ResolveYear(batch, AlbumOf(batch[i]), method)
                 /\ dated[i].disc = batch[i].disc /\ dated[i].discs = batch[i].discs
                 /\ batch[i].disc \in Nat /\ batch[i].discs \in Nat
<1> DEFINE dated == Redated(batch, method)
<1>1. DOMAIN dated = DOMAIN batch
  BY DEF Redated
<1>2. ASSUME NEW i \in DOMAIN batch
      PROVE  /\ AlbumOf(dated[i]) = AlbumOf(batch[i])
             /\ dated[i].year = ResolveYear(batch, AlbumOf(batch[i]), method)
             /\ dated[i].disc = batch[i].disc /\ dated[i].discs = batch[i].discs
             /\ batch[i].disc \in Nat /\ batch[i].discs \in Nat
  <2>1. PICK t, y : t = batch[i] /\ y = ResolveYear(batch, AlbumOf(batch[i]), method)
    OBVIOUS
  <2>2. /\ t = [album |-> t.album, albumArtist |-> t.albumArtist, artist |-> t.artist,
                year |-> t.year, disc |-> t.disc, discs |-> t.discs]
        /\ t.disc \in Nat /\ t.discs \in Nat
    BY <2>1, TagsAssumption DEF IsBatch
  <2>3. dated[i] = [album |-> t.album, albumArtist |-> t.albumArtist, artist |-> t.artist,
                    year |-> y, disc |-> t.disc, discs |-> t.discs]
    <3>1. dated[i] = [t EXCEPT !.year = y]
      BY <2>1 DEF Redated
    <3> HIDE DEF dated
    <3> QED
      BY <2>2, <3>1
  <2> HIDE DEF dated
  <2> QED
    BY <2>1, <2>2, <2>3 DEF AlbumOf, OrElse
<1> QED
  BY <1>1, <1>2

\* The discs that an album's total is taken from.
Discs(dated, tags) ==
    LET same == {i \in DOMAIN dated : AlbumOf(dated[i]) = AlbumOf(tags) /\ dated[i].year = tags.year}
    IN {0} \cup {dated[i].discs : i \in same} \cup {dated[i].disc : i \in same}

LEMMA DiscsAreFinite ==
    ASSUME NEW dated, NEW tags, IsFiniteSet(DOMAIN dated),
           \A i \in DOMAIN dated : dated[i].disc \in Nat /\ dated[i].discs \in Nat
    PROVE  Discs(dated, tags) \subseteq Nat /\ Discs(dated, tags) # {} /\ IsFiniteSet(Discs(dated, tags))
<1> DEFINE same == {i \in DOMAIN dated : AlbumOf(dated[i]) = AlbumOf(tags) /\ dated[i].year = tags.year}
           totals == {dated[i].discs : i \in same}
           numbers == {dated[i].disc : i \in same}
<1>1. IsFiniteSet(same)
  BY FS_Subset
<1>2. IsFiniteSet(totals)
  <2> DEFINE f == [i \in same |-> dated[i].discs]
  <2>1. f \in Surjection(same, totals)
    BY DEF Surjection
  <2> HIDE DEF f, same, totals
  <2> QED
    BY <1>1, <2>1, FS_Surjection
<1>3. IsFiniteSet(numbers)
  <2> DEFINE f == [i \in same |-> dated[i].disc]
  <2>1. f \in Surjection(same, numbers)
    BY DEF Surjection
  <2> HIDE DEF f, same, numbers
  <2> QED
    BY <1>1, <2>1, FS_Surjection
<1>4. Discs(dated, tags) = ({0} \cup totals) \cup numbers
  BY DEF Discs
<1>5. IsFiniteSet({0} \cup totals)
  <2> HIDE DEF totals
  <2> QED
    BY <1>2, FS_Singleton, FS_Union
<1>6. IsFiniteSet(({0} \cup totals) \cup numbers)
  <2> HIDE DEF totals, numbers
  <2> QED
    BY <1>3, <1>5, FS_Union
<1>7. Discs(dated, tags) \subseteq Nat /\ 0 \in Discs(dated, tags)
  BY DEF Discs
<1> QED
  BY <1>4, <1>6, <1>7

\* The disc totals of one album are one total, that none of its files exceeds.
LEMMA TotalIs ==
    ASSUME NEW batch, IsBatch(batch), NEW method \in Methods, NEW i \in DOMAIN batch
    PROVE  LET dated == Redated(batch, method)
               total == DiscTotal(dated, dated[i]) IN
           /\ total = Max(Discs(dated, dated[i])) /\ total \in Nat
           /\ \A j \in DOMAIN batch : AlbumOf(batch[j]) = AlbumOf(batch[i]) =>
                 /\ dated[j].year = dated[i].year
                 /\ Discs(dated, dated[j]) = Discs(dated, dated[i])
                 /\ batch[j].disc <= total /\ batch[j].discs <= total
<1> DEFINE dated == Redated(batch, method)
           total == DiscTotal(dated, dated[i])
<1>1. /\ DOMAIN dated = DOMAIN batch
      /\ \A k \in DOMAIN batch :
            /\ AlbumOf(dated[k]) = AlbumOf(batch[k])
            /\ dated[k].year = ResolveYear(batch, AlbumOf(batch[k]), method)
            /\ dated[k].disc = batch[k].disc /\ dated[k].discs = batch[k].discs
            /\ batch[k].disc \in Nat /\ batch[k].discs \in Nat
  BY RedatedIs
<1>2. IsFiniteSet(DOMAIN dated)
  BY <1>1, FS_Interval DEF IsBatch
<1>3. Discs(dated, dated[i]) \subseteq Nat /\ Discs(dated, dated[i]) # {} /\ IsFiniteSet(Discs(dated, dated[i]))
  <2>1. \A k \in DOMAIN dated : dated[k].disc \in Nat /\ dated[k].discs \in Nat
    BY <1>1
  <2> HIDE DEF dated
  <2> QED
    BY <1>2, <2>1, DiscsAreFinite
<1>4. total = Max(Discs(dated, dated[i]))
  BY DEF DiscTotal, Discs
<1>5. total \in Discs(dated, dated[i]) /\ \A d \in Discs(dated, dated[i]) : total >= d
  BY <1>3, <1>4, MaxIs
<1> HIDE DEF dated, total
<1>6. ASSUME NEW j \in DOMAIN batch, AlbumOf(batch[j]) = AlbumOf(batch[i])
      PROVE  /\ dated[j].year = dated[i].year
             /\ Discs(dated, dated[j]) = Discs(dated, dated[i])
             /\ batch[j].disc <= total /\ batch[j].discs <= total
  <2>1. dated[j].year = dated[i].year /\ AlbumOf(dated[j]) = AlbumOf(dated[i])
    BY <1>1, <1>6
  <2>2. Discs(dated, dated[j]) = Discs(dated, dated[i])
    BY <2>1 DEF Discs
  <2>3. dated[j].disc \in Discs(dated, dated[i]) /\ dated[j].discs \in Discs(dated, dated[i])
    BY <1>1, <2>1 DEF Discs
  <2>4. total >= dated[j].disc /\ total >= dated[j].discs
    BY <1>5, <2>3
  <2> QED
    BY <1>1, <1>3, <1>5, <2>1, <2>2, <2>4
<1> QED
  BY <1>3, <1>4, <1>5, <1>6 DEF dated, total

\* The files of an album agree.
LEMMA FilesAgree ==
    ASSUME NEW batch, IsBatch(batch), NEW method \in Methods,
           NEW got, got = Resolution(batch, method),
           NEW i \in DOMAIN batch, NEW j \in DOMAIN batch, AlbumOf(batch[i]) = AlbumOf(batch[j])
    PROVE  /\ got[i] = got[j]
           /\ got[i].hidden => batch[j].disc <= 1 /\ batch[j].discs <= 1
           /\ batch[i].year # 0 =>
                 \E k \in DOMAIN batch : AlbumOf(batch[k]) = AlbumOf(batch[i]) /\ got[j].year = batch[k].year
<1> DEFINE dated == Redated(batch, method)
           total == DiscTotal(dated, dated[i])
<1>1. /\ DOMAIN dated = DOMAIN batch
      /\ \A k \in DOMAIN batch :
            /\ dated[k].year = ResolveYear(batch, AlbumOf(batch[k]), method)
            /\ dated[k].discs = batch[k].discs
            /\ batch[k].disc \in Nat /\ batch[k].discs \in Nat
  BY RedatedIs
<1>2. /\ total \in Nat /\ DiscTotal(dated, dated[j]) = total
      /\ dated[j].year = dated[i].year
      /\ batch[i].disc <= total /\ batch[i].discs <= total
      /\ batch[j].disc <= total /\ batch[j].discs <= total
  BY TotalIs
<1>3. /\ got[i] = [year |-> dated[i].year, hidden |-> DiscHidden(dated, dated[i])]
      /\ got[j] = [year |-> dated[j].year, hidden |-> DiscHidden(dated, dated[j])]
  BY DEF Resolution, Redated
<1> HIDE DEF dated, total
<1>4. (DiscHidden(dated, dated[i]) <=> total <= 1) /\ (DiscHidden(dated, dated[j]) <=> total <= 1)
  BY <1>1, <1>2 DEF DiscHidden, total
<1>5. /\ got[i] = [year |-> dated[i].year, hidden |-> (total <= 1)]
      /\ got[j] = [year |-> dated[j].year, hidden |-> (total <= 1)]
  <2>1. /\ DiscHidden(dated, dated[i]) = (total <= 1)
        /\ DiscHidden(dated, dated[j]) = (total <= 1)
    BY <1>4 DEF DiscHidden
  <2> QED
    BY <1>3, <2>1, Zenon
<1>6. got[i] = got[j]
  BY <1>2, <1>5
<1>7. /\ got[i].hidden <=> total <= 1
      /\ got[j].year = dated[j].year
  <2> DEFINE x == total <= 1
  <2>1. x \in BOOLEAN /\ (x <=> total <= 1)
    OBVIOUS
  <2>2. got[i] = [year |-> dated[i].year, hidden |-> x] /\ got[j] = [year |-> dated[j].year, hidden |-> x]
    BY <1>5
  <2> HIDE DEF x
  <2>3. got[i].hidden = x /\ got[j].year = dated[j].year
    BY <2>1, <2>2
  <2> QED
    BY <2>1, <2>3
<1>8. ASSUME batch[i].year # 0
      PROVE  \E k \in DOMAIN batch : AlbumOf(batch[k]) = AlbumOf(batch[i])
                                     /\ got[j].year = batch[k].year
  <2>1. batch[i].year \in Years(batch, AlbumOf(batch[i]))
    BY <1>8 DEF Years, Dated
  <2>2. ResolveYear(batch, AlbumOf(batch[i]), method) \in Years(batch, AlbumOf(batch[i]))
    BY <2>1, YearIsTold
  <2>3. got[j].year = ResolveYear(batch, AlbumOf(batch[i]), method)
    BY <1>1, <1>7
  <2> QED
    BY <2>2, <2>3 DEF Years, Dated
<1> QED
  BY <1>1, <1>2, <1>6, <1>7, <1>8

\* A list and the same list from its end.
Mirror(n, a, b) ==
    /\ n \in Nat /\ DOMAIN a = 1 .. n /\ DOMAIN b = 1 .. n
    /\ \A i \in 1 .. n : a[i] = b[n - i + 1] /\ b[i] = a[n - i + 1]

LEMMA ReverseIs ==
    ASSUME NEW batch, IsBatch(batch)
    PROVE  IsBatch(Reverse(batch)) /\ \E n : Mirror(n, batch, Reverse(batch))
<1>1. PICK n \in Nat : batch \in [1 .. n -> TagSets]
  BY DEF IsBatch
<1>2. Len(batch) = n
  BY <1>1
<1>3. Reverse(batch) = [i \in 1 .. n |-> batch[n - i + 1]]
  BY <1>2 DEF Reverse
<1>4. \A i \in 1 .. n : n - i + 1 \in 1 .. n /\ n - (n - i + 1) + 1 = i
  BY <1>1
<1>5. Reverse(batch) \in [1 .. n -> TagSets]
  BY <1>1, <1>3, <1>4
<1>6. Mirror(n, batch, Reverse(batch))
  BY <1>1, <1>3, <1>4 DEF Mirror
<1> QED
  BY <1>5, <1>6 DEF IsBatch

LEMMA MirrorCounts ==
    ASSUME NEW a, NEW b, NEW n, Mirror(n, a, b), IsBatch(a), IsBatch(b), NEW album
    PROVE  /\ Years(b, album) = Years(a, album)
           /\ \A y : Count(b, album, y) = Count(a, album, y)
<1>1. \A i \in 1 .. n : n - i + 1 \in 1 .. n /\ n - (n - i + 1) + 1 = i
  BY DEF Mirror
<1>2. /\ \A i \in Dated(a, album) : n - i + 1 \in Dated(b, album) /\ b[n - i + 1] = a[i]
      /\ \A i \in Dated(b, album) : n - i + 1 \in Dated(a, album) /\ a[n - i + 1] = b[i]
  BY <1>1 DEF Mirror, Dated
<1>3. \A y : y \in Years(b, album) <=> y \in Years(a, album)
  BY <1>2 DEF Years
<1>4. ASSUME NEW y PROVE Count(b, album, y) = Count(a, album, y)
  <2> DEFINE S == {i \in Dated(a, album) : a[i].year = y}
             T == {i \in Dated(b, album) : b[i].year = y}
             f == [i \in S |-> n - i + 1]
  <2>1. \A i \in S : i \in 1 .. n /\ n - i + 1 \in T
    BY <1>2 DEF Mirror, Dated
  <2>2. \A i \in T : i \in 1 .. n /\ n - i + 1 \in S
    BY <1>2 DEF Mirror, Dated
  <2>3. f \in [S -> T]
    BY <2>1
  <2>4. \A i, j \in S : f[i] = f[j] => i = j
    BY <2>1 DEF Mirror
  <2>5. \A t \in T : \E i \in S : f[i] = t
    BY <1>1, <2>2
  <2>6. f \in Bijection(S, T)
    <3> HIDE DEF S, T, f
    <3> QED
      BY <2>3, <2>4, <2>5 DEF Bijection, Injection, Surjection, IsInjective
  <2>7. ExistsBijection(S, T)
    BY <2>6 DEF ExistsBijection
  <2>8. IsFiniteSet(S)
    BY YearsAreFinite, FS_Subset
  <2>9. Cardinality(T) = Cardinality(S)
    <3> HIDE DEF S, T, f
    <3> QED
      BY <2>7, <2>8, FS_Bijection
  <2> QED
    BY <2>9 DEF Count
<1> QED
  BY <1>3, <1>4

LEMMA MirrorYears ==
    ASSUME NEW a, NEW b, NEW n, Mirror(n, a, b), IsBatch(a), IsBatch(b), NEW album, NEW method
    PROVE  ResolveYear(b, album, method) = ResolveYear(a, album, method)
<1> DEFINE year(years, count) ==
        CASE years = {} -> 0
          [] years # {} /\ method = "latest" -> Max(years)
          [] years # {} /\ method = "oldest" -> Min(years)
          [] years # {} /\ method = "most_frequent" ->
                Max({y \in years : \A z \in years : count[z] <= count[y]})
           counts(c) == [y \in Years(c, album) |-> Count(c, album, y)]
<1>1. \A c : ResolveYear(c, album, method) = year(Years(c, album), counts(c))
  BY DEF ResolveYear, Years, Dated, Count
<1>2. Years(b, album) = Years(a, album) /\ counts(b) = counts(a)
  BY MirrorCounts
<1> HIDE DEF year, counts
<1> QED
  BY <1>1, <1>2

\* The order in which the files are listed does not matter.
LEMMA OrderIsIrrelevant ==
    ASSUME NEW batch, IsBatch(batch), NEW method \in Methods
    PROVE  Resolution(Reverse(batch), method) = Reverse(Resolution(batch, method))
<1> DEFINE rev == Reverse(batch)
           dated == Redated(batch, method)
           datedRev == Redated(rev, method)
           got == Resolution(batch, method)
<1>1. IsBatch(rev)
  BY ReverseIs
<1>2. PICK n : Mirror(n, batch, rev)
  BY ReverseIs
<1> HIDE DEF rev
<1>3. \A i \in 1 .. n : n - i + 1 \in 1 .. n /\ n - (n - i + 1) + 1 = i
  BY <1>2 DEF Mirror
<1>4. DOMAIN dated = 1 .. n /\ DOMAIN datedRev = 1 .. n
  BY <1>2 DEF Mirror, Redated
<1>5. ASSUME NEW i \in 1 .. n PROVE datedRev[i] = dated[n - i + 1]
  <2>1. PICK k : k = n - i + 1 /\ k \in 1 .. n /\ rev[i] = batch[k]
    BY <1>2, <1>3 DEF Mirror
  <2>2. datedRev[i] = [batch[k] EXCEPT !.year = ResolveYear(rev, AlbumOf(batch[k]), method)]
    BY <1>2, <2>1 DEF Mirror, Redated
  <2>3. dated[k] = [batch[k] EXCEPT !.year = ResolveYear(batch, AlbumOf(batch[k]), method)]
    BY <1>2, <2>1 DEF Mirror, Redated
  <2>4. ResolveYear(rev, AlbumOf(batch[k]), method) = ResolveYear(batch, AlbumOf(batch[k]), method)
    BY <1>1, <1>2, MirrorYears
  <2> HIDE DEF dated, datedRev
  <2> QED
    BY <2>1, <2>2, <2>3, <2>4
<1>6. Mirror(n, dated, datedRev)
  <2> HIDE DEF dated, datedRev
  <2> QED
    BY <1>2, <1>3, <1>4, <1>5 DEF Mirror
<1>7. \A t : DiscTotal(datedRev, t) = DiscTotal(dated, t)
  <2> HIDE DEF dated, datedRev
  <2>1. \A t : Discs(datedRev, t) = Discs(dated, t)
    <3> SUFFICES ASSUME NEW t, NEW d PROVE d \in Discs(datedRev, t) <=> d \in Discs(dated, t)
      OBVIOUS
    <3> QED
      BY <1>3, <1>6 DEF Discs, Mirror
  <2>2. \A c, t : DiscTotal(c, t) = Max(Discs(c, t))
    BY DEF DiscTotal, Discs
  <2> QED
    BY <2>1, <2>2
<1>8. \A t : DiscHidden(datedRev, t) = DiscHidden(dated, t)
  <2> HIDE DEF dated, datedRev
  <2> QED
    BY <1>7 DEF DiscHidden
<1>9. /\ Resolution(rev, method) =
           [i \in 1 .. n |-> [year |-> datedRev[i].year, hidden |-> DiscHidden(datedRev, datedRev[i])]]
      /\ got = [i \in 1 .. n |-> [year |-> dated[i].year, hidden |-> DiscHidden(dated, dated[i])]]
  BY <1>2 DEF Mirror, Resolution
<1>10. Reverse(got) = [i \in 1 .. n |-> got[n - i + 1]]
  <2>1. n \in Nat /\ DOMAIN got = 1 .. n
    BY <1>2, <1>9 DEF Mirror
  <2> HIDE DEF got
  <2>2. Len(got) = n
    BY <2>1
  <2> QED
    BY <2>2 DEF Reverse
<1> HIDE DEF dated, datedRev, got
<1>11. ASSUME NEW i \in 1 .. n PROVE Resolution(rev, method)[i] = got[n - i + 1]
  <2>1. PICK k : k = n - i + 1 /\ k \in 1 .. n /\ datedRev[i] = dated[k]
    BY <1>3, <1>5
  <2>2. got[k] = [year |-> dated[k].year, hidden |-> DiscHidden(dated, dated[k])]
    BY <1>9, <2>1
  <2>3. Resolution(rev, method)[i] = [year |-> dated[k].year, hidden |-> DiscHidden(dated, dated[k])]
    BY <1>8, <1>9, <2>1
  <2> QED
    BY <2>1, <2>2, <2>3
<1> QED
  BY <1>9, <1>10, <1>11 DEF rev, got

LEMMA BatchesAgree ==
    ASSUME NEW batch, IsBatch(batch), NEW method \in Methods
    PROVE  Agreed(batch, method, Resolution(batch, method))
<1> PICK got : got = Resolution(batch, method)
  OBVIOUS
<1>1. ASSUME NEW i \in DOMAIN batch, NEW j \in DOMAIN batch, AlbumOf(batch[i]) = AlbumOf(batch[j])
      PROVE  /\ got[i] = got[j]
             /\ got[i].hidden => batch[j].disc <= 1 /\ batch[j].discs <= 1
             /\ batch[i].year # 0 => \E k \in DOMAIN batch :
                   AlbumOf(batch[k]) = AlbumOf(batch[i]) /\ got[j].year = batch[k].year
  BY <1>1, FilesAgree
<1>2. Resolution(Reverse(batch), method) = Reverse(got)
  BY OrderIsIrrelevant
<1>3. Agreed(batch, method, got)
  BY <1>1, <1>2, Zenon DEF Agreed
<1> QED
  BY <1>3

\* The files of one album that are planned together get one year, which one of them
\* tells, and show their disc or not alike, however many they are, whatever their
\* tags say and in whatever order they are listed.
THEOREM AlbumsStayTogether == PathSpec => []AlbumsAgree
<1>1. PathInit => AlbumsAgree
  BY DEF PathInit, NoAnswer, AlbumsAgree
<1>2. AlbumsAgree /\ [PathNext]_pathVars => AlbumsAgree'
  <2> SUFFICES ASSUME AlbumsAgree, [PathNext]_pathVars PROVE AlbumsAgree'
    OBVIOUS
  <2>1. CASE UNCHANGED pathVars
    BY <2>1 DEF pathVars, AlbumsAgree
  <2>2. CASE RenderPath
    <3>1. answer'.kind = "path"
      BY <2>2 DEF RenderPath
    <3> QED
      BY <3>1 DEF AlbumsAgree
  <2>3. CASE GenerateId
    <3>1. answer'.kind = "id"
      BY <2>3 DEF GenerateId
    <3> QED
      BY <3>1 DEF AlbumsAgree
  <2>4. CASE ResolveAlbums
    <3>1. PICK n \in 1 .. MaxBatch, method \in Methods : \E batch \in [1 .. n -> TagSets] :
             answer' = [kind |-> "albums", asked |-> [batch |-> batch, method |-> method],
                        got |-> Resolution(batch, method)]
      BY <2>4 DEF ResolveAlbums, Methods
    <3>2. PICK batch \in [1 .. n -> TagSets] :
             answer' = [kind |-> "albums", asked |-> [batch |-> batch, method |-> method],
                        got |-> Resolution(batch, method)]
      BY <3>1
    <3>3. IsBatch(batch)
      BY DEF IsBatch
    <3>4. Agreed(batch, method, Resolution(batch, method))
      BY <3>3, BatchesAgree
    <3> QED
      BY <3>2, <3>4 DEF AlbumsAgree
  <2> QED
    BY <2>1, <2>2, <2>3, <2>4 DEF PathNext
<1> QED
  BY <1>1, <1>2, PTL DEF PathSpec
=============================================================================
