-------------------------- MODULE PersistenceProofs --------------------------
(***************************************************************************)
(* Proofs about what is kept on disk: the settings file (SettingsStore)    *)
(* and what is written to it and read from it (SettingsCodec), the schema  *)
(* of the database (SchemaMigrations), the accepted artist names with the  *)
(* pace of their lookups (ArtistNames) and the listings of the database    *)
(* read page by page (Paging), for any number of forms, processes,         *)
(* migrations, keys, names, rows and changes.                              *)
(***************************************************************************)
EXTENDS SettingsStore, SettingsCodec, SchemaMigrations, ArtistNames, Paging, FiniteSetTheorems, TLAPS

-----------------------------------------------------------------------------
(* The settings file. *)

SaveSteps == {"check", "temp", "recheck", "replace", "sync", "answer"}

TabType ==
    [base : Nat, known : SUBSET Nat, dirty : BOOLEAN, typed : BOOLEAN, edits : Nat,
     state : {"open", "sent", "failed", "conflict"}]

SaveType == [pc : SaveSteps, by : Tabs, expected : Nat, temp : Nat]

SettingsTypeOK ==
    /\ installed \in Nat /\ latest \in Nat /\ acked \in Nat
    /\ durable \in SUBSET Nat /\ unsynced \in SUBSET Nat
    /\ others \in SUBSET Nat /\ raced \in SUBSET Nat
    /\ tabs \in [Tabs -> TabType]
    /\ save \in {NoSave} \cup SaveType

\* A form sends the revision of a version its draft contains, or of one the text
\* editor wrote while a save of the form was being answered.
BasesKnown == \A t \in Tabs : tabs[t].base \in tabs[t].known \cup raced

\* The form waits for its save, whose revision it gave.
SaveIsSent ==
    save # NoSave =>
        /\ tabs[save.by].state = "sent"
        /\ save.expected \in tabs[save.by].known \cup raced

\* What is about to be replaced is what the revision said, or raced.
ReplacesKnown ==
    save.pc = "replace" => installed \in tabs[save.by].known \cup raced

\* What the answer reads from the path was saved, or raced.
AnswersKnown ==
    save.pc \in {"sync", "answer"} => installed \in {save.temp} \cup raced

\* The last version written is the newest there is.
LatestIsNewest ==
    /\ installed <= latest /\ acked <= latest
    /\ \A v \in durable : v <= latest

\* The saved file is newer than any a form was told of, and it, or a newer one,
\* is what the disk keeps once the directory is synced.
SaveIsNewer ==
    /\ save.pc \in {"recheck", "replace", "sync", "answer"} =>
          acked <= save.temp /\ save.temp <= latest
    /\ save.pc \in {"sync", "answer"} => save.temp <= installed
    /\ save.pc = "answer" => \A v \in durable : save.temp <= v

DiskIsNewer == \A v \in durable : v >= acked

EditorSyncsNothing == unsynced \subseteq others

SettingsInv ==
    /\ SettingsTypeOK
    /\ BasesKnown
    /\ SaveIsSent
    /\ ReplacesKnown
    /\ AnswersKnown
    /\ LatestIsNewest
    /\ SaveIsNewer
    /\ DiskIsNewer
    /\ EditorSyncsNothing

\* No form has sent anything, and there is no file.
LEMMA SettingsStart == SettingsInit => SettingsInv
BY DEF SettingsInit, SettingsInv, SettingsTypeOK, TabType, NoSave, BasesKnown, SaveIsSent,
       ReplacesKnown, AnswersKnown, LatestIsNewest, SaveIsNewer, DiskIsNewer, EditorSyncsNothing

\* Types are kept by every step of the forms, the save and the text editor.
LEMMA SettingsTypes ==
    ASSUME SettingsTypeOK, SettingsNext
    PROVE  SettingsTypeOK'
<1> USE DEF SettingsTypeOK, fileVars
<1>1. ASSUME NEW t \in Tabs, LoadSettings(t)
      PROVE  SettingsTypeOK'
  <2>1. [tabs[t] EXCEPT !.base = installed, !.known = {installed}, !.dirty = FALSE,
                        !.state = "open"] \in TabType
    <3>1. tabs[t] \in TabType
      OBVIOUS
    <3> QED
      BY <3>1 DEF TabType
  <2> QED
    BY <1>1, <2>1 DEF LoadSettings
<1>2. ASSUME NEW t \in Tabs, EditDraft(t)
      PROVE  SettingsTypeOK'
  <2>1. tabs' \in [Tabs -> TabType]
    BY <1>2 DEF EditDraft, TabType
  <2> QED
    BY <1>2, <2>1 DEF EditDraft
<1>3. ASSUME NEW t \in Tabs, SendDraft(t)
      PROVE  SettingsTypeOK'
  <2>1. tabs[t] \in TabType
    OBVIOUS
  <2>2. [tabs[t] EXCEPT !.state = "sent", !.typed = FALSE] \in TabType
    BY <2>1 DEF TabType
  <2>3. [tabs[t] EXCEPT !.state = "failed"] \in TabType
    BY <2>1 DEF TabType
  <2>4. [pc |-> "check", by |-> t, expected |-> tabs[t].base, temp |-> 0] \in SaveType
    BY <2>1 DEF TabType, SaveType, SaveSteps
  <2> QED
    BY <1>3, <2>2, <2>3, <2>4 DEF SendDraft
<1>4. ASSUME NEW t \in Tabs, RetrySave(t)
      PROVE  SettingsTypeOK'
  <2>1. [tabs[t] EXCEPT !.state = "open"] \in TabType
    BY DEF TabType
  <2> QED
    BY <1>4, <2>1 DEF RetrySave
<1>5. ASSUME save \in SaveType,
             \/ CheckRevision \/ RecheckRevision \/ SaveFails \/ WriteTemp
             \/ ReplaceSettings \/ SyncDirectory \/ AnswerSave
      PROVE  SettingsTypeOK'
  <2>1. /\ save.by \in Tabs /\ save.temp \in Nat
        /\ tabs[save.by] \in TabType
    BY <1>5 DEF SaveType
  <2>2. \A pc \in SaveSteps, temp \in Nat :
           /\ [save EXCEPT !.pc = pc] \in SaveType
           /\ [save EXCEPT !.pc = pc, !.temp = temp] \in SaveType
    BY <1>5 DEF SaveType
  <2>3. \A state \in {"failed", "conflict"} :
           [tabs[save.by] EXCEPT !.state = state] \in TabType
    BY <2>1 DEF TabType
  <2>4. \A known \in SUBSET Nat, dirty \in BOOLEAN :
           [tabs[save.by] EXCEPT !.base = installed, !.state = "open", !.dirty = dirty,
                                 !.known = known] \in TabType
    BY <2>1 DEF TabType
  <2>5. tabs[save.by].typed \in BOOLEAN /\ tabs[save.by].known \in SUBSET Nat
        /\ tabs[save.by].dirty \in BOOLEAN
    BY <2>1 DEF TabType
  <2>6. \A state \in {"failed", "conflict"} : EndSave(state) =>
           /\ save' = NoSave
           /\ tabs' \in [Tabs -> TabType]
    BY <2>1, <2>3 DEF EndSave
  <2>7. CASE CheckRevision \/ RecheckRevision \/ SaveFails
    <3>1. \A pc \in SaveSteps : RequireRevision(pc) =>
             tabs' \in [Tabs -> TabType] /\ save' \in {NoSave} \cup SaveType
      BY <2>2, <2>6 DEF RequireRevision
    <3>2. RequireRevision("temp") \/ RequireRevision("replace") \/ EndSave("failed")
      BY <2>7 DEF CheckRevision, RecheckRevision, SaveFails
    <3>3. tabs' \in [Tabs -> TabType] /\ save' \in {NoSave} \cup SaveType
      BY <2>6, <3>1, <3>2 DEF SaveSteps
    <3> QED
      BY <2>7, <3>3 DEF CheckRevision, RecheckRevision, SaveFails
  <2>8. CASE WriteTemp
    <3>1. latest + 1 \in Nat
      OBVIOUS
    <3>2. [save EXCEPT !.pc = "recheck", !.temp = latest + 1] \in SaveType
      BY <2>2, <3>1 DEF SaveSteps
    <3> QED
      BY <2>8, <3>1, <3>2 DEF WriteTemp
  <2>9. CASE ReplaceSettings \/ SyncDirectory
    BY <2>1, <2>2, <2>9 DEF ReplaceSettings, SyncDirectory, SaveSteps
  <2>10. CASE AnswerSave
    <3> DEFINE known == tabs[save.by].known \cup {save.temp}
                            \cup (IF tabs[save.by].typed THEN {} ELSE {installed})
    <3> DEFINE dirty == tabs[save.by].dirty /\ tabs[save.by].typed
    <3>1. known \in SUBSET Nat /\ dirty \in BOOLEAN
      BY <2>1, <2>5
    <3>2. [tabs[save.by] EXCEPT !.base = installed, !.state = "open",
              !.dirty = dirty, !.known = known] \in TabType
      BY <2>4, <3>1
    <3>3. tabs' \in [Tabs -> TabType]
      BY <2>1, <2>10, <3>2 DEF AnswerSave
    <3> QED
      BY <2>1, <2>10, <3>3 DEF AnswerSave
  <2> QED
    BY <1>5, <2>7, <2>8, <2>9, <2>10
<1>6. CASE OtherWrites
  BY <1>6 DEF OtherWrites
<1>7. save \in SaveType \/ save = NoSave
  OBVIOUS
<1>8. save = NoSave => ~(CheckRevision \/ RecheckRevision \/ SaveFails \/ WriteTemp
                         \/ ReplaceSettings \/ SyncDirectory \/ AnswerSave)
  BY DEF NoSave, CheckRevision, RecheckRevision, SaveFails, WriteTemp, ReplaceSettings,
         SyncDirectory, AnswerSave
<1> QED
  BY <1>1, <1>2, <1>3, <1>4, <1>5, <1>6, <1>7, <1>8 DEF SettingsNext

-----------------------------------------------------------------------------
(* Each part of the invariant is kept. *)

\* What the forms and the save do to the drafts: a form that waits for its save
\* keeps its draft, and no draft forgets a version but by reloading.
LEMMA SettingsKept ==
    ASSUME SettingsInv, SettingsNext
    PROVE  BasesKnown' /\ SaveIsSent' /\ ReplacesKnown' /\ AnswersKnown'
<1> USE DEF fileVars
<1>1. /\ SettingsTypeOK /\ SettingsTypeOK'
      /\ BasesKnown /\ SaveIsSent /\ ReplacesKnown /\ AnswersKnown /\ SaveIsNewer
  BY SettingsTypes DEF SettingsInv
<1>2. \A t \in Tabs : tabs[t] \in TabType
  BY <1>1 DEF SettingsTypeOK
<1>3. save \in SaveType \/ save = NoSave
  BY <1>1 DEF SettingsTypeOK
<1>4. save # NoSave => save.by \in Tabs
  BY <1>3 DEF SaveType
<1>5. ASSUME NEW t \in Tabs, LoadSettings(t)
      PROVE  BasesKnown' /\ SaveIsSent' /\ ReplacesKnown' /\ AnswersKnown'
  <2>1. save # NoSave => save.by # t
    BY <1>1, <1>5 DEF LoadSettings, SaveIsSent
  <2>2. \A u \in Tabs \ {t} : tabs'[u] = tabs[u]
    BY <1>1, <1>5 DEF LoadSettings, SettingsTypeOK
  <2>3. tabs'[t].base \in tabs'[t].known
    BY <1>1, <1>2, <1>5 DEF LoadSettings, SettingsTypeOK, TabType
  <2>4. save' = save /\ raced' = raced /\ installed' = installed
    BY <1>5 DEF LoadSettings
  <2>5. BasesKnown'
    BY <1>1, <2>2, <2>3, <2>4 DEF BasesKnown
  <2>6. save # NoSave => tabs'[save.by] = tabs[save.by]
    BY <1>4, <2>1, <2>2
  <2>7. save.pc = "replace" => save # NoSave
    BY DEF NoSave
  <2> QED
    BY <1>1, <2>4, <2>5, <2>6, <2>7 DEF SaveIsSent, ReplacesKnown, AnswersKnown
<1>6. ASSUME NEW t \in Tabs, EditDraft(t) \/ RetrySave(t)
      PROVE  BasesKnown' /\ SaveIsSent' /\ ReplacesKnown' /\ AnswersKnown'
  <2>1. \A u \in Tabs : /\ tabs'[u].base = tabs[u].base /\ tabs'[u].known = tabs[u].known
                        /\ tabs[u].state = "sent" => tabs'[u].state = "sent"
    BY <1>1, <1>2, <1>6 DEF EditDraft, RetrySave, SettingsTypeOK, TabType
  <2>2. save' = save /\ raced' = raced /\ installed' = installed
    BY <1>6 DEF EditDraft, RetrySave
  <2>3. save.pc = "replace" => save # NoSave
    BY DEF NoSave
  <2> QED
    BY <1>1, <1>4, <2>1, <2>2, <2>3 DEF BasesKnown, SaveIsSent, ReplacesKnown, AnswersKnown
<1>7. ASSUME NEW t \in Tabs, SendDraft(t)
      PROVE  BasesKnown' /\ SaveIsSent' /\ ReplacesKnown' /\ AnswersKnown'
  <2> DEFINE sent == [tabs[t] EXCEPT !.state = "sent", !.typed = FALSE]
             paused == [tabs[t] EXCEPT !.state = "failed"]
  <2>0. /\ sent.base = tabs[t].base /\ sent.known = tabs[t].known /\ sent.state = "sent"
        /\ paused.base = tabs[t].base /\ paused.known = tabs[t].known
    BY <1>2 DEF TabType
  <2>1. \A u \in Tabs : /\ tabs'[u].base = tabs[u].base /\ tabs'[u].known = tabs[u].known
                        /\ u # t => tabs'[u] = tabs[u]
    <3>1. tabs' = [tabs EXCEPT ![t] = sent] \/ tabs' = [tabs EXCEPT ![t] = paused]
      BY <1>7 DEF SendDraft
    <3>2. (tabs'[t] = sent \/ tabs'[t] = paused) /\ \A u \in Tabs \ {t} : tabs'[u] = tabs[u]
      BY <1>1, <3>1 DEF SettingsTypeOK
    <3> QED
      BY <2>0, <3>2
  <2>2. raced' = raced /\ installed' = installed
    BY <1>7 DEF SendDraft
  <2>3. BasesKnown'
    BY <1>1, <2>1, <2>2 DEF BasesKnown
  <2>4. CASE save = NoSave
    <3>1. /\ save'.pc = "check" /\ save'.by = t /\ save'.expected = tabs[t].base
          /\ tabs'[t].state = "sent"
      <4>1. tabs' = [tabs EXCEPT ![t] = sent]
        BY <1>7, <2>4 DEF SendDraft
      <4>2. tabs'[t] = sent
        BY <1>1, <4>1 DEF SettingsTypeOK
      <4> QED
        BY <1>7, <2>0, <2>4, <4>2 DEF SendDraft
    <3> QED
      BY <1>1, <2>1, <2>2, <2>3, <3>1 DEF BasesKnown, SaveIsSent, ReplacesKnown, AnswersKnown
  <2>5. CASE save # NoSave
    <3>1. save' = save /\ tabs[t].state = "open"
      BY <1>7, <2>5 DEF SendDraft
    <3>2. save.by # t
      BY <1>1, <2>5, <3>1 DEF SaveIsSent
    <3> QED
      BY <1>1, <1>4, <2>1, <2>2, <2>3, <2>5, <3>1, <3>2
         DEF SaveIsSent, ReplacesKnown, AnswersKnown
  <2> QED
    BY <2>4, <2>5
<1>8. \A state \in {"failed", "conflict"} :
         save # NoSave /\ EndSave(state) /\ UNCHANGED <<fileVars, raced, acked>> =>
            BasesKnown' /\ SaveIsSent' /\ ReplacesKnown' /\ AnswersKnown'
  <2> SUFFICES ASSUME NEW state \in {"failed", "conflict"}, save # NoSave, EndSave(state),
                      UNCHANGED <<fileVars, raced, acked>>
               PROVE  BasesKnown' /\ SaveIsSent' /\ ReplacesKnown' /\ AnswersKnown'
    OBVIOUS
  <2>1. \A u \in Tabs : tabs'[u].base = tabs[u].base /\ tabs'[u].known = tabs[u].known
    BY <1>1, <1>2, <1>4 DEF EndSave, SettingsTypeOK, TabType
  <2>2. save' = NoSave /\ save'.pc = "none"
    BY DEF EndSave, NoSave
  <2> QED
    BY <1>1, <2>1, <2>2 DEF BasesKnown, SaveIsSent, ReplacesKnown, AnswersKnown
<1>9. ASSUME NEW pc \in {"temp", "replace"}, save # NoSave, RequireRevision(pc),
             UNCHANGED <<fileVars, raced, acked>>
      PROVE  BasesKnown' /\ SaveIsSent' /\ ReplacesKnown' /\ AnswersKnown'
  <2>1. CASE save.expected = installed
    <3>1. save' = [save EXCEPT !.pc = pc] /\ tabs' = tabs
      BY <1>9, <2>1 DEF RequireRevision
    <3>2. save'.by = save.by /\ save'.expected = save.expected /\ save'.pc = pc
      BY <1>3, <1>9, <3>1 DEF SaveType
    <3>3. installed \in tabs[save.by].known \cup raced
      BY <1>1, <1>9, <2>1 DEF SaveIsSent
    <3> QED
      BY <1>1, <1>9, <3>1, <3>2, <3>3 DEF BasesKnown, SaveIsSent, ReplacesKnown, AnswersKnown
  <2>2. CASE save.expected # installed
    BY <1>8, <1>9, <2>2 DEF RequireRevision
  <2> QED
    BY <2>1, <2>2
<1>10. CASE CheckRevision \/ RecheckRevision
  <2>1. save # NoSave
    BY <1>10 DEF CheckRevision, RecheckRevision, NoSave
  <2> QED
    BY <1>9, <1>10, <2>1 DEF CheckRevision, RecheckRevision
<1>11. CASE SaveFails
  BY <1>8, <1>11 DEF SaveFails
<1>12. CASE WriteTemp \/ ReplaceSettings \/ SyncDirectory
  <2>1. save # NoSave
    BY <1>12 DEF WriteTemp, ReplaceSettings, SyncDirectory, NoSave
  <2>2. save \in SaveType
    BY <1>3, <2>1
  <2>3. /\ save'.by = save.by /\ save'.expected = save.expected
        /\ tabs' = tabs /\ raced' = raced
        /\ save'.pc \in {"recheck", "sync", "answer"}
    BY <1>12, <2>2 DEF WriteTemp, ReplaceSettings, SyncDirectory, SaveType
  <2>4. BasesKnown' /\ SaveIsSent' /\ ReplacesKnown'
    BY <1>1, <2>1, <2>3 DEF BasesKnown, SaveIsSent, ReplacesKnown
  <2>5. CASE WriteTemp
    <3>1. save'.pc = "recheck"
      BY <2>2, <2>5 DEF WriteTemp, SaveType
    <3> QED
      BY <2>4, <3>1 DEF AnswersKnown
  <2>6. CASE ReplaceSettings
    <3>1. installed' = save.temp /\ save'.temp = save.temp
      BY <2>2, <2>6 DEF ReplaceSettings, SaveType
    <3> QED
      BY <2>4, <3>1 DEF AnswersKnown
  <2>7. CASE SyncDirectory
    <3>1. installed' = installed /\ save'.temp = save.temp /\ save.pc = "sync"
      BY <2>2, <2>7 DEF SyncDirectory, SaveType
    <3> QED
      BY <1>1, <2>3, <2>4, <3>1 DEF AnswersKnown
  <2> QED
    BY <1>12, <2>5, <2>6, <2>7
<1>13. CASE AnswerSave
  <2>1. save # NoSave
    BY <1>13 DEF AnswerSave, NoSave
  <2>2. save.by \in Tabs /\ save' = NoSave /\ save'.pc = "none" /\ raced' = raced
    BY <1>4, <1>13, <2>1 DEF AnswerSave, NoSave
  <2>3. \A u \in Tabs \ {save.by} : tabs'[u] = tabs[u]
    BY <1>1, <1>13 DEF AnswerSave, SettingsTypeOK
  <2>4. installed \in {save.temp} \cup raced
    BY <1>1, <1>13 DEF AnswersKnown, AnswerSave
  <2>5. /\ tabs'[save.by].base = installed
        /\ save.temp \in tabs'[save.by].known
    BY <1>1, <1>2, <1>13, <2>2 DEF AnswerSave, SettingsTypeOK, TabType
  <2> QED
    BY <1>1, <2>2, <2>3, <2>4, <2>5 DEF BasesKnown, SaveIsSent, ReplacesKnown, AnswersKnown
<1>14. CASE OtherWrites
  <2>1. raced \subseteq raced' /\ tabs' = tabs /\ save' = save
    BY <1>14 DEF OtherWrites
  <2>2. save.pc \in {"replace", "sync", "answer"} => installed' \in raced'
    BY <1>14 DEF OtherWrites
  <2> QED
    BY <1>1, <2>1, <2>2 DEF BasesKnown, SaveIsSent, ReplacesKnown, AnswersKnown
<1> QED
  BY <1>5, <1>6, <1>7, <1>10, <1>11, <1>12, <1>13, <1>14 DEF SettingsNext

\* Versions grow: what is written is newer than what any form was told of, and
\* what the directory's sync leaves is no older than the file that was saved.
LEMMA VersionsGrow ==
    ASSUME SettingsInv, SettingsNext
    PROVE  LatestIsNewest' /\ SaveIsNewer' /\ DiskIsNewer' /\ EditorSyncsNothing'
<1> USE DEF fileVars
<1>1. /\ SettingsTypeOK /\ SettingsTypeOK'
      /\ LatestIsNewest /\ SaveIsNewer /\ DiskIsNewer /\ EditorSyncsNothing
  BY SettingsTypes DEF SettingsInv
<1>2. /\ installed \in Nat /\ latest \in Nat /\ acked \in Nat /\ durable \subseteq Nat
      /\ installed' \in Nat /\ latest' \in Nat /\ acked' \in Nat
  BY <1>1 DEF SettingsTypeOK
<1>3. save \in SaveType \/ save = NoSave
  BY <1>1 DEF SettingsTypeOK
<1>4. save # NoSave => save.temp \in Nat
  BY <1>3 DEF SaveType
<1>5. save.pc # "none" => save # NoSave
  BY DEF NoSave
<1>6. ASSUME UNCHANGED <<fileVars, raced, acked>>,
             \/ save' = save
             \/ save'.pc \in {"none", "check", "temp"}
             \/ save.pc = "recheck" /\ save'.pc = "replace" /\ save'.temp = save.temp
      PROVE  LatestIsNewest' /\ SaveIsNewer' /\ DiskIsNewer' /\ EditorSyncsNothing'
  BY <1>1, <1>6 DEF LatestIsNewest, SaveIsNewer, DiskIsNewer, EditorSyncsNothing
<1>7. ASSUME NEW t \in Tabs, LoadSettings(t) \/ EditDraft(t) \/ RetrySave(t) \/ SendDraft(t)
      PROVE  LatestIsNewest' /\ SaveIsNewer' /\ DiskIsNewer' /\ EditorSyncsNothing'
  BY <1>6, <1>7 DEF LoadSettings, EditDraft, RetrySave, SendDraft
<1>8. CASE SaveFails
  BY <1>6, <1>8 DEF SaveFails, EndSave, NoSave
<1>9. CASE CheckRevision \/ RecheckRevision
  <2>1. save \in SaveType
    BY <1>3, <1>5, <1>9 DEF CheckRevision, RecheckRevision
  <2>2. \/ save'.pc \in {"none", "temp"}
        \/ save.pc = "recheck" /\ save'.pc = "replace" /\ save'.temp = save.temp
    BY <1>9, <2>1 DEF CheckRevision, RecheckRevision, RequireRevision, EndSave, NoSave, SaveType
  <2> QED
    BY <1>6, <1>9, <2>2 DEF CheckRevision, RecheckRevision
<1>10. CASE WriteTemp
  <2>1. save \in SaveType
    BY <1>3, <1>5, <1>10 DEF WriteTemp
  <2>2. save'.pc = "recheck" /\ save'.temp = latest + 1 /\ latest' = latest + 1
    BY <1>10, <2>1 DEF WriteTemp, SaveType
  <2>3. UNCHANGED <<installed, durable, unsynced, others, acked>>
    BY <1>10 DEF WriteTemp
  <2>4. \A v \in Nat : v <= latest => v <= latest + 1
    BY <1>2
  <2>5. LatestIsNewest' /\ DiskIsNewer' /\ EditorSyncsNothing'
    BY <1>1, <1>2, <2>2, <2>3, <2>4
       DEF LatestIsNewest, DiskIsNewer, EditorSyncsNothing
  <2> QED
    BY <1>1, <1>2, <2>2, <2>3, <2>4, <2>5 DEF LatestIsNewest, SaveIsNewer
<1>11. CASE ReplaceSettings
  <2>1. save \in SaveType
    BY <1>3, <1>5, <1>11 DEF ReplaceSettings
  <2>2. /\ save'.pc = "sync" /\ save'.temp = save.temp /\ installed' = save.temp
        /\ durable' = durable \cup {save.temp} /\ save.pc = "replace"
        /\ UNCHANGED <<unsynced, latest, others, acked>>
    BY <1>11, <2>1 DEF ReplaceSettings, SaveType
  <2>3. acked <= save.temp /\ save.temp <= latest
    BY <1>1, <2>2 DEF SaveIsNewer
  <2> QED
    BY <1>1, <1>2, <1>4, <2>1, <2>2, <2>3
       DEF LatestIsNewest, SaveIsNewer, DiskIsNewer, EditorSyncsNothing, SaveType
<1>12. CASE SyncDirectory
  <2>1. save \in SaveType
    BY <1>3, <1>5, <1>12 DEF SyncDirectory
  <2>2. /\ save'.pc = "answer" /\ save'.temp = save.temp /\ save.pc = "sync"
        /\ durable' = {installed}
        /\ UNCHANGED <<installed, unsynced, latest, others, acked>>
    BY <1>12, <2>1 DEF SyncDirectory, SaveType
  <2>3. acked <= save.temp /\ save.temp <= latest /\ save.temp <= installed
    BY <1>1, <2>2 DEF SaveIsNewer
  <2>4. acked <= installed
    BY <1>2, <2>1, <2>3 DEF SaveType
  <2> QED
    BY <1>1, <2>2, <2>3, <2>4 DEF LatestIsNewest, SaveIsNewer, DiskIsNewer, EditorSyncsNothing
<1>13. CASE AnswerSave
  <2>1. /\ save'.pc = "none" /\ acked' = save.temp /\ save.pc = "answer"
        /\ UNCHANGED fileVars
    BY <1>13 DEF AnswerSave, NoSave
  <2>2. save.temp <= latest /\ \A v \in durable : save.temp <= v
    BY <1>1, <2>1 DEF SaveIsNewer
  <2> QED
    BY <1>1, <2>1, <2>2 DEF LatestIsNewest, SaveIsNewer, DiskIsNewer, EditorSyncsNothing
<1>14. CASE OtherWrites
  <2>1. /\ save' = save /\ acked' = acked /\ latest' = latest + 1 /\ installed' = latest + 1
        /\ durable' = durable \cup {latest + 1}
        /\ unsynced' = unsynced \cup {latest + 1} /\ others' = others \cup {latest + 1}
    BY <1>14 DEF OtherWrites
  <2>2. \A v \in Nat : v <= latest => v <= latest + 1
    BY <1>2
  <2>3. LatestIsNewest' /\ DiskIsNewer' /\ EditorSyncsNothing'
    BY <1>1, <1>2, <2>1, <2>2 DEF LatestIsNewest, DiskIsNewer, EditorSyncsNothing
  <2>4. SaveIsNewer'
    BY <1>1, <1>2, <1>4, <1>5, <2>1, <2>2 DEF SaveIsNewer
  <2> QED
    BY <2>3, <2>4
<1> QED
  BY <1>7, <1>8, <1>9, <1>10, <1>11, <1>12, <1>13, <1>14 DEF SettingsNext

\* The invariant is kept by every step, and by a stutter.
LEMMA SettingsStep == SettingsInv /\ [SettingsNext]_settingsVars => SettingsInv'
<1> SUFFICES ASSUME SettingsInv, [SettingsNext]_settingsVars
             PROVE  SettingsInv'
  OBVIOUS
<1>1. CASE SettingsNext
  <2>1. SettingsTypeOK
    BY DEF SettingsInv
  <2> QED
    BY <1>1, <2>1, SettingsTypes, SettingsKept, VersionsGrow DEF SettingsInv
<1>2. CASE UNCHANGED settingsVars
  BY <1>2 DEF settingsVars, fileVars, SettingsInv, SettingsTypeOK, BasesKnown, SaveIsSent,
              ReplacesKnown, AnswersKnown, LatestIsNewest, SaveIsNewer, DiskIsNewer,
              EditorSyncsNothing
<1> QED
  BY <1>1, <1>2

\* No save replaces settings that its draft does not contain, but for what the
\* text editor wrote in the final interval of a save; and a power loss leaves a
\* complete file no older than the last save a form was told of.
THEOREM SavesKept == SettingsSpec => SavesAreKept
<1>1. SettingsInv /\ [SettingsNext]_settingsVars =>
         [save.pc = "replace" /\ installed' # installed =>
             installed \in tabs[save.by].known \cup raced]_settingsVars
  BY DEF SettingsInv, ReplacesKnown
<1>2. SettingsInv => \A v \in durable : v >= acked /\ (v \in unsynced => v \in others)
  BY DEF SettingsInv, DiskIsNewer, EditorSyncsNothing
<1> QED
  BY <1>1, <1>2, SettingsStart, SettingsStep, PTL DEF SettingsSpec, SavesAreKept

-----------------------------------------------------------------------------
(* The schema of the database. *)

RunnerType ==
    [pc : {"new", "listed", "validate", "apply", "mark", "ready", "failed", "refused"},
     tables : SUBSET {"marker", "app"}, applied : SUBSET Nat]

SchemaTypeOK ==
    /\ tables \in SUBSET {"marker", "app"}
    /\ effects \in [Migrations -> Nat]
    /\ writer \in {NoWriter} \cup [by : Processes, m : Migrations]
    /\ runners \in [Processes -> RunnerType]

IsPrefix(s) == \E n \in 0 .. Packaged : s = 1 .. n

AppliedIsPrefix == IsPrefix(applied)

EffectsFit == \A m \in Migrations : effects[m] = IF m \in applied THEN 1 ELSE 0

\* The tables of the baseline come and stay with its marker row.
TablesFit ==
    /\ "app" \in tables <=> applied # {}
    /\ applied # {} => "marker" \in tables

\* Who marks holds the write lock, for the migration after those it read.
WriterFits ==
    \A p \in Processes :
        /\ runners[p].pc = "mark" <=> writer.by = p
        /\ runners[p].pc = "mark" => Pending(p) # {} /\ writer.m = NextMigration(p)

\* What a process read is old, but it was so once.
ReadsAreOld ==
    \A p \in Processes :
        /\ IsPrefix(runners[p].applied)
        /\ runners[p].applied \subseteq applied
        /\ runners[p].pc = "listed" =>
              /\ runners[p].tables \subseteq tables
              /\ "app" \in runners[p].tables => "marker" \in runners[p].tables
        /\ runners[p].pc = "validate" /\ "app" \in runners[p].tables =>
              runners[p].applied # {}
        /\ runners[p].pc \in {"validate", "apply", "mark"} => "marker" \in tables

RunnersFit ==
    \A p \in Processes :
        /\ runners[p].pc # "refused"
        /\ runners[p].pc = "ready" => Migrations \subseteq runners[p].applied

SchemaInv ==
    /\ SchemaTypeOK
    /\ AppliedIsPrefix
    /\ EffectsFit
    /\ TablesFit
    /\ WriterFits
    /\ ReadsAreOld
    /\ RunnersFit

\* The next migration follows the prefix that was read.
LEMMA NextFollows ==
    ASSUME NEW p \in Processes, NEW n \in 0 .. Packaged, runners[p].applied = 1 .. n,
           Pending(p) # {}
    PROVE  NextMigration(p) = n + 1 /\ n + 1 \in Migrations
<1>1. Pending(p) = (n + 1) .. Packaged
  BY SchemaAssumption DEF Pending, Migrations
<1>2. n + 1 \in Pending(p) /\ \A m \in Pending(p) : n + 1 <= m
  BY SchemaAssumption, <1>1
<1>3. ASSUME NEW m \in Pending(p), \A k \in Pending(p) : m <= k
      PROVE  m = n + 1
  <2>1. m <= n + 1 /\ n + 1 <= m
    BY <1>2, <1>3
  <2>2. m \in Nat
    BY SchemaAssumption, <1>1
  <2> QED
    BY <2>1, <2>2
<1> QED
  BY <1>1, <1>2, <1>3 DEF NextMigration, Migrations

\* A new database, or one an earlier release left.
LEMMA SchemaStart == SchemaInit => SchemaInv
<1> SUFFICES ASSUME SchemaInit
             PROVE  SchemaInv
  OBVIOUS
<1>1. PICK n \in 0 .. Packaged :
         /\ applied = 1 .. n
         /\ tables = IF n = 0 THEN {} ELSE {"marker", "app"}
         /\ effects = [m \in Migrations |-> IF m <= n THEN 1 ELSE 0]
  BY DEF SchemaInit
<1>2. /\ writer = NoWriter
      /\ \A p \in Processes : runners[p] = Fresh
      /\ runners = [p \in Processes |-> Fresh]
  BY DEF SchemaInit
<1>3. /\ Fresh \in RunnerType /\ Fresh.pc = "new" /\ Fresh.applied = {}
      /\ NoWriter.by = "none"
  BY DEF Fresh, RunnerType, NoWriter
<1>4. IsPrefix({}) /\ IsPrefix(applied)
  BY SchemaAssumption, <1>1 DEF IsPrefix
<1>5. (1 \in applied <=> n # 0) /\ (applied = {} <=> n = 0)
  BY SchemaAssumption, <1>1
<1>6. SchemaTypeOK
  BY <1>1, <1>2, <1>3 DEF SchemaTypeOK
<1>7. EffectsFit
  BY SchemaAssumption, <1>1 DEF EffectsFit, Migrations
<1>8. TablesFit
  BY <1>1, <1>5 DEF TablesFit
<1>9. WriterFits
  BY SchemaAssumption, <1>2, <1>3 DEF WriterFits
<1>10. ReadsAreOld /\ RunnersFit
  BY <1>2, <1>3, <1>4 DEF ReadsAreOld, RunnersFit
<1> QED
  BY <1>4, <1>6, <1>7, <1>8, <1>9, <1>10 DEF SchemaInv, AppliedIsPrefix

\* A process that does not hold the lock moves, and leaves the rows alone.
LEMMA RunnerMoves ==
    ASSUME SchemaInv, NEW p \in Processes, NEW r \in RunnerType,
           runners' = [runners EXCEPT ![p] = r], UNCHANGED <<applied, effects, writer>>,
           runners[p].pc # "mark", r.pc \notin {"mark", "refused"},
           tables' = tables \/ tables' = tables \cup {"marker"},
           IsPrefix(r.applied), r.applied \subseteq applied,
           r.pc = "listed" => /\ r.tables \subseteq tables
                              /\ "app" \in r.tables => "marker" \in r.tables,
           r.pc = "validate" /\ "app" \in r.tables => r.applied # {},
           r.pc \in {"validate", "apply"} => "marker" \in tables',
           r.pc = "ready" => Migrations \subseteq r.applied
    PROVE  SchemaInv'
<1>1. /\ SchemaTypeOK /\ AppliedIsPrefix /\ EffectsFit /\ TablesFit
      /\ WriterFits /\ ReadsAreOld /\ RunnersFit
  BY DEF SchemaInv
<1>2. runners'[p] = r /\ \A q \in Processes \ {p} : runners'[q] = runners[q]
  BY <1>1 DEF SchemaTypeOK
<1>3. SchemaTypeOK' /\ AppliedIsPrefix' /\ EffectsFit' /\ TablesFit'
  BY <1>1 DEF SchemaTypeOK, AppliedIsPrefix, IsPrefix, EffectsFit, TablesFit
<1>4. WriterFits'
  <2>1. \A q \in Processes \ {p} :
           Pending(q)' = Pending(q) /\ NextMigration(q)' = NextMigration(q)
    BY <1>2 DEF Pending, NextMigration, Migrations
  <2>2. runners'[p].pc # "mark" /\ writer.by # p
    BY <1>1, <1>2 DEF WriterFits
  <2> QED
    BY <1>1, <1>2, <2>1, <2>2 DEF WriterFits
<1>5. ReadsAreOld'
  <2>1. tables \subseteq tables'
    OBVIOUS
  <2> QED
    BY <1>1, <1>2, <2>1 DEF ReadsAreOld, IsPrefix
<1>6. RunnersFit'
  BY <1>1, <1>2 DEF RunnersFit
<1> QED
  BY <1>3, <1>4, <1>5, <1>6 DEF SchemaInv

\* Every step of a process that reads, decides or gives up without the lock.
LEMMA ReadersKeep ==
    ASSUME SchemaInv, NEW p \in Processes,
           ListTables(p) \/ ReadApplied(p) \/ Validate(p) \/ FinishMigration(p) \/ TriesAgain(p)
    PROVE  SchemaInv'
<1>1. /\ SchemaTypeOK /\ AppliedIsPrefix /\ TablesFit /\ ReadsAreOld
      /\ runners[p] \in RunnerType
  BY DEF SchemaInv, SchemaTypeOK
<1>2. IsPrefix({}) /\ IsPrefix(applied) /\ IsPrefix(runners[p].applied)
      /\ runners[p].applied \subseteq applied
  <2>1. 0 \in 0 .. Packaged /\ 1 .. 0 = {}
    BY SchemaAssumption
  <2> QED
    BY <1>1, <2>1 DEF IsPrefix, AppliedIsPrefix, ReadsAreOld
<1>3. CASE ListTables(p)
  <2> DEFINE r == [runners[p] EXCEPT !.pc = "listed", !.tables = tables]
  <2>1. /\ r \in RunnerType /\ r.pc = "listed" /\ r.tables = tables
        /\ r.applied = runners[p].applied
    BY <1>1 DEF RunnerType, SchemaTypeOK
  <2>2. runners' = [runners EXCEPT ![p] = r] /\ runners[p].pc = "new"
        /\ UNCHANGED <<tables, applied, effects, writer>>
    BY <1>3 DEF ListTables, Running
  <2> HIDE DEF r
  <2> QED
    BY <1>1, <1>2, <2>1, <2>2, RunnerMoves DEF TablesFit
<1>4. CASE ReadApplied(p) /\ "marker" \in runners[p].tables
  <2> DEFINE r == [runners[p] EXCEPT !.pc = "validate", !.applied = applied]
  <2>1. /\ r \in RunnerType /\ r.pc = "validate" /\ r.tables = runners[p].tables
        /\ r.applied = applied
    <3>1. applied \in SUBSET Nat
      BY <1>2, SchemaAssumption DEF IsPrefix
    <3> QED
      BY <1>1, <3>1 DEF RunnerType
  <2>2. runners' = [runners EXCEPT ![p] = r] /\ runners[p].pc = "listed"
        /\ UNCHANGED <<tables, applied, effects, writer>>
    BY <1>4 DEF ReadApplied, Running
  <2>3. runners[p].tables \subseteq tables
    BY <1>1, <2>2 DEF ReadsAreOld
  <2> HIDE DEF r
  <2> QED
    BY <1>1, <1>2, <1>4, <2>1, <2>2, <2>3, RunnerMoves DEF TablesFit
<1>5. CASE ReadApplied(p) /\ "marker" \notin runners[p].tables
  <2> DEFINE r == [runners[p] EXCEPT !.pc = "validate"]
  <2>1. runners[p].pc = "listed" /\ runners[p].tables = {}
    <3>1. runners[p].pc = "listed"
      BY <1>5 DEF ReadApplied, Running
    <3>2. "app" \notin runners[p].tables
      BY <1>1, <1>5, <3>1 DEF ReadsAreOld
    <3>3. runners[p].tables \in SUBSET {"marker", "app"}
      BY <1>1 DEF RunnerType
    <3> QED
      BY <1>5, <3>1, <3>2, <3>3
  <2>2. /\ r \in RunnerType /\ r.pc = "validate" /\ r.tables = {}
        /\ r.applied = runners[p].applied
    BY <1>1, <2>1 DEF RunnerType
  <2>3. runners' = [runners EXCEPT ![p] = r] /\ tables' = tables \cup {"marker"}
        /\ UNCHANGED <<applied, effects, writer>>
    BY <1>5, <2>1 DEF ReadApplied, StepTo
  <2> HIDE DEF r
  <2> QED
    BY <1>2, <2>1, <2>2, <2>3, RunnerMoves
<1>6. CASE Validate(p)
  <2> DEFINE r == [runners[p] EXCEPT !.pc = "apply"]
  <2>1. /\ runners[p].pc = "validate"
        /\ "app" \in runners[p].tables => runners[p].applied # {}
        /\ \E n \in 0 .. Packaged : runners[p].applied = 1 .. n
        /\ "marker" \in tables
    BY <1>1, <1>2, <1>6 DEF Validate, Running, ReadsAreOld, IsPrefix
  <2>2. /\ r \in RunnerType /\ r.pc = "apply" /\ r.applied = runners[p].applied
    BY <1>1 DEF RunnerType
  <2>3. runners' = [runners EXCEPT ![p] = r]
        /\ UNCHANGED <<tables, applied, effects, writer>>
    BY <1>6, <2>1 DEF Validate, StepTo
  <2> HIDE DEF r
  <2> QED
    BY <1>2, <2>1, <2>2, <2>3, RunnerMoves
<1>7. CASE FinishMigration(p)
  <2> DEFINE r == [runners[p] EXCEPT !.pc = "ready"]
  <2>1. runners[p].pc = "apply" /\ Migrations \subseteq runners[p].applied
    BY <1>7 DEF FinishMigration, Running, Pending
  <2>2. /\ r \in RunnerType /\ r.pc = "ready" /\ r.applied = runners[p].applied
    BY <1>1 DEF RunnerType
  <2>3. runners' = [runners EXCEPT ![p] = r]
        /\ UNCHANGED <<tables, applied, effects, writer>>
    BY <1>7 DEF FinishMigration, StepTo
  <2> HIDE DEF r
  <2> QED
    BY <1>2, <2>1, <2>2, <2>3, RunnerMoves
<1>8. CASE TriesAgain(p)
  <2>1. Fresh \in RunnerType /\ Fresh.pc = "new" /\ Fresh.applied = {}
    BY DEF Fresh, RunnerType
  <2>2. runners' = [runners EXCEPT ![p] = Fresh] /\ runners[p].pc = "failed"
        /\ UNCHANGED <<tables, applied, effects, writer>>
    BY <1>8 DEF TriesAgain, Running
  <2> QED
    BY <1>2, <2>1, <2>2, RunnerMoves
<1> QED
  BY <1>3, <1>4, <1>5, <1>6, <1>7, <1>8

\* BEGIN: the lock is free, so no process marks.
LEMMA ScriptKeeps ==
    ASSUME SchemaInv, NEW p \in Processes, RunScript(p)
    PROVE  SchemaInv'
<1>1. /\ SchemaTypeOK /\ AppliedIsPrefix /\ EffectsFit /\ TablesFit
      /\ WriterFits /\ ReadsAreOld /\ RunnersFit
      /\ runners[p] \in RunnerType
  BY DEF SchemaInv, SchemaTypeOK
<1>2. /\ runners[p].pc = "apply" /\ writer = NoWriter /\ Pending(p) # {}
      /\ UNCHANGED <<tables, applied, effects>>
  BY DEF RunScript, Running
<1>3. CASE NextMigration(p) = 1 /\ "app" \in tables
  <2> DEFINE r == [runners[p] EXCEPT !.pc = "failed"]
  <2>1. /\ r \in RunnerType /\ r.pc = "failed" /\ r.applied = runners[p].applied
    BY <1>1 DEF RunnerType
  <2>2. runners' = [runners EXCEPT ![p] = r] /\ UNCHANGED writer
    BY <1>3 DEF RunScript, StepTo
  <2>3. IsPrefix(runners[p].applied) /\ runners[p].applied \subseteq applied
    BY <1>1 DEF ReadsAreOld
  <2> HIDE DEF r
  <2> QED
    BY <1>2, <2>1, <2>2, <2>3, RunnerMoves
<1>4. CASE ~(NextMigration(p) = 1 /\ "app" \in tables)
  <2> DEFINE r == [runners[p] EXCEPT !.pc = "mark"]
  <2>1. /\ r \in RunnerType /\ r.pc = "mark" /\ r.applied = runners[p].applied
        /\ r.tables = runners[p].tables
    BY <1>1 DEF RunnerType
  <2>2. runners' = [runners EXCEPT ![p] = r] /\ writer' = [by |-> p, m |-> NextMigration(p)]
    BY <1>4 DEF RunScript, StepTo
  <2>3. runners'[p] = r /\ \A q \in Processes \ {p} : runners'[q] = runners[q]
    BY <1>1, <2>2 DEF SchemaTypeOK
  <2>4. NextMigration(p) \in Migrations
    BY <1>1, <1>2, NextFollows DEF ReadsAreOld, IsPrefix
  <2>5. runners' \in [Processes -> RunnerType]
    BY <1>1, <2>1, <2>2 DEF SchemaTypeOK
  <2>6. SchemaTypeOK' /\ AppliedIsPrefix' /\ EffectsFit' /\ TablesFit'
    BY <1>1, <1>2, <2>2, <2>4, <2>5
       DEF SchemaTypeOK, AppliedIsPrefix, IsPrefix, EffectsFit, TablesFit, Migrations
  <2>7. \A q \in Processes :
           Pending(q)' = Pending(q) /\ NextMigration(q)' = NextMigration(q)
    BY <2>1, <2>3 DEF Pending, NextMigration, Migrations
  <2>8. \A q \in Processes : runners[q].pc # "mark"
    BY SchemaAssumption, <1>1, <1>2 DEF WriterFits, NoWriter
  <2>9. WriterFits'
    BY <1>2, <2>1, <2>2, <2>3, <2>7, <2>8 DEF WriterFits
  <2>10. ReadsAreOld'
    <3>1. \A q \in Processes : runners'[q].applied = runners[q].applied
      BY <2>1, <2>3
    <3>2. "marker" \in tables
      BY <1>1, <1>2 DEF ReadsAreOld
    <3>3. tables' = tables /\ applied' = applied
      BY <1>2
    <3>4. \A q \in Processes \ {p} : runners'[q].pc = runners[q].pc
                                   /\ runners'[q].tables = runners[q].tables
      BY <2>3
    <3>5. runners'[p].pc = "mark"
      BY <2>1, <2>3
    <3> QED
      BY <1>1, <3>1, <3>2, <3>3, <3>4, <3>5 DEF ReadsAreOld, IsPrefix
  <2>11. RunnersFit'
    BY <1>1, <2>1, <2>3 DEF RunnersFit, Migrations
  <2> QED
    BY <2>6, <2>9, <2>10, <2>11 DEF SchemaInv
<1> QED
  BY <1>3, <1>4

\* COMMIT: the marker row is new only if what the process read is current still.
LEMMA MarkKeeps ==
    ASSUME SchemaInv, NEW p \in Processes, MarkApplied(p)
    PROVE  SchemaInv'
<1>1. /\ SchemaTypeOK /\ AppliedIsPrefix /\ EffectsFit /\ TablesFit
      /\ WriterFits /\ ReadsAreOld /\ RunnersFit
      /\ runners[p] \in RunnerType
  BY DEF SchemaInv, SchemaTypeOK
<1>2. /\ runners[p].pc = "mark" /\ writer.by = p /\ writer' = NoWriter
      /\ Pending(p) # {} /\ writer.m = NextMigration(p)
      /\ \A q \in Processes \ {p} : runners[q].pc # "mark"
  BY <1>1 DEF MarkApplied, Running, WriterFits
<1>3. PICK k \in 0 .. Packaged : runners[p].applied = 1 .. k
  BY <1>1 DEF ReadsAreOld, IsPrefix
<1>4. writer.m = k + 1 /\ k + 1 \in Migrations
  BY <1>2, <1>3, NextFollows
<1>5. \A q \in Processes : NoWriter.by # q
  BY SchemaAssumption DEF NoWriter
<1>6. CASE writer.m \in applied
  <2> DEFINE r == [runners[p] EXCEPT !.pc = "failed"]
  <2>1. /\ r \in RunnerType /\ r.pc = "failed" /\ r.applied = runners[p].applied
    BY <1>1 DEF RunnerType
  <2>2. runners' = [runners EXCEPT ![p] = r] /\ UNCHANGED <<tables, applied, effects>>
    BY <1>6 DEF MarkApplied, StepTo
  <2>3. runners'[p] = r /\ \A q \in Processes \ {p} : runners'[q] = runners[q]
    BY <1>1, <2>2 DEF SchemaTypeOK
  <2>4. SchemaTypeOK' /\ AppliedIsPrefix' /\ EffectsFit' /\ TablesFit'
    <3>1. SchemaTypeOK'
      BY <1>1, <1>2, <2>1, <2>2 DEF SchemaTypeOK
    <3>2. AppliedIsPrefix'
      BY <1>1, <2>2 DEF AppliedIsPrefix, IsPrefix
    <3>3. EffectsFit'
      BY <1>1, <2>2 DEF EffectsFit
    <3>4. TablesFit'
      BY <1>1, <1>2, <2>2 DEF TablesFit
    <3> QED
      BY <3>1, <3>2, <3>3, <3>4
  <2>5. WriterFits'
    <3>1. \A q \in Processes : runners'[q].pc # "mark" /\ writer'.by # q
      BY <1>2, <1>5, <2>1, <2>3
    <3> QED
      BY <3>1 DEF WriterFits
  <2>6. ReadsAreOld' /\ RunnersFit'
    BY <1>1, <2>1, <2>2, <2>3 DEF ReadsAreOld, RunnersFit, IsPrefix, Migrations
  <2> QED
    BY <2>4, <2>5, <2>6 DEF SchemaInv
<1>7. CASE writer.m \notin applied
  <2>1. PICK n \in 0 .. Packaged : applied = 1 .. n
    BY <1>1 DEF AppliedIsPrefix, IsPrefix
  <2>2. runners[p].applied \subseteq applied
    BY <1>1 DEF ReadsAreOld
  <2>3. n = k
    <3>1. ~(k + 1 <= n)
      BY <1>4, <1>7, <2>1, SchemaAssumption DEF Migrations
    <3>2. ~(n < k)
      <4>1. SUFFICES ASSUME n < k PROVE FALSE
        OBVIOUS
      <4>2. k \in runners[p].applied /\ k \notin applied
        BY <1>3, <2>1, <4>1, SchemaAssumption
      <4> QED
        BY <2>2, <4>2
    <3> QED
      BY <3>1, <3>2, SchemaAssumption
  <2> DEFINE r == [runners[p] EXCEPT !.pc = "apply", !.applied = applied']
  <2>4. /\ applied' = 1 .. (k + 1) /\ k + 1 \in 0 .. Packaged
        /\ runners[p].applied \cup {writer.m} = applied'
    <3>1. applied' = applied \cup {writer.m}
      BY <1>7 DEF MarkApplied
    <3>2. (1 .. k) \cup {k + 1} = 1 .. (k + 1)
      BY SchemaAssumption
    <3>3. k + 1 \in 0 .. Packaged
      BY <1>4, SchemaAssumption DEF Migrations
    <3> QED
      BY <1>3, <1>4, <2>1, <2>3, <3>1, <3>2, <3>3
  <2>5. /\ r \in RunnerType /\ r.pc = "apply" /\ r.applied = applied'
    <3>1. applied' \in SUBSET Nat
      BY <2>4, SchemaAssumption
    <3> QED
      BY <1>1, <3>1 DEF RunnerType
  <2>6. runners' \in [Processes -> RunnerType]
    BY <1>1, <1>7, <2>4, <2>5 DEF MarkApplied, RunnerType, SchemaTypeOK
  <2>7. runners'[p].applied = applied' /\ runners'[p].pc = "apply"
        /\ \A q \in Processes \ {p} : runners'[q] = runners[q]
    <3>1. runners' = [runners EXCEPT ![p].pc = "apply", ![p].applied = @ \cup {writer.m}]
      BY <1>7 DEF MarkApplied
    <3>2. p \in DOMAIN runners /\ DOMAIN runners = Processes
      BY <1>1 DEF SchemaTypeOK
    <3>3. "applied" \in DOMAIN runners[p] /\ "pc" \in DOMAIN runners[p]
      BY <1>1 DEF RunnerType
    <3> QED
      BY <2>4, <3>1, <3>2, <3>3
  <2>8. /\ tables' = tables \cup {"app"} /\ effects' = [effects EXCEPT ![writer.m] = @ + 1]
        /\ applied' = applied \cup {writer.m}
    BY <1>7 DEF MarkApplied
  <2>9. effects'[writer.m] = 1 /\ \A m \in Migrations \ {writer.m} : effects'[m] = effects[m]
    BY <1>1, <1>4, <1>7, <2>8 DEF EffectsFit, SchemaTypeOK
  <2>10. effects' \in [Migrations -> Nat]
    <3>1. effects[writer.m] + 1 \in Nat
      BY <1>1, <1>4 DEF SchemaTypeOK
    <3> QED
      BY <1>1, <2>8, <3>1 DEF SchemaTypeOK
  <2>11. "marker" \in tables
    BY <1>1, <1>2 DEF ReadsAreOld
  <2>12. SchemaTypeOK' /\ AppliedIsPrefix' /\ EffectsFit' /\ TablesFit'
    <3>1. SchemaTypeOK'
      BY <1>1, <1>2, <2>6, <2>8, <2>10 DEF SchemaTypeOK, Migrations
    <3>2. AppliedIsPrefix'
      BY <2>4 DEF AppliedIsPrefix, IsPrefix
    <3>3. EffectsFit'
      BY <1>1, <2>8, <2>9 DEF EffectsFit, Migrations
    <3>4. TablesFit'
      BY <2>8, <2>11 DEF TablesFit
    <3> QED
      BY <3>1, <3>2, <3>3, <3>4
  <2>13. WriterFits'
    BY <1>2, <1>5, <2>7 DEF WriterFits
  <2>14. ReadsAreOld'
    <3>1. IsPrefix(applied')
      BY <2>4 DEF IsPrefix
    <3>2. applied \subseteq applied' /\ tables \subseteq tables'
      BY <2>8
    <3> QED
      BY <1>1, <2>7, <2>11, <3>1, <3>2 DEF ReadsAreOld, IsPrefix
  <2>15. RunnersFit'
    BY <1>1, <2>7 DEF RunnersFit, Migrations
  <2> QED
    BY <2>12, <2>13, <2>14, <2>15 DEF SchemaInv
<1> QED
  BY <1>6, <1>7

\* A death gives the lock back and takes nothing else along.
LEMMA DeathKeeps ==
    ASSUME SchemaInv, NEW p \in Processes, ProcessDies(p)
    PROVE  SchemaInv'
<1>1. /\ SchemaTypeOK /\ AppliedIsPrefix /\ EffectsFit /\ TablesFit
      /\ WriterFits /\ ReadsAreOld /\ RunnersFit
  BY DEF SchemaInv
<1>2. /\ Fresh \in RunnerType /\ Fresh.pc = "new" /\ Fresh.applied = {}
      /\ \A q \in Processes : NoWriter.by # q
  BY SchemaAssumption DEF Fresh, RunnerType, NoWriter
<1>3. /\ runners' = [runners EXCEPT ![p] = Fresh] /\ UNCHANGED <<tables, applied, effects>>
      /\ writer' = IF writer.by = p THEN NoWriter ELSE writer
  BY DEF ProcessDies
<1>4. runners'[p] = Fresh /\ \A q \in Processes \ {p} : runners'[q] = runners[q]
  BY <1>1, <1>3 DEF SchemaTypeOK
<1>5. SchemaTypeOK' /\ AppliedIsPrefix' /\ EffectsFit' /\ TablesFit'
  BY <1>1, <1>2, <1>3, ZenonT(60)
     DEF SchemaTypeOK, AppliedIsPrefix, IsPrefix, EffectsFit, TablesFit, Migrations
<1>6. WriterFits'
  <2>1. \A q \in Processes \ {p} :
           Pending(q)' = Pending(q) /\ NextMigration(q)' = NextMigration(q)
    BY <1>4 DEF Pending, NextMigration, Migrations
  <2>2. CASE writer.by = p
    <3>1. \A q \in Processes \ {p} : runners[q].pc # "mark"
      BY <1>1, <2>2 DEF WriterFits
    <3> QED
      BY <1>2, <1>3, <1>4, <2>2, <3>1 DEF WriterFits
  <2>3. CASE writer.by # p
    BY <1>1, <1>2, <1>3, <1>4, <2>1, <2>3 DEF WriterFits
  <2> QED
    BY <2>2, <2>3
<1>7. ReadsAreOld' /\ RunnersFit'
  <2>1. IsPrefix({})
    BY SchemaAssumption DEF IsPrefix
  <2> QED
    BY <1>1, <1>2, <1>3, <1>4, <2>1, ZenonT(60)
       DEF ReadsAreOld, RunnersFit, IsPrefix, Migrations
<1> QED
  BY <1>5, <1>6, <1>7 DEF SchemaInv

\* The invariant of the schema is kept by every step of every process.
LEMMA SchemaStep == SchemaInv /\ [SchemaNext]_schemaVars => SchemaInv'
<1> SUFFICES ASSUME SchemaInv, [SchemaNext]_schemaVars
             PROVE  SchemaInv'
  OBVIOUS
<1>1. CASE SchemaNext
  <2>1. PICK p \in Processes :
           \/ ListTables(p) \/ ReadApplied(p) \/ Validate(p) \/ RunScript(p) \/ MarkApplied(p)
           \/ FinishMigration(p) \/ TriesAgain(p) \/ ProcessDies(p)
    BY <1>1 DEF SchemaNext
  <2> QED
    BY <2>1, ReadersKeep, ScriptKeeps, MarkKeeps, DeathKeeps
<1>2. CASE UNCHANGED schemaVars
  <2>1. UNCHANGED <<tables, applied, effects, writer, runners>>
    BY <1>2 DEF schemaVars
  <2> QED
    BY <2>1 DEF SchemaInv, SchemaTypeOK, AppliedIsPrefix, IsPrefix, EffectsFit, TablesFit,
                WriterFits, ReadsAreOld, RunnersFit, Pending, NextMigration, Migrations
<1> QED
  BY <1>1, <1>2

\* Whichever processes race and wherever they die, every migration named took
\* effect once and no other did, a ready process works on the whole schema, and no
\* database of this program is taken for a pre-release one.
THEOREM SchemaStaysWhole == SchemaSpec => []SchemaIsWhole
<1>1. SchemaInv => SchemaIsWhole
  <2> SUFFICES ASSUME SchemaInv
               PROVE  SchemaIsWhole
    OBVIOUS
  <2>1. PICK n \in 0 .. Packaged : applied = 1 .. n
    BY DEF SchemaInv, AppliedIsPrefix, IsPrefix
  <2>2. \A p \in Processes : runners[p].pc = "ready" => applied = Migrations
    <3>1. applied \subseteq Migrations
      BY <2>1, SchemaAssumption DEF Migrations
    <3> QED
      BY <3>1 DEF SchemaInv, RunnersFit, ReadsAreOld
  <2> QED
    BY <2>1, <2>2 DEF SchemaInv, EffectsFit, RunnersFit, SchemaIsWhole
<1> QED
  BY <1>1, SchemaStart, SchemaStep, PTL DEF SchemaSpec

-----------------------------------------------------------------------------
(* The artist names. *)

LookupType == [pc : {"wait", "request"}, todo : SUBSET Keys, attempt : Nat, found : Mappings]

NamesTypeOK ==
    /\ names \in Mappings
    /\ forms \in [Forms -> Mappings]
    /\ lookup \in {NoLookup} \cup LookupType
    /\ slot \in 0 .. NoSlot /\ clock \in 0 .. MaxTime
    /\ now \in Nat /\ reserved \in Nat /\ stepped \in BOOLEAN

\* The wall clock has not run further since the last reservation than time has
\* passed, unless it was set forward.
ClockIsSlow ==
    slot # NoSlot => reserved <= now /\ (stepped \/ clock - slot <= now - reserved)

NamesInv == NamesTypeOK /\ ClockIsSlow

\* No name is known, no form has seen one, and no request was made.
LEMMA NamesStart == NamesInit => NamesInv
<1> SUFFICES ASSUME NamesInit
             PROVE  NamesInv
  OBVIOUS
<1>1. names \in Mappings /\ forms = [f \in Forms |-> names]
  BY DEF NamesInit, Mappings
<1>2. forms \in [Forms -> Mappings]
  BY <1>1
<1>3. slot = NoSlot /\ clock \in 0 .. MaxTime /\ now = 0 /\ reserved = 0 /\ lookup = NoLookup
  BY DEF NamesInit
<1>4. stepped \in BOOLEAN
  BY DEF NamesInit
<1>5. slot \in 0 .. NoSlot
  BY <1>3, PaceAssumption DEF NoSlot
<1> QED
  BY <1>1, <1>2, <1>3, <1>4, <1>5 DEF NamesInv, NamesTypeOK, ClockIsSlow

\* The Operation keeps its types, and the pace: only a reservation stamps the row.
LEMMA LookupKeeps ==
    ASSUME NamesInv,
           \/ StartLookup \/ ReserveRequest \/ ReceiveAnswer \/ RequestFails \/ PersistNames
           \/ LookupDies
    PROVE  NamesInv'
<1> USE DEF timeVars
<1>1. /\ names \in Mappings /\ forms \in [Forms -> Mappings]
      /\ lookup \in {NoLookup} \cup LookupType
      /\ slot \in 0 .. NoSlot /\ clock \in 0 .. MaxTime
      /\ now \in Nat /\ reserved \in Nat /\ stepped \in BOOLEAN /\ ClockIsSlow
  BY DEF NamesInv, NamesTypeOK
<1>2. lookup.pc # "none" => lookup \in LookupType
  BY <1>1 DEF NoLookup
<1>3. ASSUME lookup' \in {NoLookup} \cup LookupType, names' \in Mappings,
             UNCHANGED <<forms, timeVars>>
      PROVE  NamesInv'
  BY <1>1, <1>3 DEF NamesInv, NamesTypeOK, ClockIsSlow
<1>4. CASE StartLookup
  <2>1. /\ {k \in Keys : names[k] = NoName} \in SUBSET Keys
        /\ [k \in Keys |-> NoName] \in Mappings
    BY DEF Mappings
  <2>2. lookup' \in LookupType
    BY <1>4, <2>1 DEF StartLookup, LookupType
  <2> QED
    BY <1>1, <1>3, <1>4, <2>2 DEF StartLookup
<1>5. CASE ReserveRequest
  <2>1. lookup \in LookupType
    BY <1>2, <1>5 DEF ReserveRequest
  <2>2. lookup' \in LookupType
    BY <1>5, <2>1 DEF ReserveRequest, LookupType
  <2>3. /\ slot' = clock /\ reserved' = now /\ stepped' = FALSE
        /\ UNCHANGED <<names, forms, clock, now>>
    BY <1>5 DEF ReserveRequest
  <2>4. ClockIsSlow'
    BY <1>1, <2>3, PaceAssumption DEF ClockIsSlow
  <2>5. slot' \in 0 .. NoSlot /\ clock' \in 0 .. MaxTime /\ now' \in Nat /\ reserved' \in Nat
    BY <1>1, <2>3, PaceAssumption DEF NoSlot
  <2>6. stepped' \in BOOLEAN
    BY <2>3
  <2> QED
    BY <1>1, <2>2, <2>3, <2>4, <2>5, <2>6 DEF NamesInv, NamesTypeOK
<1>6. ASSUME NEW key, NEW name \in Names \cup {NoName}, lookup \in LookupType,
             key \in lookup.todo, Settle(key, name)
      PROVE  lookup' \in LookupType
  <2>1. key \in Keys /\ lookup.found \in Mappings /\ lookup.todo \in SUBSET Keys
    BY <1>6 DEF LookupType
  <2>2. [lookup.found EXCEPT ![key] = name] \in Mappings
    BY <1>6, <2>1 DEF Mappings
  <2> QED
    BY <1>6, <2>1, <2>2 DEF Settle, LookupType
<1>7. CASE ReceiveAnswer
  <2>1. lookup \in LookupType
    BY <1>2, <1>7 DEF ReceiveAnswer
  <2>2. lookup' \in LookupType
    BY <1>6, <1>7, <2>1 DEF ReceiveAnswer
  <2> QED
    BY <1>1, <1>3, <1>7, <2>2 DEF ReceiveAnswer
<1>8. CASE RequestFails
  <2>1. lookup \in LookupType
    BY <1>2, <1>8 DEF RequestFails
  <2>2. lookup' \in LookupType
    <3>1. CASE lookup.attempt < RetryLimit
      <4>1. lookup' = [lookup EXCEPT !.pc = "wait", !.attempt = @ + 1]
        BY <1>8, <3>1 DEF RequestFails
      <4>2. lookup.attempt + 1 \in Nat
        BY <2>1 DEF LookupType
      <4> QED
        BY <2>1, <4>1, <4>2 DEF LookupType
    <3>2. CASE ~(lookup.attempt < RetryLimit)
      BY <1>6, <1>8, <2>1, <3>2 DEF RequestFails
    <3> QED
      BY <3>1, <3>2
  <2> QED
    BY <1>1, <1>3, <1>8, <2>2 DEF RequestFails
<1>9. CASE PersistNames
  <2>1. lookup \in LookupType /\ lookup' = NoLookup
    BY <1>2, <1>9 DEF PersistNames
  <2>2. lookup.found \in Mappings
    BY <2>1 DEF LookupType
  <2>3. names' \in Mappings
    BY <1>1, <1>9, <2>2 DEF PersistNames, Mappings
  <2> QED
    BY <1>3, <1>9, <2>1, <2>3 DEF PersistNames
<1>10. CASE LookupDies
  BY <1>1, <1>3, <1>10 DEF LookupDies
<1> QED
  BY <1>4, <1>5, <1>7, <1>8, <1>9, <1>10

\* The forms touch neither the lookup nor the time.
LEMMA FormsKeep ==
    ASSUME NamesInv, NEW f \in Forms, LoadMapping(f) \/ SaveMapping(f)
    PROVE  NamesInv'
<1>1. /\ names' \in Mappings /\ forms' \in [Forms -> Mappings]
  BY DEF NamesInv, NamesTypeOK, LoadMapping, SaveMapping
<1>2. UNCHANGED <<lookup, timeVars>>
  BY DEF LoadMapping, SaveMapping
<1> QED
  BY <1>1, <1>2 DEF NamesInv, NamesTypeOK, ClockIsSlow, timeVars

\* An earlier reading of the clock is no further from the same start.
LEMMA EarlierIsSlower ==
    ASSUME NEW earlier \in Nat, NEW later \in Nat, NEW from \in Nat,
           NEW end \in Nat, NEW start \in Nat,
           earlier <= later, later - from <= end - start
    PROVE  earlier - from <= end - start
OBVIOUS

\* Time passes on both clocks alike, and setting the wall clock forward is noted.
LEMMA TimeKeeps ==
    ASSUME NamesInv, Tick \/ SetClock
    PROVE  NamesInv'
<1>1. /\ slot \in 0 .. NoSlot /\ clock \in 0 .. MaxTime
      /\ now \in Nat /\ reserved \in Nat /\ stepped \in BOOLEAN /\ ClockIsSlow
  BY DEF NamesInv, NamesTypeOK
<1>2. UNCHANGED <<names, forms, lookup, slot, reserved>>
  BY DEF Tick, SetClock
<1>3. clock' \in 0 .. MaxTime /\ now' \in Nat /\ stepped' \in BOOLEAN
  <2>1. clock' \in 0 .. MaxTime /\ now' \in Nat
    BY <1>1, PaceAssumption DEF Tick, SetClock
  <2>2. stepped' \in BOOLEAN
    BY <1>1 DEF Tick, SetClock
  <2> QED
    BY <2>1, <2>2
<1>4. ClockIsSlow'
  <2>1. CASE Tick
    BY <1>1, <1>2, <2>1, PaceAssumption DEF Tick, ClockIsSlow, NoSlot
  <2>2. CASE SetClock
    <3>1. now' = now
      BY <2>2 DEF SetClock
    <3>2. stepped \/ clock' > clock => stepped'
      BY <2>2 DEF SetClock
    <3>3. CASE stepped \/ clock' > clock
      BY <1>1, <1>2, <3>1, <3>2, <3>3 DEF ClockIsSlow
    <3>4. CASE ~stepped /\ ~(clock' > clock)
      <4>1. slot # NoSlot => reserved <= now /\ clock - slot <= now - reserved
        BY <1>1, <3>4 DEF ClockIsSlow
      <4>2. slot \in Nat /\ clock \in Nat /\ clock' \in Nat /\ now \in Nat /\ reserved \in Nat
        BY <1>1, <1>3, PaceAssumption DEF NoSlot
      <4>3. clock' <= clock
        BY <3>4, <4>2
      <4>4. slot # NoSlot => reserved <= now /\ clock' - slot <= now - reserved
        BY <4>1, <4>2, <4>3, EarlierIsSlower
      <4>5. slot' = slot /\ reserved' = reserved
        BY <1>2
      <4>6. slot' # NoSlot => reserved' <= now' /\ clock' - slot' <= now' - reserved'
        BY <3>1, <4>4, <4>5, Zenon
      <4>7. NoSlot' = NoSlot
        BY DEF NoSlot
      <4> QED
        BY <4>6, <4>7, Zenon DEF ClockIsSlow
    <3> QED
      BY <3>3, <3>4
  <2> QED
    BY <2>1, <2>2
<1> QED
  BY <1>2, <1>3, <1>4 DEF NamesInv, NamesTypeOK

\* The invariant of names and pace is kept by every step.
LEMMA NamesStep == NamesInv /\ [NamesNext]_namesVars => NamesInv'
<1> SUFFICES ASSUME NamesInv, [NamesNext]_namesVars
             PROVE  NamesInv'
  OBVIOUS
<1>1. CASE NamesNext
  BY <1>1, LookupKeeps, FormsKeep, TimeKeeps DEF NamesNext
<1>2. CASE UNCHANGED namesVars
  BY <1>2 DEF namesVars, timeVars, NamesInv, NamesTypeOK, ClockIsSlow
<1> QED
  BY <1>1, <1>2

\* A name once accepted changes only by a form that showed it, and the provider is
\* asked no faster than the interval, across retries, deaths and clocks set back.
THEOREM LookupsStayOrderly == NamesSpec => LookupsAreOrderly
<1>1. NamesInv /\ [NamesNext]_namesVars =>
         [\A k \in Keys : names[k] # NoName /\ names'[k] # names[k] =>
             \E f \in Forms : forms[f][k] = names[k] /\ forms'[f] = names']_namesVars
  <2> SUFFICES ASSUME NamesInv, NamesNext, NEW k \in Keys, names[k] # NoName,
                      names'[k] # names[k]
               PROVE  \E f \in Forms : forms[f][k] = names[k] /\ forms'[f] = names'
    BY DEF namesVars
  <2>1. ASSUME NEW f \in Forms, SaveMapping(f)
        PROVE  forms[f][k] = names[k] /\ forms'[f] = names'
    BY <2>1 DEF NamesInv, NamesTypeOK, SaveMapping, SameRevision
  <2>2. ~PersistNames
    BY DEF PersistNames
  <2>3. UNCHANGED names \/ PersistNames \/ \E f \in Forms : SaveMapping(f)
    BY DEF NamesNext, StartLookup, ReserveRequest, ReceiveAnswer, RequestFails, LookupDies,
           LoadMapping, Tick, SetClock
  <2> QED
    BY <2>1, <2>2, <2>3
<1>2. NamesInv /\ [NamesNext]_namesVars =>
         [slot # NoSlot /\ lookup'.pc = "request" /\ lookup.pc = "wait" =>
             now - reserved >= Interval \/ stepped]_namesVars
  <2> SUFFICES ASSUME NamesInv, NamesNext, slot # NoSlot, lookup'.pc = "request",
                      lookup.pc = "wait"
               PROVE  now - reserved >= Interval \/ stepped
    BY DEF namesVars
  <2>1. ReserveRequest
    <3>1. lookup \in LookupType
      BY DEF NamesInv, NamesTypeOK, NoLookup
    <3>2. lookup.pc = "wait" /\ lookup # NoLookup /\ lookup' # lookup /\ lookup' # NoLookup
      BY DEF NoLookup
    <3>3. ~(StartLookup \/ ReceiveAnswer \/ PersistNames \/ LookupDies \/ Tick \/ SetClock
            \/ RequestFails)
      BY <3>2 DEF StartLookup, ReceiveAnswer, PersistNames, LookupDies, Tick, SetClock,
                  RequestFails
    <3>4. \A f \in Forms : ~(LoadMapping(f) \/ SaveMapping(f))
      BY <3>2 DEF LoadMapping, SaveMapping
    <3> QED
      BY <3>3, <3>4 DEF NamesNext
  <2>2. Elapsed >= Interval
    BY <2>1 DEF ReserveRequest
  <2>3. ClockIsSlow /\ slot \in Nat /\ clock \in Nat /\ now \in Nat /\ reserved \in Nat
    BY PaceAssumption DEF NamesInv, NamesTypeOK, NoSlot
  <2> QED
    BY <2>2, <2>3, PaceAssumption DEF Elapsed, ClockIsSlow
<1> QED
  BY <1>1, <1>2, NamesStart, NamesStep, PTL
     DEF NamesSpec, LookupsAreOrderly, NamesStick, RequestsAreSpaced

-----------------------------------------------------------------------------
(* The pages of a listing. *)

SingleLists == {"issues", "issue members"}
RisingLists == {"tracks", "actions", "events"}
FallingLists == {"plans", "runs"}

KeyType(list) ==
    IF list \in SingleLists THEN {<<a>> : a \in Nat}
    ELSE IF list = "track members" THEN Nat \X Nat \X Nat ELSE Nat \X Nat

TableType == [Rows -> Present \cup {Absent}]

\* Row values compare column by column.
LEMMA LessMeans ==
    /\ \A a, b \in Nat : Less(<<a>>, <<b>>) <=> a < b
    /\ \A a, b, c, d \in Nat : Less(<<a, b>>, <<c, d>>) <=> a < c \/ (a = c /\ b < d)
    /\ \A a, b, c, d, e, f \in Nat :
          Less(<<a, b, c>>, <<d, e, f>>) <=> a < d \/ (a = d /\ (b < e \/ (b = e /\ c < f)))
<1>1. ASSUME NEW a \in Nat, NEW b \in Nat PROVE Less(<<a>>, <<b>>) <=> a < b
  <2>1. 1 .. 1 = {1} /\ 1 .. 1 - 1 = {}
    OBVIOUS
  <2>2. Len(<<a>>) = 1 /\ <<a>>[1] = a /\ <<b>>[1] = b
    OBVIOUS
  <2> QED
    BY <2>1, <2>2 DEF Less
<1>2. ASSUME NEW a \in Nat, NEW b \in Nat, NEW c \in Nat, NEW d \in Nat
      PROVE  Less(<<a, b>>, <<c, d>>) <=> a < c \/ (a = c /\ b < d)
  <2>1. 1 .. 2 = {1, 2} /\ 1 .. 1 - 1 = {} /\ 1 .. 2 - 1 = {1}
    OBVIOUS
  <2>2. Len(<<a, b>>) = 2 /\ <<a, b>>[1] = a /\ <<a, b>>[2] = b
        /\ <<c, d>>[1] = c /\ <<c, d>>[2] = d
    OBVIOUS
  <2> QED
    BY <2>1, <2>2 DEF Less
<1>3. ASSUME NEW a \in Nat, NEW b \in Nat, NEW c \in Nat, NEW d \in Nat, NEW e \in Nat, NEW f \in Nat
      PROVE  Less(<<a, b, c>>, <<d, e, f>>)
                <=> a < d \/ (a = d /\ (b < e \/ (b = e /\ c < f)))
  <2>1. 1 .. 3 = {1, 2, 3} /\ 1 .. 1 - 1 = {} /\ 1 .. 2 - 1 = {1} /\ 1 .. 3 - 1 = {1, 2}
    OBVIOUS
  <2>2. /\ Len(<<a, b, c>>) = 3
        /\ <<a, b, c>>[1] = a /\ <<a, b, c>>[2] = b /\ <<a, b, c>>[3] = c
        /\ <<d, e, f>>[1] = d /\ <<d, e, f>>[2] = e /\ <<d, e, f>>[3] = f
    OBVIOUS
  <2> QED
    BY <2>1, <2>2 DEF Less
<1> QED
  BY <1>1, <1>2, <1>3

\* The columns of a key.
LEMMA KeysHaveColumns ==
    /\ \A x \in {<<a>> : a \in Nat} : x # NoCursor /\ x = <<x[1]>> /\ x[1] \in Nat
    /\ \A x \in Nat \X Nat :
          x # NoCursor /\ x = <<x[1], x[2]>> /\ x[1] \in Nat /\ x[2] \in Nat
    /\ \A x \in Nat \X Nat \X Nat :
          x # NoCursor /\ x = <<x[1], x[2], x[3]>> /\ x[1] \in Nat /\ x[2] \in Nat /\ x[3] \in Nat
<1>1. Len(NoCursor) = 0
  BY DEF NoCursor
<1>2. ASSUME NEW x \in {<<a>> : a \in Nat} PROVE x # NoCursor /\ x = <<x[1]>> /\ x[1] \in Nat
  <2>1. PICK a \in Nat : x = <<a>>
    OBVIOUS
  <2>2. Len(<<a>>) = 1 /\ <<a>>[1] = a
    OBVIOUS
  <2> QED
    BY <1>1, <2>1, <2>2
<1>3. ASSUME NEW x \in Nat \X Nat
      PROVE  x # NoCursor /\ x = <<x[1], x[2]>> /\ x[1] \in Nat /\ x[2] \in Nat
  <2>1. PICK a \in Nat, b \in Nat : x = <<a, b>>
    OBVIOUS
  <2>2. Len(<<a, b>>) = 2 /\ <<a, b>>[1] = a /\ <<a, b>>[2] = b
    OBVIOUS
  <2> QED
    BY <1>1, <2>1, <2>2
<1>4. ASSUME NEW x \in Nat \X Nat \X Nat
      PROVE  /\ x # NoCursor /\ x = <<x[1], x[2], x[3]>>
             /\ x[1] \in Nat /\ x[2] \in Nat /\ x[3] \in Nat
  <2>1. PICK a \in Nat, b \in Nat, c \in Nat : x = <<a, b, c>>
    OBVIOUS
  <2>2. Len(<<a, b, c>>) = 3 /\ <<a, b, c>>[1] = a /\ <<a, b, c>>[2] = b /\ <<a, b, c>>[3] = c
    OBVIOUS
  <2> QED
    BY <1>1, <2>1, <2>2
<1> QED
  BY <1>2, <1>3, <1>4

\* ORDER BY is a strict total order of the keys of each list, and the predicate
\* that continues after a cursor is that order.
LEMMA ListsAreOrdered ==
    ASSUME NEW list \in Lists, NEW k \in KeyType(list), NEW l \in KeyType(list),
           NEW m \in KeyType(list)
    PROVE  /\ ~Precedes(list, k, k)
           /\ Precedes(list, k, l) /\ Precedes(list, l, m) => Precedes(list, k, m)
           /\ k # l => Precedes(list, k, l) \/ Precedes(list, l, k)
           /\ k # NoCursor /\ (AfterCursor(list, l, k) <=> Precedes(list, k, l))
<1> USE DEF SingleLists, RisingLists, FallingLists, ByGroup
<1>1. CASE list \in SingleLists
  <2>1. \A x \in KeyType(list) : x # NoCursor /\ x = <<x[1]>> /\ x[1] \in Nat
    BY <1>1, KeysHaveColumns DEF KeyType
  <2>2. \A x, y \in KeyType(list) : (Precedes(list, x, y) <=> Less(x, y))
                                    /\ (AfterCursor(list, x, y) <=> x[1] > y[1])
    BY <1>1, <2>1 DEF Precedes, AfterCursor, AfterIssue
  <2>3. \A x, y \in KeyType(list) : Less(x, y) <=> x[1] < y[1]
    BY <2>1, LessMeans
  <2> QED
    BY <2>1, <2>2, <2>3
<1>2. CASE list = "track members"
  <2>1. \A x \in KeyType(list) : x # NoCursor /\ x = <<x[1], x[2], x[3]>>
                                 /\ x[1] \in Nat /\ x[2] \in Nat /\ x[3] \in Nat
    BY <1>2, KeysHaveColumns DEF KeyType
  <2>2. \A x, y \in KeyType(list) : (Precedes(list, x, y) <=> Less(x, y))
                                    /\ (AfterCursor(list, x, y) <=> Less(y, x))
    BY <1>2, <2>1 DEF Precedes, AfterCursor, AfterMember
  <2>3. \A x, y \in KeyType(list) :
           Less(x, y) <=> x[1] < y[1] \/ (x[1] = y[1] /\ (x[2] < y[2] \/ (x[2] = y[2] /\ x[3] < y[3])))
    BY <2>1, LessMeans
  <2> QED
    BY <2>1, <2>2, <2>3
<1>3. CASE list \in RisingLists
  <2>1. \A x \in KeyType(list) : x # NoCursor /\ x = <<x[1], x[2]>> /\ x[1] \in Nat /\ x[2] \in Nat
    BY <1>3, KeysHaveColumns DEF KeyType
  <2>2. \A x, y \in KeyType(list) : (Precedes(list, x, y) <=> Less(x, y))
                                    /\ (AfterCursor(list, x, y) <=> Less(y, x))
    BY <1>3, <2>1 DEF Precedes, AfterCursor, AfterTrack, AfterAction, AfterEvent
  <2>3. \A x, y \in KeyType(list) : Less(x, y) <=> x[1] < y[1] \/ (x[1] = y[1] /\ x[2] < y[2])
    BY <2>1, LessMeans
  <2> QED
    BY <2>1, <2>2, <2>3
<1>4. CASE list \in FallingLists
  <2>1. \A x \in KeyType(list) : x # NoCursor /\ x = <<x[1], x[2]>> /\ x[1] \in Nat /\ x[2] \in Nat
    BY <1>4, KeysHaveColumns DEF KeyType
  <2>2. \A x, y \in KeyType(list) : (Precedes(list, x, y) <=> Less(y, x))
                                    /\ (AfterCursor(list, x, y) <=> Less(x, y))
    BY <1>4, <2>1 DEF Precedes, AfterCursor, AfterPlan, AfterRun
  <2>3. \A x, y \in KeyType(list) : Less(x, y) <=> x[1] < y[1] \/ (x[1] = y[1] /\ x[2] < y[2])
    BY <2>1, LessMeans
  <2> QED
    BY <2>1, <2>2, <2>3
<1>5. CASE list \in ByGroup
  <2>1. \A x \in KeyType(list) : x # NoCursor /\ x = <<x[1], x[2]>> /\ x[1] \in Nat /\ x[2] \in Nat
    BY <1>5, KeysHaveColumns DEF KeyType
  <2>2. \A x, y \in KeyType(list) :
           /\ Precedes(list, x, y) <=> x[1] > y[1] \/ (x[1] = y[1] /\ x[2] < y[2])
           /\ AfterCursor(list, x, y) <=> x[1] < y[1] \/ (x[1] = y[1] /\ x[2] > y[2])
    BY <1>5, <2>1 DEF Precedes, AfterCursor, AfterGroup, AfterActionGroup
  <2> QED
    BY <2>1, <2>2
<1> QED
  BY <1>1, <1>2, <1>3, <1>4, <1>5, PagingAssumption

\* A list shows finitely many entries, each with a key of its own.
LEMMA EntriesHaveKeys ==
    ASSUME NEW t \in TableType, NEW list \in Lists
    PROVE  /\ EntriesIn(t, list) \subseteq Rows \cup Groups /\ IsFiniteSet(EntriesIn(t, list))
           /\ \A e \in EntriesIn(t, list) : Order(t, list, e) \in KeyType(list)
           /\ \A e, f \in EntriesIn(t, list) : Order(t, list, e) = Order(t, list, f) => e = f
<1>1. EntriesIn(t, list) \in SUBSET (Rows \cup Groups)
  BY DEF EntriesIn
<1>2. IsFiniteSet(EntriesIn(t, list))
  BY <1>1, PagingAssumption, FS_Union, FS_Subset
<1>3. ASSUME NEW r \in Rows PROVE r \in Nat /\ t[r].rank \in Nat
  <2>1. t[r] \in Present \cup {Absent}
    BY DEF TableType
  <2>3. Rows \subseteq Nat /\ Ranks \subseteq Nat
    BY PagingAssumption
  <2>4. r \in Nat
    BY <2>3
  <2>5. t[r].rank \in Nat
    <3>1. CASE t[r] \in Present
      <4>1. PICK a \in Ranks, b \in Groups, c \in BOOLEAN : t[r] = [rank |-> a, group |-> b, hit |-> c]
        BY <3>1 DEF Present
      <4> QED
        BY <2>3, <4>1
    <3>2. CASE t[r] = Absent
      BY <3>2 DEF Absent
    <3> QED
      BY <2>1, <3>1, <3>2
  <2> QED
    BY <2>4, <2>5
<1>4. ASSUME NEW name, NEW g PROVE Cardinality(MembersIn(t, name, g)) \in Nat
  <2>1. MembersIn(t, name, g) \in SUBSET Rows
    BY DEF MembersIn
  <2> QED
    BY <2>1, PagingAssumption, FS_Subset, FS_CardinalityType
<1>5. CASE list \in SingleLists
  BY <1>3, <1>5, <1>1, <1>2 DEF SingleLists, EntriesIn, ByGroup, Order, KeyType, IssueOrder, IssueMemberOrder
<1>6. CASE list = "track members"
  BY <1>3, <1>6, <1>1, <1>2 DEF SingleLists, EntriesIn, ByGroup, Order, KeyType, TrackMemberOrder
<1>7. CASE list \in RisingLists \cup FallingLists
  <2>1. \A r \in Rows : Order(t, list, r) = <<t[r].rank, r>>
    BY <1>7 DEF RisingLists, FallingLists, Order, TrackOrder, ActionOrder, EventOrder, PlanOrder, RunOrder
  <2>2. EntriesIn(t, list) \subseteq Rows /\ KeyType(list) = Nat \X Nat
    BY <1>7 DEF RisingLists, FallingLists, EntriesIn, ByGroup, KeyType, SingleLists
  <2> QED
    BY <1>1, <1>2, <1>3, <2>1, <2>2
<1>8. CASE list \in ByGroup
  <2>1. \A g \in Groups : Order(t, list, g) = <<Cardinality(MembersIn(t, list, g)), g>>
    BY <1>8 DEF ByGroup, Order, IssueGroupOrder, TrackGroupOrder, ActionGroupOrder
  <2>2. EntriesIn(t, list) \subseteq Groups /\ KeyType(list) = Nat \X Nat
    BY <1>8 DEF EntriesIn, ByGroup, KeyType, SingleLists
  <2>3. \A g \in Groups : g \in Nat
    BY PagingAssumption
  <2> QED
    BY <1>1, <1>2, <1>4, <2>1, <2>2, <2>3
<1> QED
  BY <1>5, <1>6, <1>7, <1>8, PagingAssumption DEF SingleLists, RisingLists, FallingLists, ByGroup

\* The entries of a set a page shows when it ends with e.
ShownWith(t, list, S, e) == {f \in S : ~Precedes(list, Order(t, list, e), Order(t, list, f))}

\* The entries that are left come one after the other: there is one for each length
\* of a page.
LEMMA PagesHaveEnds ==
    ASSUME NEW t \in TableType, NEW list \in Lists, NEW S \in SUBSET EntriesIn(t, list)
    PROVE  /\ IsFiniteSet(S) /\ Cardinality(S) \in Nat
           /\ \A e \in S : Cardinality(ShownWith(t, list, S, e)) \in 1 .. Cardinality(S)
           /\ \A e, f \in S : f \in ShownWith(t, list, S, e)
                  <=> Cardinality(ShownWith(t, list, S, f)) <= Cardinality(ShownWith(t, list, S, e))
           /\ \A k \in 1 .. Cardinality(S) : \E e \in S : Cardinality(ShownWith(t, list, S, e)) = k
<1> DEFINE Key(e) == Order(t, list, e)
           Shown(e) == ShownWith(t, list, S, e)
           size == Cardinality(S)
           rank == [e \in S |-> Cardinality(Shown(e))]
<1>1. IsFiniteSet(S) /\ size \in Nat
  BY EntriesHaveKeys, FS_Subset, FS_CardinalityType
<1>2. /\ \A e \in S : Key(e) \in KeyType(list)
      /\ \A e, f \in S : Key(e) = Key(f) => e = f
  BY EntriesHaveKeys
<1>3. /\ \A e \in S : ~Precedes(list, Key(e), Key(e))
      /\ \A e, f, g \in S : Precedes(list, Key(e), Key(f)) /\ Precedes(list, Key(f), Key(g))
                              => Precedes(list, Key(e), Key(g))
      /\ \A e, f \in S : e # f => Precedes(list, Key(e), Key(f)) \/ Precedes(list, Key(f), Key(e))
  BY <1>2, ListsAreOrdered
<1>4. \A e, f \in S : f \in Shown(e) <=> ~Precedes(list, Key(e), Key(f))
  BY DEF ShownWith
<1>5. \A e \in S : Shown(e) \in SUBSET S /\ e \in Shown(e)
  BY <1>3 DEF ShownWith
<1>6. ASSUME NEW e \in S PROVE IsFiniteSet(Shown(e)) /\ rank[e] \in 1 .. size
  <2>1. /\ IsFiniteSet(Shown(e)) /\ Cardinality(Shown(e)) <= size
        /\ Cardinality(Shown(e)) \in Nat
    BY <1>1, <1>5, FS_Subset, FS_CardinalityType
  <2>2. Cardinality(Shown(e)) # 0
    BY <1>5, <2>1, FS_EmptySet
  <2> QED
    BY <1>1, <2>1, <2>2
<1>7. ASSUME NEW e \in S, NEW f \in S, Precedes(list, Key(e), Key(f)) PROVE rank[e] < rank[f]
  <2>1. \A g \in Shown(e) : g \in S /\ g \in Shown(f)
    <3> SUFFICES ASSUME NEW g \in Shown(e) PROVE g \in S /\ g \in Shown(f)
      OBVIOUS
    <3>1. g \in S /\ ~Precedes(list, Key(e), Key(g))
      BY <1>4, <1>5
    <3>2. ~Precedes(list, Key(f), Key(g))
      BY <1>3, <1>7, <3>1
    <3> QED
      BY <1>4, <3>1, <3>2
  <2>2. Shown(e) \in SUBSET Shown(f)
    BY <2>1
  <2>3. f \in Shown(f) /\ f \notin Shown(e)
    BY <1>4, <1>5, <1>7
  <2>4. Cardinality(Shown(e)) <= Cardinality(Shown(f)) /\ Cardinality(Shown(e)) # Cardinality(Shown(f))
    BY <1>6, <2>2, <2>3, FS_Subset
  <2>5. rank[e] \in 1 .. size /\ rank[f] \in 1 .. size
    BY <1>6
  <2> QED
    BY <2>4, <2>5
<1>8. \A e, f \in S : f \in Shown(e) <=> rank[f] <= rank[e]
  <2> SUFFICES ASSUME NEW e \in S, NEW f \in S PROVE f \in Shown(e) <=> rank[f] <= rank[e]
    OBVIOUS
  <2>0. rank[e] \in 1 .. size /\ rank[f] \in 1 .. size
    BY <1>6
  <2>1. CASE e = f
    BY <1>5, <2>0, <2>1
  <2>2. CASE Precedes(list, Key(e), Key(f))
    <3>1. rank[e] < rank[f]
      BY <1>7, <2>2
    <3>2. f \notin Shown(e)
      BY <1>4, <2>2
    <3> QED
      BY <2>0, <3>1, <3>2
  <2>3. CASE Precedes(list, Key(f), Key(e))
    <3>1. rank[f] < rank[e]
      BY <1>7, <2>3
    <3>2. f \in Shown(e)
      BY <1>3, <1>4, <2>3
    <3> QED
      BY <2>0, <3>1, <3>2
  <2> QED
    BY <1>3, <2>1, <2>2, <2>3
<1>9. rank \in Injection(S, 1 .. size)
  <2>1. rank \in [S -> 1 .. size]
    BY <1>6
  <2>2. ASSUME NEW e \in S, NEW f \in S, rank[e] = rank[f] PROVE e = f
    <3>1. rank[e] \in Int
      BY <1>6
    <3>2. ~Precedes(list, Key(e), Key(f)) /\ ~Precedes(list, Key(f), Key(e))
      BY <1>7, <2>2, <3>1
    <3> QED
      BY <1>3, <3>2
  <2>3. \A e, f \in S : rank[e] = rank[f] => e = f
    BY <2>2
  <2> HIDE DEF rank, size
  <2> QED
    BY <2>1, <2>3 DEF Injection, IsInjective
<1>10. IsFiniteSet(1 .. size) /\ Cardinality(1 .. size) = size
  BY <1>1, FS_Interval
<1>11. rank \in Surjection(S, 1 .. size)
  BY <1>9, <1>10, FS_Injection
<1>12. \A k \in 1 .. size : \E e \in S : rank[e] = k
  BY <1>11 DEF Surjection
<1> HIDE DEF Shown
<1>13. /\ \A e \in S : Cardinality(Shown(e)) \in 1 .. size
       /\ \A e, f \in S : f \in Shown(e) <=> Cardinality(Shown(f)) <= Cardinality(Shown(e))
       /\ \A k \in 1 .. size : \E e \in S : Cardinality(Shown(e)) = k
  BY <1>6, <1>8, <1>12
<1> QED
  BY <1>1, <1>13 DEF Shown

\* What has been given of what keeps still is what the cursor has passed.
PagingInv ==
    /\ table \in TableType
    /\ walk = [list |-> walk.list, cursor |-> walk.cursor, done |-> walk.done,
               still |-> walk.still, given |-> walk.given]
    /\ walk.list \in Lists /\ walk.done \in BOOLEAN
    /\ walk.given \in [Rows \cup Groups -> Nat]
    /\ walk.still \subseteq EntriesIn(table, walk.list)
    /\ walk.cursor = NoCursor \/ walk.cursor \in KeyType(walk.list)
    /\ \A e \in walk.still :
          walk.given[e] = IF /\ ~walk.done
                             /\ AfterCursor(walk.list, Order(table, walk.list, e), walk.cursor)
                          THEN 0 ELSE 1

\* A page gives the entries between the old cursor and the new one, each once.
LEMMA PageKeeps == ASSUME PagingInv, ReadPage PROVE PagingInv'
<1>1. PICK list \in Lists : list = walk.list
  BY DEF PagingInv
<1>2. PICK t \in TableType : t = table
  BY DEF PagingInv
<1>3. PICK cursor : cursor = walk.cursor
  OBVIOUS
<1> DEFINE Key(e) == Order(t, list, e)
           rest == {e \in EntriesIn(t, list) : AfterCursor(list, Key(e), cursor)}
           page == {e \in rest : Cardinality(ShownWith(t, list, rest, e)) <= Limit}
           more == Cardinality(rest) > Limit
           last == CHOOSE e \in page : ShownWith(t, list, rest, e) = page
<1>4. /\ ~walk.done /\ table' = t
      /\ walk' = [walk EXCEPT
             !.given = [e \in DOMAIN @ |-> IF e \in page THEN @[e] + 1 ELSE @[e]],
             !.cursor = IF more THEN NextCursor(t, list, last) ELSE @,
             !.done = ~more]
  BY <1>1, <1>2, <1>3 DEF ReadPage, ShownWith
<1>5. \A e \in EntriesIn(t, list) : Key(e) \in KeyType(list) /\ e \in Rows \cup Groups
  BY EntriesHaveKeys
<1>6. rest \in SUBSET EntriesIn(t, list)
  OBVIOUS
<1>7. /\ Cardinality(rest) \in Nat
      /\ \A e \in rest : Cardinality(ShownWith(t, list, rest, e)) \in 1 .. Cardinality(rest)
      /\ \A e, f \in rest : f \in ShownWith(t, list, rest, e)
            <=> Cardinality(ShownWith(t, list, rest, f)) <= Cardinality(ShownWith(t, list, rest, e))
      /\ \A k \in 1 .. Cardinality(rest) : \E e \in rest : Cardinality(ShownWith(t, list, rest, e)) = k
  BY <1>6, PagesHaveEnds
<1>0. Limit \in Nat /\ Limit >= 1
  <2>1. Limit \in Nat \ {0}
    BY PagingAssumption
  <2> QED
    BY <2>1
<1>8. more => /\ last \in rest /\ last \in page
              /\ \A e \in rest : e \in page <=> ~Precedes(list, Key(last), Key(e))
  <2> SUFFICES ASSUME more
               PROVE  /\ last \in rest /\ last \in page
                      /\ \A e \in rest : e \in page <=> ~Precedes(list, Key(last), Key(e))
    OBVIOUS
  <2>1. Limit \in 1 .. Cardinality(rest)
    BY <1>0, <1>7
  <2>2. PICK e \in rest : Cardinality(ShownWith(t, list, rest, e)) = Limit
    BY <1>7, <2>1
  <2>3. e \in page
    BY <2>1, <2>2
  <2>4. ShownWith(t, list, rest, e) = page
    <3>1. ShownWith(t, list, rest, e) \subseteq rest
      BY DEF ShownWith
    <3>2. \A f \in rest : f \in ShownWith(t, list, rest, e) <=> f \in page
      BY <1>7, <2>2
    <3> QED
      BY <3>1, <3>2
  <2>5. last \in page /\ ShownWith(t, list, rest, last) = page
    BY <2>3, <2>4
  <2> HIDE DEF last
  <2>6. last \in rest
    BY <2>5
  <2> QED
    BY <2>5, <2>6 DEF ShownWith
<1>9. ~more => page = rest
  <2> SUFFICES ASSUME ~more PROVE page = rest
    OBVIOUS
  <2>1. Cardinality(rest) <= Limit
    BY <1>0, <1>7
  <2>2. \A e \in rest : Cardinality(ShownWith(t, list, rest, e)) <= Limit
    BY <1>0, <1>7, <2>1
  <2> QED
    BY <2>2
<1> HIDE DEF last, more, page, rest
<1>10. PICK next : next = IF more THEN NextCursor(t, list, last) ELSE cursor
  OBVIOUS
<1>11. more => next = Key(last) /\ next \in KeyType(list)
  <2>1. more => next = Key(last)
    <3>1. CASE list = "track members"
      BY <1>10, <3>1 DEF NextCursor, MemberCursor, Order, TrackMemberOrder
    <3>2. CASE list # "track members"
      BY <1>10, <3>2 DEF NextCursor
    <3> QED
      BY <3>1, <3>2
  <2> QED
    BY <1>5, <1>6, <1>8, <2>1
<1>12. PICK moreLeft \in BOOLEAN : moreLeft = more
  <2>1. more \in BOOLEAN
    BY DEF more
  <2> QED
    BY <2>1
<1>13. PICK shown : shown = page
  OBVIOUS
<1>14. walk' = [walk EXCEPT
             !.given = [e \in DOMAIN @ |-> IF e \in shown THEN @[e] + 1 ELSE @[e]],
             !.cursor = next, !.done = ~moreLeft]
  BY <1>3, <1>4, <1>10, <1>12, <1>13
<1>15. /\ walk' = [list |-> walk'.list, cursor |-> walk'.cursor, done |-> walk'.done,
                   still |-> walk'.still, given |-> walk'.given]
       /\ walk'.list = list /\ walk'.cursor = next /\ walk'.done = ~moreLeft
       /\ walk'.still = walk.still
       /\ walk'.given = [e \in Rows \cup Groups |->
                            IF e \in shown THEN walk.given[e] + 1 ELSE walk.given[e]]
  BY <1>1, <1>14 DEF PagingInv
<1>16. next = NoCursor \/ next \in KeyType(list)
  BY <1>1, <1>3, <1>10, <1>11 DEF PagingInv
<1>17. ASSUME NEW e \in walk.still
       PROVE  walk'.given[e] = IF moreLeft /\ AfterCursor(list, Key(e), next) THEN 0 ELSE 1
  <2>1. e \in EntriesIn(t, list) /\ e \in Rows \cup Groups /\ Key(e) \in KeyType(list)
    BY <1>1, <1>2, <1>5 DEF PagingInv
  <2>2. walk.given[e] = IF e \in rest THEN 0 ELSE 1
    BY <1>1, <1>2, <1>3, <1>4, <2>1 DEF PagingInv, rest
  <2>3. walk'.given[e] = IF e \in shown THEN walk.given[e] + 1 ELSE walk.given[e]
    BY <1>15, <2>1
  <2>4. shown \subseteq rest
    BY <1>13 DEF page
  <2>5. CASE ~moreLeft
    BY <1>9, <1>12, <1>13, <2>2, <2>3, <2>5
  <2>6. CASE moreLeft
    <3>1. /\ next = Key(last) /\ next \in KeyType(list) /\ last \in rest
          /\ \A f \in rest : f \in shown <=> ~Precedes(list, Key(last), Key(f))
      BY <1>8, <1>11, <1>12, <1>13, <2>6
    <3>2. AfterCursor(list, Key(e), next) <=> Precedes(list, Key(last), Key(e))
      BY <2>1, <3>1, ListsAreOrdered
    <3>3. CASE e \in rest
      BY <2>2, <2>3, <2>6, <3>1, <3>2, <3>3
    <3>4. CASE e \notin rest
      <4>1. cursor # NoCursor /\ cursor \in KeyType(list)
        <5>1. ~AfterCursor(list, Key(e), cursor)
          BY <2>1, <3>4 DEF rest
        <5> QED
          BY <1>1, <1>3, <5>1 DEF PagingInv, AfterCursor
      <4>2. Precedes(list, cursor, Key(last)) /\ ~Precedes(list, cursor, Key(e))
        BY <2>1, <3>1, <3>4, <4>1, <1>5, <1>6, ListsAreOrdered DEF rest
      <4>3. ~Precedes(list, Key(last), Key(e))
        BY <2>1, <3>1, <4>1, <4>2, ListsAreOrdered
      <4> QED
        BY <2>2, <2>3, <2>4, <2>6, <3>2, <3>4, <4>3
    <3> QED
      BY <3>3, <3>4
  <2> QED
    BY <2>5, <2>6
<1>18. walk'.given \in [Rows \cup Groups -> Nat]
  BY <1>15 DEF PagingInv
<1>19. /\ table' \in TableType /\ walk'.list \in Lists /\ walk'.done \in BOOLEAN
       /\ walk'.still \subseteq EntriesIn(table', walk'.list)
  BY <1>1, <1>2, <1>4, <1>15 DEF PagingInv
<1>20. \A e \in walk'.still :
          walk'.given[e] = IF ~walk'.done /\ AfterCursor(walk'.list, Order(table', walk'.list, e), walk'.cursor)
                           THEN 0 ELSE 1
  <2> SUFFICES ASSUME NEW e \in walk'.still
               PROVE  walk'.given[e] =
                         IF ~walk'.done /\ AfterCursor(walk'.list, Order(table', walk'.list, e), walk'.cursor)
                         THEN 0 ELSE 1
    OBVIOUS
  <2>1. e \in walk.still /\ Order(table', walk'.list, e) = Key(e)
    BY <1>4, <1>15
  <2>2. (~walk'.done <=> moreLeft) /\ walk'.list = list /\ walk'.cursor = next
    BY <1>15
  <2> HIDE DEF Key
  <2>3. walk'.given[e] = IF moreLeft /\ AfterCursor(list, Key(e), next) THEN 0 ELSE 1
    BY <1>17, <2>1
  <2> QED
    BY <2>1, <2>2, <2>3
<1> QED
  BY <1>15, <1>16, <1>18, <1>19, <1>20 DEF PagingInv

\* An entry that a change touches is no longer one of those that kept still.
LEMMA ChangeKeeps == ASSUME PagingInv, ChangeRow PROVE PagingInv'
<1>1. table' \in TableType
  BY DEF ChangeRow, PagingInv, TableType
<1>2. PICK kept : kept = {e \in walk.still : /\ e \in EntriesIn(table', walk.list)
                     /\ Order(table', walk.list, e) = Order(table, walk.list, e)}
  OBVIOUS
<1>3. walk' = [walk EXCEPT !.still = kept]
  BY <1>2 DEF ChangeRow
<1>4. /\ walk' = [list |-> walk'.list, cursor |-> walk'.cursor, done |-> walk'.done,
                  still |-> walk'.still, given |-> walk'.given]
      /\ walk'.list = walk.list /\ walk'.cursor = walk.cursor /\ walk'.done = walk.done
      /\ walk'.still = kept /\ walk'.given = walk.given
  BY <1>3 DEF PagingInv
<1>5. kept \subseteq walk.still /\ kept \subseteq EntriesIn(table', walk.list)
  BY <1>2
<1>6. \A e \in kept : Order(table', walk.list, e) = Order(table, walk.list, e)
  BY <1>2
<1> QED
  BY <1>1, <1>4, <1>5, <1>6 DEF PagingInv

\* A row or group that matched from the first page to the last and kept its key
\* is returned by exactly one page, for every table, list and page size, whatever
\* else is added, removed or changed between the pages.
THEOREM WalksStayComplete == PagingSpec => []WalksAreComplete
<1>1. PagingInit => PagingInv
  <2> SUFFICES ASSUME PagingInit PROVE PagingInv
    OBVIOUS
  <2>1. PICK list \in Lists :
           walk = [list |-> list, cursor |-> NoCursor, done |-> FALSE,
                   still |-> EntriesIn(table, list), given |-> [e \in Rows \cup Groups |-> 0]]
    BY DEF PagingInit
  <2>2. table \in TableType
    BY DEF PagingInit, TableType
  <2>3. EntriesIn(table, list) \subseteq Rows \cup Groups
    BY <2>2, EntriesHaveKeys
  <2> QED
    BY <2>1, <2>2, <2>3 DEF PagingInv, AfterCursor
<1>2. PagingInv /\ [PagingNext]_pagingVars => PagingInv'
  <2> SUFFICES ASSUME PagingInv, [PagingNext]_pagingVars PROVE PagingInv'
    OBVIOUS
  <2>1. CASE UNCHANGED pagingVars
    BY <2>1 DEF PagingInv, pagingVars
  <2> QED
    BY <2>1, PageKeeps, ChangeKeeps DEF PagingNext
<1>3. PagingInv => WalksAreComplete
  BY DEF PagingInv, WalksAreComplete
<1> QED
  BY <1>1, <1>2, <1>3, PTL DEF PagingSpec

-----------------------------------------------------------------------------
(* What a settings file says, and what is written for it. *)

TextSettings ==
    {<<"path_policy", "template">>, <<"path_policy", "unknown_artist">>,
     <<"path_policy", "unknown_album">>, <<"artist_ids", "fallback_id">>,
     <<"musicbrainz", "application_name">>, <<"musicbrainz", "contact">>,
     <<"unprocessed", "directory">>}

\* The types the reader gives to the settings whose values it may refuse.
TypesFit(f) ==
    /\ Type(f) = "optional" <=> f[1] = "paths" \/ f = <<"logging", "destination">>
    /\ Type(f) = "string" <=> f \in TextSettings
    /\ Type(f) = "version" <=> f[1] = "root"
    /\ Type(f) \in {"optional", "string", "bool", "int", "float", "choice", "version"}

\* Every setting is one key of one section, read with one of these types.
LEMMA SettingTypes == \A f \in Settings : TypesFit(f) /\ f = <<f[1], f[2]>>
<1>1. ASSUME NEW s \in Sections, NEW k \in DOMAIN Reader[s] PROVE TypesFit(<<s, k>>)
  <2>0. Sections = {"root", "paths", "add", "organize", "refresh", "path_policy", "artist_ids", "metadata",
                    "collision", "musicbrainz", "hashing", "logging", "companions", "unprocessed"}
    BY DEF Sections, Reader
  <2>1. CASE s \in {"root", "paths", "add", "organize", "refresh", "companions", "collision", "hashing"}
    BY <2>1 DEF Reader, TypesFit, Type, TextSettings, ReadPaths, ReadCommand, ReadCompanions, ReadCollision, ReadHashing
  <2>2. CASE s = "path_policy"
    BY <2>2 DEF Reader, TypesFit, Type, TextSettings, ReadPathPolicy
  <2>3. CASE s = "artist_ids"
    BY <2>3 DEF Reader, TypesFit, Type, TextSettings, ReadArtistIds
  <2>4. CASE s = "metadata"
    BY <2>4 DEF Reader, TypesFit, Type, TextSettings, ReadMetadata
  <2>5. CASE s = "musicbrainz"
    BY <2>5 DEF Reader, TypesFit, Type, TextSettings, ReadMusicBrainz
  <2>6. CASE s = "logging"
    BY <2>6 DEF Reader, TypesFit, Type, TextSettings, ReadLogging
  <2>7. CASE s = "unprocessed"
    BY <2>7 DEF Reader, TypesFit, Type, TextSettings, ReadUnprocessed
  <2> QED
    BY <2>0, <2>1, <2>2, <2>3, <2>4, <2>5, <2>6, <2>7
<1>2. ASSUME NEW f \in Settings
      PROVE  f[1] \in Sections /\ f[2] \in DOMAIN Reader[f[1]] /\ f = <<f[1], f[2]>>
  BY DEF Settings
<1> QED
  BY <1>1, <1>2

\* One value of a setting that the settings may hold, and that can be saved.
Holds(f, v) == v \notin {"missing", "wrong type"} /\ (v = "unset" => Type(f) = "optional")

Accepted(f, v) == Holds(f, v) /\ ~DomainRefuses(f, v) /\ ~CandidateIssue(f, v)

Written(v) == IF v = "unset" THEN "missing" ELSE v

\* What is accepted is read back from what is written for it.
LEMMA AcceptedIsRead ==
    ASSUME NEW f \in Settings, NEW v, Accepted(f, v),
           f = <<"unprocessed", "directory">> => v # "wide space"
    PROVE  ~ReadError(f, Written(v)) /\ Entry(f, Written(v)) = v
<1>1. TypesFit(f) /\ f = <<f[1], f[2]>>
  BY SettingTypes
<1>2. Entry(f, Written(v)) = v
  BY DEF Accepted, Holds, Entry, Unset, Written
<1>3. Type(f) \in {"optional", "string"} => v \notin Blank
  <2> SUFFICES ASSUME Type(f) \in {"optional", "string"}, v \in Blank PROVE FALSE
    OBVIOUS
  <2>1. ~DomainRefuses(f, v) /\ ~CandidateIssue(f, v)
    BY DEF Accepted
  <2>2. f[1] = "paths" \/ f = <<"logging", "destination">> \/ f \in TextSettings
    BY <1>1 DEF TypesFit
  <2>3. CASE f[1] = "paths"
    BY <2>1, <2>3 DEF CandidateIssue
  <2>4. CASE f = <<"logging", "destination">>
    BY <2>1, <2>4 DEF DomainRefuses, LoggingRefuses
  <2>5. CASE f = <<"path_policy", "template">>
    BY <2>1, <2>5 DEF CandidateIssue
  <2>9. CASE f = <<"path_policy", "unknown_artist">> \/ f = <<"path_policy", "unknown_album">>
    <3>1. CASE f = <<"path_policy", "unknown_artist">>
      BY <2>1, <3>1 DEF DomainRefuses, PathPolicyRefuses
    <3>2. CASE f = <<"path_policy", "unknown_album">>
      BY <2>1, <3>2 DEF DomainRefuses, PathPolicyRefuses
    <3> QED
      BY <2>9, <3>1, <3>2
  <2>6. CASE f = <<"artist_ids", "fallback_id">>
    BY <2>1, <2>6 DEF DomainRefuses, ArtistIdRefuses, Blank
  <2>7. CASE f = <<"musicbrainz", "application_name">> \/ f = <<"musicbrainz", "contact">>
    <3>1. CASE f = <<"musicbrainz", "application_name">>
      BY <2>1, <3>1 DEF DomainRefuses, MusicBrainzRefuses
    <3>2. CASE f = <<"musicbrainz", "contact">>
      BY <2>1, <3>2 DEF DomainRefuses, MusicBrainzRefuses
    <3> QED
      BY <2>7, <3>1, <3>2
  <2>8. CASE f = <<"unprocessed", "directory">>
    BY <2>1, <2>8 DEF DomainRefuses, UnprocessedRefuses, Blank
  <2> QED
    BY <2>2, <2>3, <2>4, <2>5, <2>6, <2>7, <2>8, <2>9 DEF TextSettings
<1>4. Written(v) \notin {"wrong type", "unset"} /\ (Written(v) = "missing" => Type(f) = "optional")
      /\ (Written(v) # "missing" => Written(v) = v)
  BY DEF Accepted, Holds, Written
<1>5. "missing" \notin Blank
  BY DEF Blank
<1>6. ~(Type(f) = "choice" /\ v = "unlisted")
  BY DEF Accepted, CandidateIssue
<1> QED
  BY <1>2, <1>3, <1>4, <1>5, <1>6 DEF ReadError

\* What is read can be saved.
LEMMA ReadIsAccepted ==
    ASSUME NEW f \in Settings, NEW entry, entry # "unset", ~ReadError(f, entry),
           ~DomainRefuses(f, Entry(f, entry))
    PROVE  Accepted(f, Entry(f, entry))
<1>1. TypesFit(f) /\ f = <<f[1], f[2]>>
  BY SettingTypes
<1>2. Holds(f, Entry(f, entry))
  BY DEF Holds, Entry, Unset, ReadError
<1>3. Entry(f, entry) # entry => Entry(f, entry) \in {"unset", "default"}
  BY DEF Entry, Unset
<1>4. ~CandidateIssue(f, Entry(f, entry))
  BY <1>1, <1>3 DEF CandidateIssue, ReadError, TypesFit, TextSettings, Blank
<1> QED
  BY <1>2, <1>4 DEF Accepted

\* What Settings shows where no file says otherwise can be saved.
LEMMA DefaultIsAccepted == \A f \in Settings : Accepted(f, DefaultConfig[f])
<1> SUFFICES ASSUME NEW f \in Settings PROVE Accepted(f, Unset(f))
  BY DEF DefaultConfig
<1>1. TypesFit(f) /\ f = <<f[1], f[2]>>
  BY SettingTypes
<1>2. Unset(f) \in {"unset", "default"} /\ (Unset(f) = "unset" <=> Type(f) = "optional")
  BY DEF Unset
<1>3. Holds(f, Unset(f))
  BY <1>2 DEF Holds
<1>4. ~CandidateIssue(f, Unset(f))
  BY <1>2 DEF CandidateIssue, Blank
<1>5. ~DomainRefuses(f, Unset(f))
  BY <1>1, <1>2 DEF TypesFit, TextSettings, DomainRefuses, Blank, PathPolicyRefuses,
              ArtistIdRefuses, MusicBrainzRefuses, LoggingRefuses, UnprocessedRefuses
<1> QED
  BY <1>3, <1>4, <1>5 DEF Accepted

\* A configuration all of whose values can be saved.
AcceptedConfig(config) ==
    config = [f \in Settings |-> config[f]] /\ \A f \in Settings : Accepted(f, config[f])

\* A file is no TOML or has a value for each entry.
FileType(file) ==
    \/ file \in {[text |-> "none"], Broken}
    \/ /\ file = [text |-> "toml", strange |-> file.strange, entries |-> file.entries]
       /\ file.entries = [f \in Settings |-> file.entries[f]]
       /\ \A f \in Settings : file.entries[f] # "unset"

\* What Settings reads from any file can be saved, the defaults of a broken one too.
LEMMA SnapshotsAreAccepted ==
    ASSUME NEW file, FileType(file) PROVE AcceptedConfig(Snapshot(file).config)
<1>1. CASE Parsed(file)
  <2>1. file.text = "toml"
    BY <1>1 DEF Parsed
  <2>2. \A f \in Settings : file.entries[f] # "unset"
    BY <2>1 DEF FileType, Broken
  <2>3. \A f \in Settings : Accepted(f, Entry(f, file.entries[f]))
    BY <1>1, <2>2, ReadIsAccepted DEF Parsed
  <2>4. Snapshot(file).config = [f \in Settings |-> Entry(f, file.entries[f])]
    BY <1>1 DEF Snapshot
  <2> QED
    BY <2>3, <2>4 DEF AcceptedConfig
<1>2. CASE ~Parsed(file)
  <2>1. Snapshot(file).config = DefaultConfig
    BY <1>2 DEF Snapshot
  <2> QED
    BY <2>1, DefaultIsAccepted DEF AcceptedConfig, DefaultConfig
<1> QED
  BY <1>1, <1>2

\* The six lists of fields agree.
LEMMA DumpIsRead ==
    ASSUME NEW config, AcceptedConfig(config), Readable(config)
    PROVE  Snapshot(Dump(config)) = [valid |-> TRUE, config |-> config]
<1> DEFINE file == Dump(config)
<1>1. file = [text |-> "toml", strange |-> FALSE, entries |-> [f \in Settings |-> Written(config[f])]]
  BY DEF Dump, Readable, Written
<1>2. file.text = "toml" /\ file.strange = FALSE
      /\ \A f \in Settings : file.entries[f] = Written(config[f])
  BY <1>1
<1> HIDE DEF file
<1>3. ASSUME NEW f \in Settings
      PROVE  ~ReadError(f, Written(config[f])) /\ Entry(f, Written(config[f])) = config[f]
  <2>1. Accepted(f, config[f])
    BY DEF AcceptedConfig
  <2>2. f = <<"unprocessed", "directory">> => config[f] # "wide space"
    BY DEF Readable
  <2> QED
    BY <2>1, <2>2, AcceptedIsRead
<1>4. \A f \in Settings : ~DomainRefuses(f, config[f])
  BY DEF AcceptedConfig, Accepted
<1>5. Parsed(file)
  BY <1>2, <1>3, <1>4 DEF Parsed
<1>6. [f \in Settings |-> Entry(f, file.entries[f])] = config
  BY <1>2, <1>3 DEF AcceptedConfig
<1>7. Snapshot(file) = [valid |-> TRUE, config |-> config]
  BY <1>5, <1>6 DEF Snapshot
<1> QED
  BY <1>7 DEF file

\* What is written is a file, broken or not.
LEMMA DumpsAreFiles == ASSUME NEW config PROVE FileType(Dump(config))
<1>1. CASE \E f \in Settings : ~Escapable(config[f])
  BY <1>1 DEF FileType, Dump
<1>2. CASE ~\E f \in Settings : ~Escapable(config[f])
  <2>1. Dump(config) = [text |-> "toml", strange |-> FALSE, entries |-> [f \in Settings |-> Written(config[f])]]
    BY <1>2 DEF Dump, Written
  <2>2. \A f \in Settings : Written(config[f]) # "unset"
    BY DEF Written
  <2> HIDE DEF Written
  <2> QED
    BY <2>1, <2>2 DEF FileType
<1> QED
  BY <1>1, <1>2

\* The draft of an open form holds values a setting may have; those of a form
\* that was saved were accepted, and the file is what was written for them.
FormFits ==
    /\ form.state \in {"closed", "open", "refused", "conflict", "saved"}
    /\ form.state # "closed" =>
          /\ form.draft = [f \in Settings |-> form.draft[f]]
          /\ \A f \in Settings : Holds(f, form.draft[f])
          /\ FileType(form.base)
    /\ form.state = "saved" => AcceptedConfig(form.asked) /\ form.installed = Dump(form.asked)

CodecInv == FileType(toml) /\ FormFits

\* The form puts into its draft only values its setting may have.
LEMMA TypedHolds ==
    ASSUME NEW f \in Editable, NEW v \in Values(f), FieldValid(f, v)
    PROVE  Holds(f, SetValueAs(f, v))
<1>1. f \in Settings /\ TypesFit(f) /\ f = <<f[1], f[2]>>
  BY SettingTypes DEF Editable
<1>2. v \notin {"missing", "wrong type"} /\ (v = "unset" => Type(f) = "optional")
  <2>1. CASE Type(f) \in {"optional", "string"}
    BY <2>1 DEF Values, Texts
  <2>2. CASE Type(f) \in {"bool", "int", "float", "choice", "version"}
    BY <2>2 DEF Values
  <2> QED
    BY <1>1, <2>1, <2>2 DEF TypesFit
<1>3. ControlOf(f) = "nullable" => Type(f) = "optional"
  <2>1. f[1] \in DOMAIN Controls /\ f[2] \in DOMAIN Controls[f[1]]
    BY DEF Editable
  <2>2. DOMAIN Controls = {"paths", "path_policy", "artist_ids", "metadata", "collision", "musicbrainz", "hashing",
                           "logging", "companions", "unprocessed"}
    BY DEF Controls
  <2>3. CASE f[1] = "paths"
    BY <1>1, <2>3 DEF TypesFit
  <2>4. CASE f[1] = "logging"
    BY <1>1, <2>1, <2>4 DEF TypesFit, ControlOf, Controls, LoggingForm
  <2>5. CASE f[1] \in {"path_policy", "artist_ids", "metadata"}
    BY <2>1, <2>5 DEF ControlOf, Controls, PathPolicyForm, ArtistIdsForm, MetadataForm
  <2>6. CASE f[1] \in {"collision", "musicbrainz"}
    BY <2>1, <2>6 DEF ControlOf, Controls, CollisionForm, MusicBrainzForm
  <2>7. CASE f[1] \in {"hashing", "companions"}
    BY <2>1, <2>7 DEF ControlOf, Controls, HashingForm, CompanionsForm
  <2>8. CASE f[1] = "unprocessed"
    <3>1. Controls[f[1]] = UnprocessedForm
      BY <2>8 DEF Controls
    <3>2. f[2] \in {"enabled", "directory", "result_preview_limit"}
      BY <2>1, <3>1 DEF UnprocessedForm
    <3>3. UnprocessedForm[f[2]] \in {"checkbox", "required", "number between"}
      <4>1. /\ UnprocessedForm["enabled"] = "checkbox" /\ UnprocessedForm["directory"] = "required"
            /\ UnprocessedForm["result_preview_limit"] = "number between"
        BY DEF UnprocessedForm
      <4> QED
        BY <3>2, <4>1
    <3> QED
      BY <3>1, <3>3 DEF ControlOf
  <2> QED
    BY <2>1, <2>2, <2>3, <2>4, <2>5, <2>6, <2>7, <2>8
<1> QED
  BY <1>2, <1>3 DEF Holds, SetValueAs

\* An edit of the file by hand leaves the form alone.
LEMMA EditKeeps == ASSUME CodecInv, EditToml PROVE CodecInv'
<1>1. FileType(toml')
  <2> DEFINE base == IF toml.text = "toml" THEN toml ELSE Dump(DefaultConfig)
  <2>2. \/ toml' = Broken
        \/ toml' = [base EXCEPT !.strange = TRUE]
        \/ \E f \in Settings : \E e : e # "unset" /\ toml' = [base EXCEPT !.entries[f] = e]
    <3>1. toml' \in {Broken, [base EXCEPT !.strange = TRUE]}
               \cup UNION {{[base EXCEPT !.entries[f] = e] : e \in (Values(f) \ {"unset"}) \cup {"missing", "wrong type"}}
                           : f \in Settings}
      BY DEF EditToml
    <3>2. CASE toml' \in {Broken, [base EXCEPT !.strange = TRUE]}
      BY <3>2
    <3>3. CASE \E f \in Settings :
                  toml' \in {[base EXCEPT !.entries[f] = e] : e \in (Values(f) \ {"unset"}) \cup {"missing", "wrong type"}}
      <4>1. PICK f \in Settings :
                  toml' \in {[base EXCEPT !.entries[f] = e] : e \in (Values(f) \ {"unset"}) \cup {"missing", "wrong type"}}
        BY <3>3
      <4>2. PICK e \in (Values(f) \ {"unset"}) \cup {"missing", "wrong type"} : toml' = [base EXCEPT !.entries[f] = e]
        BY <4>1
      <4>3. e # "unset"
        OBVIOUS
      <4> QED
        BY <4>2, <4>3
    <3> QED
      BY <3>1, <3>2, <3>3
  <2>3. /\ base = [text |-> "toml", strange |-> base.strange, entries |-> base.entries]
        /\ base.entries = [f \in Settings |-> base.entries[f]]
        /\ \A f \in Settings : base.entries[f] # "unset"
    <3>1. CASE toml.text = "toml"
      BY <3>1 DEF CodecInv, FileType, Broken
    <3>2. CASE toml.text # "toml"
      <4>1. base = Dump(DefaultConfig)
        BY <3>2
      <4>2. \A f \in Settings : DefaultConfig[f] \in {"unset", "default"}
        BY DEF DefaultConfig, Unset
      <4>3. base = [text |-> "toml", strange |-> FALSE, entries |-> [f \in Settings |-> Written(DefaultConfig[f])]]
        BY <4>1, <4>2 DEF Dump, Escapable, Written
      <4> QED
        BY <4>3 DEF Written
    <3> QED
      BY <3>1, <3>2
  <2> HIDE DEF base
  <2>4. CASE toml' = Broken
    BY <2>4 DEF FileType
  <2>5. CASE toml' = [base EXCEPT !.strange = TRUE]
    <3>1. PICK before, entries : base = [text |-> "toml", strange |-> before, entries |-> entries]
      BY <2>3
    <3>2. toml' = [text |-> "toml", strange |-> TRUE, entries |-> entries] /\ base.entries = entries
      BY <2>5, <3>1
    <3> QED
      BY <2>3, <3>2 DEF FileType
  <2>6. ASSUME NEW f \in Settings, NEW e, e # "unset", toml' = [base EXCEPT !.entries[f] = e]
        PROVE  FileType(toml')
    <3>1. /\ toml' = [text |-> "toml", strange |-> base.strange, entries |-> toml'.entries]
          /\ toml'.entries = [base.entries EXCEPT ![f] = e]
      BY <2>3, <2>6
    <3>2. /\ toml'.entries = [g \in Settings |-> toml'.entries[g]]
          /\ \A g \in Settings : toml'.entries[g] # "unset"
      BY <2>3, <2>6, <3>1
    <3>3. toml'.strange = base.strange
      BY <3>1
    <3> QED
      BY <3>1, <3>2, <3>3 DEF FileType
  <2> QED
    BY <2>2, <2>4, <2>5, <2>6
<1> QED
  BY <1>1 DEF EditToml, CodecInv, FormFits

\* A form opens on a configuration that can be saved.
LEMMA OpenKeeps == ASSUME CodecInv, OpenSettings PROVE CodecInv'
<1>1. AcceptedConfig(Snapshot(toml).config) /\ FileType(toml)
  BY SnapshotsAreAccepted DEF CodecInv
<1>2. form'.state = "open" /\ form'.draft = Snapshot(toml).config /\ form'.base = toml /\ toml' = toml
  BY DEF OpenSettings
<1> QED
  BY <1>1, <1>2 DEF CodecInv, FormFits, AcceptedConfig, Accepted

\* An edit of the form keeps the draft one a configuration could be.
LEMMA TypeKeeps == ASSUME CodecInv, TypeSetting PROVE CodecInv'
<1>1. form.state # "closed" /\ toml' = toml
  BY DEF TypeSetting
<1>2. PICK f \in Editable : \E v \in Values(f) :
           /\ FieldValid(f, v)
           /\ form' = [state |-> "open", draft |-> [form.draft EXCEPT ![f] = SetValueAs(f, v)],
                       base |-> form.base]
  BY DEF TypeSetting
<1>3. PICK v \in Values(f) :
           /\ FieldValid(f, v)
           /\ form' = [state |-> "open", draft |-> [form.draft EXCEPT ![f] = SetValueAs(f, v)],
                       base |-> form.base]
  BY <1>2
<1>4. Holds(f, SetValueAs(f, v)) /\ f \in Settings
  BY <1>3, TypedHolds DEF Editable
<1>5. form'.state = "open" /\ form'.draft = [form.draft EXCEPT ![f] = SetValueAs(f, v)] /\ form'.base = form.base
  BY <1>3
<1>6. /\ form.draft = [g \in Settings |-> form.draft[g]]
      /\ \A g \in Settings : Holds(g, form.draft[g])
      /\ FileType(form.base)
  BY <1>1 DEF CodecInv, FormFits
<1>7. /\ form'.draft = [g \in Settings |-> form'.draft[g]]
      /\ \A g \in Settings : Holds(g, form'.draft[g])
  BY <1>4, <1>5, <1>6
<1> QED
  BY <1>1, <1>5, <1>6, <1>7 DEF CodecInv, FormFits

\* A save writes what the form asked for, or nothing.
LEMMA SaveKeeps == ASSUME CodecInv, SaveSettings PROVE CodecInv'
<1>1. /\ form.state = "open" /\ FileType(toml) /\ FileType(form.base)
      /\ form.draft = [g \in Settings |-> form.draft[g]]
      /\ \A g \in Settings : Holds(g, form.draft[g])
  BY DEF SaveSettings, CodecInv, FormFits
<1>2. CASE \E result \in {"refused", "conflict"} : form' = [form EXCEPT !.state = result] /\ toml' = toml
  <2>1. PICK result \in {"refused", "conflict"} : form' = [form EXCEPT !.state = result] /\ toml' = toml
    BY <1>2
  <2>2. form'.state = result /\ form'.draft = form.draft /\ form'.base = form.base
    BY <2>1
  <2> QED
    BY <1>1, <2>1, <2>2 DEF CodecInv, FormFits
<1>3. CASE /\ Savable(form.draft) /\ toml' = Dump(form.draft)
           /\ form' = [state |-> "saved", draft |-> Snapshot(toml').config, base |-> toml',
                        asked |-> form.draft, installed |-> toml',
                        changes |-> FieldChanges(Snapshot(toml).config, form.draft)]
  <2>1. FileType(toml')
    BY <1>3, DumpsAreFiles
  <2>2. AcceptedConfig(Snapshot(toml').config)
    BY <2>1, SnapshotsAreAccepted
  <2>3. AcceptedConfig(form.draft)
    BY <1>1, <1>3 DEF AcceptedConfig, Accepted, Savable
  <2>4. /\ form'.state = "saved" /\ form'.draft = Snapshot(toml').config /\ form'.base = toml'
        /\ form'.asked = form.draft /\ form'.installed = toml'
    BY <1>3
  <2> QED
    BY <1>3, <2>1, <2>2, <2>3, <2>4 DEF CodecInv, FormFits, AcceptedConfig, Accepted
<1> QED
  BY <1>2, <1>3 DEF SaveSettings

\* What Settings saves is read back from the file as it was asked for, and what the
\* form was opened with can be saved: for every field, whatever the file said.
THEOREM SettingsAreReadBack == CodecSpec => []SettingsReadBack
<1>1. CodecInit => CodecInv
  BY DEF CodecInit, CodecInv, FileType, FormFits, Closed
<1>2. CodecInv /\ [CodecNext]_codecVars => CodecInv'
  <2> SUFFICES ASSUME CodecInv, [CodecNext]_codecVars PROVE CodecInv'
    OBVIOUS
  <2>1. CASE UNCHANGED codecVars
    BY <2>1 DEF CodecInv, FormFits, codecVars
  <2> QED
    BY <2>1, EditKeeps, OpenKeeps, TypeKeeps, SaveKeeps DEF CodecNext
<1>3. CodecInv => SettingsReadBack
  <2> SUFFICES ASSUME CodecInv PROVE SettingsReadBack
    OBVIOUS
  <2>1. form.state = "saved" /\ Readable(form.asked) =>
           Snapshot(form.installed) = [valid |-> TRUE, config |-> form.asked]
    BY DumpIsRead DEF CodecInv, FormFits
  <2>2. form.state = "open" /\ form.draft = Snapshot(form.base).config => Savable(form.draft)
    <3> SUFFICES ASSUME form.state = "open", form.draft = Snapshot(form.base).config PROVE Savable(form.draft)
      OBVIOUS
    <3>1. AcceptedConfig(form.draft)
      BY SnapshotsAreAccepted DEF CodecInv, FormFits
    <3> QED
      BY <3>1 DEF AcceptedConfig, Accepted, Savable
  <2> QED
    BY <2>1, <2>2 DEF SettingsReadBack
<1> QED
  BY <1>1, <1>2, <1>3, PTL DEF CodecSpec
=============================================================================
