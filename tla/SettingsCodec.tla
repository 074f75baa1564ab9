---------------------------- MODULE SettingsCodec ----------------------------
(***************************************************************************)
(* What a setting passes through on its way to the file and back: the form *)
(* control it is typed in, the domain object that may refuse it, the       *)
(* checks of a candidate, the TOML that is written and the reader that     *)
(* takes it in again.  Each of these lists every field by itself.  A value *)
(* stands for the class of values that all of them treat alike.            *)
(*                                                                         *)
(*   "default", "unset"   what a missing key means                         *)
(*   "text", "number", "listed", "flipped"   another value that all accept *)
(*   "empty", "spaces"    no text, ASCII blanks                            *)
(*   "wide space"         U+3000 alone: blank to Python's strip            *)
(*   "astral"             text with a character beyond U+FFFF              *)
(*   "odd"                text that breaks the field's own rule            *)
(*   "low", "high", "infinite", "unlisted"   out of the field's range      *)
(***************************************************************************)
EXTENDS Naturals

CONSTANT MaxTurns  \* bound: edits of the file and of the form

VARIABLES
    toml,  \* the settings file: none, text that is no TOML, or its entries by section and key
    form,  \* the form: closed, or its draft, the file it was opened on, and its last save
    turns  \* edits made

codecVars == <<toml, form, turns>>

-----------------------------------------------------------------------------
\* The reader: how each key of each section is taken in.

ReadPaths == [library |-> "optional", incoming |-> "optional"]
ReadCommand == [auto_apply |-> "bool"]
ReadPathPolicy ==
    [template |-> "string", unknown_artist |-> "string", unknown_album |-> "string",
     sanitize |-> "bool", max_filename_length |-> "int",
     disc_number_style |-> "choice", disc_number_condition |-> "choice"]
ReadArtistIds == [max_length |-> "int", fallback_id |-> "string"]
ReadMetadata ==
    [prefer_album_artist |-> "bool", require_title |-> "bool", require_artist |-> "bool",
     require_album |-> "bool", album_year_resolution |-> "choice"]
ReadCollision ==
    [on_target_exists |-> "choice", on_duplicate_hash |-> "choice", on_missing_metadata |-> "choice"]
ReadMusicBrainz ==
    [enabled |-> "bool", application_name |-> "string", contact |-> "string",
     timeout_seconds |-> "float", retry_limit |-> "int", rate_limit_seconds |-> "float"]
ReadHashing == [read_chunk_size_bytes |-> "int"]
ReadLogging ==
    [destination |-> "optional", level |-> "choice", rotation_max_bytes |-> "int",
     retention_files |-> "int"]
ReadCompanions == [enabled |-> "bool"]
ReadUnprocessed == [enabled |-> "bool", directory |-> "string", result_preview_limit |-> "int"]

Reader ==
    [root |-> [version |-> "version"], paths |-> ReadPaths, add |-> ReadCommand,
     organize |-> ReadCommand, refresh |-> ReadCommand, path_policy |-> ReadPathPolicy,
     artist_ids |-> ReadArtistIds, metadata |-> ReadMetadata, collision |-> ReadCollision,
     musicbrainz |-> ReadMusicBrainz, hashing |-> ReadHashing, logging |-> ReadLogging,
     companions |-> ReadCompanions, unprocessed |-> ReadUnprocessed]

Sections == DOMAIN Reader
Settings == {f \in Sections \X UNION {DOMAIN Reader[s] : s \in Sections} : f[2] \in DOMAIN Reader[f[1]]}
Type(f) == Reader[f[1]][f[2]]

\* The fields with a rule of their own on the text.
Ruled == {<<"path_policy", "template">>, <<"artist_ids", "fallback_id">>,
          <<"logging", "destination">>, <<"unprocessed", "directory">>}

Texts == {"text", "spaces", "wide space", "astral"}

Values(f) ==
    CASE Type(f) = "optional" -> {"unset", "empty"} \cup Texts \cup {v \in {"odd"} : f \in Ruled}
      [] Type(f) = "string" -> {"default", "empty"} \cup Texts \cup {v \in {"odd"} : f \in Ruled}
      [] Type(f) = "bool" -> {"default", "flipped"}
      [] Type(f) = "int" -> {"default", "number", "low", "high"}
      [] Type(f) = "float" -> {"default", "number", "low", "infinite"}
      [] Type(f) = "choice" -> {"default", "listed", "unlisted"}
      [] Type(f) = "version" -> {"default", "number"}

Unset(f) == IF Type(f) = "optional" THEN "unset" ELSE "default"
DefaultConfig == [f \in Settings |-> Unset(f)]

Blank == {"empty", "spaces", "wide space"}

-----------------------------------------------------------------------------
\* The domain objects.

PathPolicyRefuses(k, v) ==
    \/ k = "max_filename_length" /\ v = "low"
    \/ k \in {"disc_number_style", "disc_number_condition"} /\ v = "unlisted"
    \/ k \in {"unknown_artist", "unknown_album"} /\ v \in Blank
    \/ k = "template" /\ v = "odd"

ArtistIdRefuses(k, v) ==
    \/ k = "max_length" /\ v = "low"
    \/ k = "fallback_id" /\ v \notin {"default", "text"}

MusicBrainzRefuses(k, v) ==
    \/ k \in {"application_name", "contact"} /\ v \in Blank
    \/ k \in {"timeout_seconds", "rate_limit_seconds"} /\ v \in {"low", "infinite"}
    \/ k = "retry_limit" /\ v = "low"

LoggingRefuses(k, v) ==
    \/ k = "destination" /\ v \in Blank \cup {"odd"}
    \/ k = "level" /\ v = "unlisted"
    \/ k \in {"rotation_max_bytes", "retention_files"} /\ v = "low"

\* One portable path component: no blank, dot or ASCII control, but any other space.
UnprocessedRefuses(k, v) ==
    \/ k = "directory" /\ v \in {"empty", "spaces", "odd"}
    \/ k = "result_preview_limit" /\ v \in {"low", "high"}

DomainRefuses(f, v) ==
    LET k == f[2] IN
    CASE f[1] = "path_policy" -> PathPolicyRefuses(k, v)
      [] f[1] = "artist_ids" -> ArtistIdRefuses(k, v)
      [] f[1] = "metadata" -> k = "album_year_resolution" /\ v = "unlisted"
      [] f[1] = "musicbrainz" -> MusicBrainzRefuses(k, v)
      [] f[1] = "hashing" -> v = "low"
      [] f[1] = "logging" -> LoggingRefuses(k, v)
      [] f[1] = "unprocessed" -> UnprocessedRefuses(k, v)
      [] f[1] = "root" -> v # "default"
      [] OTHER -> FALSE

-----------------------------------------------------------------------------
\* The file.

\* One entry as the reader takes it: an error, or a value.
ReadError(f, entry) ==
    \/ entry = "wrong type"
    \/ entry = "missing" /\ Type(f) = "version"
    \/ Type(f) \in {"optional", "string"} /\ entry \in Blank
    \/ Type(f) = "choice" /\ entry = "unlisted"

Entry(f, entry) == IF entry = "missing" THEN Unset(f) ELSE entry

Parsed(file) ==
    /\ file.text = "toml" /\ ~file.strange
    /\ \A f \in Settings : ~ReadError(f, file.entries[f]) /\ ~DomainRefuses(f, Entry(f, file.entries[f]))

\* A read of the file: the defaults stand in for a file that is absent or invalid.
Snapshot(file) ==
    [valid |-> file.text = "none" \/ Parsed(file),
     config |-> IF Parsed(file)
                THEN [f \in Settings |-> Entry(f, file.entries[f])]
                ELSE DefaultConfig]

\* Strings are written as JSON, which splits a character beyond U+FFFF in two
\* escapes that TOML does not have.
Escapable(v) == v # "astral"

Broken == [text |-> "broken"]

\* Mutant of Dump: the last section is not written.
ForgetsUnprocessed(config) ==
    IF \E f \in Settings : ~Escapable(config[f]) THEN Broken
    ELSE [text |-> "toml", strange |-> FALSE,
          entries |-> [f \in Settings |->
              IF config[f] = "unset" \/ f[1] = "unprocessed" THEN "missing" ELSE config[f]]]

\* Every field is written, but for an optional one that is unset.
Dump(config) ==
    IF \E f \in Settings : ~Escapable(config[f]) THEN Broken
    ELSE [text |-> "toml", strange |-> FALSE,
          entries |-> [f \in Settings |-> IF config[f] = "unset" THEN "missing" ELSE config[f]]]

-----------------------------------------------------------------------------
\* A candidate.

CandidateIssue(f, v) ==
    \/ f[1] = "paths" /\ v \in Blank
    \/ f = <<"path_policy", "template">> /\ v \in Blank
    \/ Type(f) = "choice" /\ v = "unlisted"

\* The request is turned into the domain's Config, then checked as a whole.
Savable(config) == \A f \in Settings : ~DomainRefuses(f, config[f]) /\ ~CandidateIssue(f, config[f])

FieldChanges(before, after) == {f \in Settings : before[f] # after[f]}

-----------------------------------------------------------------------------
\* The form's controls; a field without one keeps its value.

PathsForm == [library |-> "nullable", incoming |-> "nullable"]
PathPolicyForm ==
    [template |-> "required", unknown_artist |-> "required", unknown_album |-> "required",
     max_filename_length |-> "number", disc_number_style |-> "select",
     disc_number_condition |-> "select", sanitize |-> "checkbox"]
ArtistIdsForm == [max_length |-> "number", fallback_id |-> "required"]
MetadataForm ==
    [prefer_album_artist |-> "checkbox", require_title |-> "checkbox", require_artist |-> "checkbox",
     require_album |-> "checkbox", album_year_resolution |-> "select"]
CollisionForm == [k \in {"on_target_exists", "on_duplicate_hash", "on_missing_metadata"} |-> "select"]
MusicBrainzForm ==
    [enabled |-> "checkbox", application_name |-> "input", contact |-> "input",
     timeout_seconds |-> "number", retry_limit |-> "number", rate_limit_seconds |-> "number"]
HashingForm == [read_chunk_size_bytes |-> "number"]
LoggingForm ==
    [destination |-> "nullable", level |-> "select", rotation_max_bytes |-> "number",
     retention_files |-> "number"]
CompanionsForm == [enabled |-> "checkbox"]
UnprocessedForm ==
    [enabled |-> "checkbox", directory |-> "required", result_preview_limit |-> "number between"]

Controls ==
    [paths |-> PathsForm, path_policy |-> PathPolicyForm, artist_ids |-> ArtistIdsForm,
     metadata |-> MetadataForm, collision |-> CollisionForm, musicbrainz |-> MusicBrainzForm,
     hashing |-> HashingForm, logging |-> LoggingForm, companions |-> CompanionsForm,
     unprocessed |-> UnprocessedForm]

Editable == {f \in Settings : f[1] \in DOMAIN Controls /\ f[2] \in DOMAIN Controls[f[1]]}
ControlOf(f) == Controls[f[1]][f[2]]

\* What the control makes of what is typed: an emptied path is unset.
SetValueAs(f, v) == IF ControlOf(f) = "nullable" /\ v = "empty" THEN "unset" ELSE v

\* The browser's own check of the controls, without which nothing is sent.
FieldValid(f, v) ==
    CASE ControlOf(f) = "required" -> v # "empty"
      [] ControlOf(f) = "number" -> v \notin {"low", "infinite"}
      [] ControlOf(f) = "number between" -> v \notin {"low", "high"}
      [] ControlOf(f) = "select" -> v # "unlisted"
      [] OTHER -> TRUE

-----------------------------------------------------------------------------
Closed == [state |-> "closed"]

CodecInit ==
    /\ toml = [text |-> "none"]
    /\ form = Closed
    /\ turns = 0

\* A text editor: one entry, an unknown key or a section that is no table, or no TOML at all.
EditToml ==
    /\ turns < MaxTurns /\ turns' = turns + 1
    /\ LET base == IF toml.text = "toml" THEN toml ELSE Dump(DefaultConfig)
       IN toml' \in {Broken, [base EXCEPT !.strange = TRUE]}
               \cup UNION {{[base EXCEPT !.entries[f] = e] : e \in (Values(f) \ {"unset"}) \cup {"missing", "wrong type"}}
                           : f \in Settings}
    /\ UNCHANGED form

OpenSettings ==
    /\ form' = [state |-> "open", draft |-> Snapshot(toml).config, base |-> toml]
    /\ UNCHANGED <<toml, turns>>

TypeSetting ==
    /\ form.state \in {"open", "saved", "refused"}
    /\ turns < MaxTurns /\ turns' = turns + 1
    /\ \E f \in Editable : \E v \in Values(f) :
           /\ FieldValid(f, v)
           /\ form' = [state |-> "open", draft |-> [form.draft EXCEPT ![f] = SetValueAs(f, v)],
                       base |-> form.base]
    /\ UNCHANGED toml

\* The candidate is refused, or the file has changed, or it is written; the
\* answer holds what the file reads as now, and the form takes that over.
SaveSettings ==
    /\ form.state = "open"
    /\ IF ~Savable(form.draft) THEN form' = [form EXCEPT !.state = "refused"] /\ UNCHANGED toml
       ELSE IF toml # form.base THEN form' = [form EXCEPT !.state = "conflict"] /\ UNCHANGED toml
       ELSE /\ toml' = Dump(form.draft)
            /\ form' = [state |-> "saved", draft |-> Snapshot(toml').config, base |-> toml',
                        asked |-> form.draft, installed |-> toml',
                        changes |-> FieldChanges(Snapshot(toml).config, form.draft)]
    /\ UNCHANGED turns

CodecNext == EditToml \/ OpenSettings \/ TypeSetting \/ SaveSettings

CodecSpec == CodecInit /\ [][CodecNext]_codecVars

-----------------------------------------------------------------------------
\* The values that the writer and the reader disagree about.
Readable(config) ==
    /\ \A f \in Settings : Escapable(config[f])
    /\ config[<<"unprocessed", "directory">>] # "wide space"

\* What is saved is read back: the six lists of fields agree. After a save the
\* file holds the settings that were asked for; and what the form was opened
\* with, a file that reads as valid or the defaults, can always be saved.
SettingsReadBack ==
    /\ form.state = "saved" /\ Readable(form.asked) =>
           Snapshot(form.installed) = [valid |-> TRUE, config |-> form.asked]
    /\ form.state = "open" /\ form.draft = Snapshot(form.base).config => Savable(form.draft)

\* Without the exception: whatever Settings accepts and saves is read back.
SavedSettingsAreRead ==
    form.state = "saved" => Snapshot(form.installed) = [valid |-> TRUE, config |-> form.asked]
=============================================================================
