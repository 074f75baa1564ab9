----------------------------- MODULE MCServices -----------------------------
(***************************************************************************)
(* The services the workflows stand on, one at a time: a behaviour is one  *)
(* of SettingsStore, SchemaMigrations, ArtistNames, Paging,                *)
(* SnapshotReaders, DesktopShell, OperationClient, WindowsMover,           *)
(* Capabilities, SettingsCodec, PathNames and CommandLine, chosen at the   *)
(* start; they share no state.                                             *)
(***************************************************************************)
EXTENDS SettingsStore, SchemaMigrations, ArtistNames, Paging, SnapshotReaders,
        DesktopShell, OperationClient, WindowsMover, Capabilities, SettingsCodec, PathNames,
        CommandLine

\* Every title of up to two characters, and some that only a cut or a strip makes
\* reserved, empty or too long.
MCTitles ==
    UNION {[1..n -> {"c", "o", "w", ".", "-", "/", "b"}] : n \in 0..2}
        \cup {<<"c", "o", "w">>, <<"c", "o", ".">>, <<"-", "c", "o">>, <<".", ".", "/">>,
              <<"w", "w", "w">>, <<"c", ".", "-">>, <<"b", "c", "o">>}
MCArtists == {<<>>, <<"c", "o">>, <<"-", "c">>, <<"w", "w">>, <<".", ".">>, <<"c", "o", "w">>}
MCWords == UNION {[1..n -> {"A", "B"}] : n \in 1..3}

\* Two albums (one named as unknown albums are), their artist given by either tag.
MCTagSets ==
    [album : {"a", "none"}, albumArtist : {"x"}, artist : {"none"}, year : {0, 1, 2}, disc : {1, 2}, discs : {0}]
        \cup [album : {"u"}, albumArtist : {"x"}, artist : {"none"}, year : {0, 1}, disc : {1}, discs : {0}]
        \cup [album : {"a"}, albumArtist : {"none"}, artist : {"x", "y"}, year : {0, 2}, disc : {0, 1}, discs : {2}]

VARIABLE service

vars == <<service, settingsVars, schemaVars, namesVars, pagingVars, readVars, shellVars, clientVars, moverVars, offerVars, codecVars, pathVars, commandVars>>

Services == {"settings", "schema", "names", "paging", "readers", "desktop", "client", "windows", "capabilities", "codec", "paths", "commands"}

\* The initial states of a service that never runs.
SettingsIdle == SettingsInit
SchemaIdle == SchemaInit /\ applied = {}
NamesIdle == NamesInit /\ clock = 0
PagingIdle == PagingInit /\ table = [r \in Rows |-> Absent] /\ walk.list = "issues"
ClientIdle == ClientInit /\ page.offers = {"create"}
ReadIdle == ReadInit /\ read.kind = "audio"
MoverIdle == MoverInit /\ original.readonly = FALSE /\ made = NoTarget /\ sharer = "none"
OffersIdle == OffersInit /\ open = "plan" /\ source.refreshes = FALSE
              /\ conf.policy = (CHOOSE v \in Policies : TRUE)
CodecIdle == CodecInit /\ turns = 0
PathIdle == PathInit /\ answer = NoAnswer
CommandIdle == Started /\ argv = [command |-> "check", args |-> <<>>] /\ docket = <<NewPlan(FALSE)>>

Init ==
    /\ service \in Services
    /\ IF service = "settings" THEN SettingsInit ELSE SettingsIdle
    /\ IF service = "schema" THEN SchemaInit ELSE SchemaIdle
    /\ IF service = "names" THEN NamesInit ELSE NamesIdle
    /\ IF service = "paging" THEN PagingInit ELSE PagingIdle
    /\ IF service = "readers" THEN ReadInit ELSE ReadIdle
    /\ ShellInit
    /\ IF service = "client" THEN ClientInit ELSE ClientIdle
    /\ IF service = "windows" THEN MoverInit ELSE MoverIdle
    /\ IF service = "capabilities" THEN OffersInit ELSE OffersIdle
    /\ IF service = "codec" THEN CodecInit ELSE CodecIdle
    /\ IF service = "paths" THEN PathInit ELSE PathIdle
    /\ IF service = "commands" THEN CommandInit ELSE CommandIdle

SettingsRuns ==
    /\ service = "settings" /\ SettingsNext
    /\ UNCHANGED <<service, schemaVars, namesVars, pagingVars, readVars, shellVars, clientVars, moverVars, offerVars, codecVars, pathVars, commandVars>>

SchemaRuns ==
    /\ service = "schema" /\ SchemaNext
    /\ UNCHANGED <<service, settingsVars, namesVars, pagingVars, readVars, shellVars, clientVars, moverVars, offerVars, codecVars, pathVars, commandVars>>

NamesRuns ==
    /\ service = "names" /\ NamesNext
    /\ UNCHANGED <<service, settingsVars, schemaVars, pagingVars, readVars, shellVars, clientVars, moverVars, offerVars, codecVars, pathVars, commandVars>>

PagingRuns ==
    /\ service = "paging" /\ PagingNext
    /\ UNCHANGED <<service, settingsVars, schemaVars, namesVars, readVars, shellVars, clientVars, moverVars, offerVars, codecVars, pathVars, commandVars>>

ReadersRun ==
    /\ service = "readers" /\ ReadNext
    /\ UNCHANGED <<service, settingsVars, schemaVars, namesVars, pagingVars, shellVars, clientVars, moverVars, offerVars, codecVars, pathVars, commandVars>>

DesktopRuns ==
    /\ service = "desktop" /\ ShellNext
    /\ UNCHANGED <<service, settingsVars, schemaVars, namesVars, pagingVars, readVars, clientVars, moverVars, offerVars, codecVars, pathVars, commandVars>>

ClientRuns ==
    /\ service = "client" /\ ClientNext
    /\ UNCHANGED <<service, settingsVars, schemaVars, namesVars, pagingVars, readVars, shellVars, moverVars, offerVars, codecVars, pathVars, commandVars>>

MoverRuns ==
    /\ service = "windows" /\ MoverNext
    /\ UNCHANGED <<service, settingsVars, schemaVars, namesVars, pagingVars, readVars, shellVars, clientVars, offerVars, codecVars, pathVars, commandVars>>

OffersRuns ==
    /\ service = "capabilities" /\ OffersNext
    /\ UNCHANGED <<service, settingsVars, schemaVars, namesVars, pagingVars, readVars, shellVars, clientVars, moverVars, codecVars, pathVars, commandVars>>

CodecRuns ==
    /\ service = "codec" /\ CodecNext
    /\ UNCHANGED <<service, settingsVars, schemaVars, namesVars, pagingVars, readVars, shellVars, clientVars, moverVars, offerVars, pathVars, commandVars>>

PathRuns ==
    /\ service = "paths" /\ PathNext
    /\ UNCHANGED <<service, settingsVars, schemaVars, namesVars, pagingVars, readVars, shellVars, clientVars, moverVars, offerVars, codecVars, commandVars>>

CommandRuns ==
    /\ service = "commands" /\ CommandNext
    /\ UNCHANGED <<service, settingsVars, schemaVars, namesVars, pagingVars, readVars, shellVars, clientVars, moverVars, offerVars, codecVars, pathVars>>

Next == SettingsRuns \/ SchemaRuns \/ NamesRuns \/ PagingRuns \/ ReadersRun \/ DesktopRuns
        \/ ClientRuns \/ MoverRuns \/ OffersRuns \/ CodecRuns \/ PathRuns \/ CommandRuns

Spec == Init /\ [][Next]_vars
=============================================================================
