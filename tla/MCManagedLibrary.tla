-------------------------- MODULE MCManagedLibrary --------------------------
(***************************************************************************)
(* Small Libraries for TLC: an import with companions and leftovers, a      *)
(* Library to be organized, and a registered one whose files are retagged.  *)
(***************************************************************************)
EXTENDS ManagedLibrary

P(d, s, e) == [dir |-> d, stem |-> s, ext |-> e]
F(i, t)    == [id |-> i, tag |-> t]

\* A sorted scan: directories, then stems, then suffixes.
SmallPathOrder ==
    <<P("M", "a", "lrc"), P("M", "a", "mp3"), P("M", "b", "lrc"), P("M", "b", "mp3"),
      P("M", "cover", "jpg"), P("M", "u", "mp3"),
      P("N", "c", "mp3"), P("N", "cover", "jpg"),
      P("X", "cover", "jpg"), P("X", "x", "lrc"), P("X", "x", "mp3"), P("X", "y", "lrc"),
      P("X", "y", "mp3"), P("X", "z", "mp3"),
      P("Y", "cover", "jpg"), P("Y", "x", "lrc"), P("Y", "x", "mp3"), P("Y", "y", "lrc"),
      P("Y", "y", "mp3"), P("Y", "z", "mp3"),
      P("in", "a", "lrc"), P("in", "a", "mp3"), P("in", "b", "mp3"),
      P("in", "cover", "jpg"), P("in", "n", "txt"),
      P("out", "a", "lrc"), P("out", "a", "mp3"), P("out", "b", "mp3"), P("out", "cover", "jpg"), P("out", "n", "txt")>>

\* Two policies; a file with tag "m" or "n" stays in M, one with "u" has no name.
SmallPlace ==
    [pol \in {"A", "B"} |->
        [tag \in {"x", "y", "z", "m", "n", "u"} |->
            CASE tag = "u" -> Unnamed
              [] tag = "m" -> [dir |-> "M", stem |-> "a"]
              [] tag = "n" -> [dir |-> "M", stem |-> "b"]
              [] OTHER     -> [dir |-> IF pol = "A" THEN "X" ELSE "Y", stem |-> tag]]]

Row(p, f)      == [path |-> p, canonical |-> p, content |-> f, active |-> TRUE]
Asset(k, p, f, t) ==
    [kind |-> k, path |-> p, canonical |-> p, content |-> f, owner |-> t, active |-> TRUE]

EmptyWorld ==
    [files |-> <<>>, tracks |-> <<>>, assets |-> <<>>,
     library |-> [status |-> "registered", policy |-> "A"], policy |-> "A", touched |-> {},
     requests |-> {}, plans |-> 2, limit |-> 1, scopes |-> {}, edits |-> {}, policies |-> {}]

Incoming ==
    [EmptyWorld EXCEPT
        !.files = (P("in", "a", "mp3") :> F(1, "x")) @@ (P("in", "a", "lrc") :> F(2, "l"))
                  @@ (P("in", "b", "mp3") :> F(5, "y")) @@ (P("in", "cover", "jpg") :> F(3, "j"))
                  @@ (P("in", "n", "txt") :> F(4, "t")),
        !.requests = {"add", "undo"}, !.plans = 3,
        !.edits = {[path |-> P("in", "b", "mp3"), file |-> Gone],
                   [path |-> P("in", "a", "mp3"), file |-> F(6, "y")],
                   [path |-> P("X", "cover", "jpg"), file |-> F(7, "j")]}]

\* One of the incoming files is managed already.
Reimported ==
    [Incoming EXCEPT
        !.files = @ @@ (P("X", "y", "mp3") :> F(5, "y")),
        !.tracks = <<Row(P("X", "y", "mp3"), F(5, "y"))>>,
        !.plans = 2, !.edits = {[path |-> P("in", "b", "mp3"), file |-> Gone]}]

Unorganized ==
    [EmptyWorld EXCEPT
        !.files = (P("M", "a", "mp3") :> F(1, "x")) @@ (P("M", "a", "lrc") :> F(2, "l"))
                  @@ (P("M", "cover", "jpg") :> F(3, "j")) @@ (P("X", "y", "mp3") :> F(4, "y")),
        !.library = [status |-> "unregistered", policy |-> "A"],
        !.requests = {"organize", "undo", "cancel"}, !.plans = 3,
        !.policies = {"B"},
        !.edits = {[path |-> P("M", "u", "mp3"), file |-> F(5, "u")],
                   [path |-> P("M", "a", "lrc"), file |-> Gone],
                   [path |-> P("X", "x", "mp3"), file |-> F(6, "x")]}]

\* Two directories with a cover each are to become one.
TwoCovers ==
    [EmptyWorld EXCEPT
        !.files = (P("M", "a", "mp3") :> F(1, "x")) @@ (P("M", "cover", "jpg") :> F(2, "j"))
                  @@ (P("N", "c", "mp3") :> F(3, "z")) @@ (P("N", "cover", "jpg") :> F(4, "j")),
        !.library = [status |-> "unregistered", policy |-> "A"],
        !.requests = {"organize", "undo"}, !.plans = 2,
        !.edits = {[path |-> P("N", "cover", "jpg"), file |-> Gone]}]

\* Two Tracks of a directory share a cover, and lyrics follow one of them.
Managed ==
    [EmptyWorld EXCEPT
        !.files = (P("M", "a", "mp3") :> F(1, "m")) @@ (P("M", "b", "mp3") :> F(2, "n"))
                  @@ (P("M", "b", "lrc") :> F(3, "l")) @@ (P("M", "cover", "jpg") :> F(4, "j")),
        !.tracks = <<Row(P("M", "a", "mp3"), F(1, "m")), Row(P("M", "b", "mp3"), F(2, "n"))>>,
        !.assets = <<Asset("artwork", P("M", "cover", "jpg"), F(4, "j"), 1),
                     Asset("lyrics", P("M", "b", "lrc"), F(3, "l"), 2)>>,
        !.requests = {"refresh", "undo", "cancel"}, !.plans = 2, !.limit = 2,
        !.scopes = {{P("M", "a", "mp3"), P("M", "b", "mp3")}, {P("M", "b", "mp3")}},
        !.edits = {[path |-> P("M", "a", "mp3"), file |-> F(5, "x")],
                   [path |-> P("M", "a", "mp3"), file |-> F(8, "m")],
                   [path |-> P("M", "b", "mp3"), file |-> F(6, "y")]}]

\* The same after both files were retagged: their Tracks are to move apart, or,
\* when only one is selected, away from the cover they share.
Retagged ==
    [Managed EXCEPT
        !.files = (P("M", "a", "mp3") :> F(5, "x")) @@ (P("M", "b", "mp3") :> F(6, "y"))
                  @@ (P("M", "b", "lrc") :> F(3, "l")) @@ (P("M", "cover", "jpg") :> F(4, "j")),
        !.touched = {P("M", "a", "mp3"), P("M", "b", "mp3")},
        !.plans = 3, !.limit = 0]

\* A second Track was added beside a companion that belongs to the first; its
\* path sorts earlier.
Joined ==
    [EmptyWorld EXCEPT
        !.files = (P("M", "a", "mp3") :> F(1, "x")) @@ (P("M", "b", "mp3") :> F(2, "y"))
                  @@ (P("M", "cover", "jpg") :> F(3, "j")),
        !.tracks = <<Row(P("M", "b", "mp3"), F(2, "y")), Row(P("M", "a", "mp3"), F(1, "x"))>>,
        !.assets = <<Asset("artwork", P("M", "cover", "jpg"), F(3, "j"), 1)>>,
        !.library = [status |-> "registered", policy |-> "B"],
        !.requests = {"organize"}, !.plans = 1]

CompanionWorlds == {Joined}

SmallWorlds == {Incoming, Reimported, Unorganized, TwoCovers, Managed, Retagged}
=============================================================================
