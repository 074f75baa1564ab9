----------------------------- MODULE Companions -----------------------------
(***************************************************************************)
(* associate_companions: which lyrics and artwork files of a source        *)
(* inventory belong to which audio candidates, and where they go with them.*)
(***************************************************************************)
EXTENDS LibraryState

\* The audio candidates c may belong to: its directory, and its stem for lyrics.
Partners(c, audio) ==
    SelectSeq(audio, LAMBDA a : /\ a.source.dir = c.dir
                                /\ c.ext = "lrc" => a.source.stem = c.stem)

\* Claimed companions are kept from the unprocessed collection, owned or not.
Claimed(inventory, audio) ==
    {c \in inventory : c.ext \in {"lrc", "jpg"} /\ Partners(c, audio) # <<>>}

\* _lyrics_decision: exactly one partner owns the lyrics, which take its name.
Lyrics(c, partners) ==
    LET owner == partners[1]
        base  == [Candidate("lyrics", c) EXCEPT !.deps = {p.source : p \in ToSet(partners)}] IN
    IF Len(partners) > 1 THEN [base EXCEPT !.reason = "companion_association_ambiguous"]
    ELSE [base EXCEPT
             !.owner  = owner.source,
             !.target = IF owner.target = NoPath THEN NoPath ELSE [owner.target EXCEPT !.ext = c.ext],
             !.reason = IF owner.target = NoPath THEN "companion_owner_blocked" ELSE "none"]

\* _artwork_decision: the first audio file of the directory owns the artwork;
\* it follows only when all of them go to one directory.
Artwork(c, partners) ==
    LET targets == {p.target : p \in ToSet(partners)}
        base    == [Candidate("artwork", c) EXCEPT
                       !.owner = partners[1].source, !.deps = {p.source : p \in ToSet(partners)}] IN
    IF NoPath \in targets THEN [base EXCEPT !.reason = "companion_owner_blocked"]
    ELSE IF Cardinality({t.dir : t \in targets}) > 1
         THEN [base EXCEPT !.reason = "companion_association_ambiguous"]
    ELSE [base EXCEPT !.target = [c EXCEPT !.dir = partners[1].target.dir]]

\* The associations and issues of the claimed companions, in source order; an
\* observation that fails comes before an issue. seen[c] is what capture found.
Associate(inventory, audio, seen) ==
    LET ordered == Sorted(Claimed(inventory, audio))
        decide(c) == IF c.ext = "lrc" THEN Lyrics(c, Partners(c, audio))
                                      ELSE Artwork(c, Partners(c, audio)) IN
    [i \in DOMAIN ordered |->
        [decide(ordered[i]) EXCEPT
            !.content = seen[ordered[i]],
            !.reason  = IF seen[ordered[i]] = Gone THEN "source_missing" ELSE @]]
=============================================================================
