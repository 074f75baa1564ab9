------------------------------ MODULE PathNames ------------------------------
(***************************************************************************)
(* The names a Library path is made of: the path policy that renders,      *)
(* sanitizes and cuts them, the years and disc totals its albums are given *)
(* by the files planned together, and the generator of artist IDs.  All    *)
(* are pure; a step answers one request.                                   *)
(*                                                                         *)
(* A text is a sequence of characters: "w" is a letter of two bytes, "c"   *)
(* and "o" are letters that make a reserved Windows name when they stand   *)
(* alone as "co", "b" is a backslash, the others are what they look like.  *)
(***************************************************************************)
EXTENDS Integers, FiniteSets, Sequences, FiniteSetsExt, Functions, SequencesExt

CONSTANTS
    Titles,     \* titles of tags
    Artists,    \* artist names of tags, <<>> for none
    Limits,     \* values of max_filename_length
    Words,      \* words of an artist's name, once normalized: sequences of letters
    IdLengths,  \* values of artist_ids.max_length
    TagSets,    \* tags that tell albums, years and discs: 0 is a missing number
    MaxBatch    \* files planned together

\* A number of a tag is not negative; a missing one stands as 0.
ASSUME TagsAssumption ==
    \A t \in TagSets :
       /\ t = [album |-> t.album, albumArtist |-> t.albumArtist, artist |-> t.artist,
               year |-> t.year, disc |-> t.disc, discs |-> t.discs]
       /\ t.year \in Nat /\ t.disc \in Nat /\ t.discs \in Nat

VARIABLE answer  \* none, or the last request with what was answered

pathVars == <<answer>>

NoAnswer == [kind |-> "none"]

Unlimited == 99  \* no limit is given
Extension == <<".", "x">>
Unsafe == {".", "/", "b"}
Reserved == {<<"c", "o">>}

Templates ==
    {<<"title">>, <<"artist", "/", "title">>, <<"artist", "/", "disc", "/", "title">>,
     <<"disc", "-", "title">>, <<"disc", "/", "title">>}

-----------------------------------------------------------------------------
\* Bytes.

Size(text) == Len(text) + Len(SelectSeq(text, LAMBDA c : c = "w"))

LimitUtf8(text, limit) ==
    LET fits == {n \in 0..Len(text) : Size(SubSeq(text, 1, n)) <= limit}
    IN IF limit <= 0 THEN <<>> ELSE SubSeq(text, 1, Max(fits))

FirstLetter(text) == IF text = <<>> THEN <<>> ELSE <<Head(text)>>

-----------------------------------------------------------------------------
\* The sanitizer.

StripHyphens(text) ==
    LET kept == {i \in DOMAIN text : text[i] # "-"}
    IN IF kept = {} THEN <<>> ELSE SubSeq(text, Min(kept), Max(kept))

\* Unsafe characters become hyphens, and a run of hyphens becomes one.
SanitizeBase(text) ==
    LET Add(clean, c) ==
            IF c \notin Unsafe \cup {"-"} THEN Append(clean, c)
            ELSE IF clean # <<>> /\ Last(clean) = "-" THEN clean ELSE Append(clean, "-")
    IN StripHyphens(FoldLeft(Add, <<>>, text))

\* Mutant of LimitSanitized: the reserved names are looked for before the cut.
ChecksBeforeCut(base, limit) ==
    IF base \in Reserved THEN <<>> ELSE StripHyphens(LimitUtf8(base, limit))

\* A component without an extension: cut, and dropped when it is a reserved name.
LimitSanitized(base, limit) ==
    LET cut == StripHyphens(LimitUtf8(base, limit))
    IN IF cut \in Reserved THEN <<>> ELSE cut

\* The file name: the extension counts, and is never cut; some of the stem is kept.
LimitWithExtension(base, limit) ==
    LET cut == StripHyphens(LimitUtf8(base, limit - Size(Extension)))
        stem == IF cut = <<>> THEN FirstLetter(base) ELSE cut
    IN (IF stem = <<>> \/ stem \in Reserved THEN <<"_">> ELSE stem) \o Extension

SanitizeComponent(text, limit) ==
    LET clean == LimitSanitized(SanitizeBase(text), limit)
    IN IF text # <<>> /\ clean = <<>> THEN <<"_">> ELSE clean

SanitizeTitle(title) ==
    LET clean == LimitSanitized(SanitizeBase(title), Unlimited)
    IN IF clean = <<>> THEN <<"a", "-", "a">> ELSE clean

-----------------------------------------------------------------------------
\* The template, filled in.

ArtistValue(q) ==
    LET name == IF q.artist = <<>> THEN <<"a">> ELSE q.artist
    IN IF q.sanitize THEN SanitizeComponent(name, Unlimited) ELSE name

TitleValue(q) == IF q.sanitize THEN SanitizeTitle(q.title) ELSE q.title

\* The disc is hidden, missing, or a number.
DiscValue(q) ==
    CASE q.disc = "hidden" -> <<>>
      [] q.disc = "missing" -> <<"_">>
      [] q.disc = "number" -> <<"a">>

Stem(q) ==
    FlattenSeq([i \in DOMAIN q.template |->
        CASE q.template[i] = "artist" -> ArtistValue(q)
          [] q.template[i] = "title" -> TitleValue(q)
          [] q.template[i] = "disc" -> DiscValue(q)
          [] OTHER -> <<q.template[i]>>])

Split(text, separators) ==
    LET Add(parts, c) ==
            IF c \in separators THEN Append(parts, <<>>)
            ELSE [parts EXCEPT ![Len(parts)] = Append(@, c)]
    IN FoldLeft(Add, <<<<>>>>, text)

NormalizedComponents(q) ==
    LET parts == Split(Stem(q), {"/"})
        Directory(part) == IF q.sanitize THEN SanitizeComponent(part, q.limit)
                           ELSE LimitUtf8(part, q.limit)
        stem == LimitUtf8(Last(parts), q.limit - Size(Extension))
        name == IF q.sanitize THEN LimitWithExtension(SanitizeBase(Last(parts)), q.limit)
                ELSE (IF stem = <<>> THEN FirstLetter(Last(parts)) ELSE stem) \o Extension
    IN [n \in DOMAIN parts |-> IF n = Len(parts) THEN name ELSE Directory(parts[n])]

Refused(why) == [why |-> why, path |-> <<>>]

\* The stored form: backslashes separate too, "." and empty parts go, ".." is refused.
LibraryRelative(components) ==
    LET text == FlattenSeq([n \in DOMAIN components |->
                    IF n = 1 THEN components[n] ELSE <<"/">> \o components[n]])
        parts == SelectSeq(Split(text, {"/", "b"}), LAMBDA p : p \notin {<<>>, <<".">>})
    IN CASE text # <<>> /\ Head(text) \in {"/", "b"} -> Refused("rooted")
         [] \E i \in DOMAIN parts : parts[i] = <<".", ".">> -> Refused("escaping")
         [] OTHER -> [why |-> "none", path |-> parts]

CanonicalPath(q) ==
    IF q.title = <<>> THEN Refused("no title") ELSE LibraryRelative(NormalizedComponents(q))

RenderPath ==
    /\ answer = NoAnswer
    /\ \E t \in Templates, title \in Titles, artist \in Artists, n \in Limits :
       \E d \in {"hidden", "missing", "number"}, s \in BOOLEAN :
          /\ "artist" \notin {t[i] : i \in DOMAIN t} => artist = <<>>
          /\ "disc" \notin {t[i] : i \in DOMAIN t} => d = "missing"
          /\ LET q == [template |-> t, title |-> title, artist |-> artist, limit |-> n,
                       disc |-> d, sanitize |-> s]
             IN answer' = [kind |-> "path", asked |-> q, got |-> CanonicalPath(q)]

-----------------------------------------------------------------------------
\* Artist IDs. A name is a sequence of artists, an artist a sequence of words.

Vowels == {"A"}

\* The first letter and the consonants are taken before the other vowels.
Prioritized(word) == {i \in DOMAIN word : i = 1 \/ word[i] \notin Vowels}

\* Mutant of Allocate: the first takes all that it can.
AllocateInOrder(capacities, total) ==
    LET before(i) == SumFunctionOnSet(capacities, 1..(i - 1))
    IN [i \in DOMAIN capacities |-> Max({0, Min({capacities[i], total - before(i)})})]

\* One for each that has room, round after round, while any remains.
Allocate(capacities, total) ==
    LET turns == UNION {{<<round, i>> : round \in 1..capacities[i]} : i \in DOMAIN capacities}
        Earlier(t) == {u \in turns : u[1] < t[1] \/ (u[1] = t[1] /\ u[2] < t[2])}
        taken == {t \in turns : Cardinality(Earlier(t)) < total}
    IN [i \in DOMAIN capacities |-> Cardinality({t \in taken : t[2] = i})]

FirstOf(positions, n) == {p \in positions : Cardinality({q \in positions : q < p}) < n}

\* The letters of each word that stay: its share of the prioritized ones, then
\* the others, one for each word in turn.
KeptLetters(words, quota) ==
    LET first == [i \in DOMAIN words |-> Prioritized(words[i])]
        other == [i \in DOMAIN words |-> DOMAIN words[i] \ first[i]]
        shares == Allocate([i \in DOMAIN words |-> Cardinality(first[i])], quota)
        more == Allocate([i \in DOMAIN words |-> Cardinality(other[i])], quota - SumFunction(shares))
    IN [i \in DOMAIN words |-> FirstOf(first[i], shares[i]) \cup FirstOf(other[i], more[i])]

Letters(words) == SumFunction([i \in DOMAIN words |-> Len(words[i])])

\* An artist without a letter left does not count; without any, the fallback stands in.
GenerateArtistId(name, length) ==
    LET named == SelectSeq(name, LAMBDA words : words # <<>>)
        quotas == Allocate([i \in DOMAIN named |-> Letters(named[i])], length)
    IN IF named = <<>> THEN <<>>
       ELSE [i \in DOMAIN named |-> KeptLetters(named[i], quotas[i])]

GenerateId ==
    /\ answer = NoAnswer
    /\ \E one \in Words, two \in Words \cup {<<>>}, other \in Words \cup {<<>>}, n \in IdLengths :
       LET words == IF two = <<>> THEN <<one>> ELSE <<one, two>>
       IN \E name \in {<<words>>, <<IF other = <<>> THEN <<>> ELSE <<other>>, words>>, <<<<>>>>} :
             answer' = [kind |-> "id", asked |-> [name |-> name, length |-> n],
                        got |-> GenerateArtistId(name, n)]

-----------------------------------------------------------------------------
\* Albums: what is planned together decides the year and the discs of each.

NoTag == "none"
Unknown == "u"
OrElse(tag, other) == IF tag = NoTag THEN other ELSE tag
AlbumOf(tags) ==
    <<OrElse(tags.album, Unknown), OrElse(tags.albumArtist, OrElse(tags.artist, Unknown))>>

ResolveYear(batch, album, method) ==
    LET dated == {i \in DOMAIN batch : AlbumOf(batch[i]) = album /\ batch[i].year # 0}
        years == {batch[i].year : i \in dated}
        count == [y \in years |-> Cardinality({i \in dated : batch[i].year = y})]
    IN CASE years = {} -> 0
         [] years # {} /\ method = "latest" -> Max(years)
         [] years # {} /\ method = "oldest" -> Min(years)
         [] years # {} /\ method = "most_frequent" ->
                Max({y \in years : \A z \in years : count[z] <= count[y]})

\* Mutant of Redated: a file that has a year keeps it.
FillsMissingYears(batch, method) ==
    [i \in DOMAIN batch |-> [batch[i] EXCEPT !.year =
        IF @ # 0 THEN @ ELSE ResolveYear(batch, AlbumOf(batch[i]), method)]]

Redated(batch, method) ==
    [i \in DOMAIN batch |-> [batch[i] EXCEPT !.year = ResolveYear(batch, AlbumOf(batch[i]), method)]]

\* The highest number or total of the album's files of that year.
DiscTotal(dated, tags) ==
    LET same == {i \in DOMAIN dated : AlbumOf(dated[i]) = AlbumOf(tags) /\ dated[i].year = tags.year}
    IN Max({0} \cup {dated[i].discs : i \in same} \cup {dated[i].disc : i \in same})

DiscHidden(dated, tags) ==
    LET total == DiscTotal(dated, tags)
    IN (IF total = 0 THEN tags.discs ELSE total) <= 1

\* Every file's year, and whether its disc is left out under "multiple_discs".
Resolution(batch, method) ==
    LET dated == Redated(batch, method)
    IN [i \in DOMAIN batch |-> [year |-> dated[i].year, hidden |-> DiscHidden(dated, dated[i])]]

ResolveAlbums ==
    /\ answer = NoAnswer
    /\ \E n \in 1..MaxBatch, method \in {"latest", "oldest", "most_frequent"} :
       \E batch \in [1..n -> TagSets] :
          answer' = [kind |-> "albums", asked |-> [batch |-> batch, method |-> method],
                     got |-> Resolution(batch, method)]

PathInit == answer = NoAnswer
PathNext == RenderPath \/ GenerateId \/ ResolveAlbums

PathSpec == PathInit /\ [][PathNext]_pathVars

-----------------------------------------------------------------------------
\* A path that was given lies below the Library root and its parts respect the
\* limit, whatever was cut; what was sanitized has only letters and single
\* inner hyphens in it, is no reserved name, and never escapes; and the
\* extension is always there.
Portable(q, path) ==
    LET name == Last(path)
        stem == SubSeq(name, 1, Len(name) - Len(Extension))
        parts == Front(path) \o <<stem>>
    IN /\ path # <<>> /\ IsSuffix(Extension, name)
       /\ Size(name) <= q.limit \/ Len(stem) <= 1
       /\ \A i \in DOMAIN path : path[i] \notin {<<".">>, <<".", ".">>}
       /\ \A i \in 1..(Len(path) - 1) : path[i] # <<>> /\ Size(path[i]) <= q.limit
       /\ q.sanitize => \A i \in DOMAIN parts :
              /\ parts[i] # <<>> /\ parts[i] \notin Reserved
              /\ \A j \in DOMAIN parts[i] : parts[i][j] \notin Unsafe
              /\ parts[i][1] # "-" /\ Last(parts[i]) # "-"
              /\ \A j \in 2..Len(parts[i]) : parts[i][j - 1] # "-" \/ parts[i][j] # "-"

\* An ID has as many letters as there is room for. No artist gives up a letter
\* to another that has more of them than it has; and a vowel stays only when
\* every consonant of its artist does.
Fair(name, length, kept) ==
    LET named == SelectSeq(name, LAMBDA words : words # <<>>)
        count == [i \in DOMAIN named |-> SumFunction([w \in DOMAIN named[i] |-> Cardinality(kept[i][w])])]
        total == SumFunction([i \in DOMAIN named |-> Letters(named[i])])
    IN /\ SumFunction(count) = Min({length, total})
       /\ \A i, j \in DOMAIN named : count[i] < Letters(named[i]) => count[j] <= count[i] + 1
       /\ \A i \in DOMAIN named :
             (\E w \in DOMAIN named[i] : ~(kept[i][w] \subseteq Prioritized(named[i][w])))
             => \A w \in DOMAIN named[i] : Prioritized(named[i][w]) \subseteq kept[i][w]

\* Files of one album get one year, that of one of them, and all show their disc or
\* none does; a disc is left out only where no file tells of a second one; and the
\* order in which files are listed does not matter.
Agreed(batch, method, got) ==
    /\ \A i, j \in DOMAIN batch : AlbumOf(batch[i]) = AlbumOf(batch[j]) =>
           /\ got[i] = got[j]
           /\ got[i].hidden => batch[j].disc <= 1 /\ batch[j].discs <= 1
           /\ batch[i].year # 0 =>
                 \E k \in DOMAIN batch : AlbumOf(batch[k]) = AlbumOf(batch[i]) /\ got[j].year = batch[k].year
    /\ Resolution(Reverse(batch), method) = Reverse(got)

\* The files of one album that are planned together are treated alike.
AlbumsAgree ==
    answer.kind = "albums" => Agreed(answer.asked.batch, answer.asked.method, answer.got)

\* Every name that is given out is one that a file system of either kind can hold
\* and that says as much of the artist as fits, and the files of an album stay
\* together.
NamesAreSound ==
    /\ answer.kind = "path" =>
          IF answer.got.why = "none" THEN Portable(answer.asked, answer.got.path)
          ELSE answer.got.why = "escaping" => ~answer.asked.sanitize
    /\ answer.kind = "id" /\ answer.got # <<>> =>
          Fair(answer.asked.name, answer.asked.length, answer.got)
    /\ AlbumsAgree
=============================================================================
