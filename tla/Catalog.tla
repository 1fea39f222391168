------------------------------ MODULE Catalog ------------------------------
(***************************************************************************)
(* How a TMDB response becomes an answer: the tolerant schemas and the     *)
(* mapping of server/src/tmdb, the filters, sorts and keys of              *)
(* services/movieService.ts.  Each is a pure function; the state is one    *)
(* answer, with what it was made from.                                     *)
(*                                                                         *)
(* None stands for a field that is missing or of the wrong type, and       *)
(* Misfit for what has the type a preprocess() looks for and then fails    *)
(* the schema behind it.  Titles and names are numbers in the order the    *)
(* code compares them, a release date is the number yyyymmdd, a vote       *)
(* average is in hundredths, as TMDB sends it, a rating in tenths.  What   *)
(* is only copied (overviews, images, links, money) is left out.           *)
(***************************************************************************)
EXTENDS Integers, SequencesExt

CONSTANTS None, Misfit,
          Lower(_),    \* toLowerCase of a search text
          PageMax,     \* TMDB_MAX_PAGE
          TopBilled,   \* the 12 of mapCast and of the similar films
          MinVotes,    \* MIN_VOTES_FOR_RATING_SORT
          Queries,     \* inputs to check: browse parameters,
          RawPages,    \*   raw pages,
          RawDetails,  \*   raw details
          NameMaps     \*   and genre maps

VARIABLE served        \* the answer given and what it was made from, or None

\* The elements of s at the positions I, in the order R of these: what comes at n
\* has n - 1 positions before it.
Arranged(s, I, R) ==
  LET place(i) == 1 + Cardinality({j \in I : <<j, i>> \in R})
  IN  [n \in 1 .. Cardinality(I) |-> s[CHOOSE i \in I : place(i) = n]]

Selected(s, I) == Arranged(s, I, {p \in I \X I : p[1] < p[2]})

\* Array.prototype.filter, the elements of a Set made from an array, and
\* Array.prototype.sort, which is stable: an element comes after those that precede
\* it and the earlier ones that it does not precede.
Filter(s, Test(_)) == Selected(s, {i \in DOMAIN s : Test(s[i])})
Distinct(s) == Selected(s, {i \in DOMAIN s : \A j \in DOMAIN s : s[j] = s[i] => i <= j})
SortBy(s, Precedes(_, _)) ==
  LET I == DOMAIN s
  IN  Arranged(s, I, {p \in I \X I : \/ Precedes(s[p[1]], s[p[2]])
                                    \/ (p[1] < p[2] /\ ~Precedes(s[p[2]], s[p[1]]))})

\* Array.prototype.slice from the start and Array.prototype.map.
Take(s, n)      == [i \in 1 .. Min({n, Len(s)}) |-> s[i]]
Mapped(s, F(_)) == [i \in DOMAIN s |-> F(s[i])]

-----------------------------------------------------------------------------
(* What the inputs are assumed to be, by whoever instantiates this module. *)

Number == Int \cup {None}

Sorts == [by : {"title", "primary_release_date", "vote_average", "vote_count", "popularity",
                "revenue"}, desc : BOOLEAN]

\* Browse parameters are what browseQuerySchema of routes/movies.ts leaves of them.
IsQuery(p) ==
  /\ p \in [q : {p.q}, genreIds : Seq(Int), year : {p.year}, minRating : Number, sort : Sorts,
            page : {p.page}]
  /\ p.q # None => Lower(p.q) # None

\* Payloads are objects with the fields that are read, each of its type or None.  A
\* date that does not begin with a year is None: it is only used for its year.  The
\* id of a genre may also be a number that is no integer, and credits an array.
IsArray(v) == v = None \/ v \in Seq(ToSet(v))
IsFilm(f) ==
  /\ f \in [id : Number, title : Number, date : Number, average : Number, votes : Number,
            genreIds : {f.genreIds}, popularity : Number]
  /\ IsArray(f.genreIds)
IsCredits(credits) ==
  /\ credits \in [cast : {credits.cast}, crew : {credits.crew}]
  /\ IsArray(credits.cast) /\ IsArray(credits.crew)
  /\ credits.cast # None => \A c \in ToSet(credits.cast) : c.order \in Number
IsDetail(raw) ==
  /\ IsFilm(raw.summary)
  /\ IsArray(raw.genres) /\ IsArray(raw.videos)
  /\ raw.genres # None => \A g \in ToSet(raw.genres) : g.id \in Number \cup {Misfit}
  /\ raw.credits \in {None, Misfit} \/ IsCredits(raw.credits)

IsPage(raw) ==
  /\ IsArray(raw.results)
  /\ raw.results # None => \A f \in ToSet(raw.results) : IsFilm(f)

CatalogAssumption ==
  /\ None \notin Int /\ Misfit \notin Int \cup {None}
  /\ TopBilled \in Nat
  /\ \A p \in Queries : IsQuery(p)
  /\ \A raw \in RawPages : IsPage(raw)
  /\ \A raw \in RawDetails : IsDetail(raw)

-----------------------------------------------------------------------------
(* schemas.ts                                                              *)

NumberOr(fallback, v) == IF v = None THEN fallback ELSE v

UnknownArrayOrEmpty(v) == IF v = None THEN <<>> ELSE v

IntArrayOrEmpty(v) == Filter(UnknownArrayOrEmpty(v), LAMBDA n : n # None)

\* A number and a name are kept; the parse fails if one of the numbers is a fraction.
GenreObjectArray(v) ==
  Filter(UnknownArrayOrEmpty(v), LAMBDA g : g.id # None /\ g.name # None)
GenresParse(v) == \A g \in ToSet(GenreObjectArray(v)) : g.id # Misfit

\* The records that parse, in order.
ParseTolerantArray(raws, Valid(_)) == Filter(raws, Valid)

\* What has to be there for a record to parse.
SummaryParses(raw) == raw.id # None /\ raw.title # None
CreditParses(raw)  == raw.id # None /\ raw.name # None
VideoParses(raw)   == raw.key # None

Summary(raw) == [raw EXCEPT !.votes      = NumberOr(0, @),
                            !.genreIds   = IntArrayOrEmpty(@),
                            !.popularity = NumberOr(0, @)]

Page(raw) == [results    |-> UnknownArrayOrEmpty(raw.results),
              totalPages |-> IF raw.totalPages # None /\ raw.totalPages >= 0
                             THEN raw.totalPages ELSE 0]

\* Each appended part may be missing, but credits may not be an array.
Credits(raw) == IF raw.credits = None THEN [cast |-> None, crew |-> None] ELSE raw.credits

DetailParses(raw) ==
  SummaryParses(raw.summary) /\ GenresParse(raw.genres) /\ raw.credits # Misfit

Detail(raw) == [summary |-> Summary(raw.summary),
                genres  |-> GenreObjectArray(raw.genres),
                cast    |-> UnknownArrayOrEmpty(Credits(raw).cast),
                crew    |-> UnknownArrayOrEmpty(Credits(raw).crew),
                videos  |-> UnknownArrayOrEmpty(raw.videos),
                similar |-> UnknownArrayOrEmpty(raw.similar)]

-----------------------------------------------------------------------------
(* mapper.ts                                                               *)

ToYear(date) == IF date = None THEN None ELSE date \div 10000

\* Rounded to a tenth; no votes, or an average of zero, is no rating.
ToRating(average, votes) ==
  IF average = None \/ votes = 0 \/ average <= 0 THEN None ELSE (average + 5) \div 10

MapMovieSummary(film, names) ==
  LET known == Filter(film.genreIds, LAMBDA g : g \in DOMAIN names)
  IN  [id         |-> film.id,
       title      |-> film.title,
       date       |-> film.date,
       year       |-> ToYear(film.date),
       rating     |-> ToRating(film.average, film.votes),
       votes      |-> film.votes,
       genreIds   |-> film.genreIds,
       genres     |-> Mapped(known, LAMBDA g : names[g]),
       popularity |-> film.popularity]

MapMovieList(raws, names) ==
  Mapped(ParseTolerantArray(raws, SummaryParses),
         LAMBDA raw : MapMovieSummary(Summary(raw), names))

\* Mutant: the first of the list, whatever their billing.
MapCastUnsorted(raws) == Take(ParseTolerantArray(raws, CreditParses), TopBilled)

MapCast(raws) ==
  Take(SortBy(ParseTolerantArray(raws, CreditParses),
              LAMBDA a, b : NumberOr(999, a.order) < NumberOr(999, b.order)), TopBilled)

\* Those who hold one of the jobs, each where they are first credited.
NamesForJobs(raws, jobs) ==
  LET held == Filter(ParseTolerantArray(raws, CreditParses), LAMBDA c : c.job \in jobs)
  IN  Distinct(Mapped(held, LAMBDA c : c.name))

\* An official trailer, any trailer, a teaser, any video: YouTube only.
PickTrailer(raws) ==
  LET youtube == Filter(ParseTolerantArray(raws, VideoParses), LAMBDA v : v.site = "youtube")
      trailers == Filter(youtube, LAMBDA v : v.type = "Trailer")
      found == Filter(trailers, LAMBDA v : v.official) \o trailers
               \o Filter(youtube, LAMBDA v : v.type = "Teaser") \o youtube
  IN  IF found = <<>> THEN None ELSE found[1]

MapMovieDetail(raw, names) ==
  LET detail == Detail(raw)
      base   == MapMovieSummary(detail.summary, names)
      own    == detail.genres
  IN  [base |-> IF own = <<>> THEN base
                ELSE [base EXCEPT !.genres   = Mapped(own, LAMBDA g : g.name),
                                  !.genreIds = Mapped(own, LAMBDA g : g.id)],
       directors |-> NamesForJobs(detail.crew, {"Director"}),
       writers   |-> NamesForJobs(detail.crew, {"Screenplay", "Writer", "Story"}),
       cast      |-> MapCast(detail.cast),
       trailer   |-> PickTrailer(detail.videos),
       similar   |-> Take(MapMovieList(detail.similar, names), TopBilled)]

-----------------------------------------------------------------------------
(* movieService.ts                                                         *)

IsSearch(p) == p.q # None

\* The filters of the search path.
Kept(genres, minRating, film) ==
  /\ genres \subseteq ToSet(film.genreIds)
  /\ minRating # None => film.rating # None /\ film.rating >= minRating

\* What a sort compares; revenue is not on list payloads.
SortValue(film, by) ==
  CASE by = "title"                     -> film.title
    [] by = "primary_release_date"      -> film.year
    [] by = "vote_average"              -> film.rating
    [] by = "vote_count"                -> film.votes
    [] by \in {"popularity", "revenue"} -> film.popularity

\* Mutant: what is not known counts as the least.
UnknownIsLeast(sort, a, b) ==
  LET x == NumberOr(-1, SortValue(a, sort.by))
      y == NumberOr(-1, SortValue(b, sort.by))
  IN  IF sort.desc THEN y < x ELSE x < y

\* The comparator is negative: what is not known comes last in either order.
SortsBefore(sort, a, b) ==
  LET x == SortValue(a, sort.by)
      y == SortValue(b, sort.by)
  IN  x # None /\ (y = None \/ (IF sort.desc THEN y < x ELSE x < y))

SortSummaries(films, sort) == SortBy(films, LAMBDA a, b : SortsBefore(sort, a, b))

FetchDiscoverPage(raw, names) == MapMovieList(Page(raw).results, names)

FetchSearchPage(genres, minRating, sort, raw, names) ==
  SortSummaries(Filter(MapMovieList(Page(raw).results, names),
                          LAMBDA m : Kept(genres, minRating, m)), sort)

\* What TMDB is asked.  It takes no note of the case of a text or of the order
\* of genres; only a discover request carries filters and the sort.
DiscoverQuery(p) == [genres |-> ToSet(p.genreIds), year |-> p.year, minRating |-> p.minRating,
                     sort |-> p.sort, page |-> p.page,
                     minVotes |-> IF p.sort.by = "vote_average" THEN MinVotes ELSE None]
SearchQuery(p)   == [text |-> Lower(p.q), year |-> p.year, page |-> p.page]

\* The page asked for, within what TMDB has.
Clamped(p) == [p EXCEPT !.page = Min({Max({1, @}), PageMax})]

\* Mutant: the key leaves the rating out.
BrowseKeyUnrated(p) ==
  <<IF p.q = None THEN None ELSE Lower(p.q), SortBy(p.genreIds, <), p.year, p.sort, p.page>>

BrowseCacheKey(p) ==
  <<IF p.q = None THEN None ELSE Lower(p.q), SortBy(p.genreIds, <), p.year, p.minRating,
    p.sort, p.page>>

\* The answer to p when TMDB sends raw, and its key in the cache.
BrowseMovies(p, raw, names) ==
  LET asked  == Clamped(p)
      capped == Min({Page(raw).totalPages, PageMax})
  IN  [key        |-> BrowseCacheKey(asked),
       query      |-> IF IsSearch(p) THEN SearchQuery(asked) ELSE DiscoverQuery(asked),
       items      |-> IF IsSearch(p)
                      THEN FetchSearchPage(ToSet(p.genreIds), p.minRating, p.sort, raw, names)
                      ELSE FetchDiscoverPage(raw, names),
       page       |-> asked.page,
       totalPages |-> capped,
       hasMore    |-> asked.page < capped,
       notices    |-> (IF Page(raw).totalPages > PageMax THEN {"capped"} ELSE {})
                      \cup (IF IsSearch(p) /\ (p.genreIds # <<>> \/ p.minRating # None)
                            THEN {"filtered by page"} ELSE {})]

-----------------------------------------------------------------------------
AnswerBrowse ==
  /\ served = None
  /\ \E p \in Queries, raw \in RawPages, names \in NameMaps :
       served' = [p |-> p, raw |-> raw, names |-> names, page |-> BrowseMovies(p, raw, names)]

AnswerDetail ==
  /\ served = None
  /\ \E raw \in RawDetails, names \in NameMaps :
       /\ DetailParses(raw)
       /\ served' = [raw |-> raw, detail |-> MapMovieDetail(raw, names)]

\* The parse throws, and its error is the answer.
RefuseDetail ==
  /\ served = None
  /\ \E raw \in RawDetails : ~DetailParses(raw) /\ served' = [raw |-> raw, error |-> TRUE]

Serving == AnswerBrowse \/ AnswerDetail \/ RefuseDetail

-----------------------------------------------------------------------------
(* Properties.                                                             *)

ServedPage    == served # None /\ "page" \in DOMAIN served
ServedDetail  == served # None /\ "detail" \in DOMAIN served
RefusedDetail == served # None /\ "error" \in DOMAIN served

\* The films of a raw page that answer p, said of the raw records.
Rated(raw) == raw.average # None /\ raw.average > 0 /\ raw.votes \notin {None, 0}
Wanted(p, raw) ==
  /\ raw.id # None /\ raw.title # None
  /\ ToSet(p.genreIds) \subseteq (IF raw.genreIds = None THEN {} ELSE ToSet(raw.genreIds))
  /\ p.minRating # None => Rated(raw) /\ 10 * p.minRating <= raw.average + 5

\* What a raw record is placed by: its title, the year of its release, its rating to
\* a tenth, or a count that is 0 when missing, with popularity for revenue.
PlacedBy(raw, by) ==
  CASE by = "title"                     -> raw.title
    [] by = "primary_release_date"      -> IF raw.date = None THEN None ELSE raw.date \div 10000
    [] by = "vote_average"              -> IF Rated(raw) THEN (raw.average + 5) \div 10 ELSE None
    [] by = "vote_count"                -> IF raw.votes = None THEN 0 ELSE raw.votes
    [] by \in {"popularity", "revenue"} -> IF raw.popularity = None THEN 0 ELSE raw.popularity

\* A search page holds exactly the films TMDB sent that satisfy every filter, each
\* as often as it was sent, placed by what their records say (see PlacedBy): what is
\* known before what is not, in either direction.  Films of one year, or of one
\* tenth, stay as TMDB ordered them.
SearchIsExact ==
  ServedPage /\ IsSearch(served.p) =>
    LET items    == served.page.items
        sort     == served.p.sort
        raws     == Page(served.raw).results
        wanted   == {k \in DOMAIN raws : Wanted(served.p, raws[k])}
    IN  \E from \in [DOMAIN items -> wanted] :
          LET value(i) == PlacedBy(raws[from[i]], sort.by)
          IN  /\ \A k \in wanted : \E i \in DOMAIN items : from[i] = k
              /\ \A i \in DOMAIN items : items[i].id = raws[from[i]].id
              /\ \A i, j \in DOMAIN items : i < j =>
                   /\ from[i] # from[j]
                   /\ value(i) = value(j) => from[i] < from[j]
                   /\ value(i) = None => value(j) = None
                   /\ value(i) # None /\ value(j) # None =>
                        IF sort.desc THEN value(j) <= value(i) ELSE value(i) <= value(j)

\* Two requests that share a cache entry ask TMDB the same and are given the
\* same answer, whatever TMDB sends.
KeysSeparateQuestions ==
  ServedPage => \A q \in Queries : BrowseCacheKey(Clamped(q)) = served.page.key =>
                                   BrowseMovies(q, served.raw, served.names) = served.page

\* How good a video is as a trailer.
Merit(v) ==
  CASE v.type = "Trailer" /\ v.official  -> 3
    [] v.type = "Trailer" /\ ~v.official -> 2
    [] v.type = "Teaser"                 -> 1
    [] OTHER                             -> 0

Given(v) == IF v = None THEN {} ELSE ToSet(v)

Unusable(raw) ==
  \/ raw.summary.id = None \/ raw.summary.title = None
  \/ \E g \in Given(raw.genres) : g.id = Misfit /\ g.name # None
  \/ raw.credits = Misfit

\* A detail is refused exactly when its id or title is missing, when a genre with a
\* name has an id that is no integer, or when its credits are an array.  Whatever
\* else is missing or malformed, what is shown is the best of what is there: nobody
\* is billed above someone left out, no better video is passed over, a director is
\* named once and only as one, what the record says of its own genres wins over the
\* list, and no votes are no rating.
DetailIsFaithful ==
  /\ RefusedDetail => Unusable(served.raw)
  /\ ServedDetail =>
       LET d      == served.detail
           raw    == served.raw
           own    == {g \in Given(raw.genres) : g.id # None /\ g.name # None}
           sent   == IF raw.credits = None THEN [cast |-> None, crew |-> None] ELSE raw.credits
           cast   == UnknownArrayOrEmpty(sent.cast)
           billed == {c \in ToSet(cast) : c.id # None /\ c.name # None}
           videos == {v \in Given(raw.videos) : v.site = "youtube" /\ v.key # None}
       IN  /\ ~Unusable(raw)
           /\ ToSet(d.cast) \subseteq billed
           /\ Len(d.cast) = Min({TopBilled, Cardinality({i \in DOMAIN cast : cast[i] \in billed})})
           /\ \A i \in DOMAIN d.cast, c \in billed \ ToSet(d.cast) :
                NumberOr(999, d.cast[i].order) <= NumberOr(999, c.order)
           /\ IF videos = {} THEN d.trailer = None
              ELSE d.trailer \in videos /\ \A v \in videos : Merit(v) <= Merit(d.trailer)
           /\ ToSet(d.directors) = {c.name : c \in {x \in Given(sent.crew) :
                                      x.id # None /\ x.name # None /\ x.job = "Director"}}
           /\ Cardinality(ToSet(d.directors)) = Len(d.directors)
           /\ own # {} => ToSet(d.base.genres) = {g.name : g \in own}
           /\ (d.base.rating = None) <=> ~Rated(raw.summary)

-----------------------------------------------------------------------------
(* What the documentation says and the code does not do.                   *)

\* "a missing OPTIONAL field degrades to null, never throws" and only id and title
\* are required: a detail that has both is not refused, whatever else it lacks.
OnlyIdAndTitleAreRequired ==
  RefusedDetail => served.raw.summary.id = None \/ served.raw.summary.title = None

\* "Local equivalent of TMDB's sort_by": a search sorted by release date, which the
\* page calls "Newest first" or "Oldest first", lists the dates it has in that order.
DatesInOrder ==
  ServedPage /\ IsSearch(served.p) /\ served.p.sort.by = "primary_release_date" =>
    LET items == served.page.items
    IN  \A i, j \in {k \in DOMAIN items : items[k].date # None} : i < j =>
          IF served.p.sort.desc THEN items[j].date <= items[i].date
                                ELSE items[i].date <= items[j].date
=============================================================================
