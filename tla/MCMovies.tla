------------------------------ MODULE MCMovies ------------------------------
(***************************************************************************)
(* MovieService in one process with one list and one film, together with   *)
(* the mapping of Catalog: a behaviour is one of the service, or one       *)
(* answer of the mapping to one of its inputs.                             *)
(***************************************************************************)
EXTENDS Movies, SequencesExt

CONSTANTS i1, genres, list, film, r1

TtlOf      == [k \in {genres, list, film} |-> 1]
StaleForOf == [k \in {genres, list, film} |-> IF k = film THEN 1 ELSE 0]
MaxAgeOf   == [k \in {genres, list, film} |-> IF k = film THEN 0 ELSE 1]

\* Search texts are 0, 1 and 2; 2 is 1 in capitals.
LowerOf(q) == IF q = 2 THEN 1 ELSE q

Film(id, title, date, average, votes, ids, popularity) ==
  [id |-> id, title |-> title, date |-> date, average |-> average, votes |-> votes,
   genreIds |-> ids, popularity |-> popularity]

\* Two that tie on all but the title and the day, one with nothing but a name, one
\* whose average nobody voted for, one with votes of zero, one without title.
Films == {Film(1, 3, 19990301, 696, 10, <<1, 2>>, 5),
          Film(2, 1, 19991001, 695, 10, <<2, None, 1>>, 5),
          Film(3, 2, None, None, None, None, None),
          Film(4, 4, 20010301, 900, 0, <<1>>, 7),
          Film(5, 5, 20000101, 0, 12, <<1, 3>>, 1),
          Film(6, None, 20000101, 800, 9, <<1>>, 9)}

Plain  == CHOOSE s \in Films : s.id = 1
Second == CHOOSE s \in Films : s.id = 2
Orders == UNION {SetToSeqs(S) : S \in {T \in SUBSET Films : Plain \in T /\ Cardinality(T) = 3}}

\* One page has a film twice.
RawPagesOf == {[results |-> r, totalPages |-> n] : r \in Orders \cup {<<Plain, Second, Plain>>},
                                                   n \in {2}}
              \cup {[results |-> r, totalPages |-> n] :
                      r \in {None, <<>>}, n \in {None, 0, 3, 4}}

QueriesOf ==
  [q : {None, 1, 2}, genreIds : {<<>>, <<1, 2>>, <<2, 1>>}, year : {None},
   minRating : {None, 0, 70},
   sort : {[by |-> "vote_average", desc |-> TRUE], [by |-> "vote_average", desc |-> FALSE],
           [by |-> "revenue", desc |-> TRUE]},
   page : {3}]
  \cup [q : {None, 0}, genreIds : {<<>>}, year : {None, 1999}, minRating : {None},
        sort : {[by |-> "primary_release_date", desc |-> TRUE], [by |-> "title", desc |-> TRUE],
                [by |-> "vote_count", desc |-> TRUE]},
        page : {1, 4}]

Person(id, name, order, job) == [id |-> id, name |-> name, order |-> order, job |-> job]
Video(key, site, type, official) == [key |-> key, site |-> site, type |-> type, official |-> official]

Casts  == {None, <<>>} \cup SetToSeqs({Person(1, 1, 2, "Actor"), Person(2, 2, 1, "Actor"),
             Person(3, 3, None, "Actor"), Person(4, None, 0, "Actor"), Person(None, 5, 0, "Actor")})
Crews  == {None} \cup SetToSeqs({Person(1, 1, 1, "Director"), Person(1, 1, 2, "Director"),
             Person(2, 2, 3, "Director"), Person(2, 2, 4, "Writer"),
             Person(None, 5, 5, "Director")})
Videos == {None} \cup UNION {SetToSeqs(S) : S \in SUBSET
            {Video(1, "youtube", "Trailer", FALSE), Video(2, "youtube", "Trailer", TRUE),
             Video(3, "youtube", "Teaser", TRUE), Video(4, "vimeo", "Trailer", TRUE)}}

RawDetail(s, g, credits, videos) ==
  [summary |-> s, genres |-> g, credits |-> credits, videos |-> videos, similar |-> <<s>>]
CreditsOf(cast, crew) == [cast |-> cast, crew |-> crew]
Genre(id, name) == [id |-> id, name |-> name]
RawDetailsOf ==
  {RawDetail(Plain, None, CreditsOf(cast, <<>>), None) : cast \in Casts}
  \cup {RawDetail(Plain, None, CreditsOf(<<>>, crew), None) : crew \in Crews}
  \cup {RawDetail(Plain, None, None, videos) : videos \in Videos}
  \cup {RawDetail(s, g, credits, <<>>) : s \in Films, credits \in {CreditsOf(None, None), Misfit},
          g \in {None, <<>>, <<Genre(1, "Drama")>>, <<Genre(None, "War"), Genre(2, "Crime")>>,
                 <<Genre(1, "Drama"), Genre(Misfit, "War")>>, <<Genre(Misfit, None)>>}}

NameMapsOf == {<<>>, <<"Action", "Comedy">>}

MCInit == Init /\ served = None

MCNext ==
  \/ served = None /\ Next /\ UNCHANGED served
  \/ Init /\ Mapping!Serving /\ UNCHANGED vars

MCSpec == MCInit /\ [][MCNext]_<<vars, served>> /\ Fairness
=============================================================================
