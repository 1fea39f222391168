------------------------------- MODULE Movies -------------------------------
(***************************************************************************)
(* The two parts of the movie pages side by side: when something is loaded *)
(* and how long it is shown (MovieService), and what the answers to TMDB's *)
(* responses are (Catalog).  They share no state.                          *)
(***************************************************************************)
EXTENDS MovieService

CONSTANTS Misfit, Lower(_), PageMax, TopBilled, MinVotes, Queries, RawPages, RawDetails, NameMaps

VARIABLE served

Mapping == INSTANCE Catalog

ASSUME MappingAssumption == Mapping!CatalogAssumption

MappingSpec == served = None /\ [][Mapping!Serving]_served

-----------------------------------------------------------------------------
(* The properties of Catalog.                                              *)

\* A search page holds exactly the films asked for, in order (see Catalog).
SearchIsExact == Mapping!SearchIsExact

\* Requests that share a cache entry are given the same answer (see Catalog).
KeysSeparateQuestions == Mapping!KeysSeparateQuestions

\* A detail shows the best of what TMDB sent (see Catalog).
DetailIsFaithful == Mapping!DetailIsFaithful

\* A detail with an id and a title is not refused (see Catalog; it may be).
OnlyIdAndTitleAreRequired == Mapping!OnlyIdAndTitleAreRequired

\* A search by release date lists the dates in order (see Catalog; it does not).
DatesInOrder == Mapping!DatesInOrder
=============================================================================
