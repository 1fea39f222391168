-------------------------------- MODULE Web ---------------------------------
(***************************************************************************)
(* The two stateful parts of the web client side by side: the wishlist     *)
(* and its query cache (WishlistClient), and the search and its filters    *)
(* (BrowseClient).  They share neither state nor steps.                    *)
(***************************************************************************)
EXTENDS WishlistClient

CONSTANTS Texts, Empty, Trim(_), Rests, NoRest, Delay

VARIABLES url, value, debounced, fieldTimer, gridQuery, gridTimer, held, quiet

Browse == INSTANCE BrowseClient

ASSUME BrowseAssumption == Browse!BrowseClientAssumption

browseVars == <<url, value, debounced, fieldTimer, gridQuery, gridTimer, held, quiet>>

-----------------------------------------------------------------------------
(* The properties of BrowseClient.                                         *)

\* Typing does not fetch (see BrowseClient).
OnlySettledTextsAreFetched == Browse!OnlySettledTextsAreFetched

\* Once the user pauses the grid shows what the URL says (see BrowseClient).
GridFollowsUrl == Browse!GridFollowsUrl
=============================================================================
