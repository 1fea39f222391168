# Trackzio in TLA+

Trackzio is a movie discovery service: an Express API that answers from a
two-tier cache in front of TMDB, keeps wishlists and accounts in Postgres, and
a React client. This directory holds TLA+ modules translated from its source,
the TLC configurations that check them on small instances, and TLAPS proofs of
their main properties for every value of the constants.

Run inside this directory: `tlc -config cache_shared.cfg MCCache.tla`,
`tlapm CacheProofs.tla`. `PROJECT.json` lists every run, the source lines each
definition models, the mutants that break each property, and the hazards the
properties are for.

## Inventory

| Part | State it keeps | Operations | Hard because |
|---|---|---|---|
| Cache (`cache/index.ts`) | LRU map and in-flight map per process; `CacheEntry` table shared by all | `getOrLoad`, unawaited upserts, sweep | many processes, two awaits in each load, upserts land late or never, restarts |
| Circuit breaker (`lib/circuitBreaker.ts`) | state, failure count, `openedAtMs`, half-open flag | `execute`, the lazy getter | calls let through in one state settle in another, in any order |
| Token bucket (`lib/tokenBucket.ts`) | tokens, time of the last refill | `take` | sleepers wake together and race |
| TMDB client (`tmdb/client.ts`) | one breaker and one bucket per process | `tmdbRequest`: attempts, retries, budget | timeouts, `Retry-After`, errors of two kinds leaving through one breaker |
| Movie service (`services/movieService.ts`, `routes/movies.ts`) | none; keys and policies | browse, detail, genres, negative results, cache headers | a cached load inside a cached load, the cache of the browser behind both |
| TMDB mapping (`tmdb/schemas.ts`, `tmdb/mapper.ts`) | none | tolerant parsing, mapping, trailers, credits | any field of any record may be missing |
| Accounts (`services/authService.ts`, `routes/auth.ts`, `middleware/`) | users, sessions, cookies | signup, login, logout, password change, session sweep | several database calls per handler, no lock between them |
| Wishlist (`routes/wishlist.ts`, `schema.prisma`) | devices, wishlist rows | add, remove, list, claim at login | rows change owner while requests that name the old one run |
| Rate limiter (`lib/rateLimiter.ts`, `routes/auth.ts`) | attempts per key, in memory | check, record, reset | checked before an await and counted after it |
| Web data layer (`web/src/features/*/api.ts`, `lib/apiClient.ts`, `lib/queryClient.ts`) | query cache, mutations | optimistic toggles, identity change | overlapping mutations and their rollbacks, late answers |
| Browse page (`web/src/lib/hooks.ts`, `components/Header.tsx`, `pages/BrowsePage.tsx`) | URL filters, the field, two debounced texts | filter, search, load more | three copies of one text and two timers |
| Process (`index.ts`, `lib/prisma.ts`) | sweeper, shutdowns under way | start, graceful shutdown, forced exit | requests or the database may hang, a second signal |
| Hashing, errors, image URLs, pages | none of their own | conversions, wiring, rendering | not modelled, see below |

How they interact: routes call the movie service; the movie service calls
`getOrLoad` with a loader; the loader calls `tmdbRequest`; `tmdbRequest` runs
its retry loop inside `breaker.execute`, and every attempt first takes a token.
Server processes share only the database. Within a process handlers interleave
at their awaits only, so a TLA+ action here is what runs from one await to the
next.

What makes each part correct:

- cache: one load per key and process; nobody waits for ever; nothing is served
  as fresh past its ttl or as stale past its policy; memory never goes back to
  older data;
- breaker: it opens in time, spares an upstream that recovers, and never refuses
  for good;
- bucket: no window of time exceeds the rate, nobody sleeps longer than needed;
- client: retries end, every outcome reaches the breaker;
- accounts and wishlist: a row has one owner, a claim loses no film, a session
  ends when it should;
- movies: an answer is what TMDB's records say under the filters asked for, of
  the age its policies allow, and no failure of the genres keeps it back;
- rate limiter: requests sent together do not multiply a budget, and no lockout
  lasts;
- process: a shutdown cuts nobody off early and comes to an end;
- web: what is shown converges to what the server holds for this identity, and
  to what the URL says.

## Modules

| Module | Models |
|---|---|
| `Cache`, `MCCache`, `CacheProofs` | `cache/index.ts` |
| `CacheContract` | what `getOrLoad` promises, without tiers or promises; `Cache` refines it, `MovieService` is built on it |
| `CircuitBreaker`, `CircuitBreakerProofs` | `lib/circuitBreaker.ts` |
| `TokenBucket`, `TokenBucketProofs` | `lib/tokenBucket.ts` |
| `TmdbClient`, `MCTmdbClient`, `TmdbClientProofs` | `tmdb/client.ts`, composed with `CircuitBreaker` by `INSTANCE` |
| `MovieService` | the loaders, replies and headers of `services/movieService.ts` and `routes/movies.ts`, composed with `CacheContract` by `INSTANCE` |
| `Catalog` | the pure part: `tmdb/schemas.ts`, `tmdb/mapper.ts`, and the keys, filters, sorts and clamping of `services/movieService.ts` |
| `Movies`, `MCMovies`, `MoviesProofs` | `MovieService` beside `Catalog`, with its instance for TLC and its proofs |
| `Accounts`, `MCAccounts`, `AccountsProofs` | `services/authService.ts`, `routes/auth.ts`, `routes/wishlist.ts`, `middleware/`, the tables they use |
| `Server`, `MCServer`, `ServerProofs` | `index.ts`, `lib/prisma.ts`, `lib/rateLimiter.ts` and its use in `routes/auth.ts` |
| `WishlistClient` | `web/src/features/wishlist/api.ts`, `features/auth/api.ts` and the pages that use them, against a server |
| `BrowseClient` | `web/src/lib/hooks.ts`, `components/Header.tsx`, `pages/BrowsePage.tsx` |
| `Web`, `MCWeb`, `WebProofs` | `WishlistClient` beside `BrowseClient`, with its instance for TLC and its proofs |

### How the state corresponds to the code

`Cache`. `l1[i][k]` is the slot of key `k` in the LRU map of process `i`, with
the time it was set; `l2[k]` is the row of the table; `inFlight[i][k]` the
promise registered in the `inFlight` map; `load[p]` the suspended
`loadShared` behind promise `p` with its captured `l1Fallback`; `writes` the
upserts issued and not yet landed; `waitsOn[c]` the promise request `c`
awaits; `answer` the result of the current step. `HitL1`, `Revalidate`, `Join`
and `Start` are the four ways through `getOrLoad`; `ReadL2`, `PromoteL2`,
`CallLoader`, `LoaderReturns` and `LoaderThrows` the steps of `loadShared`;
`Settle` its `finally`. A payload is the time at which the loader returned it.
The LRU map is a library and modelled from its use: a `get` drops a slot older
than the ttl of the map, a `set` on a full map drops some other slot, without
saying which.

`CircuitBreaker`. `cooling` is what is left of the cooling-off period, in place
of `openedAtMs` and the clock. `call[c]` says whether a running call was let
through normally or as the half-open probe: the code does not keep that, which
is what its hazards are about. A call takes any time to settle; `age[c]`, read by
properties only, is the time since it was let through, counted up to one period.
`Observe` is a read of the getter, which promotes the state.

`TokenBucket`. Tokens are counted in credits, fractions of a token, so the
arithmetic is exact. `OpenWindow` lets an observer begin to count at any
moment: what holds of `granted` and `span` holds of every window of time.

`TmdbClient`. One request is `phase`, `attempt`, `timer` and `elapsed`; its
breaker variables are acted on by the operators of `CircuitBreaker`. `Tick` stops
at a timer that has run out, so a fetch lasts at most `AttemptTimeout` and a
sleep its delay. The wait for a token and the read of a body have no timer in the
code, and none here: they last as long as they last, the cooling-off period and
longer included. `elapsed` counts up to `Horizon`, past which nothing tells
times apart.

`Accounts`. `rows`, `users`, `devices` and `sessions` are the tables; a row
names its owner, a device or a user, as exactly one of `deviceId` and `userId`
is set. `req[r]` is a suspended handler: `phase` is the database call it makes
next, `owner` the identity it was given, `items` and `films` what a claim has
read. An action is one call or one transaction: `AskToSave`, `UpsertDevice` and
`InsertRow` make up `POST /wishlist`; `Signup`, `CreateUser`, `ReadDeviceList`,
`ReadAccountList`, `Claim` and `OpenSession` a signup, and a login with
`Authenticate` in place of the first two. `OwnersOf` allows the device even
under a live session, as `loadUser` treats a failing query as anonymous. `Fail`
ends a handler anywhere and keeps what it wrote. A logout is `AskToLogout`, which
reads the session, `DestroySession` and `ClearCookie`. `wanted` and `logins` are
history, read by properties only.

`MovieService`. `pending`, `fetching` and `answer` are the variables of
`CacheContract`: who waits for which load, which loads run, what the cache says
in this step. A loader is itself a caller of the cache, for the genres; `step`
says how far it is. `loaded[k]` is what the last load of `k` returned, for as
long as any copy of it may be served, and `reply` what a browser was told and
until when `Cache-Control` lets it show that again. The tiers, the single
flight and the fallback are not repeated here: they are what `Cache` is shown
to implement.

`Catalog`. Pure operators named after the functions of the source. `served`
holds one answer together with what it was made from, so that the properties,
which are stated over the raw records and not over the operators, can compare
the two. Titles and names are numbers in their order and release dates the
numbers `yyyymmdd`, of which `ToYear` keeps the year; averages are in hundredths
and ratings in tenths, so the rounding is exact. `None` is a field that is
missing or that a tolerant schema takes for missing; `Misfit` one that passes the
`preprocess` of its schema and fails what follows: the id of a genre that is a
number and no integer, credits that are an array. `AnswerDetail` and
`RefuseDetail` are the two ends of the parse. What filters, sorts
or deduplicates an array is `Arranged`: the elements at some of its positions, in
an order of these given as a relation. It says what the array methods return
without the loop they run, and can be reasoned about without induction.

`Server`. `attempts[b]` is an entry of the LRU map of budget `b`, with the time
left of its window in place of `resetAt`; `request[r]` says what a handler
awaits and which budgets it will be charged to if it throws. `Evictions` lets a
new key push out any other, as the order of the LRU map is not kept.
`shutdown[s]` is how far the call of `shutdown` for signal `s` has come and
`forced[s]` what its timer has left; `stopping` measures the time since the
first signal, for the property.

`WishlistClient`. `cache[q]` is a query of React Query: its data, whether they
count as fresh, and its fetch, between the request, the moment the server reads
the rows and the moment the answer lands. `of` and `by` record whose list that
is, which the code does not know. `toggle[n]` is a mutation with the snapshot
it took. `me` is whom the cookies of the browser stand for, `session` whether
the server agrees: between the two a request may be served as the device's.

`BrowseClient`. `value` is the text in the field, `debounced` the copy its
effect is keyed on, `url` the address, `gridQuery` the text the grid asks for;
each timer is the time it has left. `GoTo` is a change of the URL with the
effects that follow it. `held` and `quiet` are history.

## Runs

Every run takes about two minutes or less with two workers.

| Run | Question | Instance |
|---|---|---|
| `cache_shared` | the safety of the cache when processes share the table | 2 processes, 1 browse key (ttl 1, revalidate 2, fallback 3), 2 requests, 3 loads, 2 upserts under way, clock to 5 |
| `cache_live` | waiting requests are answered; the cache implements its contract | 1 process, 2 keys with different policies, an LRU map for 1 entry, 2 requests, 2 loads, clock to 4 |
| `breaker` | calls of any length in any order | 3 calls, threshold 2, period 3 |
| `tmdb_requests` | requests, retries and the breaker together | 2 requests, 3 attempts, unit 3 s: timeout 2, budget 4, period 10 |
| `bucket` | the rate and the sleepers | 3 takers, 3 tokens, 3/4 of a token per unit of time, windows up to 9 |
| `movies` | what is served, of what age, and whether it is | 1 process, genres, 1 list, 1 film, 1 request, clock to 2; about 15 000 inputs of the mapping |
| `movies_not_found` | violation, see Divergences | as `movies` |
| `accounts` | lists, claims and sessions between database calls | 2 browsers, 1 account, 1 film, 3 rows, 2 sessions, 2 handlers at once |
| `accounts_claim` | violation | 1 browser, 2 accounts |
| `server` | budgets, lockouts and shutdowns | 2 requests at once, 2 emails, 1 address, budgets of 2 and 1, windows of 2, maps for 1 entry, 2 signals, forced after 2 |
| `web` | hearts and lists under toggles, fetches and changes of identity; the grid under keys, filters and links | 2 films, 2 changes in all; texts "", "a", "a " and "b", 2 sets of other filters, delay 2 |
| `web_rollback` | violation | as `web` |

Why the bounds are enough. Two processes are the least for data to come back
through the table; three loads let each process have one under way and a third
start; two upserts under way are the least for them to land out of order; the
clock passes every boundary of the browse policy (1, 3 and 4) and one step
more. The LRU map with room for one evicts on every second key. The breaker's
threshold is within reach of the calls at hand: two can open it while a third is
under way, and since calls may outlast the period in both runs, a call of before
the opening can settle in every later state. The bucket's refill does not
divide a token, so fractions carry over, and three takers let two sleepers race
while a third wakes. In `accounts` two handlers at once are the least for a race,
and two browsers and an account have three lists between them, each with room
for the one film: it can be on several at once, moved, found to be a duplicate
and saved again. A second account doubles the lists and is left to the proofs
and to `accounts_claim`. Symmetry is used in safety runs only.

`movies` needs one list and one film because their policies differ (a list has
`max-age`, a detail a fallback that outlasts its ttl) and both wait for the same
genres. Its inputs are six films chosen so that every comparison has a tie, a
missing field and a boundary (an average of 6.95 rounds to 7.0, two dates of one
year, no votes, an average of zero), in every order of any three, under every
combination of two genres, ratings and sorts; one page holds a film twice. Credits
lack an id, a name or an order, or are an array; genres lack an id or have one that
is no integer, with and without a name. `PageMax` is 3, with
pages below, at and beyond it.

In `server` two requests at once are the least for both to pass the check before
either is charged; the maps have room for one entry so that evictions happen,
and a window of two lets it end under a request. Two signals start two
shutdowns.

In `web` two changes in all are two toggles, or a toggle and a change of
identity, each overlapping any number of fetches, failures and visits to the
page. Larger instances were explored without a violation: one film with two
toggles and a change of identity together (4.5 million states), and two films
that may all be on the lists at the start (2.6 million). `Delay` 2 lets a timer
be restarted before, at and after its middle. The two halves of `MCWeb`, and
those of `MCMovies`, share no state, so a behaviour is one of one or the other.

Deadlock is checked in every run but `movies` and `web`, with their violations:
an answer of the mapping is the end of its behaviour, and a browser in which no
change is left to make may be at rest. The clock of `Cache` stops at `MaxTime`,
but sweeps and restarts stay possible.

### Fairness

- `Cache!FairSpec`: weak fairness of each load. A query settles, and a loader
  ends because `tmdbRequest` bounds attempts, delays and fetches. Two waits it does
  not bound: that for a token, which `WaitersDrain` says ends, and that for the
  body of a response, whose timer has been cleared. The fairness assumes that
  bodies arrive or fail.
- `CircuitBreaker!FairSpec`: time passes and calls settle; no fairness of the
  callers.
- `TmdbClient!FairSpec`, `TokenBucket!FairSpec`: `[]<><<Tick>>` says that time
  passes without end, however much happens at one instant: weak fairness of
  `Tick` would let requests that begin and end within an instant stop the
  clock. Requests in progress and sleepers that are due are scheduled; which
  taker wakes first is left open. A token and a body come in the end, with no bound
  on when.
- `MovieService!Fairness`: weak fairness of each fetch, for the reason given for
  the loads of `Cache`; none of requests, restarts or the clock.
- `Server!FairSpec`: weak fairness of the clock, which only a timer that is due
  disables, and of those timers. None of requests or the database: both may
  hang, and the properties hold all the same.

## Proofs

All assumptions are the named `ASSUME`s of the modules: sizes and times are
naturals, ttls and the periods of the breaker and the budgets are positive, a
bucket holds at least one token, `None` is outside every type it stands beside.
`CatalogAssumption` says what inputs the mapping is given: browse parameters as
the schema of the route leaves them, and payloads whose fields are each of their
type, missing, or one of the two misfits of `Misfit`: no other value gets past a
`preprocess` of the schemas and fails behind it. No bound on
the number of processes, keys, requests, loads, calls, takers, films or toggles,
nor on the length of pages and credits. Every strengthening below was first
checked by TLC as an invariant of the run of its module.

`CacheProofs`. `TypeCorrect` first. The safety properties are not inductive:
that a fresh answer is recent needs every copy in the system to carry the right
stamp, the ones captured in a suspended load and the upserts on their way
included (`AllStamped`), and single-flight needs the in-flight maps to register
exactly the loads under way (`InFlightIsExact`). With these `IInv` is
inductive, one step per action, and gives `SingleFlight`, `WaitersAreServed`,
`FreshIsRecent`, `StaleIsBounded`, `LoadOnlyWhenExpired` and
`StaleIsBeingReplaced`. `L1NeverGoesBackHolds` is the action property: a load
only ends by storing what is fresh, which is newer than the expired entry it
replaces, because nothing is loaded while L1 holds it fresh. `ImplementsContractSafely` is
the refinement: under the mapping of the module, each step is one of
`CacheContract` or a stutter, action by action. It needs the invariants in three
places: a process has one fetch of a key, so that a load that ends leaves none of
them under way (`OneFetchPerPair`); whoever waits, waits for a load under way
(`PendingIsUnderWay`); and each answer is young enough to be one of `Allowed`
(`AnswerIsAllowed`).

`CircuitBreakerProofs`. `GateInv` adds to `ClosedBelowThreshold` and
`ShutGateHasProbe` that a shut gate means half-open. `AgesInv` relates the age of
each call to the state: a call in flight when the breaker opens ages as the breaker
cools (`age[c] + cooling >= OpenDuration`), so that when the period ends all that is
left in flight is a period old, and the probe let through then is the one recent
call until the state changes again. It gives `HalfOpenMeetsOneRecentCall` and
`ProbesAreAPeriodApart` for calls of any length. That there is one probe only does
not follow, and is not so (see Divergences).

`TokenBucketProofs`. `RateIsLimited` from the conservation law
`tokens + granted * TokenCost <= Capacity + span * Refill`, which relies on no
taker being given a token that is not there. `SleepsOnlyAsNecessary` by one step
for each action: time that passes brings as much refill as it takes off a sleep,
and a taker that wins a race only lengthens what the others have to wait for.

`TmdbClientProofs`. `RequestsInv` ties a request's place in the loop to its call of
the breaker, and its sleep to the budget and to the attempts left. Every step is
then one that goes on or one that ends the request and settles the call
(`ProgressGoesOnOrEnds`), from which `NoAttemptStartsLate` follows, and
`DrivesBreakerSafely`: the requests take only steps that `CircuitBreaker` allows its
callers, the age of a call being the time the request has spent. So what
`CircuitBreakerProofs` shows of calls carries over without conditions:
`GateReopens`, and `RecoveringHostIsSpared` from `HalfOpenMeetsOneRecentCall`. No
bound on tokens or bodies is assumed.

`MoviesProofs`, of the service. A loader waits in the cache for another load, so
that everyone is served needs the waits to form no cycle: `WaitsEnd` says that
each is for a fetch under way and that the genres wait for nobody.
`BrowserShowsRecent` follows from `RepliesExpire`, which relates the age of what a
browser was sent to how long it may show it.

`MoviesProofs`, of the mapping. Filters and sorts are described by listings: for
each position of the result, the position of the array that it shows. A relation
that orders a finite set of positions puts each in a place of its own and leaves
no place empty (`PlacesFollow`, `PlacesAreTaken`, by cardinalities), so `Arranged`
lists every position once and in order (`ArrangedIs`); a stable sort is the case
of a weak order completed by the order of the array (`StableIs`); and a listing of
a listing lists the array itself (`ListingOfListing`). `SearchIsExact` then needs
that a film is kept as mapped exactly if it is wanted as sent (`KeptIsWanted`: the
rounding of averages, the genres that are not integers), that it is placed by what
its raw record says, and that the comparator is a weak order with what is unknown
last (`SortOrderIsWeak`). `DetailIsFaithful` puts together what is refused, the
cast, directors, trailer, genres and rating, one lemma for each.
`KeysSeparateQuestions` follows from sorting being a permutation: keys keep
exactly the set of genres, and answers depend on nothing else.

`AccountsProofs`. In three layers, each using the one before. `WellFormed` adds
to the types that a handler's owner fits what it does next. `Known` says that
sessions and the handlers about to insert name users and devices that have a
row, which gives `OwnerIsKnown`. `IInv` traces what a claim has read: ids are
not given twice, so a row read from a device's list is later gone, still on
that list, or on some account, and is still the same film. From it follow
`FilmsComeFromTheirOwner` and `ClaimSparesOtherDevices`, although claims act on
ids that were read long before. `CurrentClaimCommits` and `CurrentClaimMerges`
need no more: when the lists are as they were read, the ids to move and to
delete are determined by the lists (`CurrentIds`).

`ServerProofs`. `TypeCorrect` first. `ShutdownIsOrderly` is not inductive: that
a shutdown ends in time needs one timer that accounts for all the time since
the first signal, `forced[s] + stopping = ForceAfter`, and a process that is not
stopping to have none under way (`ShutdownInv`); the timers of later signals
say nothing. `GuessesAreCapped` is inductive given the types: a request that is
let in finds the count below the budget, so that all that can be under way fit,
and one that fails turns a request under way into a count of one, except in a
new window, where the count starts again.

`WebProofs`, of the browse page. `TimersInOrder` relates what is left of each
timer to `held` and `quiet`: while a text is on its way to the URL or to the grid
its timer runs, and it was started no later than the last event. It gives
`GridFollowsUrl` and, with how long the URL has held its text,
`OnlySettledTextsAreFetched`.

`WebProofs`, of the wishlist. `OwnListOnly` needs `AllIsOwn`: unless a toggle
outlived the last change of identity, all that could reach the screen (data,
answers on their way, snapshots) is of the present identity, which a request made
while the session is not yet settled makes delicate (`SessionFollows`).
`FreshIdsAreTheServers` needs `IdsAreCurrent`: once the last toggle has settled,
what counts as fresh was read by the server after that toggle was applied, as
settling cancels and invalidates what was read before.

Only model-checked, because fairness and `ENABLED` are beyond the prover:
`EveryRequestIsAnswered` of the cache and of the movie service,
`AlwaysAdmitsAgain`, `WaitersDrain` and `LockoutEnds`, and the liveness that
`ImplementsContract` and `DrivesBreaker` claim beyond what
`ImplementsContractSafely` and `DrivesBreakerSafely` prove. Every invariant and
every action property of the passing runs is a theorem.

## Divergences between the documentation and the code

Three have a run that ends in a counterexample.

- `accounts_claim`: two logins from one browser claim its list at once; the
  second moves or deletes, by id, the row the first has just moved, and the
  film leaves the account. `CurrentClaimMerges` is what holds: a claim nobody
  writes beside loses nothing.
- `movies_not_found`: that a film does not exist is cached under the policy of
  details, half a day and 7 more while TMDB fails, not under
  `CACHE_POLICY.notFound`, which nothing uses.
- `web_rollback`: a toggle that fails after its user has signed out or in writes
  its snapshot back, so that the previous owner's list is on screen until the
  next fetch lands. `OwnListOnly` is what holds: without a toggle under way the
  identity changes cleanly.

Seven more are stated at the end of their modules and are refuted by TLC when a
configuration names them:

- `Cache!ErrorMeansNothingUsable` (two processes, a detail key): a row of the
  table is preferred to the L1 copy as fallback even if only the L1 copy is
  still allowed, after an upsert failed or has not landed; the request fails
  with usable data in memory.
- `Cache!SweepSparesUsableRows` (a genres key): rows are swept 24 h after they
  expire, while genres and details may stand in for 7 days.
- `CircuitBreaker!CoolingOffIsKept` (3 calls, threshold 2, period 5): a call from
  before the opening that succeeds late closes the breaker before its period is
  over.
- `CircuitBreaker!SingleProbe` (the instance of `breaker`), and so
  `TmdbClient!SingleProbe` (that of `tmdb_requests`): "in half-open we allow exactly
  one probe" (`circuitBreaker.ts:72`). A call let through before the opening whose
  body stalls for longer than the period, as `client.ts:112-118` allows, may fail
  while the probe is in flight; that opens the breaker again with the gate
  released, and a period later a second probe joins the first. What holds is
  `ProbesAreAPeriodApart` and `RecoveringHostIsSpared`.
- `TmdbClient!OpensOnlyForAHostDown` (1 request, threshold 2): films that do not
  exist count as failures of the host and open the breaker.
- `Catalog!OnlyIdAndTitleAreRequired` (the instance of `movies`): "a missing
  OPTIONAL field degrades to null, never throws" (`schemas.ts:10`). Credits that
  are an array pass the `preprocess` of line 148 and fail line 149; a genre whose
  id is a number and no integer passes the filter of line 54 and fails line 58.
  Either costs the whole detail. `DetailIsFaithful` says that nothing else does but
  a missing id or title.
- `Catalog!DatesInOrder` (the instance of `movies`): a search sorted by release
  date, "Local equivalent of TMDB's sort_by" (`movieService.ts:180`) and "Newest
  first" (`web/src/types.ts:81`), compares years only (lines 206-209), so the films
  of one year stay in the order of relevance. `SearchIsExact` says what the order
  is; likewise films whose ratings round to the same tenth stay as they came.

Smaller ones, seen while modelling:

- Cache and client: genres leave L1 at their expiry, because the ttl of the LRU
  map equals theirs, against the comment at `cache/index.ts:63`;
  `TOTAL_BUDGET_MS` bounds when the last attempt begins and not how long a request
  lasts: that attempt waits for its token and reads its body without a limit; a
  full bucket and the refills of the same second add up to twice the configured
  rate (`RateIsLimited` is the tight bound).
- Movies: a genre with an id that is not an integer fails the list of genres as it
  does a detail, so that no list has genre names; a detail that cannot be parsed
  is answered as a mistake of the browser's, 400 (`errors.ts:78-80` takes any
  `ZodError` for one), not with 502.
- Accounts and server: a failing session query makes `POST /wishlist` of a
  signed-in user save to the device's list; a signup that fails after
  `user.create` leaves an account, so trying again answers 409 and logging in
  finishes the work; the snapshot of a saved film is not refreshed when its
  detail page is opened (`schema.prisma:86`), only when it is saved again; a
  failure of the database counts against the budget of whoever logs in; a key that
  a full map evicts starts a new count, so that more failures than its budget fit in
  its window (`GuessesAreCapped` is said of an entry while it is kept); a
  success resets the budget of its email while other attempts are under way;
  background refreshes and sweeps are not waited for by a shutdown.
- Wishlist in the browser: a list fetched while its page is closed and a toggle
  runs counts as fresh without that toggle, so the two views disagree until the
  next refetch (`wishlist/api.ts:39-41` says they do not); a toggle before the
  ids are known has nothing to be rolled back to; while toggles overlap, the
  rollback or refetch of one hides the optimistic value of another, until both
  have settled (`FreshIdsAreTheServers`); a quick removal after a save may be
  served first.
- Search in the browser: the URL does not change on every keystroke
  (`BrowsePage.tsx:15`), it follows the field by 350 ms and the grid follows it
  by another 350; clearing the filters and retyping the same text within 350 ms
  leaves the field and the URL with different texts (`Header.tsx:24`); opening a
  film within 350 ms of typing is undone by the search; a trailing space is
  removed from the field when its user pauses. On the page, a search page whose
  films are all filtered out shows the empty state although there are more
  pages, and an error of a later page replaces the grid.

## Not modelled

- The metrics and `invalidate()` of the cache (no caller), `reset()` and
  `onStateChange` of the breaker, `available()` of the bucket, the batch lookup
  of summaries (no caller): tests and logs.
- The display snapshots and order of the wishlist.
- The pages loaded under a query of the browse page, the polling while old data
  are shown, and the intersection observer that asks for the next page: React
  Query keeps them consistent by its keys.
- The change of password in the browser, and `useCurrentUser`.
- Password hashing, error formatting, cookie flags, image URLs, logging,
  environment parsing, the serverless entry points and the React pages: pure
  functions, wiring or rendering.
- The floating-point arithmetic of the bucket: credits are exact here. The sort
  of titles by locale: titles are numbers in the order it gives them.

## Plan

1. Positive counterparts of the statements that are refuted under Divergences:
   under which policies an error does mean that nothing usable is left, and how
   long a row is spared by the sweep for certain.
2. That `MovieService` built on `Cache` instead of `CacheContract` behaves the
   same, as a theorem that uses `ImplementsContractSafely` and not as a reading of
   the two modules.
3. The pages loaded under a query of the grid, in `BrowseClient`.
