SPECIFICATION MCSpec
CONSTANTS
  None = None
  Misfit = Misfit
  i1 = i1
  genres = genres
  list = list
  film = film
  r1 = r1
  Instances = {i1}
  Genres = genres
  Lists = {list}
  Details = {film}
  Requests = {r1}
  Ttl <- TtlOf
  StaleFor <- StaleForOf
  MaxAge <- MaxAgeOf
  Swr = 1
  NotFoundFor = 1
  MaxTime = 2
  Lower <- LowerOf
  PageMax = 3
  TopBilled = 2
  MinVotes = 300
  Queries <- QueriesOf
  RawPages <- RawPagesOf
  RawDetails <- RawDetailsOf
  NameMaps <- NameMapsOf
INVARIANTS
  SearchIsExact
  KeysSeparateQuestions
  DetailIsFaithful
  BrowserShowsRecent
PROPERTY
  EveryRequestIsAnswered
CHECK_DEADLOCK FALSE
