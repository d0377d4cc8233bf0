SPECIFICATION ChatSpec
CONSTANTS
  viewer = viewer
  owner = owner
  Viewers = {viewer, owner}
  Broadcasters = {owner}
  Requests = {c1, c2}
  Preset = {TRUE}
  c1 = c1
  c2 = c2
  Gap = 2
  GiftFloor = 1
  GuessCooldown = 3
  ReportCooldown = 2
  Scenarios <- Everything
  MaxTime = 3
  a = a
  b = b
  bang = bang
  inv = inv
  one = one
  ghost = ghost
  space = space
  guess = guess
  list = list
  jump = jump
  quit = quit
  Letters = {a, b}
  Space = space
  Bang = bang
  Inverted = inv
  One = one
  Ghost <- GhostWord
  Commands = {guess, list, jump, quit}
  GuessCmd = guess
  CommandsCmd = list
  NoCommand = none
  Tables <- SomeTables
  StateNames <- TwoStates
  BareWords <- Bares
  Featured <- Listed
  Lines <- Spoken
  Typed <- TypedWords
  Slugs <- Pieces
  NoClip = noClip
  NoSuchId = noId
  NoFix = noFix
  NoState = noState
  noClip = noClip
  noId = noId
  noFix = noFix
  noState = noState
  utah = utah
  nevada = nevada
  States = {utah, nevada}
  Films <- SomeFilms
  Pipeline <- Ingested
  Frames <- SomeFrames
  Live = {"s1"}
  ScanLimit = 2
  Pool = 3
  TopN = 2
  Bucket = 3
  Ceiling = 3
  Sunrise = 7
  Sunset = 19
  HoursADay = 24
  Shelves <- SomeShelves
  ReIngests = 2
INVARIANTS
  OneOutcome
  LinesAreUnderstood
  PicksAreRight
  PagesFollowTheFilm
PROPERTIES
  PlaybackIsRationed
  ReadsInOrder
