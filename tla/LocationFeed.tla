---------------------------- MODULE LocationFeed ----------------------------
(* Where the clip on showing was filmed, and in what weather: tripbot describes  *)
(* the clip every minute, asking two services as seldom as it can, and sends    *)
(* the description to onscreens-server, whose corners fill their $variables     *)
(* from it for as long as it is recent.  State, date and sunset are the clip's  *)
(* own; an answer of a service is named here by the clip it was asked about.    *)
EXTENDS Integers

CONSTANTS
  Scenes,         \* the clips
  Day, Region, Cell, Hour,   \* of each: its local date, state, 0.05-degree cell, hour
  Named,          \* those whose row has a city
  Undescribed,    \* flagged, without a fix, or without a date
  Emitters,       \* overlapping ticks of the LocationFeed job
  NoScene,
  Throttle,       \* lookupThrottle
  TTL,            \* locationDataTTL
  Swap,           \* cornerRotatorFreq
  LastMinute, Moves, Mishaps   \* bounds: the clock, the film, and lost messages,
                               \* drops and restarts

Services == {"city", "weather"}

ASSUME LocationConstants ==
  /\ NoScene \notin Scenes /\ Undescribed \subseteq Scenes /\ Named \subseteq Scenes
  /\ {Throttle, TTL, Swap, LastMinute, Moves, Mishaps} \subseteq Nat /\ Swap > 0

VARIABLES
  showing,         \* Player.Current()
  emit,           \* what each tick is doing
  memo,           \* the Emitter: the clip last described, and what it remembers
  connected, held,   \* tripbot's connection, and the last message waiting for it
  vars,           \* liveLocation
  corner, picked, \* what a corner's line says of the footage, and since when
  minute, moves, mishaps,
  asked, excused, hurried   \* history: when each service was last asked, whether a
                            \* state line was crossed since, and who was asked too soon

feedVars == <<showing, emit, memo, connected, held, vars, corner, picked,
              minute, moves, mishaps, asked, excused, hurried>>

Never == -1
AtRest == [step |-> "idle"]
Forgetful == [last |-> NoScene, answer |-> [s \in Services |-> NoScene],
              at |-> [s \in Services |-> Never]]
Said == [scene : Scenes, place : Scenes, weather : Scenes \cup {NoScene},
         heard : Nat \cup {Never}]
Silent == [scene |-> NoScene]

FeedInit ==
  /\ showing \in Scenes /\ emit = [e \in Emitters |-> AtRest] /\ memo = Forgetful
  /\ connected = FALSE /\ held = Silent /\ vars = Silent
  /\ corner = Silent /\ picked = 0 /\ minute = 0 /\ moves = 0 /\ mishaps = 0
  /\ asked = [s \in Services |-> Never] /\ excused = {} /\ hurried = {}

Happens == mishaps < Mishaps /\ mishaps' = mishaps + 1
Wire == <<connected, held, vars>>
Ledger == <<asked, excused, hurried>>

-----------------------------------------------------------------------------
(* Emit. *)

StartEmit(e) ==
  /\ emit[e] = AtRest /\ showing \notin Undescribed
  /\ emit' = [emit EXCEPT ![e] = [step |-> "lock", scene |-> showing]]
  /\ UNCHANGED <<showing, memo, Wire, corner, picked, minute, moves, mishaps, Ledger>>

SameDay(m, c) == m.last # NoScene /\ Day[m.last] = Day[c]
SameState(m, c) == m.last # NoScene /\ Region[m.last] = Region[c]
Crossed(m, c) == SameDay(m, c) /\ ~SameState(m, c)

\* Mutant: only another day is a jump.
OnlyAnotherDay(m, c) ==
  IF SameDay(m, c) THEN m ELSE [last |-> c, answer |-> Forgetful.answer, at |-> m.at]

\* A jump forgets the answers; only a state line crossed within the day lets the
\* services be asked again at once.
InvalidateOnJump(m, c) ==
  IF SameDay(m, c) /\ SameState(m, c) THEN m
  ELSE [last |-> c, answer |-> Forgetful.answer,
        at |-> IF SameDay(m, c) THEN Forgetful.at ELSE m.at]

Due(at) == at = Never \/ minute - at > Throttle
CityStale(m, c) == m.answer["city"] = NoScene \/ Cell[m.answer["city"]] # Cell[c]
WeatherStale(m, c) ==
  LET known == m.answer["weather"]
  IN  known = NoScene \/ Cell[known] # Cell[c] \/ Hour[known] # Hour[c]
Asks(m, c) ==
  {s \in Services : /\ Due(m.at[s])
                    /\ \/ s = "city" /\ c \notin Named /\ CityStale(m, c)
                       \/ s = "weather" /\ WeatherStale(m, c)}

\* City and Historical: the answer is about the clip asked for, or there is none.
City(c) == {c, NoScene}
Historical(c) == {c, NoScene}

\* A service that fails or knows nothing leaves what was remembered.
Remember(m, s, got) == IF got = NoScene THEN m.answer[s] ELSE got

Place(m, c) == IF c \in Named \/ m.answer["city"] = NoScene THEN c ELSE m.answer["city"]
ConditionsFor(m) == m.answer["weather"]

\* Under the Emitter's mutex.
Describe(e) ==
  LET c == emit[e].scene
      m == InvalidateOnJump(memo, c)
      asking == Asks(m, c)
      free == IF Crossed(memo, c) THEN Services ELSE excused
  IN  /\ emit[e].step = "lock"
      /\ \E city \in City(c), weather \in Historical(c) :
           LET got == [s \in Services |-> IF s \notin asking THEN NoScene
                                         ELSE IF s = "city" THEN city ELSE weather]
               after == [last |-> m.last,
                         answer |-> [s \in Services |-> Remember(m, s, got[s])],
                         at |-> [s \in Services |-> IF s \in asking THEN minute ELSE m.at[s]]]
           IN  /\ memo' = after
               /\ emit' = [emit EXCEPT ![e] = [step |-> "publish",
                    said |-> [scene |-> c, place |-> Place(after, c),
                              weather |-> ConditionsFor(after), heard |-> Never]]]
      /\ asked' = [s \in Services |-> IF s \in asking THEN minute ELSE asked[s]]
      /\ excused' = free \ asking
      /\ hurried' = hurried \cup {s \in asking \ free : ~Due(asked[s])}
      /\ UNCHANGED <<showing, Wire, corner, picked, minute, moves, mishaps>>

\* The time is that of the arrival.
Heard(said) == [said EXCEPT !.heard = minute]

\* UpdateLocation is out of the mutex.  A message with nobody at the other end is
\* lost; one published while tripbot is cut off waits in its client.
Publish(e) ==
  /\ emit[e].step = "publish" /\ emit' = [emit EXCEPT ![e] = AtRest]
  /\ \/ connected /\ vars' = Heard(emit[e].said) /\ UNCHANGED <<held, mishaps>>
     \/ connected /\ Happens /\ UNCHANGED <<held, vars>>
     \/ ~connected /\ held' = emit[e].said /\ UNCHANGED <<vars, mishaps>>
  /\ UNCHANGED <<showing, memo, connected, corner, picked, minute, moves, Ledger>>

Disconnects ==
  /\ connected /\ Happens /\ connected' = FALSE
  /\ UNCHANGED <<showing, emit, memo, held, vars, corner, picked, minute, moves, Ledger>>

Reconnects ==
  /\ ~connected /\ connected' = TRUE /\ held' = Silent
  /\ vars' = IF held = Silent THEN vars ELSE Heard(held)
  /\ UNCHANGED <<showing, emit, memo, corner, picked, minute, moves, mishaps, Ledger>>

FeedRestarts ==
  /\ Happens /\ emit' = [e \in Emitters |-> AtRest] /\ memo' = Forgetful /\ held' = Silent
  /\ asked' = [s \in Services |-> Never] /\ excused' = {}
  /\ UNCHANGED <<showing, connected, vars, corner, picked, minute, moves, hurried>>

-----------------------------------------------------------------------------
(* onscreens-server. *)

OverlayRestarts ==
  /\ Happens /\ vars' = Silent /\ corner' = Silent /\ picked' = minute
  /\ UNCHANGED <<showing, emit, memo, connected, held, minute, moves, Ledger>>

Snapshot == IF vars # Silent /\ minute - vars.heard > TTL THEN Silent ELSE vars

\* A corner's next line, with $variables or without.
NextLine ==
  /\ corner' \in {Snapshot, Silent} /\ picked' = minute
  /\ UNCHANGED <<showing, emit, memo, Wire, minute, moves, mishaps, Ledger>>

-----------------------------------------------------------------------------
FilmMoves ==
  /\ moves < Moves /\ moves' = moves + 1
  /\ showing' \in Scenes \ {showing}
  /\ UNCHANGED <<emit, memo, Wire, corner, picked, minute, mishaps, Ledger>>

\* A corner's line changes every Swap.
MinutePasses ==
  /\ minute < LastMinute /\ minute - picked < Swap /\ minute' = minute + 1
  /\ UNCHANGED <<showing, emit, memo, Wire, corner, picked, moves, mishaps, Ledger>>

FeedNext ==
  \/ \E e \in Emitters : StartEmit(e) \/ Describe(e) \/ Publish(e)
  \/ Disconnects \/ Reconnects \/ FeedRestarts \/ OverlayRestarts
  \/ NextLine \/ FilmMoves \/ MinutePasses

FeedSpec == FeedInit /\ [][FeedNext]_feedVars
-----------------------------------------------------------------------------
(* Properties. *)

(* Every variable has its type. *)
FeedTypeOK ==
  /\ showing \in Scenes /\ connected \in BOOLEAN
  /\ memo \in [last : Scenes \cup {NoScene}, answer : [Services -> Scenes \cup {NoScene}],
               at : [Services -> Nat \cup {Never}]]
  /\ emit \in [Emitters -> {AtRest} \cup [step : {"lock"}, scene : Scenes]
                                    \cup [step : {"publish"}, said : Said]]
  /\ {held, vars, corner} \subseteq Said \cup {Silent}
  /\ picked \in Nat /\ minute \in 0 .. LastMinute
  /\ moves \in 0 .. Moves /\ mishaps \in 0 .. Mishaps
  /\ asked \in [Services -> Nat \cup {Never}] /\ {excused, hurried} \subseteq SUBSET Services

\* What is said of a clip is true of its day and its state, wherever the answers
\* came from and whatever was on screen in between (invalidateOnJump: it "beats
\* captioning Utah footage with Wyoming's conditions").
Fits(said) ==
  /\ Day[said.place] = Day[said.scene] /\ Region[said.place] = Region[said.scene]
  /\ said.weather # NoScene =>
       Day[said.weather] = Day[said.scene] /\ Region[said.weather] = Region[said.scene]
Sent == {emit[e].said : e \in {f \in Emitters : emit[f].step = "publish"}}
CaptionFits == \A said \in (Sent \cup {held, vars, corner}) \ {Silent} : Fits(said)

\* A corner says nothing of the film once the last it heard is old and the line
\* has had its time: the tripbot that fell silent may be gone, the film with it
\* (live-data.go, locationDataTTL).
CaptionIsRecent == corner # Silent => minute <= corner.heard + TTL + Swap

\* In one process a service is asked again within the throttle only if the film
\* has crossed a state line since, in one day: viewers jumping about never cause
\* a burst.
LookupsAreRationed == hurried = {}

\* All three, of every description tripbot sends and the corners show.
CaptionsAreTrue == CaptionFits /\ CaptionIsRecent /\ LookupsAreRationed
=============================================================================
