------------------------------ MODULE Library ------------------------------
(* The table of clips as the bot reads it: where a flagged clip's road goes   *)
(* on, which clip a jump picks, and the pages of the console that follow the  *)
(* film while the pipeline re-ingests it.  The pipeline is external; it is    *)
(* modelled by the rows it writes.  Ids stand for slugs.                      *)
EXTENDS Integers, FiniteSets, FiniteSetsExt

CONSTANTS
  Slugs,        \* records of original (in film order), offset, and the shape of the name
  NoClip, NoSuchId,   \* NULL in next_vid, and an id nobody has
  NoFix, NoState,
  States,
  Films,        \* functions from slugs to rows: what the table may hold at first
  Pipeline,     \* a row for every slug: what the pipeline ingests it as
  Frames,       \* embedded frames: records of clip, sec, distance, model
  Live,         \* the corpora playout airs
  ScanLimit, Pool, TopN, Bucket, Ceiling,   \* nextDaytimeScanLimit and find.go's tunables
  Sunrise, Sunset, HoursADay,
  Shelves,      \* bound: sets of slugs, with and without rows, of the pages' cast
  ReIngests     \* bound: what the pipeline and the reviewer do meanwhile

\* Footage is within a day's zones of itself; a clip goes on to a clip, to an
\* id nobody has, or to none.
RowOK(row) ==
  /\ row.filmed \in Nat /\ row.zone \in 0 .. HoursADay - 1
  /\ row.next \in Slugs \cup {NoClip, NoSuchId}

\* The pieces of one recording bear its name, and with it its day.
ASSUME LibraryConstants ==
  /\ NoClip \notin Slugs /\ NoSuchId \notin Slugs /\ NoState \notin States
  /\ {ScanLimit, Pool, TopN, Bucket} \subseteq Nat \ {0}
  /\ {Ceiling, Sunrise, Sunset, HoursADay, ReIngests} \subseteq Nat
  /\ Sunrise < Sunset /\ Sunset < HoursADay
  /\ IsFiniteSet(Slugs) /\ \A s \in Slugs : s.original \in Nat \ {0}
  /\ \A s, t \in Slugs :
       s.shape = "s2" /\ t.shape = "s2" /\ s.original = t.original => s.day = t.day
  /\ IsFiniteSet(Frames) /\ \A f \in Frames : f.distance \in Nat
  /\ \A film \in Films : DOMAIN film \subseteq Slugs /\ \A c \in DOMAIN film : RowOK(film[c])
  /\ \A shelf \in Shelves : shelf \subseteq Slugs
  /\ \A s \in Slugs : RowOK(Pipeline[s])

VARIABLES
  videos,    \* the table, by slug
  cuts,      \* video_cuts: slug |-> [proposal, ruling]
  asked,     \* the one request looked at
  changes    \* what the pipeline and the reviewer have done

libraryVars == <<videos, cuts, asked, changes>>

Nothing == [kind |-> "none"]

LibraryInit ==
  /\ \/ videos \in Films /\ cuts = [s \in {} |-> Nothing] /\ changes = ReIngests
     \/ \E shelf \in Shelves :
          /\ videos = [s \in shelf |-> Pipeline[s]]
          /\ cuts = [s \in Slugs \ shelf |-> [proposal |-> "drop", ruling |-> "none"]]
          /\ changes = 0
  /\ asked = Nothing

-----------------------------------------------------------------------------
(* Where a flagged clip's road goes on                                         *)

Flagged(c) == videos[c].flagged
HasRow(c) == c \in DOMAIN videos

\* The slip in which the walk goes on past the clip it was looking for.
WalkOn(path, c) == HasRow(c) /\ c \notin path.seen
\* The rows of the recursive query: it follows next_vid from flagged clips, and
\* stops at what it has seen.
Follows(path, c) == HasRow(c) /\ Flagged(path.deepest) /\ c \notin path.seen

Walk(start) ==
  LET walk[n \in 0 .. Cardinality(DOMAIN videos)] ==
        IF n = 0 THEN [deepest |-> start, seen |-> {start}]
        ELSE LET path == walk[n - 1]
                 after == videos[path.deepest].next
             IN IF Follows(path, after)
                THEN [deepest |-> after, seen |-> path.seen \cup {after}] ELSE path
  IN walk[Cardinality(DOMAIN videos)]

\* Video.NextUnflagged: the clip, or why there is none.
NextUnflagged(c) ==
  LET start == videos[c].next
      deepest == Walk(start).deepest
  IN CASE ~HasRow(start) -> [clip |-> NoClip, why |-> "broken"]
       [] HasRow(start) /\ ~Flagged(deepest) -> [clip |-> deepest, why |-> "found"]
       [] OTHER -> [clip |-> NoClip,
                    why |-> IF HasRow(videos[deepest].next) THEN "loop" ELSE "broken"]

Located(c) == IF Flagged(c) THEN NextUnflagged(c) ELSE [clip |-> c, why |-> "found"]

\* App.currentSpot and App.state: the moment's state, the geocoder's answer for
\* a moment that has none, and the clip's when there is no better.
Reveal(c, moment, geocoder) ==
  LET there == Located(c) IN
  IF there.clip = NoClip THEN NoState
  ELSE IF moment.tracked /\ ~Flagged(c)
       THEN IF moment.state # NoState THEN moment.state
            ELSE IF geocoder # NoState THEN geocoder ELSE videos[c].state
       ELSE videos[there.clip].state

WhereAreWe(c) ==
  /\ asked = Nothing
  /\ \E moment \in [tracked : BOOLEAN, state : States \cup {NoState}],
        geocoder \in States \cup {NoState} :
       asked' = [kind |-> "where", screen |-> c, spot |-> Located(c),
                 state |-> Reveal(c, moment, geocoder)]
  /\ UNCHANGED <<videos, cuts, changes>>

\* Video.FilmedAt and App.replyFilmedAt: the clock on screen, told once a clip
\* with a fix says in which zone it is read.
FilmedAt(c, elapsed) == videos[c].filmed + elapsed * videos[c].speed
WhenWasThis(c) ==
  /\ asked = Nothing
  /\ \E elapsed \in 0 .. 1 :
       asked' = [kind |-> "when", screen |-> c, spot |-> Located(c), elapsed |-> elapsed,
                 told |-> IF Located(c).clip = NoClip THEN 0 ELSE FilmedAt(c, elapsed)]
  /\ UNCHANGED <<videos, cuts, changes>>

-----------------------------------------------------------------------------
(* Which clip a jump picks                                                     *)

Aired(c) == videos[c].corpus \in Live

DayOf(filmed) == filmed \div HoursADay
HourOf(filmed) == filmed % HoursADay
IsDaytime(c) == HourOf(videos[c].filmed) \in Sunrise + 1 .. Sunset - 1
\* Midnight there, as an instant: zones count their hours from UTC's, westward.
LocalDate(c) == DayOf(videos[c].filmed) * HoursADay + videos[c].zone
\* A clip without a fix is in no zone.
AfterDay(c) ==
  IF videos[c].spot = NoFix THEN DayOf(videos[c].filmed) * HoursADay ELSE LocalDate(c)

\* The slip in which a later day begins a day's length on.
ADayOn(c, after) == videos[c].filmed >= videos[after].filmed + HoursADay
OnALaterDay(c, after) == LocalDate(c) > AfterDay(after)

Upcoming(after) ==
  {c \in DOMAIN videos : Aired(c) /\ ~Flagged(c) /\ videos[c].spot # NoFix
                           /\ videos[c].filmed > videos[after].filmed}
\* The first few of them in film order; clips of one second in any order.
Scanned(after) ==
  {s \in SUBSET Upcoming(after) :
     /\ Cardinality(s) = Min({ScanLimit, Cardinality(Upcoming(after))})
     /\ \A c \in s, d \in Upcoming(after) \ s : videos[c].filmed <= videos[d].filmed}

FindNextDaytime(after) ==
  UNION {LET mornings == {c \in s : OnALaterDay(c, after) /\ IsDaytime(c)} IN
         IF mornings = {} THEN {NoClip}
         ELSE {c \in mornings : \A d \in mornings : videos[c].filmed <= videos[d].filmed} :
         s \in Scanned(after)}

DaytimeCmd(c) ==
  /\ asked = Nothing
  /\ \E pick \in FindNextDaytime(c) :
       asked' = [kind |-> "daytime", screen |-> c, pick |-> pick]
  /\ UNCHANGED <<videos, cuts, changes>>

FindRandomByState(state) == {c \in DOMAIN videos : videos[c].state = state /\ Aired(c)}

JumpTo(state) ==
  /\ asked = Nothing
  /\ \/ \E c \in FindRandomByState(state) : asked' = [kind |-> "jump", pick |-> c, of |-> state]
     \/ /\ FindRandomByState(state) = {}
        /\ asked' = [kind |-> "jump", pick |-> NoClip, of |-> state]
  /\ UNCHANGED <<videos, cuts, changes>>

\* The nearest k of a set of frames, frames as near in any order.
NearestOf(frames, k) ==
  {s \in kSubset(Min({k, Cardinality(frames)}), frames) :
     \A f \in s, g \in frames \ s : f.distance <= g.distance}

Wanted(f, query) ==
  /\ f.clip \in DOMAIN videos /\ f.model = query.model
  /\ query.states # {} => videos[f.clip].state \in query.states

\* The slip in which the corpora are looked at after the limit.
FilteredLate(query) ==
  {{f \in s : Aired(f.clip)} : s \in NearestOf({f \in Frames : Wanted(f, query)}, Pool)}
SearchFrames(query) == NearestOf({f \in Frames : Wanted(f, query) /\ Aired(f.clip)}, Pool)

Moment(f) == <<f.clip, f.sec \div Bucket>>
Moments(frames) == {Moment(f) : f \in frames}
\* The nearest frame of each of the nearest few moments in reach.
Tours(hits) ==
  LET near == {f \in hits : f.distance <= Ceiling}
      leads == {f \in near : \A g \in near : Moment(g) = Moment(f) => g.distance >= f.distance}
  IN {s \in kSubset(Min({TopN, Cardinality(Moments(near))}), leads) :
        /\ Cardinality(Moments(s)) = Cardinality(s)
        /\ \A f \in s, g \in leads : Moment(g) \notin Moments(s) => f.distance <= g.distance}

\* App.findHit; no answer where the responder is down.
FindCmd(query) ==
  /\ asked = Nothing
  /\ \E hits \in SearchFrames(query) : \E tour \in Tours(hits) :
       \/ \E f \in tour : asked' = [kind |-> "find", query |-> query, hit |-> {f}, tour |-> tour]
       \/ tour = {} /\ asked' = [kind |-> "find", query |-> query, hit |-> {}, tour |-> {}]
  /\ UNCHANGED <<videos, cuts, changes>>
SearchUnavailable ==
  /\ asked = Nothing
  /\ asked' = [kind |-> "unavailable"]
  /\ UNCHANGED <<videos, cuts, changes>>

-----------------------------------------------------------------------------
(* The pages that follow the film                                              *)

Originals == {s.original : s \in {t \in DOMAIN videos : t.shape = "s2"}}
PiecesOf(original) == {s \in DOMAIN videos : s.shape = "s2" /\ s.original = original}

\* The slip in which the first original before is taken for the nearest.
FurthestSource(original, after) ==
  LET there == {o \in Originals : IF after THEN o > original ELSE o < original} IN
  IF there = {} THEN 0 ELSE Min(there)
\* The nearest ingested original on one side; 0 at either end of the film.
NeighborSource(original, after) ==
  LET there == {o \in Originals : IF after THEN o > original ELSE o < original} IN
  IF there = {} THEN 0 ELSE IF after THEN Min(there) ELSE Max(there)

\* The page is read in four queries, and the film may change between them.
OpenSource(original) ==
  /\ asked = Nothing
  /\ asked' = [kind |-> "source", of |-> original, step |-> "cuts", clips |-> PiecesOf(original),
               prev |-> 0, next |-> 0, there |-> Originals]
  /\ UNCHANGED <<videos, cuts, changes>>
ReadCuts ==
  /\ asked.kind = "source" /\ asked.step = "cuts"
  /\ LET found == {s \in DOMAIN cuts : s.shape = "s2" /\ s.original = asked.of} IN
     asked' = [asked EXCEPT !.step = IF asked.clips = {} /\ found = {} THEN "not_found" ELSE "prev"]
  /\ UNCHANGED <<videos, cuts, changes>>
ReadPrev ==
  /\ asked.kind = "source" /\ asked.step = "prev"
  /\ asked' = [asked EXCEPT !.step = "next", !.prev = NeighborSource(asked.of, FALSE)]
  /\ UNCHANGED <<videos, cuts, changes>>
ReadNext ==
  /\ asked.kind = "source" /\ asked.step = "next"
  /\ asked' = [asked EXCEPT !.step = "done", !.next = NeighborSource(asked.of, TRUE)]
  /\ UNCHANGED <<videos, cuts, changes>>

\* The slip in which a piece is on the day its own first frame is dated.
DayOfFirstFrame(s) == IF s.shape = "other" THEN 0 ELSE DayOf(videos[s].filmed)
\* The day in the file's name; 0 for a name of neither season.
FootageDay(s) == IF s.shape = "other" THEN 0 ELSE s.day

FootageDays ==
  [d \in {FootageDay(s) : s \in DOMAIN videos} \ {0} |->
     Cardinality({s \in DOMAIN videos : FootageDay(s) = d})]
OpenCalendar ==
  /\ asked = Nothing
  /\ asked' = [kind |-> "calendar", days |-> FootageDays, at |-> changes]
  /\ UNCHANGED <<videos, cuts, changes>>
OpenDay(d) ==
  /\ asked.kind = "calendar"
  /\ asked' = [kind |-> "day", of |-> d, counted |-> asked.days[d], fresh |-> asked.at = changes,
               clips |-> {s \in DOMAIN videos : FootageDay(s) = d}]
  /\ UNCHANGED <<videos, cuts, changes>>

\* Bound: the film changes while a page is read.
Meanwhile == changes < ReIngests /\ asked.kind \in {"source", "calendar"}

\* The console's two queues of cuts: proposed and unruled, and dropped whole.
Proposals == {s \in DOMAIN cuts : cuts[s].ruling = "none" /\ cuts[s].proposal \in {"trim", "drop"}}
Dropped == {s \in DOMAIN cuts : "drop" \in {cuts[s].proposal, cuts[s].ruling}}

Rule(s, verdict) ==
  /\ s \in Proposals \cup Dropped /\ Meanwhile
  /\ cuts' = [cuts EXCEPT ![s].ruling = verdict]
  /\ changes' = changes + 1
  /\ UNCHANGED <<videos, asked>>

\* The pipeline ingests what was kept, and withdraws what is to be cut again.
Kept(s) == cuts[s].ruling = "keep" \/ (cuts[s].ruling = "none" /\ cuts[s].proposal # "drop")
Ingest(s) ==
  /\ s \in DOMAIN cuts \ DOMAIN videos /\ Kept(s) /\ Meanwhile
  /\ videos' = [t \in DOMAIN videos \cup {s} |-> IF t = s THEN Pipeline[s] ELSE videos[t]]
  /\ changes' = changes + 1
  /\ UNCHANGED <<cuts, asked>>
Withdraw(s) ==
  /\ s \in DOMAIN videos /\ s.shape = "s2" /\ Meanwhile
  /\ videos' = [t \in DOMAIN videos \ {s} |-> videos[t]]
  /\ asked' = IF asked.kind = "source" /\ PiecesOf(s.original) = {s}
              THEN [asked EXCEPT !.there = @ \ {s.original}] ELSE asked
  /\ changes' = changes + 1
  /\ UNCHANGED cuts

Answered ==
  /\ asked # Nothing
  /\ asked.kind = "source" => asked.step \in {"done", "not_found"}
  /\ asked' = Nothing
  /\ UNCHANGED <<videos, cuts, changes>>

LibraryNext ==
  \/ \E c \in DOMAIN videos : WhereAreWe(c) \/ WhenWasThis(c) \/ DaytimeCmd(c)
  \/ \E state \in States : JumpTo(state)
  \/ \E query \in [model : {f.model : f \in Frames}, states : SUBSET States] : FindCmd(query)
  \/ SearchUnavailable \/ ReadCuts \/ ReadPrev \/ ReadNext \/ OpenCalendar \/ Answered
  \/ \E original \in {s.original : s \in Slugs} : OpenSource(original)
  \/ asked.kind = "calendar" /\ \E d \in DOMAIN asked.days : OpenDay(d)
  \/ \E s \in DOMAIN cuts, verdict \in {"keep", "trim", "drop"} : Rule(s, verdict)
  \/ \E s \in DOMAIN cuts : Ingest(s)
  \/ \E s \in DOMAIN videos : Withdraw(s)

LibrarySpec == LibraryInit /\ [][LibraryNext]_libraryVars

-----------------------------------------------------------------------------
(* What should hold                                                            *)

LibraryTypeOK ==
  /\ DOMAIN videos \subseteq Slugs /\ DOMAIN cuts \subseteq Slugs /\ changes \in 0 .. ReIngests
  /\ \A c \in DOMAIN videos : RowOK(videos[c])

\* The clips the road goes on to, one after another.
Ahead(c) ==
  LET ahead[k \in 0 .. Cardinality(DOMAIN videos)] ==
        IF k = 0 THEN videos[c].next
        ELSE IF HasRow(ahead[k - 1]) THEN videos[ahead[k - 1]].next ELSE NoClip
  IN ahead

\* A flagged clip is answered for by the first clip ahead of it that has a fix,
\* whatever the chain is like, and not answered only if there is none, saying
\* whether the chain broke or came round; an unflagged clip answers for itself,
\* and a clip with a state never leaves !guess without one (NextUnflagged's
\* recursive query, currentSpot, state, replyFilmedAt).
SpotIsAhead ==
  asked.kind \in {"where", "when"} =>
    LET c == asked.screen
        road == Ahead(c)
        good == {k \in DOMAIN road : HasRow(road[k]) /\ ~Flagged(road[k])}
        broken == \E k \in DOMAIN road : ~HasRow(road[k])
    IN /\ asked.spot.clip = IF ~Flagged(c) THEN c
                            ELSE IF good = {} THEN NoClip ELSE road[Min(good)]
       /\ asked.spot.clip = NoClip => (asked.spot.why = "broken" <=> broken)
       /\ asked.kind = "where" /\ asked.spot.clip # NoClip =>
            asked.state # NoState \/ videos[asked.spot.clip].state = NoState

\* Daylight that can air, filmed on a later day of the camera's calendar.
Mornings(c) ==
  {m \in Upcoming(c) : IsDaytime(m) /\ DayOf(videos[m].filmed) > DayOf(videos[c].filmed)}

\* !daytime passes over no morning: what it picks airs, is daylight, and comes
\* no later in the film than the first daylight of a later day, and it gives up
\* only when there is none among the clips it scans (FindNextDaytime).
NoMorningSkipped ==
  asked.kind = "daytime" =>
    IF asked.pick = NoClip
    THEN Mornings(asked.screen) = {} \/ Cardinality(Upcoming(asked.screen)) > ScanLimit
    ELSE /\ asked.pick \in Upcoming(asked.screen) /\ IsDaytime(asked.pick)
         /\ \A m \in Mornings(asked.screen) : videos[asked.pick].filmed <= videos[m].filmed

\* "The first daytime clip filmed on a later local calendar day" (db.go:192):
\* what !daytime picks is dated after the clip on screen (FindNextDaytime).
NextMorningIsLater ==
  asked.kind = "daytime" /\ asked.pick # NoClip =>
    DayOf(videos[asked.pick].filmed) > DayOf(videos[asked.screen].filmed)

\* !find misses only what nothing airing is near enough to, jumps to nothing
\* playout would refuse, and tours different moments, the nearest of all among
\* them (searchFrameEmbeddings, pickFindHit); nor does !jump leave the live
\* corpora or say there is no footage where there is (FindRandomByState).
PicksAreAirable ==
  /\ asked.kind = "find" =>
       LET near == {f \in Frames : Wanted(f, asked.query) /\ Aired(f.clip) /\ f.distance <= Ceiling} IN
       /\ asked.hit \subseteq near /\ asked.tour \subseteq near
       /\ near # {} => \E f \in asked.tour : \A g \in near : f.distance <= g.distance
       /\ \A f, g \in asked.tour : Moment(f) = Moment(g) => f = g
  /\ asked.kind = "jump" =>
       IF asked.pick = NoClip THEN \A c \in DOMAIN videos : videos[c].state = asked.of => ~Aired(c)
       ELSE Aired(asked.pick) /\ videos[asked.pick].state = asked.of

\* Paging through the originals skips none that was there all along and never
\* turns round, though the film changes between the page's queries
\* (neighborSource); a day the calendar counted opens with as many clips unless
\* the film changed since, and a recording is on one day's page whole, past
\* midnight too (footageDaySQL).
PagesFollowTheFilm ==
  /\ asked.kind = "source" /\ asked.step = "done" =>
       /\ asked.prev < asked.of /\ (asked.next = 0 \/ asked.next > asked.of)
       /\ \A o \in asked.there : /\ o < asked.of => asked.prev >= o
                                 /\ o > asked.of => asked.next \in 1 .. o
  /\ asked.kind = "day" =>
       /\ asked.fresh => Cardinality(asked.clips) = asked.counted
       /\ \A s \in asked.clips : s.shape = "s2" => PiecesOf(s.original) \subseteq asked.clips

\* Whatever clip the bot answers with or jumps to is the one it says: the spot
\* ahead of a flagged clip, the next morning, and a hit that can air.
PicksAreRight == SpotIsAhead /\ NoMorningSkipped /\ PicksAreAirable
=============================================================================
