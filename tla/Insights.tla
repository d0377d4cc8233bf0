------------------------------ MODULE Insights ------------------------------
(* What the console is told of the log: the insights and stats endpoints, each  *)
(* an aggregate over the rows that viewers, playout and the sampler append.  An *)
(* answer of one query is a function of the tables; one of several queries sees *)
(* the tables move between them; the lifetime totals come from a cache.         *)
EXTENDS Integers, Sequences, FiniteSets, FiniteSetsExt

CONSTANTS
  People,                 \* accounts
  Cmds, Unknown,          \* commands, and the reason of a refusal nothing answers
  Regions,                \* clips, one per state: resolving one through videos gives the other
  Platforms, Null,
  DayLen,                 \* ticks in a day: also the longest visit that is believed
  Under5m, Under30m, Under2h,   \* the buckets' bounds, in ticks
  WindowDays, LookbackDays, MinSamples,   \* ?days, presenceLookbackDays, the sample bar
  LifetimeTTL, BucketTicks,      \* lifetimeTTL and the width of a viewer bucket, in ticks
  Requests,               \* handlers serving at once
  LastHour, MaxRows, Mishaps    \* bounds: the clock, rows, crashes and failing queries

ASSUME InsightsConstants ==
  /\ {DayLen, WindowDays, BucketTicks, MinSamples} \subseteq Nat \ {0}
  /\ {Under5m, Under30m, Under2h, LookbackDays, LifetimeTTL} \subseteq Nat
  /\ Under5m <= Under30m /\ Under30m <= Under2h
  /\ {LastHour, MaxRows, Mishaps} \subseteq Nat /\ Unknown \notin Cmds
  /\ Null \notin Int \cup Requests /\ IsFiniteSet(Regions) /\ IsFiniteSet(Platforms)

VARIABLES
  log,            \* events
  samples, plays, \* viewer_samples, video_plays
  bots,           \* users.is_bot
  here,           \* sessions open now: each viewer's session id, or Null
  request,        \* what each handler has read so far
  cache, told,    \* lifetimeCache with who holds its mutex; the largest total told
  tick, written, mishaps

logVars == <<log, samples, plays, bots, here>>
insightsVars == <<logVars, request, cache, told, tick, written, mishaps>>

Unasked == [step |-> "idle"]
Cold == [total |-> 0, built |-> Null, holder |-> Null]

InsightsInit ==
  /\ log = <<>> /\ samples = <<>> /\ plays = <<>> /\ bots = {}
  /\ here = [p \in People |-> Null]
  /\ request = [r \in Requests |-> Unasked]
  /\ cache = Cold /\ told = 0
  /\ tick = 0 /\ written = 0 /\ mishaps = 0

Event(kind, who) == [kind |-> kind, who |-> who, at |-> tick, session |-> Null,
                   command |-> Null, reason |-> Null, correct |-> FALSE, region |-> Null]
Logged(event) == written < MaxRows /\ written' = written + 1 /\ log' = Append(log, event)
Mishap == mishaps < Mishaps /\ mishaps' = mishaps + 1
Aside == UNCHANGED <<request, cache, told, tick>>

-----------------------------------------------------------------------------
(* The rows. A session's id is drawn at its login. *)

Arrives(p, v) ==
  /\ here[p] = Null /\ here' = [here EXCEPT ![p] = written]
  /\ Logged([Event("login", p) EXCEPT !.session = written, !.region = v])
  /\ UNCHANGED <<samples, plays, bots, mishaps>> /\ Aside

Leaves(p, v) ==
  /\ here[p] # Null /\ here' = [here EXCEPT ![p] = Null]
  /\ Logged([Event("logout", p) EXCEPT !.session = here[p], !.region = v])
  /\ UNCHANGED <<samples, plays, bots, mishaps>> /\ Aside

\* The processes die: open sessions never get their logout, open plays no end,
\* and what handlers were reading is lost with the cache.
Crashes ==
  /\ Mishap /\ here' = [p \in People |-> Null]
  /\ plays' = [i \in DOMAIN plays |-> [plays[i] EXCEPT !.open = FALSE]]
  /\ request' = [r \in Requests |-> Unasked] /\ cache' = Cold
  /\ UNCHANGED <<log, samples, bots, told, tick, written>>

RunsCommand(p, c) ==
  /\ Logged([Event("run", p) EXCEPT !.command = c])
  /\ UNCHANGED <<samples, plays, bots, here, mishaps>> /\ Aside

IsRefused(p, c, why) ==
  /\ Logged([Event("refused", p) EXCEPT !.command = c, !.reason = why])
  /\ UNCHANGED <<samples, plays, bots, here, mishaps>> /\ Aside

Guesses(p, v, right) ==
  /\ Logged([Event("guess", p) EXCEPT !.region = v, !.correct = right])
  /\ UNCHANGED <<samples, plays, bots, here, mishaps>> /\ Aside

\* A sample a minute, from each platform.
Sampled(q, v, live) ==
  /\ written < MaxRows /\ written' = written + 1
  /\ \A i \in DOMAIN samples : ~(samples[i].platform = q /\ samples[i].at = tick)
  /\ samples' = Append(samples, [platform |-> q, region |-> v, at |-> tick, live |-> live,
                                 chat |-> 1])
  /\ UNCHANGED <<log, plays, bots, here, mishaps>> /\ Aside

\* A switch closes the row the platform's instance has open and opens the next.
Switches(q, v) ==
  /\ written < MaxRows /\ written' = written + 1
  /\ plays' = Append([i \in DOMAIN plays |->
                        IF plays[i].open /\ plays[i].platform = q THEN [plays[i] EXCEPT !.ended = tick, !.open = FALSE]
                        ELSE plays[i]],
                     [platform |-> q, region |-> v, started |-> tick, ended |-> Null, open |-> TRUE])
  /\ UNCHANGED <<log, samples, bots, here, mishaps>> /\ Aside

FlagsBot(p) ==
  /\ Mishap /\ bots' = bots \cup {p}
  /\ UNCHANGED <<log, samples, plays, here, written>> /\ Aside

InsightsTick ==
  /\ tick < LastHour /\ tick' = tick + 1
  /\ UNCHANGED <<logVars, request, cache, told, written, mishaps>>

-----------------------------------------------------------------------------
(* Windows: the last days up to now, all time, or whole days up to today's. *)

Since(days) == IF days = 0 THEN 0 ELSE tick - days * DayLen
Day(t) == t \div DayLen
PlaybackDailySince(days) == (Day(tick) - (days - 1)) * DayLen

Human(e) == e.who \notin bots
Rows(kind, since) == {i \in DOMAIN log : log[i].kind = kind /\ log[i].at >= since /\ Human(log[i])}
Tally(S, Key(_)) == [k \in {Key(i) : i \in S} |-> Cardinality({i \in S : Key(i) = k})]
Total(f) == MapThenSumSet(LAMBDA k : f[k], DOMAIN f)

\* visitsCTE: a login with the logout of its session, if that is believable.
Visits(since) ==
  {v \in Rows("login", since) \X (DOMAIN log) :
     LET l == log[v[1]] o == log[v[2]] IN
     /\ o.kind = "logout" /\ o.session = l.session /\ o.at >= since
     /\ o.at >= l.at /\ o.at - l.at <= DayLen}
Stay(v) == log[v[2]].at - log[v[1]].at

SessionStats(since) ==
  LET visits == Visits(since)
      Lasting(from, to) == Cardinality({v \in visits : Stay(v) >= from /\ Stay(v) < to})
  IN  [sessions   |-> Cardinality(visits),
       under5m    |-> Lasting(0, Under5m),
       under30m   |-> Lasting(Under5m, Under30m),
       under2h    |-> Lasting(Under30m, Under2h),
       twoHoursUp |-> Cardinality({v \in visits : Stay(v) >= Under2h})]

\* One row per day of the calendar, whether or not anything happened.
PlaybackDaily(days) ==
  LET since == PlaybackDailySince(days)
      first == Day(since)
      OnDay(S, d) == Cardinality({i \in S : Day(log[i].at) = d})
  IN  [d \in first .. first + days - 1 |->
         [commands |-> OnDay(Rows("run", since), d),
          guesses  |-> OnDay(Rows("guess", since), d),
          visits   |-> Cardinality({v \in Visits(since) : Day(log[v[1]].at) = d})]]

PlaybackStats(since) ==
  [plays |-> Cardinality({i \in DOMAIN plays : plays[i].started >= since}),
   commands |-> Cardinality(Rows("run", since)), guesses |-> Cardinality(Rows("guess", since))]

\* Presence keeps bots in; a session counts from the window's start at the earliest.
FromLogin(l, start) == l.at
FromStart(l, start) == Max({l.at, start})

PresenceHours(p, days) ==
  LET start == Since(days)
      pairs == {v \in (DOMAIN log) \X (DOMAIN log) :
        LET o == log[v[1]] l == log[v[2]] IN
        /\ o.kind = "logout" /\ o.who = p /\ o.at >= start
        /\ l.kind = "login" /\ l.session = o.session
        /\ l.at >= start - LookbackDays * DayLen /\ o.at >= l.at}
  IN  MapThenSumSet(LAMBDA v : log[v[1]].at - FromStart(log[v[2]], start), pairs)

\* regionsSQL: only plays whose end was seen have airtime, and they count whole.
EndedIn(p, since) == p.ended >= since
StartedIn(p, since) == p.started >= since

Airtime(v, since) ==
  MapThenSumSet(LAMBDA i : plays[i].ended - plays[i].started,
                {i \in DOMAIN plays : plays[i].region = v /\ plays[i].ended # Null
                                      /\ StartedIn(plays[i], since)})

Churn(v, since) ==
  LET With(kind) == Cardinality({i \in Rows(kind, since) : log[i].region = v})
  IN  [joins |-> With("login"), leaves |-> With("logout")]

SamplesOf(v, since) == {i \in DOMAIN samples : samples[i].region = v /\ samples[i].at >= since}
Seen(since) == {v \in Regions : Cardinality(SamplesOf(v, since)) >= MinSamples}

\* Samples drive both reports: a clip or a region below the bar is left out, one
\* whose plays all predate the window is not.
FootageInsights(since) ==
  [v \in Seen(since) |->
     [samples |-> Cardinality(SamplesOf(v, since)),
      plays   |-> Cardinality({i \in DOMAIN plays : plays[i].region = v
                                                   /\ StartedIn(plays[i], since)})]]

RegionInsights(since) ==
  [v \in Seen(since) |->
     [samples |-> Cardinality(SamplesOf(v, since)), airtime |-> Airtime(v, since),
      net     |-> Churn(v, since).joins - Churn(v, since).leaves,
      live    |-> Cardinality({i \in SamplesOf(v, since) : samples[i].live = TRUE})]]

SampledPlatforms(since) ==
  {samples[i].platform : i \in UNION {SamplesOf(v, since) : v \in Regions}}

\* Offline ticks stay out of the viewers' mean, not out of the chat.
ViewerSeries(since) ==
  LET window == {i \in DOMAIN samples : samples[i].at >= since}
      Bucket(i) == <<samples[i].platform, (samples[i].at \div BucketTicks) * BucketTicks>>
      Ticks(b) == {i \in window : Bucket(i) = b}
  IN  [b \in {Bucket(i) : i \in window} |->
         [measured |-> Cardinality({i \in Ticks(b) : samples[i].live # FALSE}),
          chat     |-> MapThenSumSet(LAMBDA i : samples[i].chat, Ticks(b))]]

-----------------------------------------------------------------------------
(* Answers put together from several queries. Rows land between them; all but  *)
(* the guesses ask for the window's start again at every query.                *)

Reads(r, to) == request' = [request EXCEPT ![r] = to]
Asked(r) == request[r].step = "idle"
NoRow == UNCHANGED <<logVars, tick, written>>
Served == NoRow /\ UNCHANGED <<cache, told, mishaps>>

\* A query that fails is answered with a 500; one in the lifetime figures is not cached.
QueryFails(r) ==
  /\ request[r].step \notin {"idle", "answered"} /\ Mishap /\ Reads(r, Unasked)
  /\ cache' = IF cache.holder = r THEN [cache EXCEPT !.holder = Null] ELSE cache
  /\ NoRow /\ UNCHANGED told

Replies(r) == request[r].step = "answered" /\ Reads(r, Unasked) /\ Served

SinceAgain(q) == Since(q.days)
SinceOnce(q) == q.since

AskGuesses(r, days) ==
  /\ Asked(r) /\ Served
  /\ Reads(r, [step |-> "guess states", days |-> days, since |-> Since(days), bots |-> bots,
               total |-> Cardinality(Rows("guess", Since(days))),
               correct |-> Cardinality({i \in Rows("guess", Since(days)) : log[i].correct})])

GuessStates(r) ==
  LET q == request[r] S == Rows("guess", SinceOnce(q)) IN
  /\ q.step = "guess states" /\ Served
  /\ Reads(r, [step |-> "answered", to |-> "guesses", total |-> q.total, correct |-> q.correct,
               states |-> Tally(S, LAMBDA i : log[i].region),
               right |-> Cardinality({i \in S : log[i].correct}), kept |-> bots = q.bots])

\* Runs and refusals of a command, outer-joined.
CommandUsage(since) ==
  LET Of(kind, c) == {i \in Rows(kind, since) : log[i].command = c}
  IN  [c \in {log[i].command : i \in Rows("run", since) \cup Rows("refused", since)} |->
         [runs |-> Cardinality(Of("run", c)), refusals |-> Cardinality(Of("refused", c)),
          users |-> Cardinality({log[i].who : i \in Of("run", c)})]]

AskCommands(r, days) ==
  /\ Asked(r) /\ Served
  /\ Reads(r, [step |-> "refusal reasons", days |-> days, bots |-> bots,
               usage |-> CommandUsage(Since(days))])

RefusalReasons(r) ==
  LET q == request[r] IN
  /\ q.step = "refusal reasons" /\ Served
  /\ Reads(r, [step |-> "unknown commands", days |-> q.days, bots |-> q.bots, usage |-> q.usage,
               reasons |-> Tally(Rows("refused", SinceAgain(q)), LAMBDA i : log[i].reason)])

UnknownCommands(r) ==
  LET q == request[r]
      S == {i \in Rows("refused", SinceAgain(q)) : log[i].reason = Unknown}
  IN  /\ q.step = "unknown commands" /\ Served
      /\ Reads(r, [step |-> "answered", to |-> "commands", usage |-> q.usage,
                   reasons |-> q.reasons, typed |-> Tally(S, LAMBDA i : log[i].command),
                   kept |-> bots = q.bots /\ q.days = 0])

AskFootage(r, days) ==
  /\ Asked(r) /\ Served
  /\ \E clips \in {FootageInsights(Since(days)), RegionInsights(Since(days))} :
       Reads(r, [step |-> "platforms", days |-> days, clips |-> clips])

Sampling(r) ==
  LET q == request[r] IN
  /\ q.step = "platforms" /\ Served
  /\ Reads(r, [step |-> "answered", to |-> "footage", clips |-> q.clips,
               platforms |-> SampledPlatforms(SinceAgain(q)), kept |-> q.days = 0])

-----------------------------------------------------------------------------
(* The lifetime figures: gathered under the cache's mutex, reused for a while. *)

AnyTime(r) == TRUE
LifetimeLock(r) == cache.holder = Null

Told(r, total) ==
  /\ Reads(r, [step |-> "answered", to |-> "lifetime", total |-> total, floor |-> told])
  /\ told' = Max({told, total})

Fresh == cache.built # Null /\ tick - cache.built < LifetimeTTL

AskLifetime(r) ==
  /\ Asked(r) /\ LifetimeLock(r)
  /\ \/ Fresh /\ Told(r, cache.total) /\ UNCHANGED cache
     \/ /\ ~Fresh /\ Reads(r, [step |-> "census"]) /\ UNCHANGED told
        /\ cache' = [cache EXCEPT !.holder = r]
  /\ NoRow /\ UNCHANGED mishaps

\* The kind census counts every row; the queries after it count other tables.
EventKinds(r) ==
  /\ request[r].step = "census" /\ Served
  /\ Reads(r, [step |-> "lifetime", total |-> Total(Tally(DOMAIN log, LAMBDA i : log[i].kind))])

KeepLifetime(r) ==
  LET q == request[r] IN
  /\ q.step = "lifetime" /\ Told(r, q.total)
  /\ cache' = [total |-> q.total, built |-> tick, holder |-> Null]
  /\ NoRow /\ UNCHANGED mishaps

-----------------------------------------------------------------------------
VisitRows ==
  \/ \E p \in People : \E v \in Regions : Arrives(p, v) \/ Leaves(p, v)
  \/ Crashes
CommandRows ==
  \E p \in People : \E c \in Cmds :
    RunsCommand(p, c) \/ \E why \in {Unknown, "cooldown"} : IsRefused(p, c, why)
GuessRows == \E p \in People : \E v \in Regions : \E right \in BOOLEAN : Guesses(p, v, right)
AudienceRows ==
  \E q \in Platforms : \E v \in Regions :
    Switches(q, v) \/ \E live \in BOOLEAN \cup {Null} : Sampled(q, v, live)
BotRows == \E p \in People : FlagsBot(p)

Windows == {0, WindowDays}
GuessRequest(r) == (\E days \in Windows : AskGuesses(r, days)) \/ GuessStates(r)
CommandRequest(r) ==
  (\E days \in Windows : AskCommands(r, days)) \/ RefusalReasons(r) \/ UnknownCommands(r)
FootageRequest(r) == (\E days \in Windows : AskFootage(r, days)) \/ Sampling(r)
LifetimeRequest(r) == AskLifetime(r) \/ EventKinds(r) \/ KeepLifetime(r)

InsightsNext ==
  \/ InsightsTick \/ VisitRows \/ CommandRows \/ GuessRows \/ AudienceRows \/ BotRows
  \/ \E r \in Requests : \/ GuessRequest(r) \/ CommandRequest(r) \/ FootageRequest(r)
                         \/ LifetimeRequest(r) \/ QueryFails(r) \/ Replies(r)

InsightsSpec == InsightsInit /\ [][InsightsNext]_insightsVars

-----------------------------------------------------------------------------
(* Properties. *)

InsightsTypeOK ==
  /\ \A i \in DOMAIN log : log[i].at \in 0 .. tick /\ log[i].who \in People
  /\ bots \subseteq People /\ cache.holder \in Requests \cup {Null}
  /\ told \in Nat /\ tick \in 0 .. LastHour

\* No answer hands out more time than there was: nobody was present for longer
\* than the window (presence.go, "its time inside the window is what's
\* reported"), across crashes that leave sessions without a logout, and a
\* platform's regions never aired for longer than the window together.
TimeFitsTheWindow ==
  /\ \A p \in People : PresenceHours(p, WindowDays) <= WindowDays * DayLen
  /\ \A since \in 0 .. tick :
       MapThenSumSet(LAMBDA v : Airtime(v, since), Regions)
         <= Cardinality(Platforms) * (tick - since)

\* Breakdowns and totals agree.  Within one query: the four buckets split the
\* sessions (insights.go, "so they sum to it"), and a series by day adds up to
\* the counts since its first midnight.  Across queries, where rows land in
\* between: the states' guesses cover the totals told above them, the refusal
\* reasons cover the commands' refusals over all time, and a clip that is
\* reported was sampled on a platform that is.
AnswersAddUp ==
  LET since == PlaybackDailySince(WindowDays)
      days == PlaybackDaily(WindowDays)
      OverDays(Of(_)) == MapThenSumSet(LAMBDA d : Of(days[d]), DOMAIN days)
      stats == SessionStats(Since(0))
      series == ViewerSeries(0)
      Answered(what) == {r \in Requests : request[r].step = "answered" /\ request[r].to = what}
  IN  /\ stats.under5m + stats.under30m + stats.under2h + stats.twoHoursUp = stats.sessions
      /\ Day(tick) \in DOMAIN days
      /\ OverDays(LAMBDA d : d.commands) = PlaybackStats(since).commands
      /\ OverDays(LAMBDA d : d.guesses) = PlaybackStats(since).guesses
      /\ OverDays(LAMBDA d : d.visits) = SessionStats(since).sessions
      /\ MapThenSumSet(LAMBDA b : series[b].chat, DOMAIN series) = Len(samples)
      /\ \A r \in Answered("guesses") : LET a == request[r] IN
           a.kept => Total(a.states) >= a.total /\ a.right >= a.correct
      /\ \A r \in Answered("commands") : LET a == request[r] IN
           a.kept => /\ Total(a.reasons) >= MapThenSumSet(LAMBDA c : a.usage[c].refusals,
                                                          DOMAIN a.usage)
                     /\ Unknown \in DOMAIN a.reasons => Total(a.typed) >= a.reasons[Unknown]
      /\ \A r \in Answered("footage") : LET a == request[r] IN
           a.kept /\ DOMAIN a.clips # {} => a.platforms # {}

\* The lifetime total a client is told never falls, whichever handler gathered
\* it and whatever failed or restarted (stats.go, lifetimeTTL: "numbers that
\* only grow").
LifetimeOnlyGrows ==
  \A r \in Requests :
    request[r].step = "answered" /\ request[r].to = "lifetime" =>
      request[r].total >= request[r].floor

\* What the answers tell fits together: parts add up to their wholes, no time is
\* told that nobody had (presence.go, insights.go, playbackDaily), and a total
\* is never told smaller than before.
AnswersFitTogether == TimeFitsTheWindow /\ AnswersAddUp /\ LifetimeOnlyGrows
=============================================================================
