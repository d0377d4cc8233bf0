----------------------------- MODULE MCConsole ------------------------------
(* What the console writes and reads through the HTTP API: the marks it sets    *)
(* on accounts and on moments of clips, the leaderboard, the insights and the    *)
(* map.  cast says which a behaviour is about; any two goroutines doing the     *)
(* same kind of work overlap.                                                   *)
EXTENDS Accounts, Insights, Atlas, Moments, TLC

CONSTANTS v1, v2, p1

VARIABLE cast

\* A bot is found out, a lurker is told apart from one, and a mark is corrected.
SomeBodies ==
  {[bot |-> TRUE, excluded |-> Unset, starred |-> Unset],
   [bot |-> FALSE, excluded |-> TRUE, starred |-> TRUE]}

AccountCasts == {"flags", "ids", "board"}
InsightCasts == {"visits", "commands", "guesses", "footage", "lifetime"}
AtlasCasts == {"line", "map"}
MomentCasts == {"moments", "marks"}

-----------------------------------------------------------------------------
(* Corpora to draw: one winding clip, three clips of every kind in a row, and   *)
(* the two-clip ones the pipeline turns into one another.                      *)

NoConf == -1
Film(flagged, conf, season, fix, track) ==
  [flagged |-> flagged, confidence |-> conf, season |-> season, fix |-> fix, track |-> track]
Point(x, y, kept) == [xy |-> <<x, y>>, aired |-> kept]
Along(x, y) == <<Point(x, y, TRUE), Point(x, y + 2, FALSE), Point(x + 1, 0, TRUE)>>

Winding == {<<Film(FALSE, 8, "s1", <<1, 0>>, [i \in 1 .. 5 |-> Point(i, bend[i], TRUE)])>> :
              bend \in {b \in [1 .. 5 -> {0, 1, 3}] : b[1] = 0}}
Kinds(x) ==
  {Film(TRUE, 8, "s1", <<x, 0>>, Along(x, 0)), Film(FALSE, 8, "s1", <<x, 0>>, Along(x, 0)),
   Film(FALSE, 5, "s1", <<x, 0>>, Along(x, 1)), Film(FALSE, 0, "s1", <<x, 0>>, <<>>),
   Film(FALSE, NoConf, "s2", NoFix, <<>>), Film(FALSE, 8, "s2", <<x, 0>>, Along(x, 0)),
   Film(FALSE, 0, "s1", <<x + 20, 0>>, <<>>)}
Mixed == {<<p, q, r>> : p \in Kinds(1), q \in Kinds(3), r \in Kinds(5)}
Few == {<<p, q>> :
          p \in {Film(FALSE, 8, "s1", <<1, 0>>, Along(1, 0)), Film(TRUE, 8, "s1", <<1, 0>>, Along(1, 0))},
          q \in {Film(FALSE, 0, "s1", <<4, 0>>, <<>>), Film(TRUE, 0, "s1", NoFix, <<>>)}}
Bare == <<Film(TRUE, 0, "s1", NoFix, <<>>)>>
Corpora == Winding \cup Mixed \cup Few \cup {Bare}

-----------------------------------------------------------------------------
(* Tracks: any three rows to answer from; none, one or two to mark by.          *)

FewRows == {{}} \cup {{[sec |-> s, ocr |-> TRUE] : s \in ss} : ss \in {{1}, {1, 3}}}
SomeRows ==
  FewRows \cup UNION {{{[sec |-> s, ocr |-> s \in seen] : s \in ss} : seen \in SUBSET ss} :
                     ss \in {xs \in SUBSET Seconds : Cardinality(xs) <= 3}}

ConsoleInit ==
  /\ cast \in AccountCasts \cup InsightCasts \cup AtlasCasts \cup MomentCasts
  /\ reel \in IF cast = "line" THEN Reels ELSE IF cast = "map" THEN Few ELSE {Bare}
  /\ coords \in IF cast = "moments" THEN Tracks ELSE IF cast = "marks" THEN FewRows ELSE {{}}
  /\ cut \in IF cast \in MomentCasts THEN Cuts ELSE {0}
  /\ AccountsInit /\ InsightsInit /\ AtlasInit /\ MomentsInit

-----------------------------------------------------------------------------
AccountCast(w) ==
  \/ SessionStep(w)
  \/ cast = "flags" /\ FlagStep(w)
  \/ cast = "ids" /\ IdStep(w)
  \/ cast = "board" /\ BoardStep(w)

\* Nobody speaks, and the second viewer stays away, except in the cast of ids,
\* where nobody needs the clock and only the stamp of an id need fail, and where
\* the second name is one person's; one checkpoint is enough for the flags.
AccountBounds ==
  /\ cast = "ids" => now' = 0
  /\ cast = "ids" /\ failures' # failures => \E w \in Workers : job[w].step = "stamp"
  /\ cast = "ids" => \A w \in Workers :
       "id" \in DOMAIN job'[w] /\ job'[w].user = v2 => job'[w].id \in {p1, NoId}
  /\ cast = "flags" => now' <= 1
  /\ cast # "ids" => \A w \in Workers :
       /\ "user" \in DOMAIN job'[w] => job'[w].user = v1
       /\ "id" \in DOMAIN job'[w] => job'[w].id = NoId

AccountsPart ==
  /\ cast \in AccountCasts /\ UNCHANGED <<insightsVars, atlasVars, momentVars>>
  /\ AccountsTick \/ \E w \in Workers : AccountCast(w)
  /\ AccountBounds

-----------------------------------------------------------------------------
InsightRows ==
  \/ InsightsTick
  \/ cast \in {"visits", "lifetime"} /\ VisitRows
  \/ cast = "commands" /\ (CommandRows \/ BotRows)
  \/ cast = "guesses" /\ (GuessRows \/ BotRows)
  \/ cast = "footage" /\ AudienceRows

InsightRequest(r) ==
  \/ cast = "commands" /\ CommandRequest(r)
  \/ cast = "guesses" /\ GuessRequest(r)
  \/ cast = "footage" /\ FootageRequest(r)
  \/ cast = "lifetime" /\ LifetimeRequest(r)
  \/ QueryFails(r) \/ Replies(r)

\* A second handler matters where they share something, a second viewer where
\* a flag can take one out of the counts between two queries.
Same(S, Of(_)) == \A i, j \in S : Of(i) = Of(j)

InsightBounds ==
  /\ cast # "lifetime" => Cardinality({r \in Requests : request[r] # Unasked}) <= 1
  /\ cast \in {"visits", "lifetime"} => Same(DOMAIN log, LAMBDA i : <<log[i].region, log[i].who>>)
  /\ cast = "footage" => Same(DOMAIN samples, LAMBDA i : samples[i].live)
  /\ cast # "visits" => tick <= DayLen + 1
  /\ cast \in {"commands", "guesses"} => written <= 2
  /\ cast \in {"footage", "lifetime"} => written <= 3

InsightsPart ==
  /\ cast \in InsightCasts /\ UNCHANGED <<accountVars, atlasVars, momentVars>>
  /\ InsightRows \/ \E r \in Requests : InsightRequest(r)
  /\ InsightBounds'

-----------------------------------------------------------------------------
\* The line is drawn from every corpus; the answers are kept over a few.
MapPart ==
  /\ cast = "map" /\ UNCHANGED <<accountVars, insightsVars, momentVars>>
  /\ AtlasTick \/ Blip \/ (\E m \in Maps : AskRoute(m)) \/ (\E clips \in Few : Ingest(clips))

\* Two seconds to point at are enough for a mark to be off.
MarksPart ==
  /\ cast = "marks" /\ UNCHANGED <<accountVars, insightsVars, atlasVars>>
  /\ MomentsNext /\ \A p \in Setters : asking'[p].at \in {-1, 0, 2}

ConsoleNext == UNCHANGED cast /\ (AccountsPart \/ InsightsPart \/ MapPart \/ MarksPart)

ConsoleSpec ==
  ConsoleInit /\ [][ConsoleNext]_<<accountVars, insightsVars, atlasVars, momentVars, cast>>

Interchangeable ==
  Permutations(Workers) \cup Permutations(People) \cup Permutations(Requests)
    \cup Permutations(Regions) \cup Permutations(Cmds)
=============================================================================
