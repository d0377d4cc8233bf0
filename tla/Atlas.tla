-------------------------------- MODULE Atlas --------------------------------
(* The drawn road: the corpus's fixes and tracks as one line on the console's  *)
(* map, cut where the van was carried, colored by how far it is believed,      *)
(* thinned to its bends, and kept an hour on the server and another downstream. *)
EXTENDS Integers, Sequences, FiniteSetsExt, SequencesExt

CONSTANTS
  Reels,          \* what videos may hold: its clips in film order
  NoConfidence, MinRouteConfidence, MinCoordConfidence,
  MaxRouteGap, CorpusEpsilon,       \* squared, in the units of the points
  MaxCorpusPoints,
  CorpusTTL, MaxAge,                \* of the body kept and of the answer
  Maps,           \* browsers with the map open
  LastHourDrawn, Edits, Blips       \* bounds: the clock, ingests, failed reads

NoFix == <<>>
Places == Int \X Int
Clips ==
  [flagged : BOOLEAN, confidence : Int, season : STRING, fix : Places \cup {NoFix},
   track : Seq([xy : Places, aired : BOOLEAN])]

ASSUME AtlasConstants ==
  /\ Reels \subseteq Seq(Clips)
  /\ {NoConfidence, MinRouteConfidence, MinCoordConfidence} \subseteq Int
  /\ NoConfidence < MinRouteConfidence /\ MinRouteConfidence <= MinCoordConfidence
  /\ MaxCorpusPoints \in Nat \ {0}
  /\ {MaxRouteGap, CorpusEpsilon, CorpusTTL, MaxAge, LastHourDrawn, Edits, Blips} \subseteq Nat

VARIABLES
  reel,           \* the videos table, with its tracks
  body,           \* corpusCache: the segments and when they were built
  drawn,          \* what each map shows, and when it was answered
  readable,       \* whether the database answers
  hour, edits, blips,
  was             \* for the properties: the line the table had, hour by hour

atlasVars == <<reel, body, drawn, readable, hour, edits, blips, was>>

NoBody == [segs |-> <<>>, built |-> -1]

-----------------------------------------------------------------------------
(* The read: CorpusRoute. *)

RouteBand(confidence) ==
  IF confidence >= MinCoordConfidence THEN "trusted"
  ELSE IF confidence >= MinRouteConfidence THEN "synthetic" ELSE "untrusted"

\* A track worth drawing, the cut seconds left out; the clip's one fix otherwise.
Drawable(clip) ==
  IF clip.flagged THEN <<>>
  ELSE IF clip.confidence >= MinRouteConfidence
       THEN FlattenSeq([i \in DOMAIN clip.track |->
              IF clip.track[i].aired THEN <<clip.track[i].xy>> ELSE <<>>])
       ELSE IF clip.fix = NoFix THEN <<>> ELSE <<clip.fix>>

CorpusRoute(clips) ==
  FlattenSeq([c \in DOMAIN clips |->
    [i \in DOMAIN Drawable(clips[c]) |->
       [xy |-> Drawable(clips[c])[i], band |-> RouteBand(clips[c].confidence),
        season |-> clips[c].season]]])

-----------------------------------------------------------------------------
(* The line: splitOnGaps, simplify, downsample. *)

Square(n) == n * n
Apart2(p, q) == Square(p[1] - q[1]) + Square(p[2] - q[2])
Carried(p, q) == Apart2(p.xy, q.xy) > MaxRouteGap \/ p.season # q.season

Opens(p) == [band |-> p.band, season |-> p.season, points |-> <<p.xy>>]
Joins(seg, p) == [seg EXCEPT !.points = Append(@, p.xy)]

\* Mutant: the color change leaves a hole.
EndsShort(seg, p) == seg

\* A change of band carries the shared point across, so the colors meet.
Meets(seg, p) == Joins(seg, p)

\* One more point: the segments closed so far, and the one being drawn.
Extend(line, prev, p) ==
  IF Carried(prev, p) THEN [segs |-> Append(line.segs, line.cur), cur |-> Opens(p)]
  ELSE IF p.band # line.cur.band
       THEN [segs |-> Append(line.segs, Meets(line.cur, p)), cur |-> Opens(p)]
       ELSE [segs |-> line.segs, cur |-> Joins(line.cur, p)]

SplitOnGaps(pts) ==
  LET Split[i \in 0 .. Len(pts) - 1] ==
        IF i = 0 THEN [segs |-> <<>>, cur |-> Opens(pts[1])]
        ELSE Extend(Split[i - 1], pts[i], pts[i + 1])
      line == Split[Len(pts) - 1]
  IN  IF pts = <<>> THEN <<>> ELSE Append(line.segs, line.cur)

\* How far p is from the segment a-b, squared, times the segment's own length
\* squared; the projection is clamped to its ends.
Off(p, a, b) ==
  LET len2  == Apart2(a, b)
      along == (p[1] - a[1]) * (b[1] - a[1]) + (p[2] - a[2]) * (b[2] - a[2])
      aside == (p[1] - a[1]) * (b[2] - a[2]) - (p[2] - a[2]) * (b[1] - a[1])
  IN  IF len2 = 0 THEN Apart2(p, a)
      ELSE IF along <= 0 THEN Apart2(p, a) * len2
      ELSE IF along >= len2 THEN Apart2(p, b) * len2
      ELSE Square(aside)
Strays(off, a, b) == off > CorpusEpsilon * Max({1, Apart2(a, b)})

\* Mutant: each point is judged by the whole span, never by the part it is in.
StraightestBends(pts) == {k \in 2 .. Len(pts) - 1 : Strays(Off(pts[k], pts[1], pts[Len(pts)]),
                                                           pts[1], pts[Len(pts)])}

\* The point of a span that strays most, the first of them.
Worst(pts, i, j) == Max({Off(pts[k], pts[i], pts[j]) : k \in i + 1 .. j - 1})
At(pts, i, j) == Min({k \in i + 1 .. j - 1 : Off(pts[k], pts[i], pts[j]) = Worst(pts, i, j)})

\* Ramer-Douglas-Peucker: the points of a span that must stay, worst first.
Bends(pts) ==
  LET Stay[s \in (DOMAIN pts) \X (DOMAIN pts)] ==
        IF s[2] <= s[1] + 1 \/ ~ Strays(Worst(pts, s[1], s[2]), pts[s[1]], pts[s[2]]) THEN {}
        ELSE LET k == At(pts, s[1], s[2]) IN {k} \cup Stay[<<s[1], k>>] \cup Stay[<<k, s[2]>>]
  IN  Stay[<<1, Len(pts)>>]
Simplify(pts) ==
  IF Len(pts) < 3 THEN pts
  ELSE FlattenSeq([i \in DOMAIN pts |->
         IF i \in {1, Len(pts)} \cup Bends(pts) THEN <<pts[i]>> ELSE <<>>])

\* Every step-th point, and the last, so the road reaches its end.
Downsample(pts) ==
  IF Len(pts) <= MaxCorpusPoints THEN pts
  ELSE LET step == (Len(pts) + MaxCorpusPoints - 1) \div MaxCorpusPoints
           taken == [i \in 1 .. ((Len(pts) - 1) \div step) + 1 |-> pts[(i - 1) * step + 1]]
       IN  IF Last(taken) = Last(pts) THEN taken ELSE Append(taken, Last(pts))

Line(clips) ==
  LET segs == SplitOnGaps(CorpusRoute(clips))
  IN  [s \in DOMAIN segs |-> [segs[s] EXCEPT !.points = Downsample(Simplify(@))]]

-----------------------------------------------------------------------------
(* The answer: mapCorpusHandler over corpusBody, one request at a time. *)

AtlasInit ==
  /\ reel \in Reels /\ was = [h \in 0 .. LastHourDrawn |-> IF h = 0 THEN {Line(reel)} ELSE {}]
  /\ body = NoBody /\ drawn = [m \in Maps |-> NoBody]
  /\ readable = TRUE /\ hour = 0 /\ edits = 0 /\ blips = 0

\* Mutant: a body kept is never built again.
KeptForGood == body # NoBody

\* Under the lock; a failed read and an empty corpus are answered and not kept.
Kept == body # NoBody /\ hour - body.built < CorpusTTL
CorpusBody ==
  IF Kept THEN body
  ELSE IF ~readable \/ CorpusRoute(reel) = <<>> THEN NoBody
  ELSE [segs |-> Line(reel), built |-> hour]

\* The browser asks again when the answer it holds is past its max-age.
AskRoute(m) ==
  /\ drawn[m] = NoBody \/ hour - drawn[m].built >= MaxAge
  /\ body' = IF CorpusBody = NoBody THEN body ELSE CorpusBody
  /\ drawn' = [drawn EXCEPT ![m] = [segs |-> CorpusBody.segs, built |-> hour]]
  /\ UNCHANGED <<reel, readable, hour, edits, blips, was>>

\* The pipeline ingests, reviews or re-reads clips.
Ingest(clips) ==
  /\ edits < Edits /\ edits' = edits + 1 /\ clips # reel
  /\ reel' = clips /\ was' = [was EXCEPT ![hour] = @ \cup {Line(clips)}]
  /\ UNCHANGED <<body, drawn, readable, hour, blips>>

Blip ==
  /\ readable => blips < Blips
  /\ readable' = ~readable /\ blips' = IF readable THEN blips + 1 ELSE blips
  /\ UNCHANGED <<reel, body, drawn, hour, edits, was>>

AtlasTick ==
  /\ hour < LastHourDrawn /\ hour' = hour + 1
  /\ was' = [was EXCEPT ![hour + 1] = {Line(reel)}]
  /\ UNCHANGED <<reel, body, drawn, readable, edits, blips>>

AtlasNext ==
  \/ \E m \in Maps : AskRoute(m)
  \/ \E clips \in Reels : Ingest(clips)
  \/ Blip \/ AtlasTick

AtlasSpec == AtlasInit /\ [][AtlasNext]_atlasVars

-----------------------------------------------------------------------------
(* Properties. *)

AtlasTypeOK ==
  /\ reel \in Reels /\ hour \in 0 .. LastHourDrawn /\ readable \in BOOLEAN
  /\ body.built \in -1 .. hour /\ \A m \in Maps : drawn[m].built \in -1 .. hour

Alongside(pts, p) == \E i \in 1 .. Len(pts) - 1 : ~Strays(Off(p, pts[i], pts[i + 1]), pts[i], pts[i + 1])

\* Thinning never bends the road: every point the van was at lies within the
\* epsilon of the line drawn for its segment, which starts and ends where the
\* segment does (map.go, "keeping every point that would otherwise sit more
\* than epsilon meters from the simplified path. Endpoints are always kept").
RoadKeepsItsShape ==
  LET segs == SplitOnGaps(CorpusRoute(reel)) IN
  \A s \in DOMAIN segs :
    LET raw == segs[s].points thin == Simplify(raw) IN
    /\ Head(thin) = Head(raw) /\ Last(thin) = Last(raw)
    /\ Len(raw) > 1 => \A i \in DOMAIN raw : Alongside(thin, raw[i])

\* The line is whole and never lies: two points in a row are drawn joined
\* exactly when the van drove between them on one trip, whatever their bands
\* (map.go, "Carry the shared point across so the two colors meet").
LineIsWhole ==
  LET pts == CorpusRoute(reel)
      segs == SplitOnGaps(pts)
      Joined(s) == [i \in 1 .. Len(segs[s].points) - 1 |-> <<segs[s].points[i], segs[s].points[i + 1]>>]
      Driven == [i \in 1 .. Len(pts) - 1 |->
                   IF Carried(pts[i], pts[i + 1]) THEN <<>> ELSE <<<<pts[i].xy, pts[i + 1].xy>>>>]
  IN  FlattenSeq([s \in DOMAIN segs |-> Joined(s)]) = FlattenSeq(Driven)

\* What a map shows is what the corpus was within the hour the server keeps and
\* the hour it promises downstream, or nothing.
RouteIsRecent ==
  \A m \in Maps :
    LET shownSince == Max({0, drawn[m].built - CorpusTTL}) IN
    drawn[m].segs # <<>> => \E h \in shownSince .. drawn[m].built : drawn[m].segs \in was[h]

\* The map tells the truth: the line keeps the road's shape, joins what was
\* driven in one go and nothing else, and is of the corpus as it lately was
\* (simplify, splitOnGaps, mapRouteHandler's hour).
MapIsTrue == RoadKeepsItsShape /\ LineIsWhole /\ RouteIsRecent
=============================================================================
