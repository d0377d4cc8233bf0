------------------------------ MODULE Backfills ------------------------------
(* The corpus's fixes and what they are worth: the passes an operator runs over *)
(* videos by hand, one that corrects the positions (backfill-coords) and one    *)
(* that turns them into distances (backfill-miles-driven), each written to the  *)
(* database it read or printed as a script for another one.                     *)
EXTENDS Integers, Sequences, FiniteSetsExt

CONSTANTS
  Drives,         \* film times of one corpus's clips, in film order
  Places,         \* where a clip's fix may be, along the road; 0 is no fix
  MaxSpeed, MinSpike, DetourRatio, MaxInterpGap, MaxGap,   \* the passes' flags
  Passes, Recodes \* bounds: runs of a pass, fixes the pipeline reads again

ASSUME RoadConstants ==
  /\ \A d \in Drives : /\ d \in Seq(Nat) /\ d # <<>>
                        /\ \A i, j \in 1 .. Len(d) : i < j => d[i] <= d[j]
  /\ Places \subseteq Nat
  /\ {MaxSpeed, MinSpike, DetourRatio, MaxInterpGap, MaxGap, Passes, Recodes} \subseteq Nat

VARIABLES
  filmed,         \* date_filmed of the clips
  place, source,  \* lat and lng, and coord_source
  driven,         \* miles_driven, -1 for NULL
  script,         \* what --output-sql printed and nobody has applied yet
  passes, recodes,
  read, sound     \* for the properties: the readings, and whether they are a
                  \* road that can be driven with no script older than they are

roadVars == <<filmed, place, source, driven, script, passes, recodes, read, sound>>

RoadClips == DOMAIN filmed
NoMiles == -1

Apart(p, q) == IF p > q THEN p - q ELSE q - p

\* A reading and the next one.
Adjacent(pos, i, j) ==
  i < j /\ pos[i] # 0 /\ pos[j] # 0 /\ \A k \in i + 1 .. j - 1 : pos[k] = 0

Drivable(at, pos) ==
  \A i, j \in DOMAIN at :
    Adjacent(pos, i, j) => Apart(pos[i], pos[j]) <= MaxSpeed * (at[j] - at[i])

RoadInit ==
  /\ filmed \in Drives /\ place \in [DOMAIN filmed -> Places]
  /\ source = [i \in DOMAIN filmed |-> "ocr"]
  /\ driven = [i \in DOMAIN filmed |-> NoMiles]
  /\ script = <<>> /\ passes = 0 /\ recodes = 0
  /\ read = place /\ sound = Drivable(filmed, place)

HasPass == passes < Passes /\ passes' = passes + 1

-----------------------------------------------------------------------------
(* backfill-coords, analyze.  w is the working state: positions, which of them  *)
(* anchor their neighbours, and which were rejected or made up on the way.      *)

PrevTrue(b, i) == Max({0} \cup {k \in 1 .. i - 1 : b[k]})
NextTrue(b, i) == Min({Len(b) + 1} \cup {k \in i + 1 .. Len(b) : b[k]})
Bracketed(w, i) == PrevTrue(w.fix, i) > 0 /\ NextTrue(w.fix, i) <= Len(w.at)

\* Mutant: the detour alone convicts.
AnySpeed(w, a, i) == TRUE

Unreachable(w, a, i) == Apart(w.pos[a], w.pos[i]) > MaxSpeed * (w.at[i] - w.at[a])

\* A reading that juts far from both neighbours and snaps back, faster than a
\* van drives; a boundary between sessions is not judged.
Spike(w, i) ==
  LET prev == PrevTrue(w.fix, i) next == NextTrue(w.fix, i)
      excursion == Apart(w.pos[prev], w.pos[i])
      direct == Apart(w.pos[prev], w.pos[next])
  IN  /\ w.fix[i] /\ ~w.made[i] /\ Bracketed(w, i)
      /\ w.at[i] - w.at[prev] <= MaxInterpGap /\ w.at[next] - w.at[i] <= MaxInterpGap
      /\ excursion > MinSpike
      /\ excursion + Apart(w.pos[i], w.pos[next]) > direct * DetourRatio
      /\ Unreachable(w, prev, i)

\* In film order: a fix rejected no longer brackets those after it.
Detect(w) ==
  LET judged[i \in 0 .. Len(w.at)] ==
        IF i = 0 THEN [w EXCEPT !.found = FALSE]
        ELSE IF Spike(judged[i - 1], i)
             THEN [judged[i - 1] EXCEPT !.fix[i] = FALSE, !.outlier[i] = TRUE, !.found = TRUE]
             ELSE judged[i - 1]
  IN  judged[Len(w.at)]

InterpAt(ta, tb, p, q, t) == IF tb = ta THEN p ELSE p + ((t - ta) * (q - p)) \div (tb - ta)

\* Holes between two anchors of one session, by film time.
Fillable(w, i) ==
  /\ ~w.fix[i] /\ Bracketed(w, i)
  /\ w.at[NextTrue(w.fix, i)] - w.at[PrevTrue(w.fix, i)] <= MaxInterpGap

Interpolate(w) ==
  LET Between(i) == LET from == PrevTrue(w.fix, i)
                        to == NextTrue(w.fix, i)
                    IN  InterpAt(w.at[from], w.at[to], w.pos[from], w.pos[to], w.at[i])
  IN  [w EXCEPT
        !.pos  = [i \in 1 .. Len(w.at) |-> IF Fillable(w, i) THEN Between(i) ELSE w.pos[i]],
        !.fix  = [i \in 1 .. Len(w.at) |-> w.fix[i] \/ Fillable(w, i)],
        !.made = [i \in 1 .. Len(w.at) |-> w.made[i] \/ Fillable(w, i)]]

\* Detect and interpolate until a pass finds no new outlier.
Analyze(at, pos) ==
  LET none == [i \in DOMAIN at |-> FALSE]
      start == [at |-> at, pos |-> pos, fix |-> [i \in DOMAIN at |-> pos[i] # 0],
                outlier |-> none, made |-> none, found |-> TRUE]
      After[k \in 0 .. Len(at) + 1] ==
        IF k = 0 THEN start
        ELSE IF After[k - 1].found THEN Interpolate(Detect(After[k - 1])) ELSE After[k - 1]
  IN  After[Len(at) + 1]

\* An outlier nothing could replace keeps its coordinate, for review.
Decisions(w, pos) ==
  [i \in DOMAIN pos |->
     IF w.made[i] THEN [source |-> "interpolated", place |-> w.pos[i]]
     ELSE IF pos[i] = 0 /\ ~w.outlier[i] THEN [source |-> "missing", place |-> 0]
     ELSE [source |-> "keep", place |-> pos[i]]]

Corrected(d) ==
  /\ place' = [i \in RoadClips |->
                 IF d[i].source = "interpolated" THEN d[i].place ELSE place[i]]
  /\ source' = [i \in RoadClips |-> IF d[i].source = "keep" THEN source[i] ELSE d[i].source]

ApplyCoords ==
  /\ HasPass /\ Corrected(Decisions(Analyze(filmed, place), place))
  /\ UNCHANGED <<filmed, driven, script, recodes, read, sound>>

\* --output-sql: the decisions of now, for a database as it is later.
PrintCoords ==
  /\ HasPass /\ script = <<>> /\ script' = Decisions(Analyze(filmed, place), place)
  /\ UNCHANGED <<filmed, place, source, driven, recodes, read, sound>>

RunScript ==
  /\ script # <<>> /\ Corrected(script) /\ script' = <<>>
  /\ UNCHANGED <<filmed, driven, passes, recodes, read, sound>>

-----------------------------------------------------------------------------
(* backfill-miles-driven, analyze. *)

Usable(i) == place[i] # 0 /\ source[i] \in {"ocr", "interpolated"}

\* Mutant: each clip is measured to the end of the drive.
LastFix(i) == Max({j \in RoadClips : Usable(j)})

NextFix(i) == Min({j \in RoadClips : j > i /\ Usable(j)})

Driven(i) ==
  IF ~Usable(i) \/ {j \in RoadClips : j > i /\ Usable(j)} = {} THEN NoMiles
  ELSE LET gap == filmed[NextFix(i)] - filmed[i]
           miles == Apart(place[i], place[NextFix(i)])
       IN  IF gap <= 0 \/ gap > MaxGap \/ miles > MaxSpeed * gap THEN NoMiles ELSE miles

ApplyMiles ==
  /\ HasPass /\ driven' = [i \in RoadClips |-> Driven(i)]
  /\ UNCHANGED <<filmed, place, source, script, recodes, read, sound>>

\* The pipeline reads a clip's overlay again.
Recoded(i) ==
  /\ recodes < Recodes /\ recodes' = recodes + 1
  /\ \E p \in Places \ {0} :
       place' = [place EXCEPT ![i] = p] /\ read' = [read EXCEPT ![i] = p]
  /\ sound' = (sound /\ script = <<>> /\ Drivable(filmed, place'))
  /\ source' = [source EXCEPT ![i] = "ocr"]
  /\ UNCHANGED <<filmed, driven, script, passes>>

RoadNext ==
  \/ ApplyCoords \/ PrintCoords \/ RunScript \/ ApplyMiles
  \/ \E i \in RoadClips : Recoded(i)

RoadSpec == RoadInit /\ [][RoadNext]_roadVars

-----------------------------------------------------------------------------
(* Properties. *)

RoadTypeOK ==
  /\ \A i \in RoadClips : place[i] \in Nat /\ driven[i] >= NoMiles
  /\ \A i \in RoadClips : source[i] \in {"ocr", "interpolated", "missing"}

\* A road the van could have driven is never rewritten: while every reading is
\* within reach of the one before it, the passes only fill holes, however often
\* they run and whichever way they write (backfill-coords.go, "A genuine fast
\* stretch or one-sided position change ... is left alone").
DrivableRoadStays == sound => \A i \in RoadClips : read[i] # 0 => place[i] = read[i]

\* The distances credited to the clips never add up to more than the van can
\* drive while they were filmed, whatever was corrected, scripted or read again
\* between two runs of the pass.
Credited == [i \in RoadClips |-> Max({0, driven[i]})]
MilesFitTheFilm ==
  MapThenSumSet(LAMBDA i : Credited[i], RoadClips)
    <= MaxSpeed * (filmed[Len(filmed)] - filmed[1])

\* The passes leave a road the van could have driven: the readings it could
\* have made stand, and the miles credited are no more than it could drive
\* (backfill-coords, backfill-miles-driven).
RoadStandsUp == DrivableRoadStays /\ MilesFitTheFilm
=============================================================================
