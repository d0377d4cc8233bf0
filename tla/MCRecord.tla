------------------------------ MODULE MCRecord ------------------------------
(* What is on record of what was filmed, shown and watched, and what is said    *)
(* and won of it, one part at a time: cast says which of an instance's          *)
(* goroutines, or the operator's passes, a behaviour has.                       *)
EXTENDS Footage, Audience, Backfills, LocationFeed, Achievements, TLC

CONSTANTS a, b, d, p1, p2, k1, s1, s2, s3, s4

VARIABLE cast

\* A clip on each side of a state line, and one that playout has and the
\* pipeline never gave a row.
TheRoad == <<[clip |-> a, state |-> "CO"], [clip |-> b, state |-> "UT"],
             [clip |-> d, state |-> NoState]>>

\* One stretch filmed in a row, with a pause no reading is judged across in some.
TheDrives == {<<1, 3, 5, 6>>, <<1, 2, 4, 9>>}

\* Two cells of one state, a third over its line, and the first on another day.
SceneDay == s1 :> 1 @@ s2 :> 1 @@ s3 :> 1 @@ s4 :> 2
SceneRegion == s1 :> "UT" @@ s2 :> "UT" @@ s3 :> "CO" @@ s4 :> "UT"
SceneCell == s1 :> 1 @@ s2 :> 2 @@ s3 :> 3 @@ s4 :> 1
SceneHour == s1 :> 1 @@ s2 :> 1 @@ s3 :> 1 @@ s4 :> 2

\* A state with and without a landmark, and a landmark without a state.
StretchState == a :> "UT" @@ b :> "UT" @@ d :> NoState
StretchSights == a :> {} @@ b :> {"devils-tower"} @@ d :> {"devils-tower"}
FirstAndNext == <<1, 2>>

RecordInit ==
  /\ FootageInit /\ AudienceInit /\ RoadInit /\ FeedInit /\ AwardsInit /\ screen = 1
  /\ cast \in {"plays", "crossings", "audience", "passes", "asking", "wire", "awards"}
  /\ showing = s1
  /\ cast # "passes" => place = [i \in 1 .. 4 |-> 0] /\ filmed = <<1, 3, 5, 6>>

\* Overlapping polls and commands, without the ticks of TrackState: the row
\* that is open, the one before it and the one after.
PlaysNext == FootageNext /\ UNCHANGED <<report, track>> /\ Len(plays') <= 3

\* TrackState beside the polls, while nothing jumps, to the
\* first row of plays.
CrossingsNext == FootageNext /\ UNCHANGED jumps /\ Len(plays') <= 1

\* What is asked of the services, with nobody at the other end.
AskingNext ==
  /\ FeedNext /\ minute' <= 2 /\ mishaps' = 0
  /\ ~connected' /\ corner' = Silent /\ (picked' # picked => minute = picked + Swap)

\* The way to the corners, of one tick at a time and two clips.
WireNext ==
  /\ FeedNext /\ showing' \in {s1, s4} /\ moves' <= 1
  /\ \A e, f \in Emitters : emit'[e] # AtRest /\ emit'[f] # AtRest => e = f

RecordNext ==
  /\ UNCHANGED cast
  /\ \/ cast = "plays" /\ PlaysNext /\ UNCHANGED <<audienceVars, roadVars, feedVars, awardVars>>
     \/ cast = "crossings" /\ CrossingsNext
        /\ UNCHANGED <<audienceVars, roadVars, feedVars, awardVars>>
     \/ cast = "audience" /\ AudienceNext /\ UNCHANGED <<footageVars, roadVars, feedVars, awardVars>>
     \/ cast = "passes" /\ RoadNext /\ UNCHANGED <<footageVars, audienceVars, feedVars, awardVars>>
     \/ cast = "asking" /\ AskingNext /\ UNCHANGED <<footageVars, audienceVars, roadVars, awardVars>>
     \/ cast = "wire" /\ WireNext /\ UNCHANGED <<footageVars, audienceVars, roadVars, awardVars>>
     \/ cast = "awards" /\ AwardsNext /\ UNCHANGED <<footageVars, audienceVars, roadVars, feedVars>>

RecordSpec ==
  RecordInit /\ [][RecordNext]_<<footageVars, audienceVars, roadVars, feedVars, awardVars, cast>>

\* The goroutines, jobs and pods of every part are the same two.
Overlapping == Permutations(Pollers) \cup Permutations(Viewers)
=============================================================================
