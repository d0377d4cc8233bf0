---------------------------- MODULE Achievements ----------------------------
(* What viewers unlock by what is on screen.  Every change of the clip runs a   *)
(* hook: one transaction that marks the day for those in chat, awards whoever   *)
(* has enough days of the clip's state, and those in chat for a landmark it     *)
(* passes; then the new ones are told, for now to the log alone.  A process     *)
(* runs one hook at a time, and none for the clip it boots on; in a rolling     *)
(* update two processes do.  Postgres reads committed rows, each statement      *)
(* anew, and ON CONFLICT waits for another transaction's row.                   *)
EXTENDS Integers, Sequences, FiniteSets

CONSTANTS
  Viewers, Hooks,      \* who watches, and the processes that run a hook
  Stretches, Where, PassesBy,   \* of each clip: its state or Nowhere, and its landmarks
  Nowhere,
  VisitTiers,          \* the days of each tier, increasing
  Days, Changes, Slips   \* bounds: the calendar, changes of the clip, and failing
                         \* statements, lost answers and restarts

ASSUME AchievementConstants ==
  /\ VisitTiers \in Seq(Nat \ {0}) /\ {Days, Changes, Slips} \subseteq Nat

VARIABLES
  visited,   \* user_state_days: [viewer, state, day]
  awarded,   \* achievements: [viewer, name]
  hook,      \* what each process's hook is doing, with the rows it has not committed
  told, twice,     \* what was announced, and what was announced again
  complete,  \* history: the states in whose last hook no other's days were put down
  sighted,   \* history: who was in chat when a clip with a landmark came on
  today, changes, slips

awardVars == <<visited, awarded, hook, told, twice, complete, sighted, today, changes, slips>>

Tiers == {VisitTiers[k] : k \in DOMAIN VisitTiers}
Regions == {Where[c] : c \in Stretches} \ {Nowhere}
Landmarks == UNION {PassesBy[c] : c \in Stretches}
Visit == [viewer : Viewers, state : Regions, day : 0 .. Days]
Name == [state : Regions, days : Tiers] \cup [landmark : Landmarks]
Earned == [viewer : Viewers, name : Name]
Unhooked == [step |-> "idle"]
Telling == [step : {"tell"}, won : SUBSET Earned]
Transaction == [step : {"visits", "tiers", "landmarks", "commit"}, clip : Stretches,
                crowd : SUBSET Viewers, day : 0 .. Days, tier : 1 .. (Len(VisitTiers) + 1),
                beside : BOOLEAN, days : SUBSET Visit, won : SUBSET Earned]

AwardsInit ==
  /\ visited = {} /\ awarded = {} /\ hook = [h \in Hooks |-> Unhooked]
  /\ told = {} /\ twice = {} /\ complete = Regions /\ sighted = {}
  /\ today = 0 /\ changes = 0 /\ slips = 0

Slip == slips < Slips /\ slips' = slips + 1
Running(h) == hook[h].step \notin {"idle", "tell"}
Others(h) == {g \in Hooks \ {h} : Running(g)}
AwardLedger == <<told, twice, complete, sighted>>

-----------------------------------------------------------------------------
(* The transaction. *)

\* A landmark the clip passes is won by those in chat.
Passing(crowd, c) == {[viewer |-> v, name |-> [landmark |-> l]] : v \in crowd, l \in PassesBy[c]}

\* CURRENT_DATE is the day on which the transaction began.
ClipChanges(h) ==
  /\ hook[h] = Unhooked /\ changes < Changes /\ changes' = changes + 1
  /\ \E c \in Stretches, crowd \in SUBSET Viewers :
       /\ hook' = [hook EXCEPT ![h] =
            [step |-> "visits", clip |-> c, crowd |-> crowd, day |-> today,
             tier |-> 1, beside |-> FALSE, days |-> {}, won |-> {}]]
       /\ sighted' = sighted \cup Passing(crowd, c)
  /\ UNCHANGED <<visited, awarded, told, twice, complete, today, slips>>

UpsertVisits(h) ==
  LET c == hook[h].clip
      rows == IF Where[c] = Nowhere THEN {}
              ELSE {[viewer |-> v, state |-> Where[c], day |-> hook[h].day] : v \in hook[h].crowd}
  IN  /\ hook[h].step = "visits"
      /\ \A g \in Others(h) : hook[g].days \cap rows = {}
      /\ hook' = [hook EXCEPT ![h].step = IF Where[c] = Nowhere THEN "landmarks" ELSE "tiers",
                              ![h].days = rows \ visited]
      /\ UNCHANGED <<visited, awarded, AwardLedger, today, changes, slips>>

\* Rows of user_state_days that a statement of h reads.
Read(h) == visited \cup hook[h].days
DaysOf(v, s, rows) == Cardinality({r.day : r \in {q \in rows : q.viewer = v /\ q.state = s}})

\* Mutant: the day that reaches the tier does not count.
Passed(v, s, tier, rows) == DaysOf(v, s, rows) > tier
Reached(v, s, tier, rows) == DaysOf(v, s, rows) >= tier

\* ON CONFLICT: what is on record is passed over, what another hook is about to
\* put there is waited for.
Insert(h, rows, to, tier) ==
  /\ \A g \in Others(h) : hook[g].won \cap rows = {}
  /\ hook' = [hook EXCEPT ![h].step = to, ![h].tier = tier,
                          ![h].won = @ \cup (rows \ awarded)]
  /\ UNCHANGED <<visited, awarded, AwardLedger, today, changes, slips>>

\* stateVisitSQL, of one tier: whoever has the days, in chat or not.
StateVisits(h) ==
  LET s == Where[hook[h].clip]  k == hook[h].tier
  IN  /\ hook[h].step = "tiers" /\ k \in DOMAIN VisitTiers
      /\ Insert(h, {[viewer |-> v, name |-> [state |-> s, days |-> VisitTiers[k]]] :
                      v \in {u \in Viewers : Reached(u, s, VisitTiers[k], Read(h))}},
                IF k = Len(VisitTiers) THEN "landmarks" ELSE "tiers", k + 1)

Sightings(h) ==
  /\ hook[h].step = "landmarks"
  /\ Insert(h, Passing(hook[h].crowd, hook[h].clip), "commit", hook[h].tier)

\* A hook that has read the days of the state already has read without these.
HasRead(g, s) == Running(g) /\ Where[hook[g].clip] = s /\ hook[g].tier > 1

Committed(h, to) ==
  LET s == Where[hook[h].clip]
  IN  /\ visited' = visited \cup hook[h].days
      /\ awarded' = awarded \cup hook[h].won
      /\ hook' = [g \in Hooks |-> IF g = h THEN to
                                  ELSE IF HasRead(g, s) THEN [hook[g] EXCEPT !.beside = TRUE]
                                  ELSE hook[g]]
      /\ complete' = IF s = Nowhere THEN complete
                     ELSE IF hook[h].beside THEN complete \ {s} ELSE complete \cup {s}

Commit(h) ==
  /\ hook[h].step = "commit"
  /\ \/ /\ Committed(h, [step |-> "tell", won |-> hook[h].won]) /\ UNCHANGED slips
     \/ Committed(h, Unhooked) /\ Slip          \* its answer is lost
  /\ UNCHANGED <<told, twice, sighted, today, changes>>

\* A statement fails, or the process stops: nothing is kept, and nobody told.
Abandoned(h) ==
  /\ hook[h] # Unhooked /\ Slip
  /\ hook' = [hook EXCEPT ![h] = Unhooked]
  /\ UNCHANGED <<visited, awarded, AwardLedger, today, changes>>

Announce(h) ==
  /\ hook[h].step = "tell"
  /\ told' = told \cup hook[h].won /\ twice' = twice \cup (told \cap hook[h].won)
  /\ hook' = [hook EXCEPT ![h] = Unhooked]
  /\ UNCHANGED <<visited, awarded, complete, sighted, today, changes, slips>>

Midnight ==
  /\ today < Days /\ today' = today + 1
  /\ UNCHANGED <<visited, awarded, hook, AwardLedger, changes, slips>>

AwardsNext ==
  \/ \E h \in Hooks : \/ ClipChanges(h) \/ UpsertVisits(h) \/ StateVisits(h) \/ Sightings(h)
                      \/ Commit(h) \/ Abandoned(h) \/ Announce(h)
  \/ Midnight

AwardsSpec == AwardsInit /\ [][AwardsNext]_awardVars

-----------------------------------------------------------------------------
(* Properties. *)

(* Every variable has its type. *)
AwardsTypeOK ==
  /\ visited \subseteq Visit /\ {awarded, told, twice, sighted} \subseteq SUBSET Earned
  /\ complete \subseteq Regions
  /\ today \in 0 .. Days /\ changes \in 0 .. Changes /\ slips \in 0 .. Slips
  /\ hook \in [Hooks -> {Unhooked} \cup Telling \cup Transaction]

\* What a row of achievements rests on.
Deserved(e) ==
  IF "landmark" \in DOMAIN e.name THEN e \in sighted
  ELSE DaysOf(e.viewer, e.name.state, visited) >= e.name.days

\* Nothing is on record, and nothing told, that was not earned.
AwardsAreDeserved == told \subseteq awarded /\ \A e \in awarded : Deserved(e)

\* An achievement is announced once, though two processes see it unlocked.
ToldOnce == twice = {}

\* A state's days are all honoured: a hook that failed, or a death between the
\* two, is made good by the next one of the state (achievements.go: "a missed
\* tick self-heals on the next clip change"), unless another process's hook put
\* down its days in the midst of that one.
NothingForgotten ==
  \A s \in complete, v \in Viewers, t \in Tiers :
    DaysOf(v, s, visited) >= t => [viewer |-> v, name |-> [state |-> s, days |-> t]] \in awarded

AwardsAgree == AwardsAreDeserved /\ ToldOnce /\ NothingForgotten
=============================================================================
