-------------------------- MODULE SilentDisconnect --------------------------
(***************************************************************************)
(* pkg/obs/watchdog, WatchSilentDisconnect: the loop that forces a restart *)
(* of the stream when OBS says it is pushing and the platform says the     *)
(* channel is offline.                                                     *)
(*                                                                         *)
(* One goroutine runs the loop, so a tick is one step: it reads OBS, asks  *)
(* the platform, and may call Restart. What it reads is the environment's  *)
(* choice, and so is whether a restart works: Restart replaces nothing in  *)
(* the loop's own state but through its error. Times are kept as ages in   *)
(* units of the tick interval, capped where the code stops telling them    *)
(* apart.                                                                  *)
(***************************************************************************)
EXTENDS Integers

CONSTANTS
  Threshold,   \* misses that declare the channel dead
  Cooldown,    \* between two restarts, unless the first one held
  Grace,       \* reconnectGrace
  MaxRounds,   \* maxRecoveryRounds
  MaxSilence,  \* environment: unanswered live-checks in a row
  Gaps         \* environment: intervals between two ticks (a slow tick drops
               \* the ones that fall inside it)

ASSUME ConstantsOK ==
  /\ Threshold \in Nat \ {0} /\ Cooldown \in Nat /\ Grace \in Nat
  /\ MaxRounds \in Nat \ {0} /\ MaxSilence \in Nat
  /\ Gaps \subseteq Nat \ {0}

\* The answers of OBSState and ChannelLive.
OBSReadings == {"unreachable", "inactive", "reconnecting", "steady"}
Answers     == {"live", "offline", "error", "unasked"}

StaleAfter == Threshold     \* staleAfter, in intervals
Never      == -1            \* a zero time.Time

VARIABLES
  misses, liveStreak,
  lastRestart,       \* its age, or Never
  lastAnswer,        \* its age
  reconnectingSince, \* its age, or Never
  rounds, exhausted,
  (* What the loop saw and did in its last tick. *)
  gap,               \* intervals since the tick before
  saw, answer, restarted,
  (* History: the environment's side of the story. *)
  silence,    \* live-checks that failed since the last answer
  liveRun,    \* live answers since the last offline one
  forced,     \* restarts since the channel last stayed live, or OBS was idle
  sinceForced \* age of the last restart, or Never

loopVars == <<misses, liveStreak, lastRestart, lastAnswer, reconnectingSince,
              rounds, exhausted>>
tickVars == <<gap, saw, answer, restarted>>
histVars == <<silence, liveRun, forced, sinceForced>>
vars == <<loopVars, tickVars, histVars>>

Smaller(a, b) == IF a < b THEN a ELSE b

Longest == Cooldown + Grace + StaleAfter + 1  \* ages beyond it are all alike

\* The age of an event d intervals later.
Aged(age, d) == IF age = Never THEN Never ELSE Smaller(age + d, Longest)

Ages == {Never} \cup 0 .. Longest

TypeOK ==
  /\ misses \in 0 .. Threshold /\ liveStreak \in 0 .. Threshold
  /\ lastRestart \in Ages /\ lastAnswer \in Ages /\ reconnectingSince \in Ages
  /\ rounds \in 0 .. MaxRounds /\ exhausted \in BOOLEAN
  /\ gap \in Gaps \cup {0}
  /\ saw \in OBSReadings /\ answer \in Answers /\ restarted \in BOOLEAN
  /\ silence \in 0 .. MaxSilence /\ liveRun \in 0 .. Threshold
  /\ forced \in Nat /\ sinceForced \in Ages

-----------------------------------------------------------------------------
(* The clauses a tick is made of *)

\* rearm(): the recoveries are given back, the alert goes down.
RearmLeavesAlert == rounds' = 0 /\ UNCHANGED exhausted
Rearm == rounds' = 0 /\ exhausted' = FALSE

\* Are the recoveries used up?
SpentLate == rounds > MaxRounds
Spent == rounds >= MaxRounds

\* Within its grace a reconnect is left to OBS.
GraceForever(since) == TRUE
InGrace(since) == since < Grace

\* Misses with no answer around for as long as it takes to collect them.
StaleAtOnce(age) == TRUE
Stale(age) == age = Never \/ age > StaleAfter

\* A recovery that stayed live for as long as it takes to declare a death.
HeldAtOnce(streak) == streak >= 1 /\ lastRestart # Never
Held(streak) == streak >= Threshold /\ lastRestart # Never

\* It ends the cooldown and gives the recoveries back.
RetireOnlyCooldown == lastRestart' = Never /\ UNCHANGED <<rounds, exhausted>>
Retire == lastRestart' = Never /\ Rearm

\* The cooldown bites on attempts, failed ones included.
CoolingNever(since) == FALSE
Cooling(since) == since # Never /\ since < Cooldown

\* When OBS is stopped, a stood-down loop starts afresh.
AfterStop ==
  IF rounds > 0 THEN Rearm ELSE UNCHANGED <<rounds, exhausted>>

-----------------------------------------------------------------------------
(* The tick *)

\* Time passes to the next tick, which reads o and, if it asks, a.
Reads(o, a) ==
  /\ saw' = o /\ answer' = a
  /\ silence' = IF a = "error" THEN silence + 1
                ELSE IF a = "unasked" THEN silence ELSE 0
  /\ liveRun' = IF a = "live" THEN Smaller(liveRun + 1, Threshold)
                ELSE IF a = "offline" THEN 0 ELSE liveRun

\* The restarts that count against the channel.
NoRestart(d) ==
  /\ restarted' = FALSE
  /\ LET stayedLive == answer' = "live" /\ liveRun' = Threshold IN
     /\ forced' = IF saw' = "inactive" \/ stayedLive THEN 0 ELSE forced
     /\ sinceForced' = IF stayedLive THEN Never ELSE Aged(sinceForced, d)

Unreachable(d) ==
  /\ Reads("unreachable", "unasked") /\ NoRestart(d)
  /\ misses' = 0
  /\ lastRestart' = Aged(lastRestart, d) /\ lastAnswer' = Aged(lastAnswer, d)
  /\ reconnectingSince' = Aged(reconnectingSince, d)
  /\ UNCHANGED <<liveStreak, rounds, exhausted>>

Inactive(d) ==
  /\ Reads("inactive", "unasked") /\ NoRestart(d)
  /\ misses' = 0 /\ reconnectingSince' = Never
  /\ AfterStop
  /\ lastRestart' = Aged(lastRestart, d) /\ lastAnswer' = Aged(lastAnswer, d)
  /\ UNCHANGED liveStreak

\* The age of the reconnect this tick reads.
Reconnect(d) ==
  IF reconnectingSince = Never THEN 0 ELSE Aged(reconnectingSince, d)

Hold(d) ==
  /\ Reads("reconnecting", "unasked") /\ NoRestart(d)
  /\ InGrace(Reconnect(d))
  /\ reconnectingSince' = Reconnect(d)
  /\ lastRestart' = Aged(lastRestart, d) /\ lastAnswer' = Aged(lastAnswer, d)
  /\ UNCHANGED <<misses, liveStreak, rounds, exhausted>>

\* OBS is pushing, as far as the loop is concerned: the platform is asked.
Pushing(o, d) ==
  \/ o = "steady" /\ reconnectingSince' = Never
  \/ o = "reconnecting" /\ ~InGrace(Reconnect(d))
     /\ reconnectingSince' = Reconnect(d)

NoAnswer(o, d) ==
  /\ silence < MaxSilence
  /\ Reads(o, "error") /\ NoRestart(d)
  /\ Pushing(o, d)
  /\ misses' = IF Stale(Aged(lastAnswer, d)) THEN 0 ELSE misses
  /\ lastRestart' = Aged(lastRestart, d) /\ lastAnswer' = Aged(lastAnswer, d)
  /\ UNCHANGED <<liveStreak, rounds, exhausted>>

Live(o, d) ==
  /\ Reads(o, "live") /\ NoRestart(d)
  /\ Pushing(o, d)
  /\ misses' = 0 /\ lastAnswer' = 0
  /\ liveStreak' = Smaller(liveStreak + 1, Threshold)
  /\ IF Held(liveStreak')
     THEN Retire
     ELSE lastRestart' = Aged(lastRestart, d) /\ UNCHANGED <<rounds, exhausted>>

\* The channel is offline. One more miss, and nothing is done about it yet.
Suspect(o, d) ==
  /\ Reads(o, "offline") /\ NoRestart(d)
  /\ Pushing(o, d)
  /\ liveStreak' = 0 /\ lastAnswer' = 0
  /\ misses' = Smaller(misses + 1, Threshold)
  /\ lastRestart' = Aged(lastRestart, d)
  /\ \/ misses' < Threshold /\ UNCHANGED exhausted
     \/ misses' = Threshold /\ Spent /\ exhausted' = TRUE
     \/ /\ misses' = Threshold /\ ~Spent
        /\ Cooling(Aged(lastRestart, d)) /\ UNCHANGED exhausted
  /\ UNCHANGED rounds

\* It has been offline for long enough: Restart, which may fail.
Restart(o, d, ok) ==
  /\ Reads(o, "offline")
  /\ o = "reconnecting" => ~InGrace(Reconnect(d))
  /\ o \in {"steady", "reconnecting"}
  /\ misses + 1 >= Threshold /\ ~Spent
  /\ ~Cooling(Aged(lastRestart, d))
  /\ restarted' = TRUE /\ forced' = forced + 1 /\ sinceForced' = 0
  /\ liveStreak' = 0 /\ lastAnswer' = 0
  /\ lastRestart' = 0 /\ rounds' = rounds + 1 /\ reconnectingSince' = Never
  /\ misses' = IF ok THEN 0 ELSE Smaller(misses + 1, Threshold)
  /\ UNCHANGED exhausted

Tick(d) ==
  \/ Unreachable(d) \/ Inactive(d) \/ Hold(d)
  \/ \E o \in {"steady", "reconnecting"} :
       \/ NoAnswer(o, d) \/ Live(o, d) \/ Suspect(o, d)
       \/ \E ok \in BOOLEAN : Restart(o, d, ok)

Init ==
  /\ misses = 0 /\ liveStreak = 0
  /\ lastRestart = Never /\ lastAnswer = Never /\ reconnectingSince = Never
  /\ rounds = 0 /\ exhausted = FALSE
  /\ gap = 0 /\ saw = "unreachable" /\ answer = "unasked" /\ restarted = FALSE
  /\ silence = 0 /\ liveRun = 0 /\ forced = 0 /\ sinceForced = Never

Next == \E d \in Gaps : gap' = d /\ Tick(d)

Spec == Init /\ [][Next]_vars

\* The loop's goroutine runs, and its ticker fires.
FairSpec == Spec /\ WF_vars(Next)

-----------------------------------------------------------------------------
(* Properties *)

\* A recovery that does not hold is tried MaxRounds times and no more: unless
\* the channel stayed live in between, or the output was stopped, the restarts
\* end. (What stops the churn of 80 restarts in a night.)
NoChurn == forced <= MaxRounds

\* ... and two of them are Cooldown apart, however the first one ended and
\* whatever the loop read in between, unless the first one held.
RestartsAreSpaced ==
  [][restarted' =>
       sinceForced = Never \/ Aged(sinceForced, gap') >= Cooldown]_vars

\* A loop that counts a recovery remembers when it ran it, for only then can a
\* channel that comes back give the recoveries back.
CanRearm == rounds > 0 => lastRestart # Never

\* An outage OBS does not notice and no restart cures is reported: a channel
\* that stays dark while OBS keeps pushing uses the recoveries up, even when
\* the live-check answers only now and then.
OutageIsReported ==
  <>[](saw = "steady" /\ answer \in {"offline", "error"}) => <>[]exhausted

\* The same when what OBS does is reconnect and never get there.
StuckReconnectIsReported ==
  <>[](saw = "reconnecting" /\ answer # "live") => <>[]exhausted

\* A channel that is back is watched again: the alert goes down and the next
\* outage finds all its recoveries.
BackIsRearmed ==
  <>[](saw = "steady" /\ answer \in {"live", "error"}) =>
    <>[](~exhausted /\ rounds = 0)

\* Whatever lasts is dealt with: an outage is reported, of either kind, and a
\* recovery re-arms the loop (Watchdog.Run, Alert, rearm).
OutagesAreSettled == OutageIsReported /\ StuckReconnectIsReported /\ BackIsRearmed
=============================================================================
