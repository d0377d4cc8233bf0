---------------------------- MODULE OutputsProofs ---------------------------
(***************************************************************************)
(* What TLAPS proves of the output's watchdogs: of the silent-disconnect   *)
(* loop for every threshold, cooldown, grace, number of rounds and spacing *)
(* of the ticks, and of the restarts of the output for every number of     *)
(* attempts, faults, broadcasts, operator's interventions and exits; of    *)
(* the background audio for every set of stations and voicings, number of  *)
(* requests and of faults; and of the road the map is given to draw, for   *)
(* every corpus, epsilon and gap.                                          *)
(***************************************************************************)
EXTENDS SilentDisconnect, OutputRestart, BackgroundAudio, Atlas, Sums, TLAPS

-----------------------------------------------------------------------------
(* The silent-disconnect loop                                              *)

\* The loop's counters follow the environment's story: the live streak is the
\* run of live answers, the rounds are the restarts that did not hold, and the
\* cooldown is measured from the last of them.
Following ==
  /\ liveStreak = liveRun
  /\ rounds = forced
  /\ lastRestart = sinceForced

(* TypeOK, in three parts. *)
LoopTyped ==
  /\ misses \in 0 .. Threshold /\ liveStreak \in 0 .. Threshold
  /\ lastRestart \in Ages /\ lastAnswer \in Ages /\ reconnectingSince \in Ages
  /\ rounds \in 0 .. MaxRounds

HistTyped ==
  /\ gap \in Gaps \cup {0}
  /\ saw \in OBSReadings /\ answer \in Answers
  /\ silence \in 0 .. MaxSilence /\ liveRun \in 0 .. Threshold
  /\ forced \in Nat /\ sinceForced \in Ages

FlagsTyped == exhausted \in BOOLEAN /\ restarted \in BOOLEAN

Inv == TypeOK /\ Following /\ CanRearm

LEMMA AgesAreNaturals == Longest \in Nat /\ Longest > Cooldown
BY ConstantsOK DEF Longest, StaleAfter

LEMMA AgedIsAge ==
  ASSUME NEW age \in Ages, NEW d \in Gaps
  PROVE  /\ Aged(age, d) \in Ages
         /\ Aged(age, d) = Never <=> age = Never
BY ConstantsOK, AgesAreNaturals DEF Aged, Ages, Never, Smaller

LEMMA ReconnectIsAge ==
  ASSUME reconnectingSince \in Ages, NEW d \in Gaps
  PROVE  Reconnect(d) \in Ages
BY AgedIsAge, AgesAreNaturals DEF Reconnect, Ages

LEMMA ThresholdIsPositive ==
  Threshold \in Nat /\ Threshold > 0 /\ MaxRounds \in Nat /\ MaxRounds > 0
BY ConstantsOK

LEMMA InvInitially == Init => Inv
<1>. SUFFICES ASSUME Init
              PROVE  Inv
  OBVIOUS
<1>1. 0 \in Ages /\ Never \in Ages
  BY AgesAreNaturals DEF Ages
<1>2. TypeOK
  <2>1. LoopTyped
    BY <1>1, ThresholdIsPositive DEF Init, LoopTyped
  <2>2. HistTyped
    BY <1>1, ThresholdIsPositive, ConstantsOK
       DEF Init, HistTyped, OBSReadings, Answers
  <2>3. FlagsTyped
    BY DEF Init, FlagsTyped
  <2>. QED
    BY <2>1, <2>2, <2>3 DEF TypeOK, LoopTyped, HistTyped, FlagsTyped
<1>3. Following /\ CanRearm
  BY DEF Init, Following, CanRearm
<1>. QED
  BY <1>2, <1>3 DEF Inv

LEMMA TickKeepsInv ==
  ASSUME Inv, NEW d \in Gaps, gap' = d, Tick(d)
  PROVE  Inv'
<1>. USE ThresholdIsPositive, AgesAreNaturals
   DEF Inv, TypeOK, Following, CanRearm
<1>1. /\ Aged(lastRestart, d) \in Ages /\ Aged(lastAnswer, d) \in Ages
      /\ Aged(reconnectingSince, d) \in Ages /\ Reconnect(d) \in Ages
      /\ Aged(lastRestart, d) = Never <=> lastRestart = Never
  BY AgedIsAge, ReconnectIsAge
<1>2. 0 \in Ages /\ Never \in Ages
  BY DEF Ages, Never
<1>3. gap' \in Gaps \cup {0}
  OBVIOUS
<1>4. CASE Unreachable(d)
  <2>1. TypeOK'
    <3>1. LoopTyped'
      BY <1>1, <1>3, <1>4
         DEF Unreachable, Reads, NoRestart, OBSReadings, Answers, LoopTyped
    <3>2. HistTyped'
      BY <1>1, <1>3, <1>4
         DEF Unreachable, Reads, NoRestart, OBSReadings, Answers, HistTyped
    <3>3. FlagsTyped'
      BY <1>1, <1>3, <1>4
         DEF Unreachable, Reads, NoRestart, OBSReadings, Answers, FlagsTyped
    <3>. QED
      BY <3>1, <3>2, <3>3 DEF LoopTyped, HistTyped, FlagsTyped
  <2>2. Following'
    BY <1>1, <1>3, <1>4
       DEF Unreachable, Reads, NoRestart, OBSReadings, Answers
  <2>3. CanRearm'
    BY <1>1, <1>3, <1>4
       DEF Unreachable, Reads, NoRestart, OBSReadings, Answers
  <2>. QED
    BY <2>1, <2>2, <2>3
<1>5. CASE Inactive(d)
  <2>1. TypeOK'
    <3>1. LoopTyped'
      BY <1>1, <1>2, <1>3, <1>5
         DEF Inactive, Reads, NoRestart, AfterStop, Rearm, OBSReadings,
             Answers, LoopTyped
    <3>2. HistTyped'
      BY <1>1, <1>2, <1>3, <1>5
         DEF Inactive, Reads, NoRestart, AfterStop, Rearm, OBSReadings,
             Answers, HistTyped
    <3>3. FlagsTyped'
      BY <1>1, <1>2, <1>3, <1>5
         DEF Inactive, Reads, NoRestart, AfterStop, Rearm, OBSReadings,
             Answers, FlagsTyped
    <3>. QED
      BY <3>1, <3>2, <3>3 DEF LoopTyped, HistTyped, FlagsTyped
  <2>2. Following'
    BY <1>1, <1>2, <1>3, <1>5
       DEF Inactive, Reads, NoRestart, AfterStop, Rearm, OBSReadings, Answers
  <2>3. CanRearm'
    BY <1>1, <1>2, <1>3, <1>5
       DEF Inactive, Reads, NoRestart, AfterStop, Rearm, OBSReadings, Answers
  <2>. QED
    BY <2>1, <2>2, <2>3
<1>6. CASE Hold(d)
  BY <1>1, <1>3, <1>6 DEF Hold, Reads, NoRestart, OBSReadings, Answers
<1>7. ASSUME NEW o \in {"steady", "reconnecting"}, NoAnswer(o, d)
      PROVE  Inv'
  <2>1. TypeOK'
    <3>1. LoopTyped'
      BY <1>1, <1>2, <1>3, <1>7, ConstantsOK
         DEF NoAnswer, Pushing, Reads, NoRestart, OBSReadings, Answers,
             LoopTyped
    <3>2. HistTyped'
      BY <1>1, <1>2, <1>3, <1>7, ConstantsOK
         DEF NoAnswer, Pushing, Reads, NoRestart, OBSReadings, Answers,
             HistTyped
    <3>3. FlagsTyped'
      BY <1>1, <1>2, <1>3, <1>7, ConstantsOK
         DEF NoAnswer, Pushing, Reads, NoRestart, OBSReadings, Answers,
             FlagsTyped
    <3>. QED
      BY <3>1, <3>2, <3>3 DEF LoopTyped, HistTyped, FlagsTyped
  <2>2. Following'
    BY <1>1, <1>2, <1>3, <1>7, ConstantsOK
       DEF NoAnswer, Pushing, Reads, NoRestart, OBSReadings, Answers
  <2>3. CanRearm'
    BY <1>1, <1>2, <1>3, <1>7, ConstantsOK
       DEF NoAnswer, Pushing, Reads, NoRestart, OBSReadings, Answers
  <2>. QED
    BY <2>1, <2>2, <2>3
<1>8. ASSUME NEW o \in {"steady", "reconnecting"}, Live(o, d)
      PROVE  Inv'
  <2>1. TypeOK'
    <3>1. LoopTyped'
      BY <1>1, <1>2, <1>3, <1>8, ConstantsOK
         DEF Live, Pushing, Reads, NoRestart, Held, Retire, Rearm, Smaller,
             OBSReadings, Answers, LoopTyped
    <3>2. HistTyped'
      BY <1>1, <1>2, <1>3, <1>8, ConstantsOK
         DEF Live, Pushing, Reads, NoRestart, Held, Retire, Rearm, Smaller,
             OBSReadings, Answers, HistTyped
    <3>3. FlagsTyped'
      BY <1>1, <1>2, <1>3, <1>8, ConstantsOK
         DEF Live, Pushing, Reads, NoRestart, Held, Retire, Rearm, Smaller,
             OBSReadings, Answers, FlagsTyped
    <3>. QED
      BY <3>1, <3>2, <3>3 DEF LoopTyped, HistTyped, FlagsTyped
  <2>2. Following'
    BY <1>1, <1>2, <1>3, <1>8, ConstantsOK
       DEF Live, Pushing, Reads, NoRestart, Held, Retire, Rearm, Smaller,
           OBSReadings, Answers
  <2>3. CanRearm'
    BY <1>1, <1>2, <1>3, <1>8, ConstantsOK
       DEF Live, Pushing, Reads, NoRestart, Held, Retire, Rearm, Smaller,
           OBSReadings, Answers
  <2>. QED
    BY <2>1, <2>2, <2>3
<1>9. ASSUME NEW o \in {"steady", "reconnecting"}, Suspect(o, d)
      PROVE  Inv'
  <2>1. TypeOK'
    <3>1. LoopTyped'
      BY <1>1, <1>2, <1>3, <1>9, ConstantsOK
         DEF Suspect, Pushing, Reads, NoRestart, Smaller, OBSReadings,
             Answers, LoopTyped
    <3>2. HistTyped'
      BY <1>1, <1>2, <1>3, <1>9, ConstantsOK
         DEF Suspect, Pushing, Reads, NoRestart, Smaller, OBSReadings,
             Answers, HistTyped
    <3>3. FlagsTyped'
      BY <1>1, <1>2, <1>3, <1>9, ConstantsOK
         DEF Suspect, Pushing, Reads, NoRestart, Smaller, OBSReadings,
             Answers, FlagsTyped
    <3>. QED
      BY <3>1, <3>2, <3>3 DEF LoopTyped, HistTyped, FlagsTyped
  <2>2. Following'
    BY <1>1, <1>2, <1>3, <1>9, ConstantsOK
       DEF Suspect, Pushing, Reads, NoRestart, Smaller, OBSReadings, Answers
  <2>3. CanRearm'
    BY <1>1, <1>2, <1>3, <1>9, ConstantsOK
       DEF Suspect, Pushing, Reads, NoRestart, Smaller, OBSReadings, Answers
  <2>. QED
    BY <2>1, <2>2, <2>3
<1>10. ASSUME NEW o \in {"steady", "reconnecting"}, NEW ok \in BOOLEAN,
              Restart(o, d, ok)
       PROVE  Inv'
  BY <1>1, <1>2, <1>3, <1>10, ConstantsOK
     DEF Restart, Reads, Spent, Smaller, Never, OBSReadings, Answers
<1>. QED
  BY <1>4, <1>5, <1>6, <1>7, <1>8, <1>9, <1>10 DEF Tick

LEMMA InvInductive == Inv /\ [Next]_vars => Inv'
<1>. SUFFICES ASSUME Inv, [Next]_vars
              PROVE  Inv'
  OBVIOUS
<1>1. CASE Next
  BY <1>1, TickKeepsInv DEF Next
<1>2. CASE UNCHANGED vars
  BY <1>2 DEF vars, loopVars, tickVars, histVars, Inv, TypeOK, Following,
     CanRearm
<1>. QED
  BY <1>1, <1>2

LEMMA InvAlways == Spec => []Inv
BY InvInitially, InvInductive, PTL DEF Spec

\* Type correctness.
THEOREM TypeCorrect == Spec => []TypeOK
BY InvAlways, PTL DEF Inv

\* However OBS and the platform answer, at most MaxRounds restarts are forced
\* before the channel stays live or the output is stopped.
THEOREM NeverChurns == Spec => []NoChurn
<1>1. Inv => NoChurn
  BY ConstantsOK DEF Inv, Following, TypeOK, NoChurn
<1>. QED
  BY <1>1, InvAlways, PTL

\* The recoveries a stood-down loop has used can always be given back.
THEOREM AlwaysRearmable == Spec => []CanRearm
BY InvAlways, PTL DEF Inv

\* Two forced restarts are Cooldown apart unless the first one held.
THEOREM RestartsStaySpaced == Spec => RestartsAreSpaced
<1>. DEFINE Spaced ==
       restarted' =>
         sinceForced = Never \/ Aged(sinceForced, gap') >= Cooldown
<1>1. Inv /\ [Next]_vars => [Spaced]_vars
  <2>. SUFFICES ASSUME Inv, NEW d \in Gaps, gap' = d, Tick(d), restarted'
                PROVE  Spaced
    BY DEF Next
  <2>1. PICK o \in {"steady", "reconnecting"}, ok \in BOOLEAN :
          Restart(o, d, ok)
    BY DEF Tick, Unreachable, Inactive, Hold, NoAnswer, Live, Suspect,
       NoRestart
  <2>2. ~Cooling(Aged(sinceForced, d)) /\ sinceForced \in Ages
    BY <2>1 DEF Restart, Inv, Following, TypeOK
  <2>. QED
    BY <2>2, AgedIsAge, AgesAreNaturals, ConstantsOK DEF Cooling, Ages, Never
<1>2. Spec => [][Spaced]_vars
  BY <1>1, InvAlways, PTL DEF Spec
<1>. QED
  BY <1>2 DEF RestartsAreSpaced

-----------------------------------------------------------------------------
(* The restarts of the output                                              *)

\* What is off, though wanted, has a restart that owes a start or a reason; it
\* begins with the stop, before the output is down.
DownIsAccounted ==
  wanted /\ output # "active" =>
    gaveUp \/ orphaned \/ \E r \in Restarters : Owes(r)

\* An output that is off for good has nobody left to start it.
SettledIsQuiet ==
  settled => output = "stopped" /\ \A r \in Restarters : ~Owes(r)

(* OutputTypeOK, in four parts. *)
PlacesTyped == output \in Outputs /\ seen \in Readings
OutputFlags ==
  /\ socket \in BOOLEAN /\ live \in BOOLEAN /\ aged \in BOOLEAN
  /\ alive \in BOOLEAN /\ cancelled \in BOOLEAN /\ capRestarted \in BOOLEAN
  /\ wanted \in BOOLEAN /\ settled \in BOOLEAN /\ gaveUp \in BOOLEAN
  /\ orphaned \in BOOLEAN
RestartersTyped ==
  pc \in [Restarters -> Steps] /\ tries \in [Restarters -> 0 .. StartAttempts]
CountsTyped ==
  /\ broadcast \in Broadcasts /\ restartedFor \in Broadcasts
  /\ attempts \in 0 .. CapAttempts
  /\ decisions \in 0 .. MaxDecisions /\ faults \in 0 .. MaxFaults
  /\ operations \in 0 .. MaxOperator /\ exits \in 0 .. MaxExits

LEMMA TypedInParts ==
  OutputTypeOK <=> PlacesTyped /\ OutputFlags /\ RestartersTyped /\ CountsTyped
BY DEF OutputTypeOK, PlacesTyped, OutputFlags, RestartersTyped, CountsTyped

OutputInv ==
  /\ PlacesTyped /\ OutputFlags /\ RestartersTyped /\ CountsTyped
  /\ DownIsAccounted /\ SettledIsQuiet

LEMMA TwoRestarters == "silent" \in Restarters /\ "cap" \in Restarters
BY DEF Restarters

LEMMA OutputInitially == OutputInit => OutputInv
<1>. SUFFICES ASSUME OutputInit
              PROVE  OutputInv
  OBVIOUS
<1>. USE OutputConstants DEF OutputInit
<1>1. PlacesTyped
  BY DEF PlacesTyped, Outputs, Readings
<1>2. OutputFlags
  BY DEF OutputFlags
<1>3. RestartersTyped
  BY DEF RestartersTyped, Steps
<1>4. CountsTyped
  BY DEF CountsTyped, Broadcasts
<1>5. DownIsAccounted /\ SettledIsQuiet
  BY DEF DownIsAccounted, SettledIsQuiet
<1>. QED
  BY <1>1, <1>2, <1>3, <1>4, <1>5 DEF OutputInv

\* The world and the operator: they move the output while nobody restarts it,
\* or beside a restart that goes on.
LEMMA WorldKeepsOutputInv ==
  ASSUME OutputInv, 
         Teardown \/ HalfOpen \/ Reconnects \/ GoesOffline \/ GoesLive
           \/ GrowsOld \/ OperatorStops \/ OperatorStarts
  PROVE  OutputInv'
<1>. USE OutputConstants, TwoRestarters
     DEF OutputInv, obsVars, airVars, procVars, capVars, wantVars, bounds
<1>1. CASE Teardown
  <2>. USE <1>1 DEF Teardown, Settle
  <2>1. PlacesTyped' /\ OutputFlags'
    BY DEF PlacesTyped, OutputFlags, Outputs, Readings
  <2>2. RestartersTyped'
    BY DEF RestartersTyped, Steps
  <2>3. CountsTyped'
    BY DEF CountsTyped, Broadcasts
  <2>4. DownIsAccounted' /\ SettledIsQuiet'
    BY DEF DownIsAccounted, SettledIsQuiet, Owes, RestartersTyped
  <2>. QED
    BY <2>1, <2>2, <2>3, <2>4
<1>2. CASE HalfOpen
  <2>. USE <1>2 DEF HalfOpen
  <2>1. PlacesTyped' /\ OutputFlags'
    BY ZenonT(30) DEF PlacesTyped, OutputFlags, Outputs, Readings
  <2>2. RestartersTyped'
    BY DEF RestartersTyped, Steps
  <2>3. CountsTyped'
    BY DEF CountsTyped, Broadcasts
  <2>4. DownIsAccounted' /\ SettledIsQuiet'
    BY DEF DownIsAccounted, SettledIsQuiet, Owes, RestartersTyped
  <2>. QED
    BY <2>1, <2>2, <2>3, <2>4
<1>3. CASE Reconnects
  <2>. USE <1>3 DEF Reconnects
  <2>1. PlacesTyped' /\ OutputFlags'
    BY DEF PlacesTyped, OutputFlags, Outputs, Readings
  <2>2. RestartersTyped'
    BY DEF RestartersTyped, Steps
  <2>3. CountsTyped'
    BY DEF CountsTyped, Broadcasts
  <2>4. DownIsAccounted' /\ SettledIsQuiet'
    BY DEF DownIsAccounted, SettledIsQuiet, Owes, RestartersTyped
  <2>. QED
    BY <2>1, <2>2, <2>3, <2>4
<1>4. CASE GoesOffline
  <2>. USE <1>4 DEF GoesOffline
  <2>1. PlacesTyped' /\ OutputFlags'
    BY ZenonT(30) DEF PlacesTyped, OutputFlags, Outputs, Readings
  <2>2. RestartersTyped'
    BY DEF RestartersTyped, Steps
  <2>3. CountsTyped'
    BY DEF CountsTyped, Broadcasts
  <2>4. DownIsAccounted' /\ SettledIsQuiet'
    BY DEF DownIsAccounted, SettledIsQuiet, Owes, RestartersTyped
  <2>. QED
    BY <2>1, <2>2, <2>3, <2>4
<1>5. CASE GoesLive
  <2>. USE <1>5 DEF GoesLive
  <2>1. PlacesTyped' /\ OutputFlags'
    BY DEF PlacesTyped, OutputFlags, Outputs, Readings
  <2>2. RestartersTyped'
    BY DEF RestartersTyped, Steps
  <2>3. CountsTyped'
    BY DEF CountsTyped, Broadcasts
  <2>4. DownIsAccounted' /\ SettledIsQuiet'
    BY DEF DownIsAccounted, SettledIsQuiet, Owes, RestartersTyped
  <2>. QED
    BY <2>1, <2>2, <2>3, <2>4
<1>6. CASE GrowsOld
  <2>. USE <1>6 DEF GrowsOld
  <2>1. PlacesTyped' /\ OutputFlags'
    BY DEF PlacesTyped, OutputFlags, Outputs, Readings
  <2>2. RestartersTyped'
    BY DEF RestartersTyped, Steps
  <2>3. CountsTyped'
    BY DEF CountsTyped, Broadcasts
  <2>4. DownIsAccounted' /\ SettledIsQuiet'
    BY DEF DownIsAccounted, SettledIsQuiet, Owes, RestartersTyped
  <2>. QED
    BY <2>1, <2>2, <2>3, <2>4
<1>7. CASE OperatorStops
  <2>. USE <1>7 DEF OperatorStops
  <2>1. PlacesTyped' /\ OutputFlags'
    BY DEF PlacesTyped, OutputFlags, Outputs, Readings
  <2>2. RestartersTyped'
    BY DEF RestartersTyped, Steps
  <2>3. CountsTyped'
    BY DEF CountsTyped, Broadcasts
  <2>4. DownIsAccounted' /\ SettledIsQuiet'
    BY DEF DownIsAccounted, SettledIsQuiet, Owes, RestartersTyped
  <2>. QED
    BY <2>1, <2>2, <2>3, <2>4
<1>8. CASE OperatorStarts
  <2>. USE <1>8 DEF OperatorStarts, Recovered
  <2>1. PlacesTyped' /\ OutputFlags'
    BY DEF PlacesTyped, OutputFlags, Outputs, Readings
  <2>2. RestartersTyped'
    BY DEF RestartersTyped, Steps
  <2>3. CountsTyped'
    BY DEF CountsTyped, Broadcasts
  <2>4. DownIsAccounted' /\ SettledIsQuiet'
    BY DEF DownIsAccounted, SettledIsQuiet, Owes, RestartersTyped
  <2>. QED
    BY <2>1, <2>2, <2>3, <2>4
<1>. QED
  BY <1>1, <1>2, <1>3, <1>4, <1>5, <1>6, <1>7, <1>8

\* The process: what it reads, what it decides and how it ends.
LEMMA ProcessKeepsOutputInv ==
  ASSUME OutputInv, 
         Poll \/ PollFails \/ DecideSilent \/ DecideCap \/ Cancel
           \/ Exit \/ Boot
  PROVE  OutputInv'
<1>. USE OutputConstants, TwoRestarters
     DEF OutputInv, obsVars, airVars, procVars, capVars, wantVars, bounds
<1>1. CASE Poll
  <2>. USE <1>1 DEF Poll, Reported
  <2>1. PlacesTyped' /\ OutputFlags'
    BY DEF PlacesTyped, OutputFlags, Outputs, Readings
  <2>2. RestartersTyped'
    BY DEF RestartersTyped, Steps
  <2>3. CountsTyped'
    BY DEF CountsTyped, Broadcasts
  <2>4. DownIsAccounted' /\ SettledIsQuiet'
    BY DEF DownIsAccounted, SettledIsQuiet, Owes, RestartersTyped
  <2>. QED
    BY <2>1, <2>2, <2>3, <2>4
<1>2. CASE PollFails
  <2>. USE <1>2 DEF PollFails, Fault
  <2>1. PlacesTyped' /\ OutputFlags'
    BY DEF PlacesTyped, OutputFlags, Outputs, Readings
  <2>2. RestartersTyped'
    BY DEF RestartersTyped, Steps
  <2>3. CountsTyped'
    BY DEF CountsTyped, Broadcasts
  <2>4. DownIsAccounted' /\ SettledIsQuiet'
    BY DEF DownIsAccounted, SettledIsQuiet, Owes, RestartersTyped
  <2>. QED
    BY <2>1, <2>2, <2>3, <2>4
<1>3. CASE DecideSilent
  <2>. USE <1>3 DEF DecideSilent
  <2>1. PlacesTyped' /\ OutputFlags'
    BY DEF PlacesTyped, OutputFlags, Outputs, Readings
  <2>2. RestartersTyped'
    BY DEF RestartersTyped, Steps
  <2>3. CountsTyped'
    BY DEF CountsTyped, Broadcasts
  <2>4. DownIsAccounted' /\ SettledIsQuiet'
    BY DEF DownIsAccounted, SettledIsQuiet, Owes, RestartersTyped
  <2>. QED
    BY <2>1, <2>2, <2>3, <2>4
<1>4. CASE DecideCap
  <2>. USE <1>4 DEF DecideCap, RememberAttempt
  <2>1. PlacesTyped' /\ OutputFlags'
    BY DEF PlacesTyped, OutputFlags, Outputs, Readings
  <2>2. RestartersTyped'
    BY DEF RestartersTyped, Steps
  <2>3. CountsTyped'
    BY DEF CountsTyped, Broadcasts
  <2>4. DownIsAccounted' /\ SettledIsQuiet'
    BY DEF DownIsAccounted, SettledIsQuiet, Owes, RestartersTyped
  <2>. QED
    BY <2>1, <2>2, <2>3, <2>4
<1>5. CASE Cancel
  <2>. USE <1>5 DEF Cancel
  <2>1. PlacesTyped' /\ OutputFlags'
    BY DEF PlacesTyped, OutputFlags, Outputs, Readings
  <2>2. RestartersTyped'
    BY DEF RestartersTyped, Steps
  <2>3. CountsTyped'
    BY DEF CountsTyped, Broadcasts
  <2>4. DownIsAccounted' /\ SettledIsQuiet'
    BY DEF DownIsAccounted, SettledIsQuiet, Owes, RestartersTyped
  <2>. QED
    BY <2>1, <2>2, <2>3, <2>4
<1>6. CASE Exit
  <2>. USE <1>6 DEF Exit, Settle
  <2>1. PlacesTyped' /\ OutputFlags'
    BY DEF PlacesTyped, OutputFlags, Outputs, Readings
  <2>2. RestartersTyped'
    BY DEF RestartersTyped, Steps
  <2>3. CountsTyped'
    BY DEF CountsTyped, Broadcasts
  <2>4. DownIsAccounted' /\ SettledIsQuiet'
    BY DEF DownIsAccounted, SettledIsQuiet, Owes, RestartersTyped
  <2>. QED
    BY <2>1, <2>2, <2>3, <2>4
<1>7. CASE Boot
  <2>. USE <1>7 DEF Boot
  <2>1. PlacesTyped' /\ OutputFlags'
    BY DEF PlacesTyped, OutputFlags, Outputs, Readings
  <2>2. RestartersTyped'
    BY DEF RestartersTyped, Steps
  <2>3. CountsTyped'
    BY DEF CountsTyped, Broadcasts
  <2>4. DownIsAccounted' /\ SettledIsQuiet'
    BY DEF DownIsAccounted, SettledIsQuiet, Owes, RestartersTyped
  <2>. QED
    BY <2>1, <2>2, <2>3, <2>4
<1>. QED
  BY <1>1, <1>2, <1>3, <1>4, <1>5, <1>6, <1>7

\* A restart owes its start from the accepted stop to the start or the last
\* refusal.
LEMMA RestartKeepsOutputInv ==
  ASSUME OutputInv, NEW r \in Restarters, RestartStep(r)
  PROVE  OutputInv'
<1>. USE OutputConstants, TwoRestarters
     DEF OutputInv, obsVars, airVars, procVars, capVars, wantVars, bounds
<1>1. CASE StopAccepted(r)
  <2>. USE <1>1 DEF StopAccepted, CanStop
  <2>1. PlacesTyped' /\ OutputFlags'
    BY DEF PlacesTyped, OutputFlags, Outputs, Readings
  <2>2. RestartersTyped'
    BY DEF RestartersTyped, Steps
  <2>3. CountsTyped'
    BY DEF CountsTyped, Broadcasts
  <2>4. DownIsAccounted' /\ SettledIsQuiet'
    BY DEF DownIsAccounted, SettledIsQuiet, Owes, RestartersTyped
  <2>. QED
    BY <2>1, <2>2, <2>3, <2>4
<1>2. CASE StopRefused(r)
  <2>. USE <1>2 DEF StopRefused, NothingToStart, Ends, Settle, Fault, NoFault
  <2>1. PlacesTyped' /\ OutputFlags'
    BY DEF PlacesTyped, OutputFlags, Outputs, Readings
  <2>2. RestartersTyped'
    BY DEF RestartersTyped, Steps
  <2>3. CountsTyped'
    BY DEF CountsTyped, Broadcasts
  <2>4. DownIsAccounted' /\ SettledIsQuiet'
    BY DEF DownIsAccounted, SettledIsQuiet, Owes, RestartersTyped
  <2>. QED
    BY <2>1, <2>2, <2>3, <2>4
<1>3. CASE Confirmed(r)
  <2>. USE <1>3 DEF Confirmed
  <2>1. PlacesTyped' /\ OutputFlags'
    BY DEF PlacesTyped, OutputFlags, Outputs, Readings
  <2>2. RestartersTyped'
    BY DEF RestartersTyped, Steps
  <2>3. CountsTyped'
    BY DEF CountsTyped, Broadcasts
  <2>4. DownIsAccounted' /\ SettledIsQuiet'
    BY DEF DownIsAccounted, SettledIsQuiet, Owes, RestartersTyped
  <2>. QED
    BY <2>1, <2>2, <2>3, <2>4
<1>4. CASE Unconfirmed(r)
  <2>. USE <1>4 DEF Unconfirmed, Owed
  <2>1. PlacesTyped' /\ OutputFlags'
    BY DEF PlacesTyped, OutputFlags, Outputs, Readings
  <2>2. RestartersTyped'
    BY DEF RestartersTyped, Steps
  <2>3. CountsTyped'
    BY DEF CountsTyped, Broadcasts
  <2>4. DownIsAccounted' /\ SettledIsQuiet'
    BY DEF DownIsAccounted, SettledIsQuiet, Owes, RestartersTyped
  <2>. QED
    BY <2>1, <2>2, <2>3, <2>4
<1>5. CASE AwaitOffline(r)
  <2>. USE <1>5 DEF AwaitOffline
  <2>1. PlacesTyped' /\ OutputFlags'
    BY DEF PlacesTyped, OutputFlags, Outputs, Readings
  <2>2. RestartersTyped'
    BY DEF RestartersTyped, Steps
  <2>3. CountsTyped'
    BY DEF CountsTyped, Broadcasts
  <2>4. DownIsAccounted' /\ SettledIsQuiet'
    BY DEF DownIsAccounted, SettledIsQuiet, Owes, RestartersTyped
  <2>. QED
    BY <2>1, <2>2, <2>3, <2>4
<1>6. CASE StartSucceeds(r)
  <2>. USE <1>6 DEF StartSucceeds, Ends, Recovered
  <2>1. PlacesTyped' /\ OutputFlags'
    BY DEF PlacesTyped, OutputFlags, Outputs, Readings
  <2>2. RestartersTyped'
    BY DEF RestartersTyped, Steps
  <2>3. CountsTyped'
    BY DEF CountsTyped, Broadcasts
  <2>4. DownIsAccounted' /\ SettledIsQuiet'
    BY DEF DownIsAccounted, SettledIsQuiet, Owes, RestartersTyped
  <2>. QED
    BY <2>1, <2>2, <2>3, <2>4
<1>7. CASE StartFails(r)
  <2>. USE <1>7 DEF StartFails, Ends, Settle, Fault, NoFault
  <2>1. PlacesTyped' /\ OutputFlags'
    BY ZenonT(60) DEF PlacesTyped, OutputFlags, Outputs, Readings
  <2>2. RestartersTyped'
    BY DEF RestartersTyped, Steps
  <2>3. CountsTyped'
    BY DEF CountsTyped, Broadcasts
  <2>4. DownIsAccounted' /\ SettledIsQuiet'
    BY DEF DownIsAccounted, SettledIsQuiet, Owes, RestartersTyped
  <2>. QED
    BY <2>1, <2>2, <2>3, <2>4
<1>. QED
  BY <1>1, <1>2, <1>3, <1>4, <1>5, <1>6, <1>7 DEF RestartStep

LEMMA OutputInductive == OutputInv /\ [OutputNext]_outputVars => OutputInv'
<1>. SUFFICES ASSUME OutputInv, [OutputNext]_outputVars
              PROVE  OutputInv'
  OBVIOUS
<1>1. CASE UNCHANGED outputVars
  BY <1>1 DEF outputVars, obsVars, airVars, procVars, capVars, wantVars,
     bounds, OutputInv, PlacesTyped, OutputFlags, RestartersTyped, CountsTyped,
     DownIsAccounted, SettledIsQuiet, Owes
<1>2. CASE OutputNext
  BY <1>2, WorldKeepsOutputInv, ProcessKeepsOutputInv, RestartKeepsOutputInv
     DEF OutputNext
<1>. QED
  BY <1>1, <1>2

LEMMA OutputInvAlways == OutputSpec => []OutputInv
BY OutputInitially, OutputInductive, PTL DEF OutputSpec

\* Type correctness of the restarts: the attempts and the bounds keep their
\* limits, whatever they are.
THEOREM OutputTypeCorrect == OutputSpec => []OutputTypeOK
BY OutputInvAlways, TypedInParts, PTL DEF OutputInv

\* However the two watchdogs, the teardown, the operator and the end of the
\* process interleave, the output is left dark only for the reasons named, and
\* one that is off for good stays off (RestartOBSOutput, RestartBroadcast).
THEOREM OutputAlwaysStands == OutputSpec => []OutputStands
<1>1. OutputInv => OutputStands
  BY DEF OutputInv, DownIsAccounted, SettledIsQuiet, OutputStands,
     DarkOnlyIfRefused, OffStaysOff
<1>. QED
  BY <1>1, OutputInvAlways, PTL

-----------------------------------------------------------------------------
(* The background audio                                                    *)

(* The types the argument needs, without the counters. *)
JobShape(j) ==
  /\ "pc" \in DOMAIN j
  /\ j.pc \in {"idle", "armed", "fired", "due", "ready", "took", "refused"}
  /\ j.pc # "idle" => "sw" \in DOMAIN j /\ j.sw \in Switches
  /\ j.pc \in {"ready", "took", "refused"} =>
       /\ "prev" \in DOMAIN j
       /\ j.prev[1] \in Stations /\ j.prev[2] \in Voicings

SourceShape(o) ==
  /\ {"up", "local", "file", "url"} \subseteq DOMAIN o
  /\ o.file \in LocalFiles /\ o.url \in Stations

WatchShape(w) ==
  /\ {"pc", "synced"} \subseteq DOMAIN w
  /\ w.pc \in {"idle", "resync", "decide"} \cup WatchCalls
  /\ w.pc = "detected" => SourceShape(w.read)

AudioShapes ==
  /\ gen \in 0 .. MaxGen
  /\ DOMAIN job = Gens /\ \A g \in Gens : JobShape(job[g])
  /\ WatchShape(wd) /\ SourceShape(obs)
  /\ DOMAIN adv = Walkers
  /\ \A w \in Walkers : adv[w] \in {"idle", "next", "rescue", "rescued"}
  /\ bed \in Beds /\ station \in Stations /\ voicing \in Voicings
  /\ fallback \in {"none", "album", "carhum"}
  /\ pending \in Switches \cup {NoSwitch} /\ asked \in Switches \cup {NoSwitch}
  /\ choice.bed \in Beds

\* Until two of them overlap, at most one of the three that drive the source
\* is between its read of the store and its record of what it did.
BusyJob(g) == job[g].pc \in {"due", "ready", "took", "refused"}
MidJob(g)  == job[g].pc \in {"ready", "took", "refused"}
Quiet      == \A g \in Gens : ~MidJob(g)

Alone ==
  /\ \A g, h \in Gens : BusyJob(g) /\ BusyJob(h) => g = h
  /\ \A g \in Gens : BusyJob(g) => wd.pc \notin WatchCalls /\ adv["meter"] = "idle"
  /\ adv["meter"] # "idle" => wd.pc \notin WatchCalls
  /\ adv["watchdog"] # "idle" => wd.pc = "advance"

\* The source's own settings tell which bed and station were chosen, whatever
\* stands in for them: this is what Detect reads back.
Chosen ==
  /\ BedFromSettings(obs) = choice.bed
  /\ choice.bed = "radio" => obs.url = choice.station

\* Only the radio has a stand-in, and only the album advances.
StandsIn ==
  /\ fallback # "none" /\ (\A g \in Gens : job[g].pc # "took") => choice.bed = "radio"
  /\ \A w \in Walkers : adv[w] # "idle" => choice.bed = "radio"
  /\ \A w \in Walkers : adv[w] \in {"next", "rescue"} => fallback = "album"

\* What the watchdog holds between two of its steps.
Reading ==
  /\ wd.pc \in WatchCalls \cup {"decide"} => wd.synced
  /\ wd.pc = "detected" =>
       wd.read.local = obs.local /\ wd.read.file = obs.file /\ wd.read.url = obs.url
  /\ wd.pc \in {"advance", "toFallback", "fellBack", "toRadio", "onRadio"} => bed = "radio"

\* A switch on its way has written its station and voicing to the store.
Readied ==
  \A g \in Gens : job[g].pc = "ready" =>
    station = job[g].sw.station /\ voicing = job[g].sw.voicing

\* The store keeps the choice, at the station s; and reports what is heard,
\* with the voicing v.
KeepsChoice(s) ==
  /\ bed = choice.bed
  /\ bed = "radio" => s = choice.station
  /\ bed = "carhum" => fallback = "none"

Hears(v) == Playing = OnAir /\ (bed = "carhum" => obs.file = v)

\* A switch OBS took: the choice, the store and the source are what it asked.
TookRight(sw) ==
  /\ choice = [bed |-> sw.bed, station |-> sw.station]
  /\ station = sw.station /\ voicing = sw.voicing
  /\ sw.bed = "radio" => ~obs.local
  /\ sw.bed = "carhum" => obs.local /\ obs.file = sw.voicing

Between == wd.pc \notin {"fellBack", "onRadio"} /\ \A w \in Walkers : adv[w] # "rescued"

\* Once the watchdog has read OBS, the store agrees with the source, except
\* between a call that OBS took and the record of it; a switch on its way would
\* agree again if it were rolled back.
Agrees ==
  /\ \A g \in Gens : job[g].pc \in {"ready", "refused"} =>
       KeepsChoice(job[g].prev[1]) /\ Hears(job[g].prev[2])
  /\ \A g \in Gens : job[g].pc = "took" => TookRight(job[g].sw)
  /\ Quiet => KeepsChoice(station)
  /\ Quiet /\ Between => Hears(voicing)
  /\ wd.pc = "fellBack" => obs.local /\ obs.file = (IF library THEN "album" ELSE "drone")
  /\ wd.pc = "onRadio" => ~obs.local
  /\ \A w \in Walkers : adv[w] = "rescued" => obs.local /\ obs.file = "drone"

Synced == wd.synced /\ wd.pc # "detected"

Steady == Alone /\ Chosen /\ StandsIn /\ Reading /\ Readied /\ (Synced => Agrees)

\* Of the switches under way, only the newest generation's is the last asked
\* for, and it stays pending until it has landed.
Orders ==
  /\ asked # NoSwitch => pending \in {asked, NoSwitch}
  /\ \A g \in Gens : g > gen => job[g].pc = "idle"
  /\ \A g \in Gens : g = gen /\ job[g].pc # "idle" =>
       pending # NoSwitch /\ (asked # NoSwitch => job[g].sw = asked)

Landed ==
  /\ asked # NoSwitch /\ pending = NoSwitch =>
       /\ refused \/ choice = [bed |-> asked.bed, station |-> asked.station]
       /\ \A g \in Gens : ~BusyJob(g)
  /\ \A g \in Gens : g = gen /\ job[g].pc = "took" /\ asked # NoSwitch =>
       choice = [bed |-> asked.bed, station |-> asked.station]

AudioInv == AudioShapes /\ Orders /\ (drifted \/ (Steady /\ Landed))

LEMMA AudioFacts ==
  /\ FirstStation \in Stations /\ BootStation \in Stations /\ DefaultVoicing \in Voicings
  /\ "album" \notin Voicings /\ "drone" \notin Voicings
  /\ MaxGen \in Nat
BY AudioConstants

LEMMA NoSwitchIsNone == NoSwitch \notin Switches
<1>1. ASSUME NoSwitch \in Switches
      PROVE  FALSE
  <2>1. NoSwitch.bed \in Beds
    BY <1>1 DEF Switches
  <2>. QED
    BY <2>1 DEF NoSwitch, Beds
<1>. QED
  BY <1>1

LEMMA AudioInitially == AudioInit => AudioInv
<1>. SUFFICES ASSUME AudioInit
              PROVE  AudioInv
  OBVIOUS
<1>1. AudioShapes
  <2>1. gen \in 0 .. MaxGen
    BY AudioFacts DEF AudioInit
  <2>2. DOMAIN job = Gens /\ \A g \in Gens : JobShape(job[g])
    BY DEF AudioInit, JobShape, Idle
  <2>3. WatchShape(wd) /\ SourceShape(obs)
    BY AudioFacts DEF AudioInit, WatchShape, SourceShape, Watch0, BootSettings, WatchCalls, LocalFiles
  <2>4. /\ DOMAIN adv = Walkers
        /\ \A w \in Walkers : adv[w] \in {"idle", "next", "rescue", "rescued"}
    BY DEF AudioInit
  <2>. QED
    BY <2>1, <2>2, <2>3, <2>4, AudioFacts DEF AudioInit, AudioShapes, Beds
<1>2. Orders
  BY DEF AudioInit, Orders, Idle
<1>3. Steady /\ Landed
  <2>1. wd.pc = "idle" /\ ~wd.synced
    BY DEF AudioInit, Watch0
  <2>2. Alone /\ Readied /\ Landed /\ StandsIn
    BY <2>1 DEF AudioInit, Alone, Readied, Landed, StandsIn, BusyJob, Idle, WatchCalls, Walkers
  <2>3. Chosen
    BY AudioFacts DEF AudioInit, Chosen, BedFromSettings, BootSettings
  <2>4. Reading
    BY <2>1 DEF Reading, WatchCalls
  <2>. QED
    BY <2>1, <2>2, <2>3, <2>4 DEF Steady, Synced
<1>. QED
  BY <1>1, <1>2, <1>3 DEF AudioInv

(* Steps that move nothing the invariant speaks of. *)
Unheard ==
  /\ UNCHANGED <<obs, library, bed, station, voicing, fallback, pending, gen>>
  /\ UNCHANGED <<job, wd, ghost, drifted>>
  /\ DOMAIN adv' = Walkers /\ \A w \in Walkers : adv'[w] = adv[w]

LEMMA UnheardKeeps ==
  ASSUME AudioInv, Unheard
  PROVE  AudioInv'
<1>1. AudioShapes'
  BY DEF Unheard, AudioInv, AudioShapes, JobShape, WatchShape, SourceShape, ghost
<1>2. Orders'
  BY DEF Unheard, AudioInv, Orders, ghost
<1>3. Steady /\ Landed => Steady' /\ Landed'
  BY DEF Unheard, ghost, Steady, Landed, Alone, Chosen, StandsIn, Reading, Readied, Synced,
     Agrees, KeepsChoice, Hears, TookRight, Between, Quiet, MidJob, BusyJob, BedFromSettings,
     Playing, OnAir, Walkers
<1>. QED
  BY <1>1, <1>2, <1>3 DEF AudioInv, Unheard

(* Steps that move the watchdog alone, between places where it holds nothing. *)
WatchMoves ==
  /\ UNCHANGED <<obs, library, bed, station, voicing, fallback, pending, gen>>
  /\ UNCHANGED <<job, adv, ghost>>
  /\ WatchShape(wd')
  /\ wd.pc \notin {"detected", "fellBack", "onRadio"}
  /\ wd'.pc \notin {"detected", "fellBack", "onRadio"}
  /\ wd'.synced => wd.synced
  /\ wd'.pc \in WatchCalls \cup {"decide"} => wd'.synced
  /\ wd'.pc \in WatchCalls => bed = "radio"
  /\ wd'.pc \in WatchCalls /\ wd.pc \notin WatchCalls => drifted' = (drifted \/ Busy)
  /\ adv["watchdog"] # "idle" => wd'.pc = "advance"
  /\ drifted => drifted'

LEMMA WatchMovesKeeps ==
  ASSUME AudioInv, WatchMoves
  PROVE  AudioInv'
<1>1. AudioShapes'
  BY DEF WatchMoves, AudioInv, AudioShapes, JobShape, WatchShape, SourceShape, ghost
<1>2. Orders'
  BY DEF WatchMoves, AudioInv, Orders, ghost
<1>3. ASSUME ~drifted'
      PROVE  Steady' /\ Landed'
  <2>1. Steady /\ Landed /\ ~drifted
    BY <1>3 DEF AudioInv, WatchMoves
  <2>2. Landed'
    BY <2>1 DEF WatchMoves, Landed, BusyJob, ghost
  <2>3. Chosen' /\ StandsIn' /\ Readied'
    BY <2>1 DEF WatchMoves, Steady, Chosen, StandsIn, Readied, BedFromSettings, ghost
  <2>4. Reading'
    BY DEF WatchMoves, Reading, WatchCalls
  <2>5. Alone'
    <3>1. wd'.pc \in WatchCalls =>
            (\A g \in Gens : ~BusyJob(g)) /\ adv["meter"] = "idle"
      <4>1. CASE wd.pc \in WatchCalls
        BY <4>1, <2>1 DEF Steady, Alone
      <4>2. CASE wd.pc \notin WatchCalls
        BY <4>2, <2>1, <1>3 DEF WatchMoves, Busy, BusyJob, Walkers
      <4>. QED
        BY <4>1, <4>2
    <3>. QED
      BY <3>1, <2>1 DEF WatchMoves, Steady, Alone, BusyJob
  <2>6. Synced' => Agrees'
    BY <2>1 DEF WatchMoves, Steady, Synced, ghost, Agrees, KeepsChoice, Hears, TookRight,
       Between, Quiet, MidJob, Playing, OnAir
  <2>. QED
    BY <2>2, <2>3, <2>4, <2>5, <2>6 DEF Steady
<1>. QED
  BY <1>1, <1>2, <1>3 DEF AudioInv

\* What the watchdog's place says of the others, until two of them overlap.
LEMMA WatchIsAlone ==
  ASSUME AudioInv, ~drifted, wd.pc \in WatchCalls, wd.pc # "detected"
  PROVE  /\ \A g \in Gens : ~BusyJob(g)
         /\ adv["meter"] = "idle"
         /\ adv["watchdog"] # "idle" => wd.pc = "advance"
         /\ wd.synced /\ bed = "radio"
         /\ Agrees /\ KeepsChoice(station)
<1>1. Steady
  BY DEF AudioInv
<1>2. \A g \in Gens : ~BusyJob(g)
  BY <1>1 DEF Steady, Alone
<1>3. wd.synced /\ bed = "radio"
  BY <1>1 DEF Steady, Reading, WatchCalls
<1>4. Agrees
  BY <1>1, <1>3 DEF Steady, Synced
<1>5. Quiet
  BY <1>2 DEF Quiet, MidJob, BusyJob
<1>6. KeepsChoice(station)
  BY <1>4, <1>5 DEF Agrees
<1>. QED
  BY <1>1, <1>2, <1>3, <1>4, <1>6 DEF Steady, Alone

LEMMA WatchPlaces ==
  ASSUME AudioInv
  PROVE  /\ WatchShape(wd) /\ DOMAIN adv = Walkers
         /\ ~drifted => /\ adv["watchdog"] # "idle" => wd.pc = "advance"
                        /\ wd.pc = "decide" => wd.synced
BY DEF AudioInv, AudioShapes, Steady, Alone, Reading

\* A watchdog's step after which two of them may overlap.
LEMMA DriftKeeps ==
  ASSUME AudioShapes', Orders', drifted'
  PROVE  AudioInv'
BY DEF AudioInv

LEMMA SameOrders ==
  ASSUME AudioInv, UNCHANGED <<pending, gen, job, asked>>
  PROVE  Orders'
BY DEF AudioInv, Orders

LEMMA SameShapes ==
  ASSUME AudioInv, UNCHANGED <<obs, bed, station, voicing, fallback, pending, gen, job, ghost>>,
         WatchShape(wd'), DOMAIN adv' = Walkers,
         \A w \in Walkers : adv'[w] \in {"idle", "next", "rescue", "rescued"}
  PROVE  AudioShapes'
BY DEF AudioInv, AudioShapes, JobShape, SourceShape, ghost

LEMMA AudioTickKeeps ==
  ASSUME AudioInv, AudioTick
  PROVE  AudioInv'
<1>1. WatchShape(wd')
  BY WatchPlaces DEF AudioTick, WatchShape, WatchCalls
<1>2. AudioShapes' /\ Orders' /\ (drifted => drifted')
  BY <1>1, WatchPlaces, SameShapes, SameOrders DEF AudioTick, world, store, ghost, Starts, AudioInv, AudioShapes
<1>3. CASE ~drifted
  <2>1. WatchMoves
    BY <1>1, <1>3, WatchPlaces DEF AudioTick, WatchMoves, world, store, ghost, Starts, WatchShape, WatchCalls
  <2>. QED
    BY <2>1, WatchMovesKeeps
<1>. QED
  BY <1>2, <1>3, DriftKeeps

LEMMA HoldOffKeeps ==
  ASSUME AudioInv, HoldOff
  PROVE  AudioInv'
<1>1. WatchShape(wd')
  BY WatchPlaces DEF HoldOff, WatchShape, WatchCalls, Done
<1>2. AudioShapes' /\ Orders' /\ (drifted => drifted')
  BY <1>1, WatchPlaces, SameShapes, SameOrders DEF HoldOff, world, store, ghost, Starts, AudioInv, AudioShapes
<1>3. CASE ~drifted
  <2>1. WatchMoves
    BY <1>1, <1>3, WatchPlaces DEF HoldOff, WatchMoves, world, store, ghost, Starts, WatchShape, WatchCalls, Done
  <2>. QED
    BY <2>1, WatchMovesKeeps
<1>. QED
  BY <1>2, <1>3, DriftKeeps

LEMMA SourceUnreadableKeeps ==
  ASSUME AudioInv, SourceUnreadable
  PROVE  AudioInv'
<1>1. WatchShape(wd')
  BY WatchPlaces DEF SourceUnreadable, WatchShape, WatchCalls, Done
<1>2. AudioShapes' /\ Orders' /\ (drifted => drifted')
  BY <1>1, WatchPlaces, SameShapes, SameOrders DEF SourceUnreadable, world, store, ghost, Starts, AudioInv, AudioShapes
<1>3. CASE ~drifted
  <2>1. WatchMoves
    BY <1>1, <1>3, WatchPlaces DEF SourceUnreadable, WatchMoves, world, store, ghost, Starts, WatchShape, WatchCalls, Done
  <2>. QED
    BY <2>1, WatchMovesKeeps
<1>. QED
  BY <1>2, <1>3, DriftKeeps

LEMMA WatchRadioKeeps ==
  ASSUME AudioInv, WatchRadio
  PROVE  AudioInv'
<1>1. WatchShape(wd')
  BY WatchPlaces DEF WatchRadio, WatchShape, WatchCalls, Done
<1>2. AudioShapes' /\ Orders' /\ (drifted => drifted')
  BY <1>1, WatchPlaces, SameShapes, SameOrders DEF WatchRadio, world, store, ghost, Starts, AudioInv, AudioShapes
<1>3. CASE ~drifted
  <2>1. WatchMoves
    BY <1>1, <1>3, WatchPlaces DEF WatchRadio, WatchMoves, world, store, ghost, Starts, WatchShape, WatchCalls, Done
  <2>. QED
    BY <2>1, WatchMovesKeeps
<1>. QED
  BY <1>2, <1>3, DriftKeeps

LEMMA SitOutKeeps ==
  ASSUME AudioInv, SitOut
  PROVE  AudioInv'
<1>1. WatchShape(wd')
  BY WatchPlaces DEF SitOut, WatchShape, WatchCalls
<1>2. AudioShapes' /\ Orders' /\ (drifted => drifted')
  BY <1>1, WatchPlaces, SameShapes, SameOrders DEF SitOut, world, store, ghost, Starts, AudioInv, AudioShapes
<1>3. CASE ~drifted
  <2>1. WatchMoves
    BY <1>1, <1>3, WatchPlaces DEF SitOut, WatchMoves, world, store, ghost, Starts, WatchShape, WatchCalls
  <2>. QED
    BY <2>1, WatchMovesKeeps
<1>. QED
  BY <1>2, <1>3, DriftKeeps

LEMMA ProbeKeeps ==
  ASSUME AudioInv, Probe
  PROVE  AudioInv'
<1>1. WatchShape(wd') /\ wd'.synced = wd.synced /\ wd'.pc \in {"idle", "toRadio"}
  BY WatchPlaces DEF Probe, WatchShape, WatchCalls
<1>2. AudioShapes' /\ Orders' /\ (drifted => drifted')
  BY <1>1, WatchPlaces, SameShapes, SameOrders DEF Probe, world, store, ghost, AudioInv, AudioShapes
<1>3. CASE ~drifted
  <2>1. wd.synced /\ bed = "radio" /\ adv["watchdog"] = "idle"
    BY <1>3, WatchIsAlone DEF Probe, WatchCalls
  <2>2. WatchMoves
    BY <1>1, <1>3, <2>1 DEF Probe, WatchMoves, world, store, ghost, WatchCalls
  <2>. QED
    BY <2>2, WatchMovesKeeps
<1>. QED
  BY <1>2, <1>3, DriftKeeps


LEMMA ResyncFailsKeeps ==
  ASSUME AudioInv, ResyncFails
  PROVE  AudioInv'
<1>1. WatchShape(wd')
  BY WatchPlaces DEF ResyncFails, WatchShape, WatchCalls
<1>. QED
  BY <1>1, WatchPlaces, SameShapes, SameOrders, DriftKeeps
     DEF ResyncFails, world, store, ghost, AudioInv, AudioShapes

LEMMA ResyncKeeps ==
  ASSUME AudioInv, Resync
  PROVE  AudioInv'
<1>1. WatchShape(wd') /\ wd'.pc = "detected" /\ wd'.synced /\ wd'.read = obs
  BY DEF Resync, WatchShape, WatchCalls, AudioInv, AudioShapes
<1>2. AudioShapes' /\ Orders'
  BY <1>1, WatchPlaces, SameShapes, SameOrders DEF Resync, world, store, ghost, AudioInv, AudioShapes
<1>3. ASSUME ~drifted'
      PROVE  Steady' /\ Landed'
  <2>1. Steady /\ Landed /\ ~Busy
    BY <1>3 DEF AudioInv, Resync, Starts
  <2>2. Alone'
    BY <1>1, <2>1 DEF Alone, Busy, BusyJob, Walkers, Resync
  <2>3. Reading'
    BY <1>1, <2>1 DEF Reading, Resync, world
  <2>4. Chosen' /\ StandsIn' /\ Readied' /\ Landed'
    BY <2>1 DEF Resync, world, store, ghost, Steady, Chosen, BedFromSettings, StandsIn,
       Readied, Landed, BusyJob
  <2>. QED
    BY <1>1, <2>2, <2>3, <2>4 DEF Steady, Synced
<1>. QED
  BY <1>2, <1>3 DEF AudioInv

\* What Detect reads back of the settings is the choice; where the album or the
\* drone plays, it is the mark of the stand-in.
LEMMA DetectKeeps ==
  ASSUME AudioInv, Detect
  PROVE  AudioInv'
<1>. DEFINE got == wd.read
<1>1. WatchShape(wd') /\ wd'.pc = "decide" /\ wd'.synced = wd.synced /\ SourceShape(got)
  BY WatchPlaces DEF Detect, WatchShape, Watch0
<1>2. Orders'
  BY SameOrders DEF Detect, ghost
<1>3. AudioShapes'
  <2>1. bed' \in Beds /\ station' \in Stations /\ voicing' \in Voicings
    BY <1>1 DEF Detect, BedFromSettings, Beds, SourceShape, AudioInv, AudioShapes
  <2>2. fallback' \in {"none", "album", "carhum"}
    BY DEF Detect
  <2>. QED
    BY <1>1, <2>1, <2>2
       DEF Detect, world, ghost, AudioInv, AudioShapes, JobShape, SourceShape
<1>4. ASSUME ~drifted'
      PROVE  Steady' /\ Landed'
  <2>1. /\ Steady /\ Landed /\ wd.synced
        /\ wd.read.local = obs.local /\ wd.read.file = obs.file /\ wd.read.url = obs.url
    BY <1>4 DEF AudioInv, Detect, Steady, Reading, WatchCalls
  <2>2. /\ \A g \in Gens : ~BusyJob(g)
        /\ \A w \in Walkers : adv[w] = "idle"
    BY <2>1, WatchPlaces DEF Steady, Alone, Detect, WatchCalls, Walkers
  <2>3. Alone' /\ Landed' /\ Reading' /\ Readied'
    BY <1>1, <2>1, <2>2
       DEF Detect, ghost, Alone, Landed, Reading, Readied, BusyJob, WatchCalls, Walkers
  <2>4. Chosen'
    BY <2>1 DEF Detect, world, ghost, Steady, Chosen, BedFromSettings
  <2>5. fallback' # "none" => obs.local /\ obs.file \in {"album", "drone"}
    BY <2>1 DEF Detect
  <2>6. StandsIn'
    BY <2>1, <2>2, <2>5, AudioFacts
       DEF Detect, ghost, StandsIn, Steady, Chosen, BedFromSettings
  <2>7. KeepsChoice(station)'
    BY <2>1, <2>5, AudioFacts DEF Detect, ghost, KeepsChoice, Steady, Chosen, BedFromSettings
  <2>8. Hears(voicing)'
    BY <2>1, <1>1, AudioFacts
       DEF Detect, world, Hears, Playing, OnAir, BedFromSettings, SourceShape, LocalFiles
  <2>9. Agrees'
    BY <1>1, <2>2, <2>7, <2>8 DEF Agrees, Detect, BusyJob
  <2>. QED
    BY <2>3, <2>4, <2>6, <2>9 DEF Steady
<1>. QED
  BY <1>2, <1>3, <1>4 DEF AudioInv

\* Swapping to the stand-in: the source first, then the store.
LEMMA SwapToFallbackKeeps ==
  ASSUME AudioInv, SwapToFallback
  PROVE  AudioInv'
<1>. DEFINE file == IF library THEN "album" ELSE "drone"
<1>1. CASE Rejected /\ wd' = Done(wd)
  <2>1. WatchShape(wd') /\ wd'.pc = "idle" /\ wd'.synced = wd.synced
    BY <1>1, WatchPlaces DEF WatchShape, Done
  <2>2. AudioShapes' /\ Orders' /\ (drifted => drifted')
    BY <1>1, <2>1, WatchPlaces, SameShapes, SameOrders
       DEF SwapToFallback, Rejected, world, ghost, AudioInv, AudioShapes
  <2>3. CASE ~drifted
    <3>1. adv["watchdog"] = "idle"
      BY <2>3, WatchPlaces DEF SwapToFallback
    <3>2. WatchMoves
      BY <1>1, <2>1, <3>1 DEF SwapToFallback, Rejected, world, ghost, WatchMoves, WatchCalls
    <3>. QED
      BY <3>2, WatchMovesKeeps
  <2>. QED
    BY <2>2, <2>3, DriftKeeps
<1>2. CASE Accepted /\ SetLocalFile(file) /\ wd' = [wd EXCEPT !.pc = "fellBack"]
  <2>1. WatchShape(wd') /\ wd'.pc = "fellBack" /\ wd'.synced = wd.synced
    BY <1>2, WatchPlaces DEF WatchShape, WatchCalls
  <2>2. obs'.local /\ obs'.file = file /\ obs'.url = obs.url /\ SourceShape(obs')
    BY <1>2 DEF SetLocalFile, AudioInv, AudioShapes, SourceShape, LocalFiles
  <2>3. Orders'
    BY SameOrders DEF SwapToFallback, ghost
  <2>4. AudioShapes'
    BY <2>1, <2>2 DEF SwapToFallback, ghost, AudioInv, AudioShapes, JobShape
  <2>5. ASSUME ~drifted'
        PROVE  Steady' /\ Landed'
    <3>1. /\ Steady /\ Landed /\ ~drifted
          /\ wd.synced /\ bed = "radio" /\ KeepsChoice(station)
          /\ \A g \in Gens : ~BusyJob(g)
          /\ \A w \in Walkers : adv[w] = "idle"
      BY <2>5, WatchIsAlone, WatchPlaces DEF AudioInv, SwapToFallback, WatchCalls, Walkers
    <3>2. Alone' /\ StandsIn' /\ Readied' /\ Landed' /\ Reading'
      BY <2>1, <3>1 DEF SwapToFallback, ghost, Alone, StandsIn, Readied, Landed, Reading,
         Steady, BusyJob, WatchCalls, Walkers
    <3>3. Chosen'
      BY <2>2, <3>1, AudioFacts
         DEF SwapToFallback, ghost, Steady, Chosen, BedFromSettings, KeepsChoice
    <3>4. Agrees'
      BY <1>2, <2>1, <2>2, <3>1 DEF SwapToFallback, SetLocalFile, ghost, Agrees, KeepsChoice,
         Between, BusyJob
    <3>. QED
      BY <3>2, <3>3, <3>4 DEF Steady
  <2>. QED
    BY <2>3, <2>4, <2>5 DEF AudioInv
<1>. QED
  BY <1>1, <1>2 DEF SwapToFallback

LEMMA RecordFallbackKeeps ==
  ASSUME AudioInv, RecordFallback
  PROVE  AudioInv'
<1>1. WatchShape(wd') /\ wd'.pc = "idle" /\ wd'.synced = wd.synced
  BY WatchPlaces DEF RecordFallback, WatchShape
<1>2. Orders'
  BY SameOrders DEF RecordFallback, ghost
<1>3. AudioShapes'
  BY <1>1 DEF RecordFallback, world, ghost, AudioInv, AudioShapes, JobShape, SourceShape
<1>4. ASSUME ~drifted'
      PROVE  Steady' /\ Landed'
  <2>1. /\ Steady /\ Landed /\ ~drifted
        /\ wd.synced /\ bed = "radio" /\ KeepsChoice(station) /\ Agrees
        /\ \A g \in Gens : ~BusyJob(g)
        /\ \A w \in Walkers : adv[w] = "idle"
    BY <1>4, WatchIsAlone, WatchPlaces DEF AudioInv, RecordFallback, WatchCalls, Walkers
  <2>2. Alone' /\ StandsIn' /\ Readied' /\ Landed' /\ Reading' /\ Chosen'
    BY <1>1, <2>1 DEF RecordFallback, world, ghost, Alone, StandsIn, Readied, Landed, Reading,
       Steady, BusyJob, WatchCalls, Walkers, Chosen, BedFromSettings, KeepsChoice
  <2>3. Agrees'
    BY <1>1, <2>1 DEF RecordFallback, world, ghost, Agrees, KeepsChoice, Hears, Playing, OnAir,
       BusyJob
  <2>. QED
    BY <2>2, <2>3 DEF Steady
<1>. QED
  BY <1>2, <1>3, <1>4 DEF AudioInv

\* On the stand-in: the watchdog may take up the advance the meter missed.
LEMMA AdvanceIsFit ==
  ASSUME AudioInv
  PROVE  /\ AdvanceTo \in {"idle", "next", "rescue"}
         /\ AdvanceTo # "idle" => fallback = "album"
BY DEF AdvanceTo, Playing, AudioInv, AudioShapes, Beds

LEMMA WatchFallbackKeeps ==
  ASSUME AudioInv, WatchFallback
  PROVE  AudioInv'
<1>1. WatchShape(wd') /\ wd'.pc = "advance" /\ wd'.synced = wd.synced
  BY WatchPlaces DEF WatchFallback, Done, WatchShape, WatchCalls
<1>2. adv' = adv \/ (wd.seen = "down" /\ adv' = [adv EXCEPT !["watchdog"] = AdvanceTo])
  BY DEF WatchFallback, StartAdvance
<1>3. /\ DOMAIN adv' = Walkers /\ adv'["meter"] = adv["meter"]
      /\ adv'["watchdog"] \in {adv["watchdog"], AdvanceTo}
  BY <1>2, WatchPlaces DEF Walkers
<1>4. \A w \in Walkers : adv'[w] \in {"idle", "next", "rescue", "rescued"}
  BY <1>3, AdvanceIsFit DEF AudioInv, AudioShapes, Walkers
<1>5. AudioShapes' /\ Orders'
  BY <1>1, <1>3, <1>4, SameShapes, SameOrders DEF WatchFallback, world, ghost
<1>6. ASSUME ~drifted'
      PROVE  Steady' /\ Landed'
  <2>1. /\ Steady /\ Landed /\ ~drifted /\ wd.synced /\ bed = "radio"
        /\ \A g \in Gens : ~BusyJob(g)
        /\ \A w \in Walkers : adv[w] = "idle"
    BY <1>6, WatchPlaces DEF AudioInv, WatchFallback, Starts, Busy, BusyJob
  <2>2. /\ adv'["meter"] = "idle" /\ adv'["watchdog"] \in {"idle", "next", "rescue"}
        /\ adv'["watchdog"] # "idle" => fallback = "album"
    BY <2>1, <1>3, AdvanceIsFit DEF Walkers
  <2>3. Alone' /\ Readied' /\ Landed' /\ Reading' /\ Chosen'
    BY <1>1, <2>1, <2>2 DEF WatchFallback, world, ghost, Alone, Readied, Landed, Reading,
       Steady, BusyJob, WatchCalls, Walkers, Chosen, BedFromSettings
  <2>4. StandsIn'
    BY <2>1, <2>2 DEF WatchFallback, ghost, StandsIn, Steady, BusyJob, Walkers
  <2>5. Agrees /\ Quiet /\ Between
    BY <2>1 DEF Steady, Synced, WatchFallback, Quiet, MidJob, BusyJob, Between
  <2>6. Agrees'
    BY <1>1, <2>1, <2>2, <2>5 DEF WatchFallback, world, ghost, Agrees, KeepsChoice, Hears,
       Playing, OnAir, BusyJob, Walkers
  <2>. QED
    BY <2>3, <2>4, <2>6 DEF Steady
<1>. QED
  BY <1>5, <1>6 DEF AudioInv

LEMMA SwapToRadioKeeps ==
  ASSUME AudioInv, SwapToRadio
  PROVE  AudioInv'
<1>1. CASE Rejected /\ wd' = Done(wd)
  <2>1. WatchShape(wd') /\ wd'.pc = "idle" /\ wd'.synced = wd.synced
    BY <1>1, WatchPlaces DEF WatchShape, Done
  <2>2. AudioShapes' /\ Orders' /\ (drifted => drifted')
    BY <1>1, <2>1, WatchPlaces, SameShapes, SameOrders
       DEF SwapToRadio, Rejected, world, store, ghost, AudioInv, AudioShapes
  <2>3. CASE ~drifted
    <3>1. adv["watchdog"] = "idle"
      BY <2>3, WatchPlaces DEF SwapToRadio
    <3>2. WatchMoves
      BY <1>1, <2>1, <3>1 DEF SwapToRadio, Rejected, world, store, ghost, WatchMoves, WatchCalls
    <3>. QED
      BY <3>2, WatchMovesKeeps
  <2>. QED
    BY <2>2, <2>3, DriftKeeps
<1>2. CASE Accepted /\ SetNetwork(station) /\ wd' = [wd EXCEPT !.pc = "onRadio"]
  <2>1. WatchShape(wd') /\ wd'.pc = "onRadio" /\ wd'.synced = wd.synced
    BY <1>2, WatchPlaces DEF WatchShape, WatchCalls
  <2>2. ~obs'.local /\ obs'.file = obs.file /\ obs'.url = station /\ SourceShape(obs')
    BY <1>2 DEF SetNetwork, AudioInv, AudioShapes, SourceShape
  <2>3. Orders'
    BY SameOrders DEF SwapToRadio, store, ghost
  <2>4. AudioShapes'
    BY <2>1, <2>2 DEF SwapToRadio, store, ghost, AudioInv, AudioShapes, JobShape
  <2>5. ASSUME ~drifted'
        PROVE  Steady' /\ Landed'
    <3>1. /\ Steady /\ Landed /\ ~drifted
          /\ wd.synced /\ bed = "radio" /\ KeepsChoice(station)
          /\ \A g \in Gens : ~BusyJob(g)
          /\ \A w \in Walkers : adv[w] = "idle"
      BY <2>5, WatchIsAlone, WatchPlaces DEF AudioInv, SwapToRadio, WatchCalls, Walkers
    <3>2. Alone' /\ StandsIn' /\ Readied' /\ Landed' /\ Reading'
      BY <2>1, <3>1 DEF SwapToRadio, store, ghost, Alone, StandsIn, Readied, Landed, Reading,
         Steady, BusyJob, WatchCalls, Walkers
    <3>3. Chosen'
      BY <2>2, <3>1 DEF SwapToRadio, ghost, Chosen, BedFromSettings, KeepsChoice
    <3>4. Agrees'
      BY <2>1, <2>2, <3>1 DEF SwapToRadio, store, ghost, Agrees, KeepsChoice, Between, BusyJob
    <3>. QED
      BY <3>2, <3>3, <3>4 DEF Steady
  <2>. QED
    BY <2>3, <2>4, <2>5 DEF AudioInv
<1>. QED
  BY <1>1, <1>2 DEF SwapToRadio

LEMMA RecordRadioKeeps ==
  ASSUME AudioInv, RecordRadio
  PROVE  AudioInv'
<1>1. WatchShape(wd') /\ wd'.pc = "idle" /\ wd'.synced = wd.synced
  BY WatchPlaces DEF RecordRadio, WatchShape
<1>2. Orders'
  BY SameOrders DEF RecordRadio, ghost
<1>3. AudioShapes'
  BY <1>1 DEF RecordRadio, world, ghost, AudioInv, AudioShapes, JobShape, SourceShape
<1>4. ASSUME ~drifted'
      PROVE  Steady' /\ Landed'
  <2>1. /\ Steady /\ Landed /\ ~drifted
        /\ wd.synced /\ bed = "radio" /\ KeepsChoice(station) /\ Agrees
        /\ \A g \in Gens : ~BusyJob(g)
        /\ \A w \in Walkers : adv[w] = "idle"
    BY <1>4, WatchIsAlone, WatchPlaces DEF AudioInv, RecordRadio, WatchCalls, Walkers
  <2>2. Alone' /\ StandsIn' /\ Readied' /\ Landed' /\ Reading' /\ Chosen'
    BY <1>1, <2>1 DEF RecordRadio, world, ghost, Alone, StandsIn, Readied, Landed, Reading,
       Steady, BusyJob, WatchCalls, Walkers, Chosen, BedFromSettings, KeepsChoice
  <2>3. Agrees'
    BY <1>1, <2>1 DEF RecordRadio, world, ghost, Agrees, KeepsChoice, Hears, Playing, OnAir,
       BusyJob
  <2>. QED
    BY <2>2, <2>3 DEF Steady
<1>. QED
  BY <1>2, <1>3, <1>4 DEF AudioInv

LEMMA WatchStepKeeps ==
  ASSUME AudioInv, WatchStep
  PROVE  AudioInv'
BY AudioTickKeeps, ResyncKeeps, ResyncFailsKeeps, DetectKeeps, HoldOffKeeps,
   SourceUnreadableKeeps, WatchRadioKeeps, SwapToFallbackKeeps, RecordFallbackKeeps,
   WatchFallbackKeeps, SitOutKeeps, ProbeKeeps, SwapToRadioKeeps, RecordRadioKeeps
   DEF WatchStep

(* The meter, and the album's advance. *)
LEMMA MeterEndedKeeps ==
  ASSUME AudioInv, MeterEnded
  PROVE  AudioInv'
<1>1. CASE AdvanceTo = "idle"
  <2>1. DOMAIN adv' = Walkers /\ \A w \in Walkers : adv'[w] = adv[w]
    BY <1>1, WatchPlaces DEF MeterEnded, StartAdvance
  <2>2. Unheard
    BY <1>1, <2>1 DEF MeterEnded, Unheard
  <2>. QED
    BY <2>2, UnheardKeeps
<1>2. CASE AdvanceTo # "idle"
  <2>1. /\ DOMAIN adv' = Walkers /\ adv'["watchdog"] = adv["watchdog"]
        /\ adv'["meter"] \in {"next", "rescue"} /\ fallback = "album"
    BY <1>2, AdvanceIsFit, WatchPlaces DEF MeterEnded, StartAdvance, Walkers
  <2>2. AudioShapes' /\ Orders'
    BY <2>1, SameShapes, SameOrders, WatchPlaces
       DEF MeterEnded, ghost, Walkers, AudioInv, AudioShapes
  <2>3. ASSUME ~drifted'
        PROVE  Steady' /\ Landed'
    <3>1. /\ Steady /\ Landed /\ ~drifted /\ wd.pc \notin WatchCalls
          /\ \A g \in Gens : ~BusyJob(g)
          /\ \A w \in Walkers : adv[w] = "idle"
      BY <1>2, <2>3 DEF AudioInv, MeterEnded, Starts, Busy, BusyJob
    <3>2. Alone' /\ Readied' /\ Landed' /\ Reading' /\ Chosen'
      BY <2>1, <3>1 DEF MeterEnded, ghost, Alone, Readied, Landed, Reading,
         Steady, BusyJob, WatchCalls, Walkers, Chosen, BedFromSettings
    <3>3. StandsIn'
      BY <2>1, <3>1 DEF MeterEnded, ghost, StandsIn, Steady, BusyJob, Walkers
    <3>4. Synced' => Agrees'
      BY <2>1, <3>1 DEF MeterEnded, ghost, Steady, Synced, Agrees, KeepsChoice, Hears, Between,
         Quiet, MidJob, Playing, OnAir, BusyJob, Walkers
    <3>. QED
      BY <3>2, <3>3, <3>4 DEF Steady
  <2>. QED
    BY <2>2, <2>3 DEF AudioInv
<1>. QED
  BY <1>1, <1>2

\* Who advances the album is alone, and the radio is the choice.
LEMMA WalkerIsAlone ==
  ASSUME AudioInv, ~drifted, NEW w \in Walkers, adv[w] # "idle"
  PROVE  /\ Steady /\ Landed
         /\ \A g \in Gens : ~BusyJob(g)
         /\ \A v \in Walkers : v # w => adv[v] = "idle"
         /\ wd.pc \notin WatchCalls \ {"advance"}
         /\ choice.bed = "radio"
         /\ adv[w] \in {"next", "rescue"} => fallback = "album"
         /\ Synced => Agrees /\ KeepsChoice(station)
<1>1. Steady /\ Landed
  BY DEF AudioInv
<1>2. \A g \in Gens : ~BusyJob(g)
  BY <1>1 DEF Steady, Alone, Walkers, WatchCalls
<1>3. Quiet
  BY <1>2 DEF Quiet, MidJob, BusyJob
<1>4. Synced => Agrees /\ KeepsChoice(station)
  BY <1>1, <1>3 DEF Steady, Agrees
<1>5. choice.bed = "radio" /\ (adv[w] \in {"next", "rescue"} => fallback = "album")
  BY <1>1 DEF Steady, StandsIn
<1>. QED
  BY <1>1, <1>2, <1>4, <1>5 DEF Steady, Alone, Walkers, WatchCalls

LEMMA NextTrackKeeps ==
  ASSUME AudioInv, NEW w \in Walkers, NextTrack(w)
  PROVE  AudioInv'
<1>1. /\ DOMAIN adv' = Walkers /\ adv'[w] = "idle"
      /\ \A v \in Walkers : v # w => adv'[v] = adv[v]
  BY WatchPlaces DEF NextTrack
<1>2. \/ obs' = obs
      \/ obs'.local /\ obs'.file = "album" /\ obs'.url = obs.url /\ SourceShape(obs')
  BY DEF NextTrack, SetLocalFile, Rejected, world, AudioInv, AudioShapes, SourceShape, LocalFiles
<1>3. library' = library
  BY DEF NextTrack, SetLocalFile, Rejected, world
<1>4. AudioShapes' /\ Orders'
  <2>1. Orders'
    BY SameOrders DEF NextTrack, store, ghost
  <2>2. SourceShape(obs')
    BY <1>2 DEF AudioInv, AudioShapes
  <2>. QED
    BY <1>1, <2>1, <2>2
       DEF NextTrack, store, ghost, AudioInv, AudioShapes, JobShape, WatchShape, SourceShape
<1>5. ASSUME ~drifted'
      PROVE  Steady' /\ Landed'
  <2>1. ~drifted /\ adv[w] = "next"
    BY <1>5 DEF NextTrack
  <2>2. /\ Steady /\ Landed
        /\ \A g \in Gens : ~BusyJob(g)
        /\ \A v \in Walkers : adv'[v] = "idle"
        /\ wd.pc \notin WatchCalls \ {"advance"}
        /\ choice.bed = "radio" /\ fallback = "album"
        /\ Synced => Agrees /\ KeepsChoice(station)
    BY <2>1, <1>1, WalkerIsAlone
  <2>3. Alone' /\ Readied' /\ Landed' /\ Reading' /\ StandsIn'
    BY <2>2 DEF NextTrack, store, ghost, Alone, Readied, Landed, Reading, StandsIn,
       Steady, BusyJob, WatchCalls, Walkers
  <2>4. Chosen'
    BY <1>2, <2>2, AudioFacts DEF NextTrack, ghost, Steady, Chosen, BedFromSettings
  <2>5. ASSUME Synced
        PROVE  Agrees'
    <3>1. Hears(voicing) /\ bed = "radio"
      <4>1. Quiet /\ Between
        BY <2>1, <2>2, <1>1 DEF Quiet, MidJob, BusyJob, Between, WatchCalls
      <4>. QED
        BY <4>1, <2>2, <2>5 DEF Agrees, KeepsChoice
    <3>2. Hears(voicing)'
      BY <1>2, <2>2, <3>1 DEF NextTrack, store, Hears, Playing, OnAir
    <3>3. KeepsChoice(station)'
      BY <2>2, <2>5 DEF NextTrack, store, ghost, KeepsChoice
    <3>. QED
      BY <2>2, <3>2, <3>3 DEF NextTrack, store, Agrees, BusyJob, WatchCalls
  <2>. QED
    BY <2>3, <2>4, <2>5 DEF Steady, Synced, NextTrack
<1>. QED
  BY <1>4, <1>5 DEF AudioInv

LEMMA RescueEmptyAlbumKeeps ==
  ASSUME AudioInv, NEW w \in Walkers, RescueEmptyAlbum(w)
  PROVE  AudioInv'
<1>1. /\ DOMAIN adv' = Walkers
      /\ \A v \in Walkers : v # w => adv'[v] = adv[v]
      /\ \/ adv'[w] = "idle" /\ obs' = obs
         \/ /\ adv'[w] = "rescued" /\ SourceShape(obs')
            /\ obs'.local /\ obs'.file = "drone" /\ obs'.url = obs.url
  BY WatchPlaces DEF RescueEmptyAlbum, SetLocalFile, Rejected, world, AudioInv, AudioShapes,
     SourceShape, LocalFiles
<1>2. AudioShapes' /\ Orders'
  <2>1. Orders'
    BY SameOrders DEF RescueEmptyAlbum, store, ghost
  <2>2. SourceShape(obs')
    BY <1>1 DEF AudioInv, AudioShapes
  <2>. QED
    BY <1>1, <2>1, <2>2
       DEF RescueEmptyAlbum, store, ghost, AudioInv, AudioShapes, JobShape, WatchShape, SourceShape
<1>3. ASSUME ~drifted'
      PROVE  Steady' /\ Landed'
  <2>1. ~drifted /\ adv[w] = "rescue"
    BY <1>3 DEF RescueEmptyAlbum
  <2>2. /\ Steady /\ Landed
        /\ \A g \in Gens : ~BusyJob(g)
        /\ \A v \in Walkers : v # w => adv'[v] = "idle" /\ adv[v] = "idle"
        /\ wd.pc \notin WatchCalls \ {"advance"}
        /\ choice.bed = "radio"
        /\ Synced => Agrees /\ KeepsChoice(station)
    BY <2>1, <1>1, WalkerIsAlone
  <2>3. Alone' /\ Readied' /\ Landed' /\ Reading' /\ StandsIn'
    BY <1>1, <2>1, <2>2 DEF RescueEmptyAlbum, store, ghost, Alone, Readied, Landed, Reading,
       StandsIn, Steady, BusyJob, WatchCalls, Walkers
  <2>4. Chosen'
    BY <1>1, <2>2, AudioFacts DEF RescueEmptyAlbum, ghost, Steady, Chosen, BedFromSettings
  <2>5. ASSUME Synced
        PROVE  Agrees'
    <3>1. Quiet /\ Between
      BY <2>1, <2>2 DEF Quiet, MidJob, BusyJob, Between, WatchCalls
    <3>2. Hears(voicing)
      BY <3>1, <2>2, <2>5 DEF Agrees
    <3>3. Between' => Hears(voicing)'
      BY <1>1, <3>2 DEF RescueEmptyAlbum, store, Hears, Playing, OnAir, Between
    <3>4. KeepsChoice(station)'
      BY <2>2, <2>5 DEF RescueEmptyAlbum, store, ghost, KeepsChoice
    <3>. QED
      BY <1>1, <2>2, <3>3, <3>4 DEF RescueEmptyAlbum, store, Agrees, BusyJob, WatchCalls
  <2>. QED
    BY <2>3, <2>4, <2>5 DEF Steady, Synced, RescueEmptyAlbum
<1>. QED
  BY <1>2, <1>3 DEF AudioInv

LEMMA RecordRescueKeeps ==
  ASSUME AudioInv, NEW w \in Walkers, RecordRescue(w)
  PROVE  AudioInv'
<1>1. DOMAIN adv' = Walkers /\ adv'[w] = "idle" /\ \A v \in Walkers : v # w => adv'[v] = adv[v]
  BY WatchPlaces DEF RecordRescue
<1>2. Orders'
  BY SameOrders DEF RecordRescue, ghost
<1>3. AudioShapes'
  BY <1>1 DEF RecordRescue, world, ghost, AudioInv, AudioShapes, JobShape, WatchShape, SourceShape
<1>4. ASSUME ~drifted'
      PROVE  Steady' /\ Landed'
  <2>1. ~drifted /\ adv[w] = "rescued"
    BY <1>4 DEF RecordRescue
  <2>2. /\ Steady /\ Landed
        /\ \A g \in Gens : ~BusyJob(g)
        /\ \A v \in Walkers : adv'[v] = "idle"
        /\ wd.pc \notin WatchCalls \ {"advance"}
        /\ choice.bed = "radio"
        /\ Synced => Agrees /\ KeepsChoice(station)
    BY <2>1, <1>1, WalkerIsAlone
  <2>3. Alone' /\ Readied' /\ Landed' /\ Reading' /\ StandsIn' /\ Chosen'
    BY <2>2 DEF RecordRescue, world, ghost, Alone, Readied, Landed, Reading, StandsIn,
       Steady, BusyJob, WatchCalls, Walkers, Chosen, BedFromSettings
  <2>4. ASSUME Synced
        PROVE  Agrees'
    <3>1. obs.local /\ obs.file = "drone" /\ bed = "radio"
      BY <2>1, <2>2, <2>4 DEF Agrees, KeepsChoice
    <3>2. KeepsChoice(station)' /\ Hears(voicing)'
      BY <2>2, <2>4, <3>1 DEF RecordRescue, world, ghost, KeepsChoice, Hears, Playing, OnAir
    <3>. QED
      BY <2>2, <3>2 DEF RecordRescue, Agrees, BusyJob, WatchCalls
  <2>. QED
    BY <2>3, <2>4 DEF Steady, Synced, RecordRescue
<1>. QED
  BY <1>2, <1>3, <1>4 DEF AudioInv

(* The environment. *)
LEMMA OBSDiesKeeps ==
  ASSUME AudioInv, OBSDies
  PROVE  AudioInv'
<1>1. /\ obs'.local = obs.local /\ obs'.file = obs.file /\ obs'.url = obs.url
      /\ SourceShape(obs')
  BY DEF OBSDies, AudioInv, AudioShapes, SourceShape
<1>2. AudioShapes'
  BY <1>1 DEF OBSDies, bot, store, ghost, AudioInv, AudioShapes, JobShape, WatchShape, SourceShape
<1>3. Orders'
  BY SameOrders DEF OBSDies, bot, store, ghost
<1>4. Steady /\ Landed => Steady' /\ Landed'
  BY <1>1 DEF OBSDies, bot, store, ghost, Steady, Landed, Alone, Chosen, StandsIn, Reading,
     Readied, Synced, Agrees, KeepsChoice, Hears, TookRight, Between, Quiet, MidJob, BusyJob,
     BedFromSettings, Playing, OnAir
<1>. QED
  BY <1>2, <1>3, <1>4 DEF AudioInv, OBSDies

\* A boot of OBS is a choice of its own; the watchdog has yet to read it.
LEMMA OBSBootsKeeps ==
  ASSUME AudioInv, OBSBoots
  PROVE  AudioInv'
<1>1. /\ obs'.local /\ obs'.file = "album" /\ obs'.url = BootStation /\ SourceShape(obs')
      /\ choice'.bed = "radio" /\ choice'.station = BootStation
      /\ asked' = NoSwitch /\ ~wd'.synced
  BY AudioFacts DEF OBSBoots, BootSettings, SourceShape, LocalFiles, bot
<1>2. AudioShapes'
  BY <1>1 DEF OBSBoots, bot, store, AudioInv, AudioShapes, JobShape, WatchShape, SourceShape, Beds
<1>3. Orders'
  BY <1>1 DEF OBSBoots, bot, store, AudioInv, Orders
<1>4. ASSUME Steady, Landed
      PROVE  Steady' /\ Landed'
  <2>1. Chosen'
    BY <1>1, AudioFacts DEF Chosen, BedFromSettings
  <2>2. Alone' /\ StandsIn' /\ Reading' /\ Readied' /\ Landed'
    BY <1>1, <1>4 DEF OBSBoots, bot, store, Steady, Alone, StandsIn, Reading, Readied, Landed,
       BusyJob, WatchCalls
  <2>. QED
    BY <1>1, <2>1, <2>2 DEF Steady, Synced
<1>. QED
  BY <1>2, <1>3, <1>4 DEF AudioInv, OBSBoots

LEMMA BotRestartsKeeps ==
  ASSUME AudioInv, BotRestarts
  PROVE  AudioInv'
<1>1. /\ DOMAIN job' = Gens /\ \A g \in Gens : job'[g].pc = "idle" /\ JobShape(job'[g])
      /\ wd'.pc = "idle" /\ ~wd'.synced /\ WatchShape(wd')
      /\ DOMAIN adv' = Walkers /\ \A w \in Walkers : adv'[w] = "idle"
  BY DEF BotRestarts, Idle, Watch0, JobShape, WatchShape, WatchCalls
<1>2. AudioShapes'
  BY <1>1, AudioFacts DEF BotRestarts, AudioInv, AudioShapes, SourceShape, Beds
<1>3. Orders' /\ Landed'
  BY <1>1 DEF BotRestarts, Orders, Landed
<1>4. ASSUME Steady
      PROVE  Steady'
  BY <1>1, <1>4 DEF BotRestarts, Steady, Alone, Chosen, StandsIn, Reading, Readied, Synced,
     BusyJob, BedFromSettings, WatchCalls, Walkers
<1>. QED
  BY <1>2, <1>3, <1>4 DEF AudioInv, BotRestarts

LEMMA WorldKeeps ==
  ASSUME AudioInv, World
  PROVE  AudioInv'
<1>1. CASE \/ TrackEnds \/ RadioStalls \/ QuietEnds \/ DebouncePasses
           \/ \E s \in Stations : EdgeReturns(s)
  <2>1. Unheard
    BY <1>1, WatchPlaces DEF TrackEnds, RadioStalls, QuietEnds, DebouncePasses, EdgeReturns,
       Unheard, bot, store, world, ghost
  <2>. QED
    BY <2>1, UnheardKeeps
<1>. QED
  BY <1>1, OBSDiesKeeps, OBSBootsKeeps, BotRestartsKeeps DEF World

(* The console and chat, and the switches they ask for. *)
LEMMA ScheduleKeeps ==
  ASSUME AudioInv, NEW sw \in Switches, Schedule(sw)
  PROVE  AudioInv'
<1>1. gen + 1 \in Gens /\ gen' = gen + 1 /\ gen' \in 0 .. MaxGen /\ gen' > gen /\ Gens \subseteq Nat
  BY AudioFacts DEF Schedule, Gens, AudioInv, AudioShapes
<1>2. /\ DOMAIN job' = Gens
      /\ job'[gen'] = [pc |-> "armed", sw |-> sw]
      /\ \A g \in Gens : g # gen' => job'[g] = IF job[g].pc = "armed" THEN Idle ELSE job[g]
  BY <1>1 DEF Schedule, StopTimer
<1>3. \A g \in Gens : /\ JobShape(job'[g])
                      /\ BusyJob(g)' <=> BusyJob(g)
                      /\ BusyJob(g) => job'[g] = job[g] /\ g # gen'
  BY <1>1, <1>2 DEF AudioInv, AudioShapes, Orders, JobShape, BusyJob, Idle
<1>4. sw # NoSwitch
  BY NoSwitchIsNone
<1>5. AudioShapes'
  BY <1>1, <1>2, <1>3 DEF Schedule, world, AudioInv, AudioShapes, WatchShape, SourceShape
<1>6. Orders'
  <2>1. pending' = sw /\ asked' = sw
    BY DEF Schedule
  <2>2. \A g \in Gens : g > gen' => job'[g].pc = "idle"
    <3>. SUFFICES ASSUME NEW g \in Gens, g > gen'
                  PROVE  job'[g].pc = "idle"
      OBVIOUS
    <3>1. g # gen' /\ g > gen
      BY <1>1 DEF AudioInv, AudioShapes
    <3>2. job[g].pc = "idle"
      BY <3>1 DEF AudioInv, Orders
    <3>. QED
      BY <1>2, <3>1, <3>2
  <2>3. job'[gen'].sw = sw
    BY <1>2
  <2>. QED
    BY <1>4, <2>1, <2>2, <2>3 DEF Orders
<1>7. ASSUME Steady, Landed
      PROVE  Steady' /\ Landed'
  <2>1. Landed'
    BY <1>2, <1>3, <1>4 DEF Landed, Schedule
  <2>2. Alone' /\ Chosen' /\ Reading'
    BY <1>3, <1>7 DEF Schedule, world, Steady, Alone, Chosen, Reading, BedFromSettings
  <2>3. \A g \in Gens : /\ job'[g].pc = "took" <=> job[g].pc = "took"
                        /\ job'[g].pc = "ready" <=> job[g].pc = "ready"
                        /\ job'[g].pc = "refused" <=> job[g].pc = "refused"
                        /\ MidJob(g) => job'[g] = job[g]
    <3>. SUFFICES ASSUME NEW g \in Gens
                  PROVE  /\ job'[g].pc = "took" <=> job[g].pc = "took"
                         /\ job'[g].pc = "ready" <=> job[g].pc = "ready"
                         /\ job'[g].pc = "refused" <=> job[g].pc = "refused"
                         /\ MidJob(g) => job'[g] = job[g]
      OBVIOUS
    <3>1. CASE BusyJob(g)
      BY <1>3, <3>1
    <3>2. CASE ~BusyJob(g)
      BY <1>3, <3>2 DEF BusyJob, MidJob
    <3>. QED
      BY <3>1, <3>2
  <2>4. StandsIn' /\ Readied'
    BY <2>3, <1>7 DEF Schedule, Steady, StandsIn, Readied, MidJob
  <2>5. Quiet' => Quiet
    BY <2>3 DEF Quiet, MidJob
  <2>6. Synced' => Agrees'
    BY <2>3, <2>5, <1>7 DEF Schedule, world, Steady, Synced, Agrees, KeepsChoice, Hears,
       TookRight, Between, MidJob, Playing, OnAir
  <2>. QED
    BY <2>1, <2>2, <2>4, <2>6 DEF Steady
<1>. QED
  BY <1>5, <1>6, <1>7 DEF AudioInv, Schedule

\* A request that begins to land at once takes the place of an armed one.
LEMMA ApplyNowKeeps ==
  ASSUME AudioInv, ApplyNow
  PROVE  AudioInv'
<1>1. gen + 1 \in Gens /\ gen' = gen + 1 /\ gen' \in 0 .. MaxGen /\ gen' > gen /\ Gens \subseteq Nat
  BY AudioFacts DEF ApplyNow, Gens, AudioInv, AudioShapes
<1>2. /\ DOMAIN job' = Gens
      /\ job'[gen'] = [pc |-> "due", sw |-> pending]
      /\ \A g \in Gens : g # gen' => job'[g] = IF job[g].pc = "armed" THEN Idle ELSE job[g]
      /\ pending \in Switches /\ pending # NoSwitch
  BY <1>1 DEF ApplyNow, StopTimer, AudioInv, AudioShapes
<1>3. \A g \in Gens : JobShape(job'[g])
  BY <1>1, <1>2 DEF AudioInv, AudioShapes, JobShape, Idle
<1>4. AudioShapes'
  BY <1>1, <1>2, <1>3 DEF ApplyNow, world, ghost, AudioInv, AudioShapes, WatchShape, SourceShape
<1>5. Orders'
  <2>1. \A g \in Gens : g > gen' => job'[g].pc = "idle"
    <3>. SUFFICES ASSUME NEW g \in Gens, g > gen'
                  PROVE  job'[g].pc = "idle"
      OBVIOUS
    <3>1. g # gen' /\ g > gen
      BY <1>1 DEF AudioInv, AudioShapes
    <3>2. job[g].pc = "idle"
      BY <3>1 DEF AudioInv, Orders
    <3>. QED
      BY <1>2, <3>1, <3>2
  <2>2. job'[gen'].sw = pending
    BY <1>2
  <2>3. asked # NoSwitch => pending = asked
    BY <1>2 DEF AudioInv, Orders
  <2>. QED
    BY <1>2, <2>1, <2>2, <2>3 DEF Orders, ApplyNow, ghost
<1>6. ASSUME ~drifted'
      PROVE  Steady' /\ Landed'
  <2>1. /\ Steady /\ Landed /\ wd.pc \notin WatchCalls
        /\ \A g \in Gens : ~BusyJob(g)
        /\ \A w \in Walkers : adv[w] = "idle"
    BY <1>6 DEF AudioInv, ApplyNow, Starts, Busy, BusyJob
  <2>2. \A g \in Gens : job'[g].pc \in {"idle", "armed", "fired"} \/ (g = gen' /\ job'[g].pc = "due")
    <3>. SUFFICES ASSUME NEW g \in Gens, g # gen'
                  PROVE  job'[g].pc \in {"idle", "armed", "fired"}
      BY <1>2
    <3>1. job[g].pc \in {"idle", "armed", "fired"}
      BY <2>1 DEF BusyJob, AudioInv, AudioShapes, JobShape
    <3>. QED
      BY <1>2, <3>1 DEF Idle
  <2>3. Quiet' /\ Quiet
    BY <2>1, <2>2 DEF Quiet, MidJob, BusyJob
  <2>4. Alone'
    BY <2>1, <2>2 DEF ApplyNow, Alone, BusyJob, Walkers, WatchCalls
  <2>5. Chosen' /\ Reading'
    BY <2>1 DEF ApplyNow, world, ghost, Steady, Chosen, Reading, BedFromSettings
  <2>6. StandsIn' /\ Readied'
    BY <2>1, <2>2 DEF ApplyNow, ghost, Steady, StandsIn, Readied, BusyJob
  <2>7. Landed'
    BY <1>2, <2>2 DEF Landed, ApplyNow
  <2>8. Synced' => Agrees'
    BY <2>1, <2>2, <2>3 DEF ApplyNow, world, ghost, Steady, Synced, Agrees, KeepsChoice, Hears,
       Between, Playing, OnAir
  <2>. QED
    BY <2>4, <2>5, <2>6, <2>7, <2>8 DEF Steady
<1>. QED
  BY <1>4, <1>5, <1>6 DEF AudioInv

\* Steps of one switch g leave the others alone.
OnlyJob(g) ==
  /\ DOMAIN job' = Gens
  /\ JobShape(job'[g])
  /\ \A h \in Gens : h # g => job'[h] = job[h]

LEMMA JobShapes ==
  ASSUME AudioInv, NEW g \in Gens, OnlyJob(g),
         UNCHANGED <<obs, bed, fallback, gen, wd, adv, asked>>,
         station' \in Stations, voicing' \in Voicings, choice'.bed \in Beds,
         pending' \in {pending, NoSwitch}
  PROVE  AudioShapes'
BY DEF OnlyJob, AudioInv, AudioShapes, JobShape, WatchShape, SourceShape

\* The switch that has begun to land is alone.
LEMMA JobIsAlone ==
  ASSUME AudioInv, ~drifted, NEW g \in Gens, BusyJob(g)
  PROVE  /\ Steady /\ Landed
         /\ \A h \in Gens : h # g => ~BusyJob(h)
         /\ wd.pc \notin WatchCalls
         /\ \A w \in Walkers : adv[w] = "idle"
         /\ Synced => Agrees
<1>1. Steady /\ Landed
  BY DEF AudioInv
<1>2. wd.pc \notin WatchCalls
  BY <1>1 DEF Steady, Alone
<1>3. \A h \in Gens : h # g => ~BusyJob(h)
  BY <1>1 DEF Steady, Alone
<1>4. \A w \in Walkers : adv[w] = "idle"
  BY <1>1, <1>2 DEF Steady, Alone, Walkers, WatchCalls
<1>. QED
  BY <1>1, <1>2, <1>3, <1>4 DEF Steady

LEMMA FireKeeps ==
  ASSUME AudioInv, NEW g \in Gens, Fire(g)
  PROVE  AudioInv'
<1>1. /\ OnlyJob(g) /\ job[g].pc = "armed" /\ job'[g].pc = "fired" /\ job'[g].sw = job[g].sw
  BY DEF Fire, OnlyJob, JobShape, AudioInv, AudioShapes
<1>2. AudioShapes'
  BY <1>1 DEF Fire, OnlyJob, world, store, ghost, AudioInv, AudioShapes, WatchShape, SourceShape
<1>3. Orders'
  <2>1. ~(g > gen)
    BY <1>1 DEF AudioInv, Orders
  <2>. QED
    BY <1>1, <2>1 DEF Fire, OnlyJob, store, ghost, AudioInv, Orders
<1>4. ASSUME Steady, Landed
      PROVE  Steady' /\ Landed'
  BY <1>1, <1>4 DEF Fire, OnlyJob, world, store, ghost, Steady, Landed, Alone, Chosen, StandsIn,
     Reading, Readied, Synced, Agrees, KeepsChoice, Hears, TookRight, Between, Quiet, MidJob,
     BusyJob, BedFromSettings, Playing, OnAir
<1>. QED
  BY <1>2, <1>3, <1>4 DEF AudioInv, Fire

LEMMA CheckStaleKeeps ==
  ASSUME AudioInv, NEW g \in Gens, CheckStale(g)
  PROVE  AudioInv'
<1>1. /\ OnlyJob(g) /\ job[g].pc = "fired"
      /\ \/ gen # g /\ job'[g].pc = "idle" /\ drifted' = drifted
         \/ /\ gen = g /\ job'[g].pc = "due" /\ job'[g].sw = job[g].sw
            /\ drifted' = (drifted \/ Busy)
  BY DEF CheckStale, Starts, OnlyJob, JobShape, Idle, AudioInv, AudioShapes
<1>2. AudioShapes'
  BY <1>1 DEF CheckStale, OnlyJob, world, store, ghost, AudioInv, AudioShapes, WatchShape, SourceShape
<1>3. Orders'
  <2>1. ~(g > gen)
    BY <1>1 DEF AudioInv, Orders
  <2>. QED
    BY <1>1, <2>1 DEF CheckStale, OnlyJob, store, ghost, AudioInv, Orders
<1>4. ASSUME ~drifted'
      PROVE  Steady' /\ Landed'
  <2>. ~drifted /\ (gen = g => ~Busy)
    <3>1. CASE gen # g
      BY <1>1, <1>4, <3>1
    <3>2. CASE gen = g
      BY <1>1, <1>4, <3>2
    <3>. QED
      BY <3>1, <3>2
  <2>1. Steady /\ Landed /\ (gen = g => ~Busy)
    BY DEF AudioInv
  <2>2. CASE gen # g
    BY <1>1, <2>1, <2>2 DEF CheckStale, OnlyJob, world, store, ghost, Steady, Landed, Alone,
       Chosen, StandsIn, Reading, Readied, Synced, Agrees, KeepsChoice, Hears, TookRight, Between,
       Quiet, MidJob, BusyJob, BedFromSettings, Playing, OnAir
  <2>3. CASE gen = g
    <3>1. /\ \A h \in Gens : ~BusyJob(h)
          /\ wd.pc \notin WatchCalls /\ \A w \in Walkers : adv[w] = "idle"
      BY <2>1, <2>3 DEF Busy, BusyJob
    <3>2. \A h \in Gens : job'[h].pc \notin {"ready", "took", "refused"} /\ (h # g => ~BusyJob(h)')
      BY <1>1, <2>3, <3>1 DEF OnlyJob, BusyJob
    <3>3. Alone'
      BY <3>1, <3>2 DEF CheckStale, Alone, BusyJob, Walkers, WatchCalls
    <3>4. Chosen' /\ Reading'
      BY <2>1 DEF CheckStale, world, store, ghost, Steady, Chosen, Reading, BedFromSettings
    <3>5. StandsIn' /\ Readied'
      BY <2>1, <3>1, <3>2 DEF CheckStale, store, ghost, Steady, StandsIn, Readied, BusyJob
    <3>6. Landed'
      <4>1. pending # NoSwitch
        BY <1>1, <2>3 DEF AudioInv, Orders
      <4>. QED
        BY <3>2, <4>1 DEF Landed, CheckStale, store
    <3>7. Quiet' /\ Quiet
      BY <3>1, <3>2 DEF Quiet, MidJob, BusyJob
    <3>8. Synced' => Agrees'
      BY <2>1, <3>2, <3>7 DEF CheckStale, world, store, ghost, Steady, Synced, Agrees,
         KeepsChoice, Hears, Between, Playing, OnAir
    <3>. QED
      BY <3>3, <3>4, <3>5, <3>6, <3>8 DEF Steady
  <2>. QED
    BY <2>2, <2>3
<1>. QED
  BY <1>2, <1>3, <1>4 DEF AudioInv

LEMMA ApplyPendingKeeps ==
  ASSUME AudioInv, NEW g \in Gens, ApplyPending(g)
  PROVE  AudioInv'
<1>1. /\ job[g].pc = "due" /\ job[g].sw \in Switches
      /\ job' = [job EXCEPT ![g] = [pc |-> "ready", sw |-> job[g].sw,
                                   prev |-> <<station, voicing>>]]
      /\ station' = job[g].sw.station /\ voicing' = job[g].sw.voicing
  BY DEF ApplyPending, AudioInv, AudioShapes, JobShape
<1>2. /\ OnlyJob(g) /\ job'[g].pc = "ready" /\ job'[g].sw = job[g].sw
      /\ job'[g].prev[1] = station /\ job'[g].prev[2] = voicing
  BY <1>1 DEF OnlyJob, JobShape, AudioInv, AudioShapes
<1>3. AudioShapes'
  <2>1. station' \in Stations /\ voicing' \in Voicings
    BY <1>1 DEF Switches
  <2>. QED
    BY <1>2, <2>1, JobShapes DEF ApplyPending, world, ghost, AudioInv, AudioShapes
<1>4. Orders'
  <2>1. ~(g > gen)
    BY <1>1 DEF AudioInv, Orders
  <2>. QED
    BY <1>1, <1>2, <2>1 DEF ApplyPending, OnlyJob, ghost, AudioInv, Orders
<1>5. ASSUME ~drifted'
      PROVE  Steady' /\ Landed'
  <2>1. /\ Steady /\ Landed
        /\ \A h \in Gens : h # g => ~BusyJob(h)
        /\ wd.pc \notin WatchCalls
        /\ \A w \in Walkers : adv[w] = "idle"
        /\ Synced => Agrees
    BY <1>1, <1>5, JobIsAlone DEF BusyJob, ApplyPending
  <2>2. \A h \in Gens : h # g => job'[h] = job[h] /\ ~BusyJob(h)'
    BY <2>1, <1>2 DEF OnlyJob, BusyJob
  <2>3. Alone' /\ Reading'
    BY <2>1, <2>2 DEF ApplyPending, world, Steady, Alone, Reading, BusyJob, Walkers, WatchCalls
  <2>4. Chosen' /\ StandsIn'
    BY <1>1, <1>2, <2>1, <2>2 DEF ApplyPending, world, ghost, Steady, Chosen, StandsIn,
       BusyJob, BedFromSettings
  <2>5. Readied'
    BY <1>1, <1>2, <2>2 DEF Readied, BusyJob
  <2>6. Landed'
    BY <1>1, <1>2, <2>1, <2>2 DEF ApplyPending, ghost, Landed, BusyJob
  <2>7. ASSUME Synced
        PROVE  Agrees'
    <3>1. Quiet /\ Between
      BY <1>1, <2>1 DEF Quiet, MidJob, BusyJob, Between, WatchCalls
    <3>2. KeepsChoice(station) /\ Hears(voicing)
      BY <2>1, <2>7, <3>1 DEF Agrees
    <3>3. KeepsChoice(job[g].prev[1])' /\ Hears(job[g].prev[2])'
      BY <1>2, <3>2 DEF ApplyPending, world, ghost, KeepsChoice, Hears, Playing, OnAir
    <3>4. ~Quiet'
      BY <1>2 DEF Quiet, MidJob
    <3>. QED
      BY <1>2, <2>1, <2>2, <3>3, <3>4 DEF ApplyPending, Agrees, BusyJob, WatchCalls
  <2>. QED
    BY <2>3, <2>4, <2>5, <2>6, <2>7 DEF Steady, Synced, ApplyPending
<1>. QED
  BY <1>3, <1>4, <1>5 DEF AudioInv

\* OBS took the switch: what it plays is the choice now.
LEMMA AcceptedKeeps ==
  ASSUME AudioInv, NEW g \in Gens, job[g].pc = "ready",
         IF job[g].sw.bed = "radio" THEN SetNetwork(job[g].sw.station)
                                    ELSE SetLocalFile(job[g].sw.voicing),
         job' = [job EXCEPT ![g].pc = "took"],
         choice' = [bed |-> job[g].sw.bed, station |-> job[g].sw.station],
         UNCHANGED <<store, wd, adv, asked, refused, drifted>>
  PROVE  AudioInv'
<1>. DEFINE sw == job[g].sw
<1>1. sw.bed \in Beds /\ sw.station \in Stations /\ sw.voicing \in Voicings
  BY DEF AudioInv, AudioShapes, JobShape, Switches
<1>2. /\ OnlyJob(g) /\ job'[g].pc = "took" /\ job'[g].sw = sw
  BY DEF OnlyJob, JobShape, AudioInv, AudioShapes
<1>3. /\ SourceShape(obs') /\ library' = library
      /\ sw.bed = "radio" => ~obs'.local /\ obs'.url = sw.station
      /\ sw.bed = "carhum" => obs'.local /\ obs'.file = sw.voicing
      /\ choice'.bed = sw.bed /\ choice'.station = sw.station
  BY <1>1 DEF SetNetwork, SetLocalFile, SourceShape, LocalFiles, AudioInv, AudioShapes, Beds
<1>4. AudioShapes'
  BY <1>1, <1>2, <1>3 DEF OnlyJob, store, AudioInv, AudioShapes, WatchShape
<1>5. Orders'
  <2>1. ~(g > gen)
    BY DEF AudioInv, Orders
  <2>. QED
    BY <1>2, <2>1 DEF OnlyJob, store, AudioInv, Orders
<1>6. ASSUME ~drifted'
      PROVE  Steady' /\ Landed'
  <2>1. /\ Steady /\ Landed
        /\ \A h \in Gens : h # g => ~BusyJob(h)
        /\ wd.pc \notin WatchCalls
        /\ \A w \in Walkers : adv[w] = "idle"
    BY <1>6, JobIsAlone DEF BusyJob
  <2>2. \A h \in Gens : h # g => job'[h] = job[h] /\ ~BusyJob(h)'
    BY <2>1, <1>2 DEF OnlyJob, BusyJob
  <2>3. Alone' /\ Readied'
    BY <1>2, <2>1, <2>2 DEF Alone, Readied, BusyJob, Walkers, WatchCalls
  <2>4. Reading'
    BY <2>1 DEF store, Steady, Reading, WatchCalls
  <2>5. Chosen'
    <3>1. CASE sw.bed = "radio"
      BY <1>3, <3>1 DEF Chosen, BedFromSettings
    <3>2. CASE sw.bed = "carhum"
      BY <1>1, <1>3, <3>2 DEF Chosen, BedFromSettings
    <3>. QED
      BY <1>1, <3>1, <3>2 DEF Beds
  <2>6. StandsIn'
    BY <1>2, <2>1 DEF StandsIn
  <2>7. Landed'
    <3>1. asked # NoSwitch => pending # NoSwitch
      BY <2>1 DEF Landed, BusyJob
    <3>2. g = gen /\ asked # NoSwitch => sw = asked
      BY DEF AudioInv, Orders
    <3>. QED
      BY <1>2, <2>2, <3>1, <3>2 DEF Landed, BusyJob, store
  <2>8. Agrees'
    <3>1. station = sw.station /\ voicing = sw.voicing
      BY <2>1 DEF Steady, Readied
    <3>2. TookRight(sw)'
      BY <1>3, <3>1 DEF TookRight, store
    <3>3. ~Quiet'
      BY <1>2 DEF Quiet, MidJob
    <3>. QED
      BY <1>2, <2>1, <2>2, <3>2, <3>3 DEF Agrees, BusyJob, WatchCalls
  <2>. QED
    BY <2>3, <2>4, <2>5, <2>6, <2>7, <2>8 DEF Steady
<1>. QED
  BY <1>4, <1>5, <1>6 DEF AudioInv

LEMMA ApplyKeeps ==
  ASSUME AudioInv, NEW g \in Gens, Apply(g)
  PROVE  AudioInv'
<1>1. CASE Rejected /\ job' = [job EXCEPT ![g].pc = "refused"] /\ UNCHANGED choice
  <2>1. /\ OnlyJob(g) /\ job[g].pc = "ready" /\ job'[g].pc = "refused"
        /\ job'[g].sw = job[g].sw /\ job'[g].prev = job[g].prev
    BY <1>1 DEF Apply, OnlyJob, JobShape, AudioInv, AudioShapes
  <2>2. AudioShapes'
    BY <1>1, <2>1 DEF Apply, Rejected, OnlyJob, world, store, AudioInv, AudioShapes,
       WatchShape, SourceShape
  <2>3. Orders'
    <3>1. ~(g > gen)
      BY <2>1 DEF AudioInv, Orders
    <3>. QED
      BY <2>1, <3>1 DEF Apply, OnlyJob, store, AudioInv, Orders
  <2>4. ASSUME Steady, Landed
        PROVE  Steady' /\ Landed'
    <3>. USE <1>1 DEF Apply, Rejected, world, store
    <3>1. Alone' /\ Chosen' /\ Readied' /\ Reading' /\ StandsIn'
      BY <2>1, <2>4 DEF OnlyJob, Steady, Alone, Chosen, Readied, Reading, StandsIn, BusyJob,
         BedFromSettings
    <3>2. Landed'
      BY <2>1, <2>4 DEF OnlyJob, Landed, BusyJob
    <3>3. Synced' => Agrees'
      BY <2>1, <2>4 DEF OnlyJob, Steady, Synced, Agrees, KeepsChoice, Hears, TookRight,
         Between, Quiet, MidJob, Playing, OnAir
    <3>. QED
      BY <3>1, <3>2, <3>3 DEF Steady
  <2>. QED
    BY <2>2, <2>3, <2>4 DEF AudioInv, Apply
<1>. QED
  BY <1>1, AcceptedKeeps DEF Apply

LEMMA RecordSwitchKeeps ==
  ASSUME AudioInv, NEW g \in Gens, RecordSwitch(g)
  PROVE  AudioInv'
<1>. DEFINE sw == job[g].sw
<1>1. /\ job[g].pc = "took" /\ sw.bed \in Beds /\ sw.station \in Stations
      /\ sw.voicing \in Voicings
      /\ OnlyJob(g) /\ job'[g].pc = "idle"
      /\ pending' = IF gen = g THEN NoSwitch ELSE pending
  BY DEF RecordSwitch, ClearPending, OnlyJob, JobShape, Idle, AudioInv, AudioShapes, Switches
<1>2. AudioShapes'
  BY <1>1 DEF RecordSwitch, OnlyJob, world, ghost, AudioInv, AudioShapes, WatchShape, SourceShape
<1>3. Orders'
  BY <1>1 DEF RecordSwitch, OnlyJob, ghost, AudioInv, Orders
<1>4. ASSUME ~drifted'
      PROVE  Steady' /\ Landed'
  <2>1. /\ Steady /\ Landed
        /\ \A h \in Gens : h # g => ~BusyJob(h)
        /\ wd.pc \notin WatchCalls
        /\ \A w \in Walkers : adv[w] = "idle"
        /\ Synced => Agrees
    BY <1>1, <1>4, JobIsAlone DEF BusyJob, RecordSwitch
  <2>2. \A h \in Gens : ~BusyJob(h)'
    BY <2>1, <1>1 DEF OnlyJob, BusyJob
  <2>3. Alone' /\ Readied' /\ Reading' /\ Chosen' /\ StandsIn'
    BY <2>1, <2>2 DEF RecordSwitch, world, ghost, Steady, Alone, Readied, Reading, Chosen,
       StandsIn, BusyJob, Walkers, WatchCalls, BedFromSettings
  <2>4. Landed'
    BY <1>1, <2>1, <2>2 DEF RecordSwitch, ghost, Landed, BusyJob
  <2>5. ASSUME Synced
        PROVE  Agrees'
    <3>1. TookRight(sw)
      BY <1>1, <2>1, <2>5 DEF Agrees
    <3>2. KeepsChoice(station)'
      BY <3>1 DEF RecordSwitch, ghost, KeepsChoice, TookRight
    <3>3. Hears(voicing)'
      BY <1>1, <3>1, AudioFacts DEF RecordSwitch, world, TookRight, Hears, Playing, OnAir, Beds
    <3>. QED
      BY <2>1, <2>2, <3>2, <3>3 DEF RecordSwitch, Agrees, BusyJob, WatchCalls
  <2>. QED
    BY <2>3, <2>4, <2>5 DEF Steady, Synced, RecordSwitch
<1>. QED
  BY <1>2, <1>3, <1>4 DEF AudioInv

LEMMA RollBackKeeps ==
  ASSUME AudioInv, NEW g \in Gens, RollBack(g)
  PROVE  AudioInv'
<1>. DEFINE prev == job[g].prev
<1>1. /\ job[g].pc = "refused" /\ prev[1] \in Stations /\ prev[2] \in Voicings
      /\ OnlyJob(g) /\ job'[g].pc = "idle"
      /\ pending' = IF gen = g THEN NoSwitch ELSE pending
  BY DEF RollBack, ClearPending, OnlyJob, JobShape, Idle, AudioInv, AudioShapes
<1>2. AudioShapes'
  BY <1>1 DEF RollBack, OnlyJob, world, AudioInv, AudioShapes, WatchShape, SourceShape
<1>3. Orders'
  BY <1>1 DEF RollBack, OnlyJob, AudioInv, Orders
<1>4. ASSUME ~drifted'
      PROVE  Steady' /\ Landed'
  <2>1. /\ Steady /\ Landed
        /\ \A h \in Gens : h # g => ~BusyJob(h)
        /\ wd.pc \notin WatchCalls
        /\ \A w \in Walkers : adv[w] = "idle"
        /\ Synced => Agrees
    BY <1>1, <1>4, JobIsAlone DEF BusyJob, RollBack
  <2>2. \A h \in Gens : ~BusyJob(h)'
    BY <2>1, <1>1 DEF OnlyJob, BusyJob
  <2>3. Alone' /\ Readied' /\ Reading' /\ Chosen'
    BY <2>1, <2>2 DEF RollBack, world, Steady, Alone, Readied, Reading, Chosen,
       BusyJob, Walkers, WatchCalls, BedFromSettings
  <2>4. StandsIn'
    BY <1>1, <2>1 DEF RollBack, Steady, StandsIn, BusyJob
  <2>5. Landed'
    BY <2>2 DEF RollBack, Landed, BusyJob
  <2>6. ASSUME Synced
        PROVE  Agrees'
    <3>1. KeepsChoice(prev[1]) /\ Hears(prev[2])
      BY <1>1, <2>1, <2>6 DEF Agrees
    <3>2. KeepsChoice(station)' /\ Hears(voicing)'
      BY <3>1 DEF RollBack, world, KeepsChoice, Hears, Playing, OnAir
    <3>. QED
      BY <2>1, <2>2, <3>2 DEF RollBack, Agrees, BusyJob, WatchCalls
  <2>. QED
    BY <2>3, <2>4, <2>5, <2>6 DEF Steady, Synced, RollBack
<1>. QED
  BY <1>2, <1>3, <1>4 DEF AudioInv

LEMMA AudioInductive == AudioInv /\ [AudioNext]_audioVars => AudioInv'
<1>. SUFFICES ASSUME AudioInv, [AudioNext]_audioVars
              PROVE  AudioInv'
  OBVIOUS
<1>1. CASE UNCHANGED audioVars
  <2>1. Unheard
    BY <1>1, WatchPlaces DEF audioVars, Unheard, world, store
  <2>. QED
    BY <2>1, UnheardKeeps
<1>2. CASE Requests
  <2>1. \A b \in Beds : [bed |-> b, station |-> station, voicing |-> voicing] \in Switches
    BY DEF Switches, AudioInv, AudioShapes
  <2>2. \A s \in Stations : [bed |-> "radio", station |-> s, voicing |-> voicing] \in Switches
    BY DEF Switches, Beds, AudioInv, AudioShapes
  <2>3. \A v \in Voicings : [bed |-> "carhum", station |-> station, voicing |-> v] \in Switches
    BY DEF Switches, Beds, AudioInv, AudioShapes
  <2>. QED
    BY <1>2, <2>1, <2>2, <2>3, ScheduleKeeps, ApplyNowKeeps
       DEF Requests, Set, SetStation, SetVoicing
<1>3. CASE \E g \in Gens : SwitchStep(g)
  BY <1>3, FireKeeps, CheckStaleKeeps, ApplyPendingKeeps, ApplyKeeps, RecordSwitchKeeps,
     RollBackKeeps DEF SwitchStep
<1>4. CASE \E w \in Walkers : AdvanceStep(w)
  BY <1>4, NextTrackKeeps, RescueEmptyAlbumKeeps, RecordRescueKeeps DEF AdvanceStep
<1>. QED
  BY <1>1, <1>2, <1>3, <1>4, WorldKeeps, MeterEndedKeeps, WatchStepKeeps DEF AudioNext

LEMMA AudioInvHolds == AudioInv => AudioIsAsAsked
<1>. SUFFICES ASSUME AudioInv
              PROVE  AudioIsAsAsked
  OBVIOUS
<1>1. ASSUME ~drifted, Settled
      PROVE  KeepsChoice(station) /\ Hears(voicing) /\ Chosen
  <2>1. Steady /\ Quiet /\ Between /\ Synced
    BY <1>1 DEF AudioInv, Settled, Busy, Quiet, MidJob, Between, Synced, WatchCalls
  <2>. QED
    BY <2>1 DEF Steady, Agrees
<1>2. PlayingIsOnAir
  BY <1>1 DEF PlayingIsOnAir, ReportsWhatIsOnAir, KeepsChoice, Hears, Chosen, Playing, OnAir,
     AudioInv, AudioShapes, Beds
<1>3. ChoiceStands
  BY <1>1 DEF ChoiceStands, KeepsChoice
<1>4. LastRequestWins
  BY DEF LastRequestWins, AudioInv, Landed
<1>. QED
  BY <1>2, <1>3, <1>4 DEF AudioIsAsAsked

\* Whatever stalls, dies or is refused, and however the console, chat, the
\* volume meter and the watchdog take turns on the source, what the store says
\* plays is what is heard, the last choice stands through every stand-in and the
\* last switch asked for wins (beds.go: Playing, Detect, applyPending).
THEOREM AudioStaysAsAsked == AudioSpec => []AudioIsAsAsked
<1>1. AudioSpec => []AudioInv
  BY AudioInitially, AudioInductive, PTL DEF AudioSpec
<1>. QED
  BY <1>1, AudioInvHolds, PTL

-----------------------------------------------------------------------------
(* The drawn road                                                          *)
(*                                                                         *)
(* A corpus becomes one sequence of points (CorpusRoute), the points the   *)
(* segments of a line (SplitOnGaps), each segment a shorter one            *)
(* (Simplify).  The first two put pieces end to end, and are followed      *)
(* piece by piece; the third splits spans at the point that strays most,   *)
(* and is followed from the narrow spans to the wide ones.                 *)

-----------------------------------------------------------------------------
(* Pieces put end to end                                                   *)

\* FlattenSeq is the last value of the recursion it is defined by.
Flat(ss) == CHOOSE g : g = [i \in 1 .. Len(ss) |-> IF i = 1 THEN ss[i] ELSE g[i - 1] \o ss[i]]

LEMMA FlattenIsFlat ==
  ASSUME NEW ss
  PROVE  FlattenSeq(ss) = IF Len(ss) = 0 THEN ss ELSE Flat(ss)[Len(ss)]
BY DEF FlattenSeq, Flat

\* A function that follows the recursion up to n.
Follows(g, f, n) == \A i \in 1 .. n : g[i] = IF i = 1 THEN f[i] ELSE g[i - 1] \o f[i]

LEMMA FlatFollows ==
  ASSUME NEW n \in Nat, NEW S, NEW f \in [1 .. n -> Seq(S)]
  PROVE  Follows(Flat(f), f, n) /\ Flat(f) \in [1 .. n -> Seq(S)]
<1>. DEFINE Fails == {m \in 0 .. n : ~ \E g \in [1 .. m -> Seq(S)] : Follows(g, f, m)}
<1>1. n \notin Fails
  <2>1. SUFFICES ASSUME Fails # {} PROVE FALSE
    OBVIOUS
  <2>2. PICK m \in Fails : \A k \in Fails : m <= k
    <3>1. Fails \subseteq Nat
      OBVIOUS
    <3>. HIDE DEF Fails
    <3>. QED
      BY <2>1, <3>1, SmallestExists
  <2>3. m \in 0 .. n /\ m \in Nat /\ ~ \E g \in [1 .. m -> Seq(S)] : Follows(g, f, m)
    BY <2>2
  <2>4. m # 0
    <3>1. [i \in 1 .. 0 |-> <<>>] \in [1 .. 0 -> Seq(S)] /\ Follows([i \in 1 .. 0 |-> <<>>], f, 0)
      BY DEF Follows
    <3>2. \E g \in [1 .. 0 -> Seq(S)] : Follows(g, f, 0)
      BY <3>1
    <3>. QED
      BY <2>3, <3>2
  <2>5. m - 1 \in 0 .. n /\ m - 1 \in Nat /\ m - 1 \notin Fails
    <3>1. m - 1 \in 0 .. n /\ m - 1 \in Nat
      BY <2>3, <2>4
    <3>. HIDE DEF Fails
    <3>. QED
      BY <2>2, <2>3, <3>1
  <2>6. PICK g \in [1 .. m - 1 -> Seq(S)] : Follows(g, f, m - 1)
    BY <2>5
  <2>. DEFINE h == [i \in 1 .. m |-> IF i = m THEN IF m = 1 THEN f[m] ELSE g[m - 1] \o f[m]
                                     ELSE g[i]]
  <2>7. f[m] \in Seq(S) /\ (m # 1 => g[m - 1] \in Seq(S))
    BY <2>3, <2>4
  <2>8. (IF m = 1 THEN f[m] ELSE g[m - 1] \o f[m]) \in Seq(S)
    BY <2>7
  <2>9. h \in [1 .. m -> Seq(S)]
    BY <2>3, <2>8
  <2>10. Follows(h, f, m)
    <3>1. ASSUME NEW i \in 1 .. m
          PROVE  h[i] = IF i = 1 THEN f[i] ELSE h[i - 1] \o f[i]
      <4>1. CASE i = m
        <5>1. m # 1 => m - 1 \in 1 .. m /\ m - 1 # m /\ h[m - 1] = g[m - 1]
          BY <2>3, <2>4
        <5>2. h[m] = IF m = 1 THEN f[m] ELSE g[m - 1] \o f[m]
          BY <2>3, <2>4
        <5>. QED
          BY <4>1, <5>1, <5>2
      <4>2. CASE i # m
        <5>1. i \in 1 .. m - 1 /\ h[i] = g[i]
          BY <2>3, <4>2
        <5>2. i # 1 => i - 1 \in 1 .. m /\ i - 1 # m /\ h[i - 1] = g[i - 1]
          BY <2>3
        <5>3. g[i] = IF i = 1 THEN f[i] ELSE g[i - 1] \o f[i]
          BY <2>6, <5>1 DEF Follows
        <5>. QED
          BY <5>1, <5>2, <5>3
      <4>. QED
        BY <4>1, <4>2
    <3>. QED
      BY <3>1 DEF Follows
  <2>11. \E x \in [1 .. m -> Seq(S)] : Follows(x, f, m)
    BY <2>9, <2>10
  <2>. QED
    BY <2>3, <2>11
<1>2. PICK g \in [1 .. n -> Seq(S)] : Follows(g, f, n)
  BY <1>1
<1>3. Len(f) = n
  OBVIOUS
<1>4. g = [i \in 1 .. n |-> IF i = 1 THEN f[i] ELSE g[i - 1] \o f[i]]
  BY <1>2 DEF Follows
<1>5. \E x : x = [i \in 1 .. Len(f) |-> IF i = 1 THEN f[i] ELSE x[i - 1] \o f[i]]
  BY <1>3, <1>4
<1>. DEFINE r == Flat(f)
<1>6. r = [i \in 1 .. n |-> IF i = 1 THEN f[i] ELSE r[i - 1] \o f[i]]
  BY <1>3, <1>5 DEF Flat
<1>. HIDE DEF r
<1>7. \A i \in 1 .. n : r[i] = IF i = 1 THEN f[i] ELSE r[i - 1] \o f[i]
  BY <1>6
<1>8. DOMAIN r = 1 .. n
  BY <1>6
<1>9. \A i \in 1 .. n : r[i] \in Seq(S)
  <2>. DEFINE Not == {i \in 1 .. n : r[i] \notin Seq(S)}
  <2>1. SUFFICES ASSUME Not # {} PROVE FALSE
    OBVIOUS
  <2>2. PICK i \in Not : \A k \in Not : i <= k
    <3>1. Not \subseteq Nat
      OBVIOUS
    <3>. HIDE DEF Not
    <3>. QED
      BY <2>1, <3>1, SmallestExists
  <2>3. i \in 1 .. n /\ r[i] \notin Seq(S) /\ f[i] \in Seq(S)
    BY <2>2
  <2>4. CASE i = 1
    BY <1>7, <2>3, <2>4
  <2>5. CASE i # 1
    <3>1. i - 1 \in 1 .. n
      BY <2>3, <2>5
    <3>2. i - 1 \notin Not
      <4>. HIDE DEF Not
      <4>. QED
        BY <2>2, <2>3, <3>1
    <3>3. r[i - 1] \in Seq(S)
      BY <3>1, <3>2
    <3>4. r[i] = r[i - 1] \o f[i]
      BY <1>7, <2>3, <2>5
    <3>. QED
      BY <2>3, <3>3, <3>4
  <2>. QED
    BY <2>4, <2>5
<1>10. r \in [1 .. n -> Seq(S)]
  BY <1>6, <1>8, <1>9
<1>11. Follows(r, f, n)
  BY <1>7 DEF Follows
<1>. QED
  BY <1>10, <1>11 DEF r

\* What pieces make, put end to end, is a sequence of what they are made of.
LEMMA FlattenIsSeq ==
  ASSUME NEW n \in Nat, NEW S, NEW f \in [1 .. n -> Seq(S)]
  PROVE  FlattenSeq(f) \in Seq(S)
<1>1. Len(f) = n
  OBVIOUS
<1>2. CASE n = 0
  <2>1. FlattenSeq(f) = f
    BY <1>1, <1>2, FlattenIsFlat
  <2>2. f \in Seq(S)
    BY <1>2
  <2>. QED
    BY <2>1, <2>2
<1>3. CASE n # 0
  BY <1>1, <1>3, FlatFollows, FlattenIsFlat
<1>. QED
  BY <1>2, <1>3

\* No pieces make nothing.
LEMMA FlattenNothing == FlattenSeq(<<>>) = <<>>
BY FlattenIsFlat

\* The last piece comes after all that the others make.
LEMMA FlattenStep ==
  ASSUME NEW n \in Nat, NEW S, NEW f \in [1 .. n + 1 -> Seq(S)], NEW e,
         e = [i \in 1 .. n |-> f[i]]
  PROVE  FlattenSeq(f) = FlattenSeq(e) \o f[n + 1]
<1>1. n + 1 \in Nat /\ Len(f) = n + 1
  OBVIOUS
<1>2. e \in [1 .. n -> Seq(S)] /\ Len(e) = n
  OBVIOUS
<1>. DEFINE g == Flat(f)
            h == Flat(e)
<1>3. Follows(g, f, n + 1) /\ g \in [1 .. n + 1 -> Seq(S)]
  BY <1>1, FlatFollows
<1>4. Follows(h, e, n) /\ h \in [1 .. n -> Seq(S)]
  BY <1>2, FlatFollows
<1>5. FlattenSeq(f) = g[n + 1]
  BY <1>1, FlattenIsFlat
<1>6. n # 0 => FlattenSeq(e) = h[n]
  BY <1>2, FlattenIsFlat
<1>. HIDE DEF g, h
<1>7. \A i \in 1 .. n : g[i] = h[i]
  <2>. DEFINE Not == {i \in 1 .. n : g[i] # h[i]}
  <2>1. SUFFICES ASSUME Not # {} PROVE FALSE
    OBVIOUS
  <2>2. PICK i \in Not : \A k \in Not : i <= k
    <3>1. Not \subseteq Nat
      OBVIOUS
    <3>. HIDE DEF Not
    <3>. QED
      BY <2>1, <3>1, SmallestExists
  <2>3. i \in 1 .. n /\ g[i] # h[i] /\ i \in 1 .. n + 1 /\ e[i] = f[i]
    BY <2>2
  <2>4. g[i] = (IF i = 1 THEN f[i] ELSE g[i - 1] \o f[i])
    BY <1>3, <2>3 DEF Follows
  <2>5. h[i] = (IF i = 1 THEN f[i] ELSE h[i - 1] \o f[i])
    BY <1>4, <2>3 DEF Follows
  <2>6. i # 1
    BY <2>3, <2>4, <2>5
  <2>7. i - 1 \in 1 .. n /\ i - 1 \notin Not
    <3>1. i - 1 \in 1 .. n
      BY <2>3, <2>6
    <3>. HIDE DEF Not
    <3>. QED
      BY <2>2, <2>3, <3>1
  <2>8. g[i - 1] = h[i - 1]
    BY <2>7
  <2>. QED
    BY <2>3, <2>4, <2>5, <2>6, <2>8
<1>8. CASE n = 0
  <2>1. g[1] = f[1]
    BY <1>3, <1>8 DEF Follows
  <2>2. FlattenSeq(e) = <<>>
    <3>1. e = <<>>
      BY <1>8
    <3>. QED
      BY <3>1, FlattenNothing
  <2>3. f[1] \in Seq(S)
    BY <1>8
  <2>. QED
    BY <1>5, <1>8, <2>1, <2>2, <2>3
<1>9. CASE n # 0
  <2>1. g[n + 1] = g[n] \o f[n + 1]
    <3>1. n + 1 \in 1 .. n + 1 /\ n + 1 # 1 /\ (n + 1) - 1 = n
      BY <1>9
    <3>. QED
      BY <1>3, <3>1 DEF Follows
  <2>2. n \in 1 .. n
    BY <1>9
  <2>3. g[n] = h[n]
    BY <1>7, <2>2
  <2>. QED
    BY <1>5, <1>6, <1>9, <2>1, <2>3
<1>. QED
  BY <1>8, <1>9

-----------------------------------------------------------------------------
(* The line of a corpus                                                    *)

Bands       == {"trusted", "synthetic", "untrusted"}
RoutePoints == [xy : Places, band : Bands, season : STRING]
Segments    == [band : Bands, season : STRING, points : Seq(Places)]
Lines       == [segs : Seq(Segments), cur : Segments]

LEMMA DrawableIsPlaces ==
  ASSUME NEW clip \in Clips
  PROVE  Drawable(clip) \in Seq(Places)
<1>1. clip.track \in Seq([xy : Places, aired : BOOLEAN]) /\ clip.fix \in Places \cup {NoFix}
  BY DEF Clips
<1>. DEFINE n == Len(clip.track)
            f == [i \in DOMAIN clip.track |->
                    IF clip.track[i].aired THEN <<clip.track[i].xy>> ELSE <<>>]
<1>2. n \in Nat /\ DOMAIN clip.track = 1 .. n
  BY <1>1
<1>3. f \in [1 .. n -> Seq(Places)]
  <2>1. ASSUME NEW i \in 1 .. n
        PROVE  (IF clip.track[i].aired THEN <<clip.track[i].xy>> ELSE <<>>) \in Seq(Places)
    <3>1. \A T, t : t \in Seq(T) => \A k \in 1 .. Len(t) : t[k] \in T
      OBVIOUS
    <3>2. clip.track[i] \in [xy : Places, aired : BOOLEAN]
      BY <1>1, <3>1
    <3>3. clip.track[i].xy \in Places
      BY <3>2
    <3>. QED
      BY <3>3
  <2>. HIDE DEF n
  <2>. QED
    BY <1>2, <2>1
<1>. HIDE DEF n
<1>4. FlattenSeq(f) \in Seq(Places)
  <2>. HIDE DEF f
  <2>. QED
    BY <1>2, <1>3, FlattenIsSeq
<1>5. clip.fix # NoFix => <<clip.fix>> \in Seq(Places)
  BY <1>1
<1>6. <<>> \in Seq(Places)
  OBVIOUS
<1>8. CASE clip.flagged
  BY <1>6, <1>8 DEF Drawable
<1>9. CASE ~ clip.flagged /\ clip.confidence >= MinRouteConfidence
  <2>1. Drawable(clip) = FlattenSeq(f)
    BY <1>9 DEF Drawable
  <2>. QED
    BY <1>4, <2>1
<1>10. CASE ~ clip.flagged /\ ~ (clip.confidence >= MinRouteConfidence)
  BY <1>5, <1>6, <1>10 DEF Drawable
<1>. QED
  BY <1>8, <1>9, <1>10

LEMMA RouteIsTyped ==
  ASSUME NEW clips \in Reels
  PROVE  CorpusRoute(clips) \in Seq(RoutePoints)
<1>1. clips \in Seq(Clips)
  BY AtlasConstants
<1>. DEFINE n == Len(clips)
            Piece(c) == [i \in DOMAIN Drawable(clips[c]) |->
                           [xy |-> Drawable(clips[c])[i], band |-> RouteBand(clips[c].confidence),
                            season |-> clips[c].season]]
            f == [c \in DOMAIN clips |-> Piece(c)]
<1>2. n \in Nat /\ DOMAIN clips = 1 .. n
  BY <1>1
<1>3. ASSUME NEW c \in 1 .. n
      PROVE  Piece(c) \in Seq(RoutePoints)
  <2>1. clips[c] \in Clips
    BY <1>1, <1>3
  <2>2. Drawable(clips[c]) \in Seq(Places)
    BY <2>1, DrawableIsPlaces
  <2>. DEFINE d == Drawable(clips[c])
              b == RouteBand(clips[c].confidence)
  <2>3. b \in Bands
    BY DEF RouteBand, Bands
  <2>4. clips[c].season \in STRING
    BY <2>1 DEF Clips
  <2>. HIDE DEF d, b
  <2>5. d \in Seq(Places)
    BY <2>2 DEF d
  <2>6. [i \in DOMAIN d |-> [xy |-> d[i], band |-> b, season |-> clips[c].season]]
          \in Seq(RoutePoints)
    <3>1. DOMAIN d = 1 .. Len(d) /\ Len(d) \in Nat
      BY <2>5
    <3>2. ASSUME NEW i \in 1 .. Len(d)
          PROVE  [xy |-> d[i], band |-> b, season |-> clips[c].season] \in RoutePoints
      <4>1. d[i] \in Places
        BY <2>5, <3>1, <3>2
      <4>. QED
        BY <2>3, <2>4, <4>1 DEF RoutePoints
    <3>. QED
      BY <3>1, <3>2
  <2>. QED
    BY <2>6 DEF d, b
<1>. HIDE DEF Piece, n
<1>4. f \in [1 .. n -> Seq(RoutePoints)]
  BY <1>2, <1>3
<1>5. FlattenSeq(f) \in Seq(RoutePoints)
  <2>. HIDE DEF f
  <2>. QED
    BY <1>2, <1>4, FlattenIsSeq
<1>. QED
  BY <1>5 DEF CorpusRoute, f, Piece

-----------------------------------------------------------------------------
(* Cutting it: splitOnGaps                                                 *)

LEMMA OpensASegment ==
  ASSUME NEW p \in RoutePoints
  PROVE  Opens(p) \in Segments /\ Opens(p).points = <<p.xy>> /\ p.xy \in Places
BY DEF Opens, RoutePoints, Segments

LEMMA JoinsTheSegment ==
  ASSUME NEW seg \in Segments, NEW p \in RoutePoints
  PROVE  /\ Joins(seg, p) \in Segments /\ Joins(seg, p).points = Append(seg.points, p.xy)
         /\ Meets(seg, p) = Joins(seg, p)
<1>1. seg.points \in Seq(Places) /\ p.xy \in Places
  BY DEF Segments, RoutePoints
<1>2. Append(seg.points, p.xy) \in Seq(Places)
  BY <1>1
<1>3. Joins(seg, p) = [band |-> seg.band, season |-> seg.season, points |-> Append(seg.points, p.xy)]
  BY DEF Joins, Segments
<1>. QED
  BY <1>2, <1>3 DEF Segments, Meets

LEMMA ExtendIsLine ==
  ASSUME NEW line \in Lines, NEW prev \in RoutePoints, NEW p \in RoutePoints
  PROVE  Extend(line, prev, p) \in Lines
<1>1. line.segs \in Seq(Segments) /\ line.cur \in Segments
  BY DEF Lines
<1>2. Opens(p) \in Segments /\ Joins(line.cur, p) \in Segments /\ Meets(line.cur, p) \in Segments
  BY <1>1, OpensASegment, JoinsTheSegment
<1>3. \A seg \in Segments : Append(line.segs, seg) \in Seq(Segments)
  BY <1>1
<1>4. \A ss \in Seq(Segments), seg \in Segments : [segs |-> ss, cur |-> seg] \in Lines
  BY DEF Lines
<1>. QED
  BY <1>1, <1>2, <1>3, <1>4 DEF Extend

SplitLine(pts) ==
  CHOOSE g : g = [i \in 0 .. Len(pts) - 1 |->
                    IF i = 0 THEN [segs |-> <<>>, cur |-> Opens(pts[1])]
                    ELSE Extend(g[i - 1], pts[i], pts[i + 1])]

LEMMA SplitIsLine ==
  ASSUME NEW pts
  PROVE  SplitOnGaps(pts) =
           IF pts = <<>> THEN <<>>
           ELSE Append(SplitLine(pts)[Len(pts) - 1].segs, SplitLine(pts)[Len(pts) - 1].cur)
BY DEF SplitOnGaps, SplitLine

LEMMA SplitFollows ==
  ASSUME NEW pts \in Seq(RoutePoints), pts # <<>>
  PROVE  /\ Len(pts) - 1 \in Nat
         /\ SplitLine(pts) \in [0 .. Len(pts) - 1 -> Lines]
         /\ SplitLine(pts)[0] = [segs |-> <<>>, cur |-> Opens(pts[1])]
         /\ \A i \in 1 .. Len(pts) - 1 :
              SplitLine(pts)[i] = Extend(SplitLine(pts)[i - 1], pts[i], pts[i + 1])
<1>. DEFINE N == Len(pts) - 1
            first == [segs |-> <<>>, cur |-> Opens(pts[1])]
            Next1(i) == [line \in Lines |-> Extend(line, pts[i], pts[i + 1])]
            F == [i \in 1 .. N |-> Next1(i)]
<1>1. N \in Nat /\ Len(pts) \in Nat
  OBVIOUS
<1>2. \A i \in 1 .. Len(pts) : pts[i] \in RoutePoints
  OBVIOUS
<1>3. \A i \in 1 .. N : pts[i] \in RoutePoints /\ pts[i + 1] \in RoutePoints
  BY <1>1, <1>2
<1>4. first \in Lines
  <2>1. pts[1] \in RoutePoints
    BY <1>1, <1>2
  <2>2. Opens(pts[1]) \in Segments /\ <<>> \in Seq(Segments)
    BY <2>1, OpensASegment
  <2>. QED
    BY <2>2 DEF Lines
<1>5. \A i \in 1 .. N : Next1(i) \in [Lines -> Lines]
  BY <1>3, ExtendIsLine
<1>6. F \in [1 .. N -> [Lines -> Lines]]
  <2>. HIDE DEF Next1, N
  <2>. QED
    BY <1>5
<1>7. PICK g \in [0 .. N -> Lines] : StepByStep(g, N, first, F)
  <2>. HIDE DEF F, N, first
  <2>. QED
    BY <1>1, <1>4, <1>6, StepsExist
<1>8. \A i \in 1 .. N : g[i] = Extend(g[i - 1], pts[i], pts[i + 1])
  <2>1. SUFFICES ASSUME NEW i \in 1 .. N
                 PROVE  g[i] = Extend(g[i - 1], pts[i], pts[i + 1])
    OBVIOUS
  <2>. HIDE DEF N, first
  <2>2. i - 1 \in 0 .. N /\ g[i - 1] \in Lines
    BY <1>1, <1>7
  <2>3. g[i] = F[i][g[i - 1]]
    BY <1>7 DEF StepByStep
  <2>. QED
    BY <2>2, <2>3
<1>9. g[0] = first
  BY <1>7 DEF StepByStep
<1>. DEFINE Body(x) == [i \in 0 .. Len(pts) - 1 |-> IF i = 0 THEN [segs |-> <<>>, cur |-> Opens(pts[1])]
                                               ELSE Extend(x[i - 1], pts[i], pts[i + 1])]
<1>10. g = Body(g)
  <2>1. DOMAIN g = 0 .. N
    BY <1>7
  <2>2. \A i \in 0 .. N : i # 0 => i \in 1 .. N
    BY <1>1
  <2>3. g = [i \in 0 .. N |-> g[i]]
    BY <1>7
  <2>4. \A i \in 0 .. N : g[i] = IF i = 0 THEN first ELSE Extend(g[i - 1], pts[i], pts[i + 1])
    BY <1>8, <1>9, <2>2
  <2>. QED
    BY <2>3, <2>4
<1>11. \E x : x = Body(x)
  BY <1>10
<1>. DEFINE r == SplitLine(pts)
<1>12. r = Body(r)
  BY <1>11 DEF SplitLine
<1>. HIDE DEF r
<1>13. \A i \in 0 .. N : r[i] = IF i = 0 THEN first ELSE Extend(r[i - 1], pts[i], pts[i + 1])
  BY <1>12
<1>14. r[0] = first /\ \A i \in 1 .. N : r[i] = Extend(r[i - 1], pts[i], pts[i + 1])
  <2>1. 0 \in 0 .. N /\ \A i \in 1 .. N : i \in 0 .. N /\ i # 0
    BY <1>1
  <2>. QED
    BY <1>13, <2>1
<1>15. \A i \in 0 .. N : r[i] = g[i]
  <2>. HIDE DEF first, N
  <2>. DEFINE Not == {i \in 0 .. N : r[i] # g[i]}
  <2>1. SUFFICES ASSUME Not # {} PROVE FALSE
    OBVIOUS
  <2>2. PICK i \in Not : \A k \in Not : i <= k
    <3>1. Not \subseteq Nat
      BY <1>1
    <3>. HIDE DEF Not
    <3>. QED
      BY <2>1, <3>1, SmallestExists
  <2>3. i \in 0 .. N /\ r[i] # g[i]
    BY <2>2
  <2>4. i # 0
    BY <1>9, <1>14, <2>3
  <2>5. i \in 1 .. N /\ i - 1 \in 0 .. N
    BY <1>1, <2>3, <2>4
  <2>6. i - 1 \notin Not
    <3>. HIDE DEF Not
    <3>. QED
      BY <1>1, <2>2, <2>5
  <2>7. r[i - 1] = g[i - 1]
    BY <2>5, <2>6
  <2>. QED
    BY <1>8, <1>14, <2>3, <2>5, <2>7
<1>16. DOMAIN r = 0 .. N /\ r = [i \in 0 .. N |-> r[i]]
  BY <1>12
<1>17. r \in [0 .. N -> Lines]
  <2>. HIDE DEF N
  <2>. QED
    BY <1>7, <1>15, <1>16
<1>. QED
  BY <1>1, <1>14, <1>17 DEF r

\* What a line joins, and what was driven.
Pairs == Places \X Places
Joints(ps) == [i \in 1 .. Len(ps) - 1 |-> <<ps[i], ps[i + 1]>>]
JointsOf(segs) == FlattenSeq([s \in DOMAIN segs |-> Joints(segs[s].points)])
Driving(pts, i) == IF Carried(pts[i], pts[i + 1]) THEN <<>> ELSE <<<<pts[i].xy, pts[i + 1].xy>>>>
DrivenTo(pts, n) == FlattenSeq([i \in 1 .. n |-> Driving(pts, i)])
Solid(segs) == \A s \in DOMAIN segs : Len(segs[s].points) >= 1

LEMMA JointsAreSeq ==
  ASSUME NEW ps \in Seq(Places), Len(ps) >= 1
  PROVE  Joints(ps) \in Seq(Pairs)
<1>1. Len(ps) - 1 \in Nat
  OBVIOUS
<1>2. \A i \in 1 .. Len(ps) - 1 : <<ps[i], ps[i + 1]>> \in Pairs
  BY DEF Pairs
<1>. QED
  BY <1>1, <1>2 DEF Joints

LEMMA JointsOfOne ==
  ASSUME NEW p
  PROVE  Joints(<<p>>) = <<>>
<1>1. Len(<<p>>) - 1 = 0
  OBVIOUS
<1>2. Joints(<<p>>) = [i \in 1 .. 0 |-> <<(<<p>>)[i], (<<p>>)[i + 1]>>]
  BY <1>1 DEF Joints
<1>. QED
  BY <1>2

LEMMA JointsGrow ==
  ASSUME NEW ps \in Seq(Places), Len(ps) >= 1, NEW p \in Places
  PROVE  Joints(Append(ps, p)) = Joints(ps) \o <<<<ps[Len(ps)], p>>>>
<1>. DEFINE qs == Append(ps, p)
            n == Len(ps)
            l == Joints(qs)
            r == Joints(ps) \o <<<<ps[Len(ps)], p>>>>
<1>1. n \in Nat \ {0} /\ Len(qs) = n + 1 /\ \A i \in 1 .. n : qs[i] = ps[i]
  OBVIOUS
<1>2. qs[n + 1] = p
  OBVIOUS
<1>3. qs \in Seq(Places)
  OBVIOUS
<1>4. l \in Seq(Pairs) /\ Joints(ps) \in Seq(Pairs)
  <2>. HIDE DEF qs, n
  <2>. QED
    BY <1>1, <1>3, JointsAreSeq DEF n
<1>5. Len(Joints(ps)) = n - 1 /\ \A i \in 1 .. n - 1 : Joints(ps)[i] = <<ps[i], ps[i + 1]>>
  BY <1>1, <1>4 DEF Joints
<1>6. Len(l) = n /\ \A i \in 1 .. n : l[i] = <<qs[i], qs[i + 1]>>
  <2>. HIDE DEF qs, n
  <2>. QED
    BY <1>1, <1>4 DEF Joints
<1>7. ps[n] \in Places /\ <<ps[n], p>> \in Pairs
  BY <1>1 DEF Pairs
<1>8. r \in Seq(Pairs) /\ Len(r) = n /\ r[n] = <<ps[n], p>> /\ \A i \in 1 .. n - 1 : r[i] = Joints(ps)[i]
  BY <1>1, <1>4, <1>5, <1>7
<1>9. \A i \in 1 .. n : l[i] = r[i]
  <2>. SUFFICES ASSUME NEW i \in 1 .. n
                PROVE  l[i] = r[i]
    OBVIOUS
  <2>. HIDE DEF l, r, qs, n
  <2>1. CASE i = n
    <3>1. qs[n] = ps[n]
      BY <1>1
    <3>. QED
      BY <1>2, <1>6, <1>8, <2>1, <3>1
  <2>2. CASE i # n
    <3>1. i \in 1 .. n - 1 /\ i + 1 \in 1 .. n
      BY <1>1, <2>2
    <3>2. l[i] = <<ps[i], ps[i + 1]>>
      BY <1>1, <1>6, <3>1
    <3>. QED
      BY <1>5, <1>8, <3>1, <3>2
  <2>. QED
    BY <2>1, <2>2
<1>. HIDE DEF l, r, n
<1>10. l = r
  BY <1>4, <1>6, <1>8, <1>9
<1>. QED
  BY <1>10 DEF l, r

\* Joining the last segment comes after joining the others.
LEMMA JointsOfAppend ==
  ASSUME NEW segs \in Seq(Segments), Solid(segs), NEW seg \in Segments, Len(seg.points) >= 1
  PROVE  /\ Append(segs, seg) \in Seq(Segments) /\ Solid(Append(segs, seg))
         /\ JointsOf(Append(segs, seg)) = JointsOf(segs) \o Joints(seg.points)
         /\ JointsOf(segs) \in Seq(Pairs) /\ Joints(seg.points) \in Seq(Pairs)
<1>. DEFINE n == Len(segs)
            all == Append(segs, seg)
            f == [s \in DOMAIN all |-> Joints(all[s].points)]
            e == [s \in DOMAIN segs |-> Joints(segs[s].points)]
<1>1. n \in Nat /\ DOMAIN segs = 1 .. n
  OBVIOUS
<1>2. all \in Seq(Segments) /\ Len(all) = n + 1 /\ DOMAIN all = 1 .. n + 1
  OBVIOUS
<1>3. all[n + 1] = seg /\ \A s \in 1 .. n : all[s] = segs[s]
  OBVIOUS
<1>4. \A s \in 1 .. n : segs[s] \in Segments
  BY <1>1
<1>. HIDE DEF all, n
<1>5. \A s \in 1 .. n + 1 : all[s] \in Segments /\ Len(all[s].points) >= 1
  <2>. SUFFICES ASSUME NEW s \in 1 .. n + 1
                PROVE  all[s] \in Segments /\ Len(all[s].points) >= 1
    OBVIOUS
  <2>1. CASE s = n + 1
    BY <1>3, <2>1
  <2>2. CASE s # n + 1
    <3>1. s \in 1 .. n
      BY <1>1, <2>2
    <3>. QED
      BY <1>1, <1>3, <1>4, <3>1 DEF Solid
  <2>. QED
    BY <2>1, <2>2
<1>6. \A s \in 1 .. n + 1 : Joints(all[s].points) \in Seq(Pairs)
  <2>. SUFFICES ASSUME NEW s \in 1 .. n + 1
                PROVE  Joints(all[s].points) \in Seq(Pairs)
    OBVIOUS
  <2>1. all[s].points \in Seq(Places)
    BY <1>5 DEF Segments
  <2>. QED
    BY <1>5, <2>1, JointsAreSeq
<1>7. f \in [1 .. n + 1 -> Seq(Pairs)]
  BY <1>2, <1>6
<1>8. e = [s \in 1 .. n |-> f[s]]
  <2>1. \A s \in 1 .. n : s \in DOMAIN all
    BY <1>1, <1>2
  <2>2. \A s \in 1 .. n : f[s] = Joints(segs[s].points)
    BY <1>3, <2>1
  <2>. HIDE DEF f
  <2>. QED
    BY <1>1, <2>2
<1>9. e \in [1 .. n -> Seq(Pairs)]
  <2>. HIDE DEF e, f
  <2>1. \A s \in 1 .. n : f[s] \in Seq(Pairs)
    BY <1>1, <1>7
  <2>. QED
    BY <1>8, <2>1
<1>10. f[n + 1] = Joints(seg.points)
  BY <1>1, <1>2, <1>3
<1>11. f[n + 1] \in Seq(Pairs)
  BY <1>1, <1>7
<1>. HIDE DEF e, f
<1>12. FlattenSeq(f) = FlattenSeq(e) \o f[n + 1]
  BY <1>1, <1>7, <1>8, FlattenStep
<1>13. FlattenSeq(e) \in Seq(Pairs)
  BY <1>1, <1>9, FlattenIsSeq
<1>14. Solid(all)
  BY <1>2, <1>5 DEF Solid
<1>15. JointsOf(all) = FlattenSeq(f) /\ JointsOf(segs) = FlattenSeq(e)
  BY DEF JointsOf, e, f
<1>. QED
  BY <1>2, <1>10, <1>11, <1>12, <1>13, <1>14, <1>15 DEF all

LEMMA DrivingIsSeq ==
  ASSUME NEW pts \in Seq(RoutePoints), NEW i \in 1 .. Len(pts) - 1
  PROVE  Driving(pts, i) \in Seq(Pairs)
<1>1. i \in 1 .. Len(pts) /\ i + 1 \in 1 .. Len(pts)
  OBVIOUS
<1>2. pts[i] \in RoutePoints /\ pts[i + 1] \in RoutePoints
  BY <1>1
<1>3. <<pts[i].xy, pts[i + 1].xy>> \in Pairs
  BY <1>2 DEF RoutePoints, Pairs
<1>. QED
  BY <1>3 DEF Driving

LEMMA DrivenStep ==
  ASSUME NEW pts \in Seq(RoutePoints), NEW n \in Nat, n + 1 <= Len(pts) - 1
  PROVE  /\ DrivenTo(pts, n + 1) = DrivenTo(pts, n) \o Driving(pts, n + 1)
         /\ DrivenTo(pts, n) \in Seq(Pairs)
<1>. DEFINE f == [i \in 1 .. n + 1 |-> Driving(pts, i)]
            e == [i \in 1 .. n |-> Driving(pts, i)]
<1>1. \A i \in 1 .. n + 1 : Driving(pts, i) \in Seq(Pairs)
  <2>1. \A i \in 1 .. n + 1 : i \in 1 .. Len(pts) - 1
    OBVIOUS
  <2>. QED
    BY <2>1, DrivingIsSeq
<1>2. f \in [1 .. n + 1 -> Seq(Pairs)] /\ e \in [1 .. n -> Seq(Pairs)]
  BY <1>1
<1>3. e = [i \in 1 .. n |-> f[i]] /\ f[n + 1] = Driving(pts, n + 1)
  OBVIOUS
<1>. HIDE DEF e, f
<1>4. FlattenSeq(f) = FlattenSeq(e) \o f[n + 1]
  BY <1>2, <1>3, FlattenStep
<1>5. FlattenSeq(e) \in Seq(Pairs)
  BY <1>2, FlattenIsSeq
<1>6. DrivenTo(pts, n + 1) = FlattenSeq(f) /\ DrivenTo(pts, n) = FlattenSeq(e)
  BY DEF DrivenTo, e, f
<1>. QED
  BY <1>3, <1>4, <1>5, <1>6

-----------------------------------------------------------------------------
(* What holds as each point is taken                                       *)

\* The segments are solid, the one being drawn ends at the n+1st point, and
\* together they join what was driven up to it.
Stands(pts, line, n) ==
  /\ Solid(line.segs) /\ Len(line.cur.points) >= 1
  /\ line.cur.points[Len(line.cur.points)] = pts[n + 1].xy
  /\ JointsOf(line.segs) \o Joints(line.cur.points) = DrivenTo(pts, n)

LEMMA ExtendStands ==
  ASSUME NEW pts \in Seq(RoutePoints), NEW n \in Nat, n + 1 <= Len(pts) - 1,
         NEW line \in Lines, Stands(pts, line, n)
  PROVE  Stands(pts, Extend(line, pts[n + 1], pts[n + 2]), n + 1)
<1>. DEFINE prev == pts[n + 1]
            p == pts[n + 2]
            segs == line.segs
            cur == line.cur
            gone == JointsOf(segs)
            here == Joints(cur.points)
<1>1. prev \in RoutePoints /\ p \in RoutePoints
  <2>1. n + 1 \in 1 .. Len(pts) /\ n + 2 \in 1 .. Len(pts)
    OBVIOUS
  <2>. QED
    BY <2>1
<1>2. segs \in Seq(Segments) /\ cur \in Segments
  BY DEF Lines
<1>3. cur.points \in Seq(Places)
  BY <1>2 DEF Segments
<1>4. /\ Solid(segs) /\ Len(cur.points) >= 1 /\ cur.points[Len(cur.points)] = prev.xy
      /\ gone \o here = DrivenTo(pts, n)
  BY DEF Stands
<1>5. /\ DrivenTo(pts, n + 1) = DrivenTo(pts, n) \o Driving(pts, n + 1)
      /\ DrivenTo(pts, n) \in Seq(Pairs)
  BY DrivenStep
<1>6. Driving(pts, n + 1) = IF Carried(prev, p) THEN <<>> ELSE <<<<prev.xy, p.xy>>>>
  <2>1. (n + 1) + 1 = n + 2
    OBVIOUS
  <2>. QED
    BY <2>1 DEF Driving
<1>7. pts[(n + 1) + 1] = p
  <2>1. (n + 1) + 1 = n + 2
    OBVIOUS
  <2>. QED
    BY <2>1
<1>8. Opens(p) \in Segments /\ Opens(p).points = <<p.xy>> /\ p.xy \in Places /\ prev.xy \in Places
  BY <1>1, OpensASegment
<1>9. /\ Joins(cur, p) \in Segments /\ Joins(cur, p).points = Append(cur.points, p.xy)
      /\ Meets(cur, p) = Joins(cur, p)
  BY <1>1, <1>2, JoinsTheSegment
<1>10. Joints(<<p.xy>>) = <<>> /\ Len(<<p.xy>>) = 1 /\ (<<p.xy>>)[1] = p.xy
  BY JointsOfOne
<1>11. gone \in Seq(Pairs) /\ here \in Seq(Pairs)
  BY <1>2, <1>4, JointsOfAppend
<1>12. /\ Append(cur.points, p.xy) \in Seq(Places) /\ Len(Append(cur.points, p.xy)) >= 1
       /\ Append(cur.points, p.xy)[Len(Append(cur.points, p.xy))] = p.xy
  BY <1>3, <1>8
<1>13. Joints(Append(cur.points, p.xy)) = here \o <<<<prev.xy, p.xy>>>>
  BY <1>3, <1>4, <1>8, JointsGrow
<1>14. <<<<prev.xy, p.xy>>>> \in Seq(Pairs)
  BY <1>8 DEF Pairs
<1>15. Extend(line, prev, p) =
         IF Carried(prev, p) THEN [segs |-> Append(segs, cur), cur |-> Opens(p)]
         ELSE IF p.band # cur.band
              THEN [segs |-> Append(segs, Meets(cur, p)), cur |-> Opens(p)]
              ELSE [segs |-> segs, cur |-> Joins(cur, p)]
  BY DEF Extend
<1>. HIDE DEF prev, p, segs, cur, gone, here
<1>16. CASE Carried(prev, p)
  <2>. DEFINE x == Extend(line, prev, p)
  <2>1. x.segs = Append(segs, cur) /\ x.cur = Opens(p)
    BY <1>15, <1>16
  <2>2. Solid(Append(segs, cur)) /\ JointsOf(Append(segs, cur)) = gone \o here
    BY <1>2, <1>4, JointsOfAppend DEF gone, here
  <2>3. DrivenTo(pts, n + 1) = DrivenTo(pts, n)
    BY <1>5, <1>6, <1>16
  <2>4. (gone \o here) \o <<>> = gone \o here
    BY <1>11
  <2>. HIDE DEF x
  <2>5. Stands(pts, x, n + 1)
    <3>1. x.cur.points = <<p.xy>>
      BY <1>8, <2>1
    <3>2. Len(x.cur.points) >= 1 /\ x.cur.points[Len(x.cur.points)] = pts[(n + 1) + 1].xy
      BY <1>7, <1>10, <3>1
    <3>3. JointsOf(x.segs) \o Joints(x.cur.points) = DrivenTo(pts, n + 1)
      BY <1>4, <1>10, <2>1, <2>2, <2>3, <2>4, <3>1
    <3>4. Solid(x.segs)
      BY <2>1, <2>2
    <3>. QED
      BY <3>2, <3>3, <3>4 DEF Stands
  <2>. QED
    BY <2>5 DEF x, prev, p
<1>17. CASE ~ Carried(prev, p) /\ p.band # cur.band
  <2>. DEFINE x == Extend(line, prev, p)
              y == Joins(cur, p)
  <2>1. x.segs = Append(segs, y) /\ x.cur = Opens(p)
    BY <1>9, <1>15, <1>17
  <2>2. y \in Segments /\ Len(y.points) >= 1 /\ Joints(y.points) = here \o <<<<prev.xy, p.xy>>>>
    BY <1>9, <1>12, <1>13
  <2>. HIDE DEF y
  <2>3. Solid(Append(segs, y)) /\ JointsOf(Append(segs, y)) = gone \o Joints(y.points)
    BY <1>2, <1>4, <2>2, JointsOfAppend DEF gone
  <2>4. DrivenTo(pts, n + 1) = (gone \o here) \o <<<<prev.xy, p.xy>>>>
    BY <1>4, <1>5, <1>6, <1>17
  <2>5. (gone \o (here \o <<<<prev.xy, p.xy>>>>)) \o <<>> = (gone \o here) \o <<<<prev.xy, p.xy>>>>
    BY <1>11, <1>14
  <2>. HIDE DEF x
  <2>6. Stands(pts, x, n + 1)
    <3>1. x.cur.points = <<p.xy>>
      BY <1>8, <2>1
    <3>2. Len(x.cur.points) >= 1 /\ x.cur.points[Len(x.cur.points)] = pts[(n + 1) + 1].xy
      BY <1>7, <1>10, <3>1
    <3>3. JointsOf(x.segs) \o Joints(x.cur.points) = DrivenTo(pts, n + 1)
      BY <1>10, <2>1, <2>2, <2>3, <2>4, <2>5, <3>1
    <3>4. Solid(x.segs)
      BY <2>1, <2>3
    <3>. QED
      BY <3>2, <3>3, <3>4 DEF Stands
  <2>. QED
    BY <2>6 DEF x, prev, p
<1>18. CASE ~ Carried(prev, p) /\ ~ (p.band # cur.band)
  <2>. DEFINE x == Extend(line, prev, p)
              y == Joins(cur, p)
  <2>1. x.segs = segs /\ x.cur = y
    BY <1>15, <1>18
  <2>2. /\ Len(y.points) >= 1 /\ Joints(y.points) = here \o <<<<prev.xy, p.xy>>>>
        /\ y.points[Len(y.points)] = p.xy
    BY <1>9, <1>12, <1>13
  <2>. HIDE DEF y
  <2>3. DrivenTo(pts, n + 1) = (gone \o here) \o <<<<prev.xy, p.xy>>>>
    BY <1>4, <1>5, <1>6, <1>18
  <2>4. gone \o (here \o <<<<prev.xy, p.xy>>>>) = (gone \o here) \o <<<<prev.xy, p.xy>>>>
    BY <1>11, <1>14
  <2>. HIDE DEF x
  <2>5. Stands(pts, x, n + 1)
    BY <1>4, <1>7, <2>1, <2>2, <2>3, <2>4 DEF Stands, gone
  <2>. QED
    BY <2>5 DEF x, prev, p
<1>. QED
  BY <1>16, <1>17, <1>18 DEF prev, p, cur

\* Once all points are taken, for any corpus.
LEMMA SplitStands ==
  ASSUME NEW pts \in Seq(RoutePoints), pts # <<>>
  PROVE  \A n \in 0 .. Len(pts) - 1 : Stands(pts, SplitLine(pts)[n], n)
<1>. DEFINE N == Len(pts) - 1
            g == SplitLine(pts)
            Not == {n \in 0 .. N : ~ Stands(pts, g[n], n)}
<1>1. /\ N \in Nat /\ g \in [0 .. N -> Lines] /\ g[0] = [segs |-> <<>>, cur |-> Opens(pts[1])]
      /\ \A i \in 1 .. N : g[i] = Extend(g[i - 1], pts[i], pts[i + 1])
  BY SplitFollows
<1>2. SUFFICES ASSUME Not # {} PROVE FALSE
  OBVIOUS
<1>3. PICK n \in Not : \A k \in Not : n <= k
  <2>1. Not \subseteq Nat
    BY <1>1
  <2>. HIDE DEF Not
  <2>. QED
    BY <1>2, <2>1, SmallestExists
<1>4. n \in 0 .. N /\ ~ Stands(pts, g[n], n)
  BY <1>3
<1>. HIDE DEF g
<1>5. CASE n = 0
  <2>1. pts[1] \in RoutePoints
    BY <1>1
  <2>2. Opens(pts[1]).points = <<pts[1].xy>>
    BY <2>1, OpensASegment
  <2>3. Joints(<<pts[1].xy>>) = <<>> /\ Len(<<pts[1].xy>>) = 1
    BY JointsOfOne
  <2>4. JointsOf(<<>>) = <<>>
    <3>1. [s \in DOMAIN <<>> |-> Joints((<<>>)[s].points)] = <<>>
      OBVIOUS
    <3>. QED
      BY <3>1, FlattenNothing DEF JointsOf
  <2>5. DrivenTo(pts, 0) = <<>>
    <3>1. [i \in 1 .. 0 |-> Driving(pts, i)] = <<>>
      OBVIOUS
    <3>. QED
      BY <3>1, FlattenNothing DEF DrivenTo
  <2>6. Solid(<<>>)
    BY DEF Solid
  <2>7. <<>> \o <<>> = <<>>
    OBVIOUS
  <2>8. g[0].segs = <<>> /\ g[0].cur = Opens(pts[1])
    BY <1>1
  <2>9. (<<pts[1].xy>>)[1] = pts[1].xy
    OBVIOUS
  <2>10. Stands(pts, g[0], 0)
    <3>1. g[0].cur.points = <<pts[1].xy>>
      BY <2>2, <2>8
    <3>2. /\ Len(g[0].cur.points) >= 1
          /\ g[0].cur.points[Len(g[0].cur.points)] = pts[0 + 1].xy
      BY <2>3, <2>9, <3>1
    <3>3. JointsOf(g[0].segs) \o Joints(g[0].cur.points) = DrivenTo(pts, 0)
      BY <2>3, <2>4, <2>5, <2>7, <2>8, <3>1
    <3>4. Solid(g[0].segs)
      BY <2>6, <2>8
    <3>. QED
      BY <3>2, <3>3, <3>4 DEF Stands
  <2>. QED
    BY <1>4, <1>5, <2>10
<1>6. CASE n # 0
  <2>. DEFINE m == n - 1
  <2>1. m \in Nat /\ m \in 0 .. N /\ m + 1 = n /\ m + 2 = n + 1 /\ n \in 1 .. N /\ m + 1 <= Len(pts) - 1
    BY <1>1, <1>4, <1>6
  <2>2. m \notin Not
    <3>1. n \in Nat /\ ~ (n <= m)
      BY <1>1, <1>4
    <3>. HIDE DEF Not
    <3>. QED
      BY <1>3, <3>1
  <2>. HIDE DEF m
  <2>3. Stands(pts, g[m], m) /\ g[m] \in Lines
    BY <1>1, <2>1, <2>2
  <2>4. Stands(pts, Extend(g[m], pts[m + 1], pts[m + 2]), m + 1)
    BY <2>1, <2>3, ExtendStands
  <2>5. g[n] = Extend(g[n - 1], pts[n], pts[n + 1]) /\ n - 1 = m
    BY <1>1, <2>1 DEF m
  <2>. QED
    BY <1>4, <2>1, <2>4, <2>5
<1>. QED
  BY <1>5, <1>6

\* What the line joins is what was driven, and no segment is empty.
LEMMA LineJoinsWhatWasDriven ==
  ASSUME NEW pts \in Seq(RoutePoints)
  PROVE  /\ SplitOnGaps(pts) \in Seq(Segments) /\ Solid(SplitOnGaps(pts))
         /\ JointsOf(SplitOnGaps(pts)) = FlattenSeq([i \in 1 .. Len(pts) - 1 |-> Driving(pts, i)])
<1>1. CASE pts = <<>>
  <2>1. SplitOnGaps(pts) = <<>>
    BY <1>1, SplitIsLine
  <2>2. [s \in DOMAIN <<>> |-> Joints((<<>>)[s].points)] = <<>>
    OBVIOUS
  <2>3. [i \in 1 .. Len(pts) - 1 |-> Driving(pts, i)] = <<>>
    <3>1. 1 .. Len(pts) - 1 = 1 .. 0
      BY <1>1
    <3>2. [i \in 1 .. 0 |-> Driving(pts, i)] = <<>>
      OBVIOUS
    <3>. QED
      BY <3>1, <3>2
  <2>4. JointsOf(<<>>) = <<>>
    BY <2>2, FlattenNothing DEF JointsOf
  <2>5. FlattenSeq([i \in 1 .. Len(pts) - 1 |-> Driving(pts, i)]) = <<>>
    BY <2>3, FlattenNothing
  <2>6. <<>> \in Seq(Segments) /\ Solid(<<>>)
    BY DEF Solid
  <2>. QED
    BY <2>1, <2>4, <2>5, <2>6
<1>2. CASE pts # <<>>
  <2>. DEFINE N == Len(pts) - 1
              line == SplitLine(pts)[N]
  <2>1. N \in Nat /\ line \in Lines
    <3>1. N \in Nat /\ SplitLine(pts) \in [0 .. N -> Lines]
      BY <1>2, SplitFollows
    <3>2. N \in 0 .. N
      BY <3>1
    <3>. QED
      BY <3>1, <3>2
  <2>2. Stands(pts, line, N)
    BY <1>2, <2>1, SplitStands
  <2>3. SplitOnGaps(pts) = Append(line.segs, line.cur)
    BY <1>2, SplitIsLine
  <2>. HIDE DEF N, line
  <2>4. line.segs \in Seq(Segments) /\ line.cur \in Segments
    BY <2>1 DEF Lines
  <2>5. Solid(line.segs) /\ Len(line.cur.points) >= 1
    BY <2>2 DEF Stands
  <2>6. JointsOf(line.segs) \o Joints(line.cur.points) = DrivenTo(pts, N)
    BY <2>2 DEF Stands
  <2>7. /\ Append(line.segs, line.cur) \in Seq(Segments) /\ Solid(Append(line.segs, line.cur))
        /\ JointsOf(Append(line.segs, line.cur)) = JointsOf(line.segs) \o Joints(line.cur.points)
    BY <2>4, <2>5, JointsOfAppend
  <2>. QED
    BY <2>3, <2>6, <2>7 DEF DrivenTo, N
<1>. QED
  BY <1>1, <1>2

LEMMA LineIsAlwaysWhole ==
  ASSUME reel \in Reels
  PROVE  LineIsWhole
<1>1. CorpusRoute(reel) \in Seq(RoutePoints)
  BY RouteIsTyped
<1>. DEFINE pts == CorpusRoute(reel)
<1>. HIDE DEF pts
<1>2. JointsOf(SplitOnGaps(pts)) = FlattenSeq([i \in 1 .. Len(pts) - 1 |-> Driving(pts, i)])
  BY <1>1, LineJoinsWhatWasDriven DEF pts
<1>. QED
  BY <1>2 DEF LineIsWhole, JointsOf, Joints, Driving, pts

-----------------------------------------------------------------------------
(* How far a point is from a line                                          *)

LEMMA ProductsOfNaturals ==
  ASSUME NEW a \in Nat, NEW b \in Nat
  PROVE  a * b \in Nat
OBVIOUS

LEMMA SquareIsNatural ==
  ASSUME NEW n \in Int
  PROVE  Square(n) \in Nat
<1>1. CASE n >= 0
  BY <1>1, ProductsOfNaturals DEF Square
<1>2. CASE ~ (n >= 0)
  <2>1. -n \in Nat /\ n * n = (-n) * (-n)
    BY <1>2
  <2>. QED
    BY <2>1, ProductsOfNaturals DEF Square
<1>. QED
  BY <1>1, <1>2

LEMMA ApartIsNatural ==
  ASSUME NEW p \in Places, NEW q \in Places
  PROVE  Apart2(p, q) \in Nat /\ Apart2(p, p) = 0
<1>1. p[1] - q[1] \in Int /\ p[2] - q[2] \in Int
  BY DEF Places
<1>2. Square(p[1] - q[1]) \in Nat /\ Square(p[2] - q[2]) \in Nat
  BY <1>1, SquareIsNatural
<1>3. p[1] - p[1] = 0 /\ p[2] - p[2] = 0
  BY DEF Places
<1>4. Square(0) = 0
  BY DEF Square
<1>. QED
  BY <1>2, <1>3, <1>4 DEF Apart2

LEMMA OffIsNatural ==
  ASSUME NEW p \in Places, NEW a \in Places, NEW b \in Places
  PROVE  Off(p, a, b) \in Nat
<1>. DEFINE len2  == Apart2(a, b)
            along == (p[1] - a[1]) * (b[1] - a[1]) + (p[2] - a[2]) * (b[2] - a[2])
            aside == (p[1] - a[1]) * (b[2] - a[2]) - (p[2] - a[2]) * (b[1] - a[1])
<1>1. len2 \in Nat /\ Apart2(p, a) \in Nat /\ Apart2(p, b) \in Nat
  BY ApartIsNatural
<1>2. aside \in Int
  BY DEF Places
<1>3. Square(aside) \in Nat
  <2>. HIDE DEF aside
  <2>. QED
    BY <1>2, SquareIsNatural
<1>4. Apart2(p, a) * len2 \in Nat /\ Apart2(p, b) * len2 \in Nat
  <2>. HIDE DEF len2
  <2>. QED
    BY <1>1, ProductsOfNaturals
<1>5. Off(p, a, b) = IF len2 = 0 THEN Apart2(p, a)
                     ELSE IF along <= 0 THEN Apart2(p, a) * len2
                     ELSE IF along >= len2 THEN Apart2(p, b) * len2
                     ELSE Square(aside)
  BY DEF Off
<1>. HIDE DEF len2, along, aside
<1>. QED
  BY <1>1, <1>3, <1>4, <1>5

\* The ends of a line are on it.
LEMMA EndsAreOnIt ==
  ASSUME NEW a \in Places, NEW b \in Places
  PROVE  Off(a, a, b) = 0 /\ Off(b, a, b) = 0
<1>. DEFINE len2 == Apart2(a, b)
            x == b[1] - a[1]
            y == b[2] - a[2]
<1>1. len2 \in Nat /\ Apart2(a, a) = 0 /\ Apart2(b, b) = 0 /\ Apart2(b, a) \in Nat
  BY ApartIsNatural
<1>2. x \in Int /\ y \in Int
  BY DEF Places
<1>3. Apart2(a, b) = x * x + y * y /\ Apart2(b, a) = x * x + y * y
  <2>1. a[1] \in Int /\ a[2] \in Int /\ b[1] \in Int /\ b[2] \in Int
    BY DEF Places
  <2>2. a[1] - b[1] = -x /\ a[2] - b[2] = -y
    BY <2>1
  <2>. HIDE DEF x, y
  <2>3. (-x) * (-x) = x * x /\ (-y) * (-y) = y * y
    BY <1>2
  <2>4. Apart2(a, b) = (-x) * (-x) + (-y) * (-y)
    BY <2>2 DEF Apart2, Square
  <2>5. Apart2(b, a) = x * x + y * y
    BY DEF Apart2, Square, x, y
  <2>. QED
    BY <2>3, <2>4, <2>5
<1>4. a[1] - a[1] = 0 /\ a[2] - a[2] = 0
  BY DEF Places
<1>5. Off(a, a, b) = 0
  <2>1. (a[1] - a[1]) * (b[1] - a[1]) + (a[2] - a[2]) * (b[2] - a[2]) = 0
    <3>1. 0 * x + 0 * y = 0
      <4>. HIDE DEF x, y
      <4>. QED
        BY <1>2
    <3>. QED
      BY <1>4, <3>1
  <2>2. 0 * len2 = 0
    <3>. HIDE DEF len2
    <3>. QED
      BY <1>1
  <2>3. 0 <= 0
    OBVIOUS
  <2>. QED
    BY <1>1, <2>1, <2>2, <2>3 DEF Off
<1>6. Off(b, a, b) = 0
  <2>1. (b[1] - a[1]) * (b[1] - a[1]) + (b[2] - a[2]) * (b[2] - a[2]) = len2
    BY <1>3
  <2>2. 0 * len2 = 0 /\ len2 >= len2 /\ (len2 <= 0 => len2 = 0)
    <3>. HIDE DEF len2
    <3>. QED
      BY <1>1
  <2>3. Apart2(b, a) = len2
    BY <1>3
  <2>4. CASE len2 = 0
    BY <2>3, <2>4 DEF Off
  <2>5. CASE len2 # 0
    BY <1>1, <2>1, <2>2, <2>5 DEF Off
  <2>. QED
    BY <2>4, <2>5
<1>. QED
  BY <1>5, <1>6

LEMMA EpsilonIsNatural == CorpusEpsilon \in Nat
BY AtlasConstants

LEMMA RoomIsNatural ==
  ASSUME NEW a \in Places, NEW b \in Places
  PROVE  CorpusEpsilon * Max({1, Apart2(a, b)}) \in Nat
<1>. DEFINE x == Apart2(a, b)
            m == Max({1, x})
<1>1. x \in Nat
  BY ApartIsNatural
<1>. HIDE DEF x
<1>2. \E k \in {1, x} : \A y \in {1, x} : k >= y
  <2>1. CASE x <= 1
    BY <1>1, <2>1
  <2>2. CASE ~ (x <= 1)
    BY <1>1, <2>2
  <2>. QED
    BY <2>1, <2>2
<1>3. m \in {1, x}
  BY <1>2 DEF Max
<1>. HIDE DEF m
<1>4. m \in Nat
  BY <1>1, <1>3
<1>5. CorpusEpsilon * m \in Nat
  BY <1>4, EpsilonIsNatural, ProductsOfNaturals
<1>. QED
  BY <1>5 DEF m, x

\* What does not stray lets nothing nearer stray.
LEMMA NearerIsNear ==
  ASSUME NEW a \in Places, NEW b \in Places, NEW d \in Nat, NEW e \in Nat, d <= e,
         ~ Strays(e, a, b)
  PROVE  ~ Strays(d, a, b)
BY RoomIsNatural DEF Strays

LEMMA EndsDoNotStray ==
  ASSUME NEW a \in Places, NEW b \in Places
  PROVE  ~ Strays(Off(a, a, b), a, b) /\ ~ Strays(Off(b, a, b), a, b)
BY RoomIsNatural, EndsAreOnIt DEF Strays

-----------------------------------------------------------------------------
(* The worst point of a span                                               *)

LEMMA WorstIs ==
  ASSUME NEW pts \in Seq(Places), NEW i \in DOMAIN pts, NEW j \in DOMAIN pts, i + 1 < j
  PROVE  /\ Worst(pts, i, j) \in Nat
         /\ \A k \in i + 1 .. j - 1 : Off(pts[k], pts[i], pts[j]) <= Worst(pts, i, j)
         /\ At(pts, i, j) \in i + 1 .. j - 1
<1>. DEFINE I == i + 1 .. j - 1
            f == [k \in I |-> Off(pts[k], pts[i], pts[j])]
            T == {f[k] : k \in I}
            W == Worst(pts, i, j)
<1>1. DOMAIN pts = 1 .. Len(pts) /\ Len(pts) \in Nat
  OBVIOUS
<1>2. i \in Nat /\ j \in Nat /\ i + 1 \in Int /\ j - 1 \in Int /\ i + 1 \in I
  BY <1>1
<1>3. I \subseteq DOMAIN pts /\ I \subseteq Nat
  BY <1>1, <1>2
<1>4. \A k \in DOMAIN pts : pts[k] \in Places
  OBVIOUS
<1>5. \A k \in I : f[k] \in Nat
  BY <1>3, <1>4, OffIsNatural
<1>6. IsFiniteSet(I)
  BY <1>2, FS_Interval
<1>. HIDE DEF I
<1>7. IsFiniteSet(T)
  <2>. HIDE DEF f
  <2>. QED
    BY <1>6, ImageIsFinite
<1>8. T \subseteq Nat /\ T # {}
  <2>. HIDE DEF f
  <2>. QED
    BY <1>2, <1>5
<1>9. W = Max(T)
  <2>1. {Off(pts[k], pts[i], pts[j]) : k \in I} = T
    OBVIOUS
  <2>. QED
    BY <2>1 DEF Worst, I
<1>10. Max(T) \in T /\ \A y \in T : y <= Max(T)
  <2>. HIDE DEF T
  <2>1. PICK x \in T : \A y \in T : y <= x
    BY <1>7, <1>8, LargestExists
  <2>2. \A y \in T : x >= y
    BY <1>8, <2>1
  <2>3. \E z \in T : \A y \in T : z >= y
    BY <2>2
  <2>4. Max(T) \in T /\ \A y \in T : Max(T) >= y
    BY <2>3 DEF Max
  <2>. QED
    BY <1>8, <2>4
<1>11. W \in Nat /\ \A k \in I : f[k] <= W
  <2>. HIDE DEF f, W
  <2>. QED
    BY <1>8, <1>9, <1>10
<1>12. \E k \in I : f[k] = W
  <2>. HIDE DEF f, W
  <2>. QED
    BY <1>9, <1>10
<1>. DEFINE A == {k \in I : f[k] = W}
<1>13. At(pts, i, j) = Min(A)
  <2>1. {k \in I : Off(pts[k], pts[i], pts[j]) = W} = A
    OBVIOUS
  <2>. QED
    BY <2>1 DEF At, I
<1>14. Min(A) \in A
  <2>1. A \subseteq Nat /\ A # {}
    <3>. HIDE DEF f, W
    <3>. QED
      BY <1>3, <1>12 DEF I
  <2>. HIDE DEF A
  <2>2. \E x \in A : \A y \in A : x <= y
    BY <2>1, SmallestExists
  <2>. QED
    BY <2>2 DEF Min
<1>15. At(pts, i, j) \in I
  <2>. HIDE DEF f, W
  <2>. QED
    BY <1>13, <1>14
<1>16. \A k \in I : f[k] = Off(pts[k], pts[i], pts[j])
  OBVIOUS
<1>. HIDE DEF f
<1>. QED
  BY <1>11, <1>15, <1>16 DEF I

-----------------------------------------------------------------------------
(* The points that stay: simplify's spans                                  *)

Spans(pts) == (DOMAIN pts) \X (DOMAIN pts)
Straight(pts, i, j) == j <= i + 1 \/ ~ Strays(Worst(pts, i, j), pts[i], pts[j])
Staying(pts, g, i, j) ==
  IF Straight(pts, i, j) THEN {}
  ELSE {At(pts, i, j)} \cup g[<<i, At(pts, i, j)>>] \cup g[<<At(pts, i, j), j>>]
Stays(pts) ==
  CHOOSE g : g = [s \in (DOMAIN pts) \X (DOMAIN pts) |->
    IF s[2] <= s[1] + 1 \/ ~ Strays(Worst(pts, s[1], s[2]), pts[s[1]], pts[s[2]]) THEN {}
    ELSE LET k == At(pts, s[1], s[2]) IN {k} \cup g[<<s[1], k>>] \cup g[<<k, s[2]>>]]

LEMMA BendsAreStays == ASSUME NEW pts PROVE Bends(pts) = Stays(pts)[<<1, Len(pts)>>]
BY DEF Bends, Stays

\* A function that follows the recursion on the spans up to a width.
Narrow(g, pts, w) ==
  \A i, j \in DOMAIN pts : j - i <= w => g[<<i, j>>] = Staying(pts, g, i, j)

LEMMA WithinTheSpan ==
  ASSUME NEW pts \in Seq(Places), NEW i \in DOMAIN pts, NEW j \in DOMAIN pts,
         ~ Straight(pts, i, j)
  PROVE  /\ At(pts, i, j) \in i + 1 .. j - 1 /\ At(pts, i, j) \in DOMAIN pts
         /\ i \in Nat /\ j \in Nat /\ At(pts, i, j) \in Nat
<1>1. DOMAIN pts = 1 .. Len(pts) /\ Len(pts) \in Nat
  OBVIOUS
<1>2. i + 1 < j
  BY <1>1 DEF Straight
<1>3. At(pts, i, j) \in i + 1 .. j - 1
  BY <1>2, WorstIs
<1>. QED
  BY <1>1, <1>3

LEMMA NarrowExist ==
  ASSUME NEW pts \in Seq(Places), NEW n \in Nat
  PROVE  \E g : Narrow(g, pts, n)
<1>. DEFINE Fails == {w \in Nat : ~ \E g : Narrow(g, pts, w)}
<1>1. SUFFICES ASSUME Fails # {} PROVE FALSE
  OBVIOUS
<1>2. PICK w \in Fails : \A v \in Fails : w <= v
  <2>1. Fails \subseteq Nat
    OBVIOUS
  <2>. HIDE DEF Fails
  <2>. QED
    BY <1>1, <2>1, SmallestExists
<1>3. w \in Nat /\ ~ \E g : Narrow(g, pts, w)
  BY <1>2
<1>4. DOMAIN pts = 1 .. Len(pts) /\ Len(pts) \in Nat
  OBVIOUS
<1>5. CASE w = 0
  <2>. DEFINE g == [s \in Spans(pts) |-> {}]
  <2>1. \A i, j \in DOMAIN pts : j - i <= 0 => g[<<i, j>>] = Staying(pts, g, i, j)
    <3>. SUFFICES ASSUME NEW i \in DOMAIN pts, NEW j \in DOMAIN pts, j - i <= 0
                  PROVE  g[<<i, j>>] = Staying(pts, g, i, j)
      OBVIOUS
    <3>1. Straight(pts, i, j)
      BY <1>4 DEF Straight
    <3>2. g[<<i, j>>] = {}
      BY DEF Spans
    <3>. QED
      BY <3>1, <3>2 DEF Staying
  <2>2. Narrow(g, pts, 0)
    <3>. HIDE DEF g
    <3>. QED
      BY <2>1 DEF Narrow
  <2>. QED
    BY <1>3, <1>5, <2>2
<1>6. CASE w # 0
  <2>1. w - 1 \in Nat /\ w - 1 \notin Fails
    <3>1. w - 1 \in Nat /\ ~ (w <= w - 1)
      BY <1>3, <1>6
    <3>. HIDE DEF Fails
    <3>. QED
      BY <1>2, <3>1
  <2>2. PICK g : Narrow(g, pts, w - 1)
    BY <2>1
  <2>. DEFINE h == [s \in Spans(pts) |-> IF s[2] - s[1] = w THEN Staying(pts, g, s[1], s[2])
                                         ELSE g[s]]
  <2>3. \A i, j \in DOMAIN pts : h[<<i, j>>] = IF j - i = w THEN Staying(pts, g, i, j) ELSE g[<<i, j>>]
    BY DEF Spans
  <2>. HIDE DEF h
  <2>4. \A i, j \in DOMAIN pts : j - i <= w => Staying(pts, h, i, j) = Staying(pts, g, i, j)
    <3>. SUFFICES ASSUME NEW i \in DOMAIN pts, NEW j \in DOMAIN pts, j - i <= w
                  PROVE  Staying(pts, h, i, j) = Staying(pts, g, i, j)
      OBVIOUS
    <3>1. CASE Straight(pts, i, j)
      BY <3>1 DEF Staying
    <3>2. CASE ~ Straight(pts, i, j)
      <4>. DEFINE k == At(pts, i, j)
      <4>1. k \in i + 1 .. j - 1 /\ k \in DOMAIN pts /\ i \in Nat /\ j \in Nat /\ k \in Nat
        BY <3>2, WithinTheSpan
      <4>. HIDE DEF k
      <4>2. k - i # w /\ j - k # w
        BY <1>3, <4>1
      <4>3. h[<<i, k>>] = g[<<i, k>>] /\ h[<<k, j>>] = g[<<k, j>>]
        BY <2>3, <4>1, <4>2
      <4>. QED
        BY <4>3 DEF Staying, k
    <3>. QED
      BY <3>1, <3>2
  <2>5. \A i, j \in DOMAIN pts : j - i <= w => h[<<i, j>>] = Staying(pts, h, i, j)
    <3>. SUFFICES ASSUME NEW i \in DOMAIN pts, NEW j \in DOMAIN pts, j - i <= w
                  PROVE  h[<<i, j>>] = Staying(pts, h, i, j)
      OBVIOUS
    <3>1. CASE j - i = w
      BY <2>3, <2>4, <3>1
    <3>2. CASE j - i # w
      <4>1. j - i <= w - 1
        BY <1>3, <1>4, <3>2
      <4>2. g[<<i, j>>] = Staying(pts, g, i, j)
        BY <2>2, <4>1 DEF Narrow
      <4>. QED
        BY <2>3, <2>4, <3>2, <4>2
    <3>. QED
      BY <3>1, <3>2
  <2>6. Narrow(h, pts, w)
    BY <2>5 DEF Narrow
  <2>. QED
    BY <1>3, <2>6
<1>. QED
  BY <1>5, <1>6

LEMMA StaysAt ==
  ASSUME NEW pts \in Seq(Places), NEW i \in DOMAIN pts, NEW j \in DOMAIN pts
  PROVE  Stays(pts)[<<i, j>>] = Staying(pts, Stays(pts), i, j)
<1>. DEFINE D == DOMAIN pts
<1>1. D = 1 .. Len(pts) /\ Len(pts) \in Nat
  OBVIOUS
<1>2. PICK g : Narrow(g, pts, Len(pts))
  BY <1>1, NarrowExist
<1>3. \A a, b \in D : g[<<a, b>>] = Staying(pts, g, a, b)
  <2>1. \A a, b \in D : b - a <= Len(pts)
    BY <1>1
  <2>. QED
    BY <1>2, <2>1 DEF Narrow
<1>. DEFINE h == [s \in D \X D |-> g[s]]
            Body(x) == [s \in D \X D |->
              IF s[2] <= s[1] + 1 \/ ~ Strays(Worst(pts, s[1], s[2]), pts[s[1]], pts[s[2]]) THEN {}
              ELSE LET k == At(pts, s[1], s[2]) IN {k} \cup x[<<s[1], k>>] \cup x[<<k, s[2]>>]]
<1>4. ASSUME NEW x, NEW a \in D, NEW b \in D
      PROVE  Body(x)[<<a, b>>] = Staying(pts, x, a, b)
  BY DEF Staying, Straight
<1>5. \A a, b \in D : Staying(pts, h, a, b) = Staying(pts, g, a, b)
  <2>. SUFFICES ASSUME NEW a \in D, NEW b \in D
                PROVE  Staying(pts, h, a, b) = Staying(pts, g, a, b)
    OBVIOUS
  <2>1. CASE Straight(pts, a, b)
    BY <2>1 DEF Staying
  <2>2. CASE ~ Straight(pts, a, b)
    <3>. DEFINE k == At(pts, a, b)
    <3>1. k \in D
      BY <2>2, WithinTheSpan
    <3>. HIDE DEF k
    <3>2. h[<<a, k>>] = g[<<a, k>>] /\ h[<<k, b>>] = g[<<k, b>>]
      BY <3>1
    <3>. HIDE DEF h
    <3>. QED
      BY <3>2 DEF Staying, k
  <2>. QED
    BY <2>1, <2>2
<1>6. \A a, b \in D : h[<<a, b>>] = Body(h)[<<a, b>>]
  <2>1. \A a, b \in D : h[<<a, b>>] = g[<<a, b>>]
    OBVIOUS
  <2>. HIDE DEF h, Body
  <2>. SUFFICES ASSUME NEW a \in D, NEW b \in D
                PROVE  h[<<a, b>>] = Body(h)[<<a, b>>]
    OBVIOUS
  <2>2. Body(h)[<<a, b>>] = Staying(pts, h, a, b)
    BY <1>4
  <2>3. Staying(pts, h, a, b) = Staying(pts, g, a, b)
    BY <1>5
  <2>4. h[<<a, b>>] = g[<<a, b>>] /\ g[<<a, b>>] = Staying(pts, g, a, b)
    BY <1>3, <2>1
  <2>. QED
    BY <2>2, <2>3, <2>4
<1>7. h = Body(h)
  <2>1. \A s \in D \X D : h[s] = Body(h)[s]
    <3>. HIDE DEF h, Body
    <3>1. \A s \in D \X D : \E a, b \in D : s = <<a, b>>
      OBVIOUS
    <3>. QED
      BY <1>6, <3>1
  <2>2. h = [s \in D \X D |-> h[s]]
    OBVIOUS
  <2>3. Body(h) = [s \in D \X D |-> Body(h)[s]]
    OBVIOUS
  <2>. HIDE DEF h, Body
  <2>. QED
    BY <2>1, <2>2, <2>3
<1>8. \E x : x = Body(x)
  <2>. HIDE DEF h, Body
  <2>. QED
    BY <1>7
<1>. DEFINE r == Stays(pts)
<1>9. r = Body(r)
  BY <1>8 DEF Stays
<1>. HIDE DEF r, Body
<1>10. r[<<i, j>>] = Staying(pts, r, i, j)
  <2>1. Body(r)[<<i, j>>] = Staying(pts, r, i, j)
    BY <1>4
  <2>. QED
    BY <1>9, <2>1
<1>. QED
  BY <1>10 DEF r

-----------------------------------------------------------------------------
(* What stays is enough                                                    *)

Follow(K, a, b) == a \in K /\ b \in K /\ a < b /\ \A c \in K : c <= a \/ b <= c
Covered(pts, K, k) ==
  \E a, b \in K : /\ Follow(K, a, b) /\ a <= k /\ k <= b
                  /\ ~ Strays(Off(pts[k], pts[a], pts[b]), pts[a], pts[b])
Served(pts, i, j) ==
  /\ Stays(pts)[<<i, j>>] \subseteq i + 1 .. j - 1
  /\ \A k \in i .. j : Covered(pts, {i, j} \cup Stays(pts)[<<i, j>>], k)

\* A straight span needs no point of its own.
LEMMA StraightIsServed ==
  ASSUME NEW pts \in Seq(Places), NEW i \in DOMAIN pts, NEW j \in DOMAIN pts, i < j,
         Straight(pts, i, j)
  PROVE  Served(pts, i, j)
<1>. DEFINE K == {i, j} \cup Stays(pts)[<<i, j>>]
<1>1. DOMAIN pts = 1 .. Len(pts) /\ Len(pts) \in Nat /\ i \in Nat /\ j \in Nat
  OBVIOUS
<1>2. Stays(pts)[<<i, j>>] = {}
  BY StaysAt DEF Staying
<1>3. K = {i, j}
  BY <1>2
<1>. HIDE DEF K
<1>4. Follow(K, i, j)
  BY <1>1, <1>3 DEF Follow
<1>5. pts[i] \in Places /\ pts[j] \in Places
  OBVIOUS
<1>6. ASSUME NEW k \in i .. j
      PROVE  ~ Strays(Off(pts[k], pts[i], pts[j]), pts[i], pts[j])
  <2>1. CASE k = i \/ k = j
    BY <1>5, <2>1, EndsDoNotStray
  <2>2. CASE k # i /\ k # j
    <3>1. k \in i + 1 .. j - 1 /\ i + 1 < j /\ k \in DOMAIN pts
      BY <1>1, <2>2
    <3>2. ~ Strays(Worst(pts, i, j), pts[i], pts[j])
      BY <1>1, <3>1 DEF Straight
    <3>3. Worst(pts, i, j) \in Nat /\ Off(pts[k], pts[i], pts[j]) <= Worst(pts, i, j)
      BY <3>1, WorstIs
    <3>4. pts[k] \in Places
      BY <3>1
    <3>5. Off(pts[k], pts[i], pts[j]) \in Nat
      BY <1>5, <3>4, OffIsNatural
    <3>. QED
      BY <1>5, <3>2, <3>3, <3>5, NearerIsNear
  <2>. QED
    BY <2>1, <2>2
<1>7. \A k \in i .. j : Covered(pts, K, k)
  <2>. SUFFICES ASSUME NEW k \in i .. j
                PROVE  Covered(pts, K, k)
    OBVIOUS
  <2>1. i \in K /\ j \in K /\ i <= k /\ k <= j
    BY <1>1, <1>3
  <2>. QED
    BY <1>4, <1>6, <2>1 DEF Covered
<1>. QED
  BY <1>2, <1>7 DEF Served, K

\* Two points in a row on one side of a point that stays are in a row still.
LEMMA BentIsServed ==
  ASSUME NEW pts \in Seq(Places), NEW i \in DOMAIN pts, NEW j \in DOMAIN pts, i < j,
         ~ Straight(pts, i, j), Served(pts, i, At(pts, i, j)), Served(pts, At(pts, i, j), j)
  PROVE  Served(pts, i, j)
<1>. DEFINE m == At(pts, i, j)
            L == Stays(pts)[<<i, m>>]
            R == Stays(pts)[<<m, j>>]
            S == Stays(pts)[<<i, j>>]
<1>1. m \in i + 1 .. j - 1 /\ m \in DOMAIN pts /\ i \in Nat /\ j \in Nat /\ m \in Nat
  BY WithinTheSpan
<1>2. S = {m} \cup L \cup R
  BY StaysAt DEF Staying
<1>3. L \subseteq i + 1 .. m - 1 /\ R \subseteq m + 1 .. j - 1
  BY DEF Served
<1>10. \A k \in i .. m : Covered(pts, {i, m} \cup L, k)
  BY DEF Served
<1>11. \A k \in m .. j : Covered(pts, {m, j} \cup R, k)
  BY DEF Served
<1>. HIDE DEF m, L, R, S
<1>12. i < m /\ m < j
  BY <1>1
<1>4. S \subseteq i + 1 .. j - 1
  <2>1. L \subseteq i + 1 .. j - 1
    BY <1>1, <1>3, <1>12
  <2>2. R \subseteq i + 1 .. j - 1
    BY <1>1, <1>3, <1>12
  <2>. QED
    BY <1>1, <1>2, <2>1, <2>2
<1>. DEFINE K == {i, j} \cup S
<1>5. K = {i, m} \cup L \cup {m, j} \cup R
  BY <1>2
<1>. HIDE DEF K
<1>6. /\ \A c \in {i, m} \cup L : c \in i .. m
      /\ \A c \in {m, j} \cup R : c \in m .. j
  <2>1. \A c \in L : c \in i .. m
    BY <1>1, <1>3, <1>12
  <2>2. \A c \in R : c \in m .. j
    BY <1>1, <1>3, <1>12
  <2>. QED
    BY <1>1, <1>12, <2>1, <2>2
<1>7. ASSUME NEW a, NEW b, Follow({i, m} \cup L, a, b)
      PROVE  Follow(K, a, b)
  BY <1>1, <1>5, <1>6, <1>7 DEF Follow
<1>8. ASSUME NEW a, NEW b, Follow({m, j} \cup R, a, b)
      PROVE  Follow(K, a, b)
  BY <1>1, <1>5, <1>6, <1>8 DEF Follow
<1>9. ASSUME NEW k \in i .. j
      PROVE  Covered(pts, K, k)
  <2>1. CASE k <= m
    <3>0. k \in i .. m
      BY <1>1, <1>12, <2>1
    <3>1. Covered(pts, {i, m} \cup L, k)
      BY <1>10, <3>0
    <3>. QED
      BY <1>5, <1>7, <3>1 DEF Covered
  <2>2. CASE ~ (k <= m)
    <3>0. k \in m .. j
      BY <1>1, <1>12, <2>2
    <3>1. Covered(pts, {m, j} \cup R, k)
      BY <1>11, <3>0
    <3>. QED
      BY <1>5, <1>8, <3>1 DEF Covered
  <2>. QED
    BY <2>1, <2>2
<1>. QED
  BY <1>4, <1>9 DEF Served, K, S

LEMMA SpansAreServed ==
  ASSUME NEW pts \in Seq(Places), NEW i \in DOMAIN pts, NEW j \in DOMAIN pts, i < j
  PROVE  Served(pts, i, j)
<1>. DEFINE D == DOMAIN pts
            Fails == {w \in Nat : \E a, b \in D : a < b /\ b - a = w /\ ~ Served(pts, a, b)}
<1>1. D = 1 .. Len(pts) /\ Len(pts) \in Nat
  OBVIOUS
<1>2. SUFFICES ASSUME Fails # {} PROVE FALSE
  <2>1. Fails = {} => Served(pts, i, j)
    BY <1>1
  <2>. QED
    BY <2>1
<1>3. PICK w \in Fails : \A v \in Fails : w <= v
  <2>1. Fails \subseteq Nat
    OBVIOUS
  <2>. HIDE DEF Fails
  <2>. QED
    BY <1>2, <2>1, SmallestExists
<1>4. PICK a \in D, b \in D : a < b /\ b - a = w /\ ~ Served(pts, a, b)
  BY <1>3
<1>5. ~ Straight(pts, a, b)
  BY <1>4, StraightIsServed
<1>. DEFINE m == At(pts, a, b)
<1>6. m \in a + 1 .. b - 1 /\ m \in D /\ a \in Nat /\ b \in Nat /\ m \in Nat
  BY <1>5, WithinTheSpan
<1>. HIDE DEF m
<1>7. /\ m - a \in Nat /\ b - m \in Nat /\ a < m /\ m < b
      /\ ~ (w <= m - a) /\ ~ (w <= b - m)
  <2>1. w = b - a
    BY <1>4
  <2>2. a < m /\ m < b /\ a \in Int /\ b \in Int /\ m \in Int
    BY <1>6
  <2>. HIDE DEF D, Fails
  <2>3. m - a \in Nat /\ b - m \in Nat
    BY <2>2
  <2>4. ~ (b - a <= m - a) /\ ~ (b - a <= b - m)
    BY <2>2
  <2>. QED
    BY <2>1, <2>2, <2>3, <2>4
<1>8. m - a \notin Fails /\ b - m \notin Fails
  <2>. HIDE DEF Fails
  <2>. QED
    BY <1>3, <1>7
<1>9. Served(pts, a, m) /\ Served(pts, m, b)
  BY <1>6, <1>7, <1>8
<1>. QED
  BY <1>4, <1>5, <1>9, BentIsServed DEF m

-----------------------------------------------------------------------------
(* The points kept, in order: simplify's output                            *)

Sieve(pts, K, i) == IF i \in K THEN <<pts[i]>> ELSE <<>>
Sifted(pts, K, n) == FlattenSeq([i \in 1 .. n |-> Sieve(pts, K, i)])

LEMMA SiftStep ==
  ASSUME NEW pts \in Seq(Places), NEW K, NEW n \in Nat, n + 1 <= Len(pts)
  PROVE  /\ Sifted(pts, K, n + 1) = Sifted(pts, K, n) \o Sieve(pts, K, n + 1)
         /\ Sifted(pts, K, n) \in Seq(Places) /\ Sieve(pts, K, n + 1) \in Seq(Places)
<1>. DEFINE f == [i \in 1 .. n + 1 |-> Sieve(pts, K, i)]
            e == [i \in 1 .. n |-> Sieve(pts, K, i)]
<1>1. \A i \in 1 .. n + 1 : Sieve(pts, K, i) \in Seq(Places)
  <2>. SUFFICES ASSUME NEW i \in 1 .. n + 1
                PROVE  Sieve(pts, K, i) \in Seq(Places)
    OBVIOUS
  <2>1. pts[i] \in Places
    OBVIOUS
  <2>. QED
    BY <2>1 DEF Sieve
<1>2. f \in [1 .. n + 1 -> Seq(Places)] /\ e \in [1 .. n -> Seq(Places)]
  BY <1>1
<1>3. e = [i \in 1 .. n |-> f[i]] /\ f[n + 1] = Sieve(pts, K, n + 1)
  OBVIOUS
<1>4. f[n + 1] \in Seq(Places)
  BY <1>1
<1>. HIDE DEF e, f
<1>5. FlattenSeq(f) = FlattenSeq(e) \o f[n + 1]
  BY <1>2, <1>3, FlattenStep
<1>6. FlattenSeq(e) \in Seq(Places)
  BY <1>2, FlattenIsSeq
<1>7. Sifted(pts, K, n + 1) = FlattenSeq(f) /\ Sifted(pts, K, n) = FlattenSeq(e)
  BY DEF Sifted, e, f
<1>. QED
  BY <1>3, <1>4, <1>5, <1>6, <1>7

LEMMA SiftNothing ==
  ASSUME NEW pts, NEW K
  PROVE  Sifted(pts, K, 0) = <<>>
<1>1. [i \in 1 .. 0 |-> Sieve(pts, K, i)] = <<>>
  OBVIOUS
<1>. QED
  BY <1>1, FlattenNothing DEF Sifted

\* Of the first n points: those kept in a row are drawn in a row, the last one
\* kept is drawn last, and the first, if kept, first.
Neighbors(out, p, q) == \E m \in 1 .. Len(out) - 1 : out[m] = p /\ out[m + 1] = q
Sifts(pts, K, n, out) ==
  /\ out \in Seq(Places)
  /\ \A a, b \in K : b <= n /\ Follow(K, a, b) => Neighbors(out, pts[a], pts[b])
  /\ \A a \in K : a <= n /\ (\A c \in K : c <= n => c <= a)
                    => Len(out) >= 1 /\ out[Len(out)] = pts[a]
  /\ 1 \in K /\ n >= 1 => Len(out) >= 1 /\ out[1] = pts[1]

LEMMA SiftsMore ==
  ASSUME NEW pts \in Seq(Places), NEW K \in SUBSET (1 .. Len(pts)), NEW n \in Nat, n + 1 <= Len(pts),
         NEW out, Sifts(pts, K, n, out), n = 0 => out = <<>>
  PROVE  Sifts(pts, K, n + 1, out \o Sieve(pts, K, n + 1))
<1>. DEFINE new == out \o Sieve(pts, K, n + 1)
            l == Len(out)
<1>0. \A c \in K : c \in Nat /\ c >= 1
  OBVIOUS
<1>1. out \in Seq(Places)
  BY DEF Sifts
<1>2. \A a, b \in K : b <= n /\ Follow(K, a, b) => Neighbors(out, pts[a], pts[b])
  BY DEF Sifts
<1>3. \A a \in K : a <= n /\ (\A c \in K : c <= n => c <= a) => l >= 1 /\ out[l] = pts[a]
  BY DEF Sifts
<1>4. 1 \in K /\ n >= 1 => l >= 1 /\ out[1] = pts[1]
  BY DEF Sifts
<1>5. CASE n + 1 \notin K
  <2>1. new = out
    BY <1>1, <1>5 DEF Sieve
  <2>2. \A c \in K : c <= n + 1 => c <= n
    BY <1>0, <1>5
  <2>3. \A c \in K : c <= n => c <= n + 1
    BY <1>0
  <2>4. \A a, b \in K : b <= n + 1 /\ Follow(K, a, b) => Neighbors(out, pts[a], pts[b])
    BY <1>2, <2>2
  <2>5. \A a \in K : a <= n + 1 /\ (\A c \in K : c <= n + 1 => c <= a) => l >= 1 /\ out[l] = pts[a]
    BY <1>3, <2>2, <2>3
  <2>6. 1 \in K /\ n + 1 >= 1 => l >= 1 /\ out[1] = pts[1]
    BY <1>0, <1>4, <1>5
  <2>7. Sifts(pts, K, n + 1, out)
    BY <1>1, <2>4, <2>5, <2>6 DEF Sifts
  <2>. QED
    BY <2>1, <2>7
<1>6. CASE n + 1 \in K
  <2>. DEFINE p == pts[n + 1]
  <2>1. p \in Places
    OBVIOUS
  <2>2. new = out \o <<p>>
    BY <1>6 DEF Sieve
  <2>. HIDE DEF p, new
  <2>3. /\ new \in Seq(Places) /\ Len(new) = l + 1 /\ new[l + 1] = p /\ l \in Nat
        /\ \A m \in 1 .. l : new[m] = out[m]
    BY <1>1, <2>1, <2>2
  <2>. HIDE DEF l
  <2>4. ASSUME NEW a \in K, NEW b \in K, b <= n + 1, Follow(K, a, b)
        PROVE  Neighbors(new, pts[a], pts[b])
    <3>1. CASE b <= n
      <4>1. PICK m \in 1 .. l - 1 : out[m] = pts[a] /\ out[m + 1] = pts[b]
        BY <1>2, <2>4, <3>1 DEF Neighbors, l
      <4>2. m \in 1 .. l /\ m + 1 \in 1 .. l /\ m \in 1 .. (l + 1) - 1
        BY <2>3
      <4>3. new[m] = pts[a] /\ new[m + 1] = pts[b]
        BY <2>3, <4>1, <4>2
      <4>. QED
        BY <2>3, <4>2, <4>3 DEF Neighbors
    <3>2. CASE ~ (b <= n)
      <4>1. b = n + 1
        BY <1>0, <2>4, <3>2
      <4>2. a <= n /\ \A c \in K : c <= n => c <= a
        BY <1>0, <2>4, <4>1 DEF Follow
      <4>3. l >= 1 /\ out[l] = pts[a]
        BY <1>3, <4>2
      <4>4. l \in 1 .. l /\ l \in 1 .. (l + 1) - 1
        BY <2>3, <4>3
      <4>5. new[l] = pts[a] /\ new[l + 1] = pts[b]
        BY <2>3, <4>1, <4>3, <4>4 DEF p
      <4>. QED
        BY <2>3, <4>4, <4>5 DEF Neighbors
    <3>. QED
      BY <3>1, <3>2
  <2>5. ASSUME NEW a \in K, a <= n + 1, \A c \in K : c <= n + 1 => c <= a
        PROVE  Len(new) >= 1 /\ new[Len(new)] = pts[a]
    <3>1. a = n + 1
      BY <1>0, <1>6, <2>5
    <3>. QED
      BY <2>3, <3>1 DEF p
  <2>6. ASSUME 1 \in K, n + 1 >= 1
        PROVE  Len(new) >= 1 /\ new[1] = pts[1]
    <3>1. CASE n = 0
      <4>1. l = 0
        BY <3>1 DEF l
      <4>. QED
        BY <2>3, <3>1, <4>1 DEF p
    <3>2. CASE n # 0
      <4>1. l >= 1 /\ out[1] = pts[1]
        BY <1>4, <2>6, <3>2
      <4>2. 1 \in 1 .. l
        BY <2>3, <4>1
      <4>. QED
        BY <2>3, <4>1, <4>2
    <3>. QED
      BY <3>1, <3>2
  <2>7. Sifts(pts, K, n + 1, new)
    BY <2>3, <2>4, <2>5, <2>6 DEF Sifts
  <2>. QED
    BY <2>7 DEF new
<1>. QED
  BY <1>5, <1>6

LEMMA SiftedSifts ==
  ASSUME NEW pts \in Seq(Places), NEW K \in SUBSET (1 .. Len(pts))
  PROVE  Sifts(pts, K, Len(pts), Sifted(pts, K, Len(pts)))
<1>. DEFINE Good(n) == Sifts(pts, K, n, Sifted(pts, K, n))
            Fails == {n \in 0 .. Len(pts) : ~ Good(n)}
<1>0. Len(pts) \in Nat
  OBVIOUS
<1>1. SUFFICES ASSUME Fails # {} PROVE FALSE
  <2>1. Len(pts) \in 0 .. Len(pts)
    BY <1>0
  <2>. QED
    BY <2>1
<1>2. PICK n \in Fails : \A k \in Fails : n <= k
  <2>1. Fails \subseteq Nat
    BY <1>0
  <2>. HIDE DEF Fails
  <2>. QED
    BY <1>1, <2>1, SmallestExists
<1>3. n \in 0 .. Len(pts) /\ ~ Good(n) /\ n \in Nat
  BY <1>2
<1>4. CASE n = 0
  <2>1. Sifted(pts, K, 0) = <<>>
    BY SiftNothing
  <2>2. \A a \in K : ~ (a <= 0)
    BY <1>0
  <2>3. <<>> \in Seq(Places)
    OBVIOUS
  <2>4. Sifts(pts, K, 0, <<>>)
    BY <2>2, <2>3 DEF Sifts
  <2>. QED
    BY <1>3, <1>4, <2>1, <2>4
<1>5. CASE n # 0
  <2>. DEFINE m == n - 1
  <2>1. m \in Nat /\ m \in 0 .. Len(pts) /\ ~ (n <= m) /\ m + 1 = n /\ m + 1 <= Len(pts)
    BY <1>0, <1>3, <1>5
  <2>. HIDE DEF m
  <2>2. m \notin Fails
    <3>. HIDE DEF Fails
    <3>. QED
      BY <1>2, <2>1
  <2>3. Sifts(pts, K, m, Sifted(pts, K, m))
    BY <2>1, <2>2
  <2>4. m = 0 => Sifted(pts, K, m) = <<>>
    BY SiftNothing
  <2>5. Sifts(pts, K, m + 1, Sifted(pts, K, m) \o Sieve(pts, K, m + 1))
    BY <2>1, <2>3, <2>4, SiftsMore
  <2>6. Sifted(pts, K, m + 1) = Sifted(pts, K, m) \o Sieve(pts, K, m + 1)
    BY <2>1, SiftStep
  <2>. QED
    BY <1>3, <2>1, <2>5, <2>6
<1>. QED
  BY <1>4, <1>5

-----------------------------------------------------------------------------
(* Thinning keeps the shape                                                *)

Shaped(raw, thin) ==
  /\ Head(thin) = Head(raw) /\ Last(thin) = Last(raw)
  /\ Len(raw) > 1 => \A i \in DOMAIN raw : Alongside(thin, raw[i])

LEMMA SimplifyKeepsTheShape ==
  ASSUME NEW pts \in Seq(Places), Len(pts) >= 1
  PROVE  Shaped(pts, Simplify(pts))
<1>. DEFINE n == Len(pts)
            K == {1, n} \cup Bends(pts)
            out == Simplify(pts)
<1>1. n \in Nat /\ DOMAIN pts = 1 .. n /\ 1 \in 1 .. n /\ n \in 1 .. n
  OBVIOUS
<1>2. \A i \in 1 .. n : pts[i] \in Places
  BY <1>1
<1>3. CASE n < 3
  <2>1. out = pts
    BY <1>3 DEF Simplify
  <2>2. ASSUME n > 1, NEW i \in 1 .. n
        PROVE  Alongside(pts, pts[i])
    <3>1. n = 2 /\ 1 \in 1 .. n - 1 /\ 1 + 1 = 2 /\ (i = 1 \/ i = 2)
      BY <1>1, <1>3, <2>2
    <3>2. pts[1] \in Places /\ pts[2] \in Places
      BY <1>2, <3>1
    <3>3. ~ Strays(Off(pts[1], pts[1], pts[2]), pts[1], pts[2])
      BY <3>2, EndsDoNotStray
    <3>4. ~ Strays(Off(pts[2], pts[1], pts[2]), pts[1], pts[2])
      BY <3>2, EndsDoNotStray
    <3>5. ~ Strays(Off(pts[i], pts[1], pts[1 + 1]), pts[1], pts[1 + 1])
      BY <3>1, <3>3, <3>4
    <3>. QED
      BY <3>1, <3>5 DEF Alongside
  <2>. QED
    BY <1>1, <2>1, <2>2 DEF Shaped
<1>4. CASE ~ (n < 3)
  <2>1. 1 < n
    BY <1>1, <1>4
  <2>2. Served(pts, 1, n)
    BY <1>1, <2>1, SpansAreServed
  <2>3. Bends(pts) = Stays(pts)[<<1, n>>]
    BY BendsAreStays
  <2>4. Bends(pts) \subseteq 1 + 1 .. n - 1 /\ \A k \in 1 .. n : Covered(pts, K, k)
    BY <2>2, <2>3 DEF Served
  <2>5. K \in SUBSET (1 .. n)
    BY <1>1, <2>4
  <2>6. out = Sifted(pts, K, n)
    BY <1>1, <1>4 DEF Simplify, Sifted, Sieve
  <2>7. 1 \in K /\ n \in K
    OBVIOUS
  <2>. HIDE DEF K, out
  <2>8. Sifts(pts, K, n, out)
    BY <2>5, <2>6, SiftedSifts
  <2>9. /\ out \in Seq(Places)
        /\ \A a, b \in K : b <= n /\ Follow(K, a, b) => Neighbors(out, pts[a], pts[b])
    BY <2>8 DEF Sifts
  <2>10. Len(out) >= 1 /\ out[1] = pts[1]
    BY <1>1, <2>1, <2>7, <2>8 DEF Sifts
  <2>11. out[Len(out)] = pts[n]
    <3>1. \A c \in K : c <= n
      BY <1>1, <2>5
    <3>2. n <= n
      BY <1>1
    <3>. QED
      BY <2>7, <2>8, <3>1, <3>2 DEF Sifts
  <2>12. ASSUME NEW i \in 1 .. n
         PROVE  Alongside(out, pts[i])
    <3>1. PICK a \in K, b \in K :
             Follow(K, a, b) /\ ~ Strays(Off(pts[i], pts[a], pts[b]), pts[a], pts[b])
      BY <2>4 DEF Covered
    <3>2. b <= n
      BY <1>1, <2>5
    <3>3. PICK m \in 1 .. Len(out) - 1 : out[m] = pts[a] /\ out[m + 1] = pts[b]
      BY <2>9, <3>1, <3>2 DEF Neighbors
    <3>. QED
      BY <3>1, <3>3 DEF Alongside
  <2>13. Head(out) = out[1] /\ Head(pts) = pts[1]
    BY <1>1, <2>9, <2>10
  <2>. QED
    BY <1>1, <2>10, <2>11, <2>12, <2>13 DEF Shaped, Last, out
<1>. QED
  BY <1>3, <1>4

LEMMA RoadAlwaysKeepsItsShape ==
  ASSUME reel \in Reels
  PROVE  RoadKeepsItsShape
<1>. DEFINE segs == SplitOnGaps(CorpusRoute(reel))
<1>1. CorpusRoute(reel) \in Seq(RoutePoints)
  BY RouteIsTyped
<1>2. segs \in Seq(Segments) /\ Solid(segs)
  BY <1>1, LineJoinsWhatWasDriven
<1>. HIDE DEF segs
<1>3. ASSUME NEW s \in DOMAIN segs
      PROVE  Shaped(segs[s].points, Simplify(segs[s].points))
  <2>1. segs[s] \in Segments /\ Len(segs[s].points) >= 1
    BY <1>2 DEF Solid
  <2>2. segs[s].points \in Seq(Places)
    BY <2>1 DEF Segments
  <2>. QED
    BY <2>1, <2>2, SimplifyKeepsTheShape
<1>. QED
  BY <1>3 DEF RoadKeepsItsShape, Shaped, segs

-----------------------------------------------------------------------------
(* Sampling a line down                                                    *)

LEMMA Quotient ==
  ASSUME NEW a \in Nat, NEW b \in Nat \ {0}
  PROVE  a \div b \in Nat /\ b * (a \div b) <= a /\ a < b * (a \div b) + b
OBVIOUS

LEMMA LargerFactor ==
  ASSUME NEW a \in Nat, NEW b \in Nat, NEW c \in Nat, a <= b
  PROVE  a * c <= b * c
OBVIOUS

LEMMA SmallerFactor ==
  ASSUME NEW a \in Nat, NEW b \in Nat, NEW c \in Nat, a * c < b * c
  PROVE  a < b
OBVIOUS

\* A line sampled down starts and ends where the road does, and has at most one
\* point more than the number asked for, the end it is closed with (downsample:
\* "always keeping the last one so the route reaches its end"; its "at most max
\* evenly-spaced points" does not count that one).
THEOREM DownsampleReachesTheEnd ==
  ASSUME NEW pts \in Seq(Places), Len(pts) >= 1
  PROVE  /\ Downsample(pts) \in Seq(Places) /\ Len(Downsample(pts)) \in 1 .. MaxCorpusPoints + 1
         /\ Head(Downsample(pts)) = Head(pts) /\ Last(Downsample(pts)) = Last(pts)
<1>. DEFINE n == Len(pts)
            M == MaxCorpusPoints
            step == (n + M - 1) \div M
            count == (n - 1) \div step
            taken == [i \in 1 .. count + 1 |-> pts[(i - 1) * step + 1]]
<1>1. n \in Nat \ {0} /\ M \in Nat \ {0} /\ n \in 1 .. n /\ \A i \in 1 .. n : pts[i] \in Places
  BY AtlasConstants
<1>2. Head(pts) = pts[1] /\ Last(pts) = pts[n]
  BY <1>1 DEF Last
<1>3. CASE n <= M
  <2>1. Downsample(pts) = pts
    BY <1>3 DEF Downsample
  <2>. QED
    BY <1>1, <1>3, <2>1
<1>4. CASE ~ (n <= M)
  <2>1. step \in Nat /\ n + M - 1 < M * step + M
    <3>1. n + M - 1 \in Nat
      BY <1>1
    <3>. HIDE DEF n, M
    <3>. QED
      BY <1>1, <3>1, Quotient
  <2>. HIDE DEF n, M, step
  <2>2. M * step \in Nat /\ n <= M * step
    <3>1. M * step \in Nat
      BY <1>1, <2>1, ProductsOfNaturals
    <3>. DEFINE x == M * step
    <3>2. x \in Nat /\ n + M - 1 < x + M
      BY <2>1, <3>1
    <3>. HIDE DEF x
    <3>3. n <= x
      BY <1>1, <3>2
    <3>. QED
      BY <3>1, <3>3 DEF x
  <2>3. step # 0
    <3>1. M * 0 = 0
      BY <1>1
    <3>. QED
      BY <1>1, <2>2, <3>1
  <2>4. count \in Nat /\ step * count <= n - 1
    <3>1. n - 1 \in Nat /\ step \in Nat \ {0}
      BY <1>1, <2>1, <2>3
    <3>. QED
      BY <3>1, Quotient
  <2>. HIDE DEF count
  <2>5. count * step = step * count /\ count * step \in Nat
    BY <2>1, <2>4, ProductsOfNaturals
  <2>6. count < M
    <3>1. count * step < M * step
      BY <1>1, <2>2, <2>4, <2>5
    <3>. QED
      BY <1>1, <2>1, <2>4, <3>1, SmallerFactor
  <2>7. ASSUME NEW i \in 1 .. count + 1
        PROVE  (i - 1) * step + 1 \in 1 .. n
    <3>1. i - 1 \in Nat /\ i - 1 <= count
      BY <2>4
    <3>2. (i - 1) * step \in Nat /\ (i - 1) * step <= count * step
      BY <2>1, <2>4, <3>1, ProductsOfNaturals, LargerFactor
    <3>. DEFINE x == (i - 1) * step
    <3>3. x \in Nat /\ x <= n - 1
      BY <1>1, <2>4, <2>5, <3>2
    <3>. HIDE DEF x
    <3>4. x + 1 \in 1 .. n
      BY <1>1, <3>3
    <3>. QED
      BY <3>4 DEF x
  <2>8. count + 1 \in Nat \ {0} /\ 1 \in 1 .. count + 1 /\ count + 1 \in 1 .. count + 1
    BY <2>4
  <2>9. \A i \in 1 .. count + 1 : taken[i] \in Places
    BY <1>1, <2>7
  <2>10. taken \in Seq(Places) /\ Len(taken) = count + 1
    BY <2>8, <2>9
  <2>11. taken[1] = pts[1]
    <3>1. (1 - 1) * step + 1 = 1
      BY <2>1
    <3>. QED
      BY <2>8, <3>1
  <2>12. Downsample(pts) = IF Last(taken) = Last(pts) THEN taken ELSE Append(taken, Last(pts))
    BY <1>4 DEF Downsample, n, M, step, count
  <2>. HIDE DEF taken
  <2>13. pts[n] \in Places /\ count + 1 \in 1 .. M + 1 /\ count + 2 \in 1 .. M + 1
    BY <1>1, <2>4, <2>6
  <2>14. CASE Last(taken) = Last(pts)
    <3>1. Downsample(pts) = taken /\ Head(taken) = taken[1]
      BY <2>8, <2>10, <2>12, <2>14
    <3>. QED
      BY <1>2, <2>10, <2>11, <2>13, <2>14, <3>1 DEF M
  <2>15. CASE Last(taken) # Last(pts)
    <3>. DEFINE out == Append(taken, pts[n])
    <3>1. /\ out \in Seq(Places) /\ Len(out) = count + 2 /\ out[count + 2] = pts[n]
          /\ out[1] = taken[1] /\ Head(out) = out[1]
      BY <2>4, <2>8, <2>10, <2>13
    <3>2. Downsample(pts) = out
      BY <1>2, <2>12, <2>15
    <3>. HIDE DEF out
    <3>3. Last(out) = pts[n]
      BY <3>1 DEF Last
    <3>. QED
      BY <1>2, <2>11, <2>13, <3>1, <3>2, <3>3 DEF M
  <2>. QED
    BY <2>14, <2>15
<1>. QED
  BY <1>3, <1>4

-----------------------------------------------------------------------------
(* What a map shows is recent                                              *)

\* A body is of the table as it was when it was built.
Told(b) == b = NoBody \/ (b.built \in 0 .. hour /\ b.segs \in was[b.built])
Shown(d) ==
  /\ d.built \in -1 .. hour
  /\ d.segs # <<>> => \E h \in Max({0, d.built - CorpusTTL}) .. d.built : d.segs \in was[h]
AtlasInv ==
  /\ reel \in Reels /\ readable \in BOOLEAN
  /\ hour \in 0 .. LastHourDrawn
  /\ was = [h \in 0 .. LastHourDrawn |-> was[h]] /\ Line(reel) \in was[hour]
  /\ Told(body)
  /\ drawn = [m \in Maps |-> drawn[m]] /\ \A m \in Maps : Shown(drawn[m])

LEMMA HoursAreNaturals == LastHourDrawn \in Nat /\ CorpusTTL \in Nat
BY AtlasConstants

\* The first hour a map may show: never before the first.
LEMMA SinceIs ==
  ASSUME NEW d \in Int
  PROVE  /\ Max({0, d}) \in Nat /\ (d <= 0 => Max({0, d}) = 0) /\ (d >= 0 => Max({0, d}) = d)
<1>1. CASE d <= 0
  <2>1. \E x \in {0, d} : \A y \in {0, d} : x >= y
    BY <1>1
  <2>2. Max({0, d}) \in {0, d} /\ \A y \in {0, d} : Max({0, d}) >= y
    BY <2>1 DEF Max
  <2>. DEFINE x == Max({0, d})
  <2>3. x \in {0, d} /\ x >= 0
    BY <2>2
  <2>. HIDE DEF x
  <2>4. x = 0
    BY <1>1, <2>3
  <2>. QED
    BY <1>1, <2>4 DEF x
<1>2. CASE ~ (d <= 0)
  <2>1. \E x \in {0, d} : \A y \in {0, d} : x >= y
    BY <1>2
  <2>2. Max({0, d}) \in {0, d} /\ \A y \in {0, d} : Max({0, d}) >= y
    BY <2>1 DEF Max
  <2>. DEFINE x == Max({0, d})
  <2>3. x \in {0, d} /\ x >= d
    BY <2>2
  <2>. HIDE DEF x
  <2>4. x = d
    BY <1>2, <2>3
  <2>. QED
    BY <1>2, <2>4 DEF x
<1>. QED
  BY <1>1, <1>2

LEMMA NothingShown ==
  ASSUME hour \in Nat
  PROVE  Shown(NoBody) /\ NoBody.segs = <<>>
BY DEF Shown, NoBody

LEMMA AtlasStarts == ASSUME AtlasInit PROVE AtlasInv
<1>1. reel \in Reels /\ readable = TRUE /\ hour = 0 /\ body = NoBody /\ drawn = [m \in Maps |-> NoBody]
  BY DEF AtlasInit
<1>2. was = [h \in 0 .. LastHourDrawn |-> IF h = 0 THEN {Line(reel)} ELSE {}]
  BY DEF AtlasInit
<1>3. 0 \in 0 .. LastHourDrawn
  BY HoursAreNaturals
<1>4. was[0] = {Line(reel)}
  BY <1>2, <1>3
<1>5. was = [h \in 0 .. LastHourDrawn |-> was[h]]
  BY <1>2
<1>6. \A m \in Maps : Shown(drawn[m])
  BY <1>1, NothingShown
<1>7. drawn = [m \in Maps |-> drawn[m]]
  BY <1>1
<1>. QED
  BY <1>1, <1>3, <1>4, <1>5, <1>6, <1>7 DEF AtlasInv, Told

\* What is told of the table is of the hour it is told in or of the TTL before.
LEMMA TheAnswerIsRecent ==
  ASSUME AtlasInv
  PROVE  Told(CorpusBody) /\ (CorpusBody # NoBody => hour - CorpusBody.built <= CorpusTTL)
<1>1. hour \in Nat /\ CorpusTTL \in Nat /\ hour \in 0 .. hour
  BY HoursAreNaturals DEF AtlasInv
<1>2. CASE Kept
  <2>1. CorpusBody = body
    BY <1>2 DEF CorpusBody
  <2>2. body # NoBody /\ hour - body.built < CorpusTTL /\ Told(body)
    BY <1>2 DEF Kept, AtlasInv
  <2>3. body.built \in Nat
    BY <2>2 DEF Told
  <2>4. hour - body.built <= CorpusTTL
    BY <1>1, <2>2, <2>3
  <2>. QED
    BY <2>1, <2>2, <2>4
<1>3. CASE ~ Kept /\ (~ readable \/ CorpusRoute(reel) = <<>>)
  <2>1. CorpusBody = NoBody
    BY <1>3 DEF CorpusBody
  <2>. QED
    BY <2>1 DEF Told
<1>4. CASE ~ Kept /\ ~ (~ readable \/ CorpusRoute(reel) = <<>>)
  <2>1. CorpusBody = [segs |-> Line(reel), built |-> hour]
    BY <1>4 DEF CorpusBody
  <2>. DEFINE c == CorpusBody
  <2>2. c.built = hour /\ c.segs = Line(reel)
    BY <2>1
  <2>3. Line(reel) \in was[hour]
    BY DEF AtlasInv
  <2>. HIDE DEF c
  <2>4. Told(c) /\ hour - c.built <= CorpusTTL
    BY <1>1, <2>2, <2>3 DEF Told
  <2>. QED
    BY <2>4 DEF c
<1>. QED
  BY <1>2, <1>3, <1>4

LEMMA AskRouteStep == ASSUME AtlasInv, NEW m \in Maps, AskRoute(m) PROVE AtlasInv'
<1>. DEFINE c == CorpusBody
            new == [segs |-> c.segs, built |-> hour]
<1>1. Told(c) /\ (c # NoBody => hour - c.built <= CorpusTTL)
  BY TheAnswerIsRecent
<1>2. /\ body' = IF c = NoBody THEN body ELSE c
      /\ drawn' = [drawn EXCEPT ![m] = new]
      /\ UNCHANGED <<reel, readable, hour, was>>
  BY DEF AskRoute
<1>3. hour \in Nat /\ CorpusTTL \in Nat
  BY HoursAreNaturals DEF AtlasInv
<1>4. new.segs = c.segs /\ new.built = hour
  OBVIOUS
<1>. HIDE DEF c, new
<1>5. Shown(new)
  <2>1. new.built \in -1 .. hour
    BY <1>3, <1>4
  <2>2. ASSUME new.segs # <<>>
        PROVE  \E h \in Max({0, new.built - CorpusTTL}) .. new.built : new.segs \in was[h]
    <3>1. c # NoBody
      BY <1>3, <1>4, <2>2, NothingShown
    <3>2. c.built \in 0 .. hour /\ c.segs \in was[c.built] /\ hour - c.built <= CorpusTTL
      BY <1>1, <3>1 DEF Told
    <3>. DEFINE d == hour - CorpusTTL
                since == Max({0, d})
    <3>3. d \in Int /\ d <= c.built /\ c.built \in Nat /\ c.built <= hour
      BY <1>3, <3>2
    <3>4. since \in Nat /\ since <= c.built
      <4>. HIDE DEF d
      <4>1. since \in Nat /\ (d <= 0 => since = 0) /\ (d >= 0 => since = d)
        BY <3>3, SinceIs
      <4>. HIDE DEF since
      <4>. QED
        BY <3>3, <4>1
    <3>. HIDE DEF since
    <3>5. c.built \in since .. hour
      BY <1>3, <3>3, <3>4
    <3>6. \E h \in since .. hour : c.segs \in was[h]
      BY <3>2, <3>5
    <3>. QED
      BY <1>4, <3>6 DEF since, d
  <2>. QED
    BY <2>1, <2>2 DEF Shown
<1>6. Told(body')
  BY <1>1, <1>2 DEF AtlasInv
<1>7. Told(body)'
  BY <1>2, <1>6 DEF Told
<1>8. \A k \in Maps : drawn'[k] = IF k = m THEN new ELSE drawn[k]
  BY <1>2 DEF AtlasInv
<1>9. \A k \in Maps : Shown(drawn'[k])
  BY <1>5, <1>8 DEF AtlasInv
<1>10. (\A k \in Maps : Shown(drawn[k]))'
  BY <1>2, <1>9 DEF Shown
<1>11. drawn' = [k \in Maps |-> drawn'[k]]
  BY <1>2 DEF AtlasInv
<1>12. /\ reel' \in Reels /\ readable' \in BOOLEAN /\ hour' \in 0 .. LastHourDrawn
       /\ was' = [h \in 0 .. LastHourDrawn |-> was'[h]]
  BY <1>2 DEF AtlasInv
<1>13. Line(reel') \in was'[hour']
  BY <1>2 DEF AtlasInv
<1>14. Line(reel)' = Line(reel')
  BY DEF Line
<1>. QED
  BY <1>7, <1>10, <1>11, <1>12, <1>13, <1>14 DEF AtlasInv

\* What was told of hours gone by stays told of them.
LEMMA TellingLasts ==
  ASSUME AtlasInv, body' = body, drawn' = drawn, hour' \in Nat, hour <= hour',
         \A h \in 0 .. hour : was[h] \subseteq was'[h]
  PROVE  /\ Told(body)' /\ drawn' = [m \in Maps |-> drawn'[m]]
         /\ (\A m \in Maps : Shown(drawn[m]))'
<1>1. hour \in Nat /\ CorpusTTL \in Nat
  BY HoursAreNaturals DEF AtlasInv
<1>2. Told(body)'
  <2>1. Told(body)
    BY DEF AtlasInv
  <2>2. CASE body = NoBody
    BY <2>2 DEF Told, NoBody
  <2>3. CASE body # NoBody
    <3>1. body.built \in 0 .. hour /\ body.segs \in was[body.built]
      BY <2>1, <2>3 DEF Told
    <3>2. body.built \in 0 .. hour' /\ body.segs \in was'[body.built]
      BY <1>1, <3>1
    <3>. QED
      BY <3>2 DEF Told
  <2>. QED
    BY <2>2, <2>3
<1>3. ASSUME NEW d, Shown(d)
      PROVE  /\ d.built \in -1 .. hour'
             /\ d.segs # <<>> =>
                  \E h \in Max({0, d.built - CorpusTTL}) .. d.built : d.segs \in was'[h]
  <2>1. d.built \in -1 .. hour /\ d.built \in Int
    BY <1>1, <1>3 DEF Shown
  <2>2. ASSUME d.segs # <<>>
        PROVE  \E h \in Max({0, d.built - CorpusTTL}) .. d.built : d.segs \in was'[h]
    <3>. DEFINE since == Max({0, d.built - CorpusTTL})
    <3>1. PICK h \in since .. d.built : d.segs \in was[h]
      BY <1>3, <2>2 DEF Shown
    <3>2. d.built - CorpusTTL \in Int
      BY <1>1, <2>1
    <3>3. since \in Nat
      BY <3>2, SinceIs
    <3>. HIDE DEF since
    <3>4. h \in 0 .. hour
      BY <1>1, <2>1, <3>3
    <3>5. d.segs \in was'[h]
      BY <3>1, <3>4
    <3>6. \E x \in since .. d.built : d.segs \in was'[x]
      BY <3>5
    <3>. QED
      BY <3>6 DEF since
  <2>3. d.built \in -1 .. hour'
    BY <1>1, <2>1
  <2>. QED
    BY <2>2, <2>3
<1>4. \A m \in Maps : Shown(drawn[m])
  BY DEF AtlasInv
<1>5. (\A m \in Maps : Shown(drawn[m]))'
  BY <1>3, <1>4 DEF Shown
<1>6. drawn' = [m \in Maps |-> drawn'[m]]
  BY DEF AtlasInv
<1>. QED
  BY <1>2, <1>5, <1>6

LEMMA IngestStep == ASSUME AtlasInv, NEW clips \in Reels, Ingest(clips) PROVE AtlasInv'
<1>1. /\ reel' = clips /\ was' = [was EXCEPT ![hour] = @ \cup {Line(clips)}]
      /\ UNCHANGED <<body, drawn, readable, hour>>
  BY DEF Ingest
<1>2. /\ hour \in 0 .. LastHourDrawn /\ hour \in Nat
      /\ was = [h \in 0 .. LastHourDrawn |-> was[h]]
  BY HoursAreNaturals DEF AtlasInv
<1>3. \A h \in 0 .. LastHourDrawn :
        was'[h] = IF h = hour THEN was[h] \cup {Line(clips)} ELSE was[h]
  BY <1>1, <1>2
<1>4. was' = [h \in 0 .. LastHourDrawn |-> was'[h]]
  BY <1>1, <1>2
<1>5. \A h \in 0 .. hour : was[h] \subseteq was'[h]
  <2>1. \A h \in 0 .. hour : h \in 0 .. LastHourDrawn
    BY <1>2, HoursAreNaturals
  <2>. QED
    BY <1>3, <2>1
<1>6. Line(reel') \in was'[hour']
  BY <1>1, <1>2, <1>3
<1>7. body' = body /\ drawn' = drawn /\ hour' = hour
  BY <1>1
<1>8. hour' \in Nat /\ hour <= hour'
  BY <1>2, <1>7
<1>9. /\ Told(body)' /\ drawn' = [m \in Maps |-> drawn'[m]]
      /\ (\A m \in Maps : Shown(drawn[m]))'
  BY <1>5, <1>7, <1>8, TellingLasts
<1>10. reel' \in Reels /\ readable' \in BOOLEAN /\ hour' \in 0 .. LastHourDrawn
  BY <1>1 DEF AtlasInv
<1>11. Line(reel)' = Line(reel')
  BY DEF Line
<1>. QED
  BY <1>4, <1>6, <1>9, <1>10, <1>11 DEF AtlasInv

LEMMA BlipStep == ASSUME AtlasInv, Blip PROVE AtlasInv'
<1>1. readable' \in BOOLEAN /\ UNCHANGED <<reel, body, drawn, hour, was>>
  BY DEF Blip, AtlasInv
<1>2. hour \in Nat
  BY HoursAreNaturals DEF AtlasInv
<1>3. body' = body /\ drawn' = drawn /\ hour' = hour /\ was' = was /\ reel' = reel
  BY <1>1
<1>4. hour' \in Nat /\ hour <= hour' /\ \A h \in 0 .. hour : was[h] \subseteq was'[h]
  BY <1>2, <1>3
<1>5. /\ Told(body)' /\ drawn' = [m \in Maps |-> drawn'[m]]
      /\ (\A m \in Maps : Shown(drawn[m]))'
  BY <1>3, <1>4, TellingLasts
<1>6. Line(reel)' = Line(reel)
  BY <1>3 DEF Line
<1>7. /\ reel' \in Reels /\ hour' \in 0 .. LastHourDrawn
      /\ was' = [h \in 0 .. LastHourDrawn |-> was'[h]] /\ Line(reel)' \in was'[hour']
  BY <1>3, <1>6 DEF AtlasInv
<1>. QED
  BY <1>1, <1>5, <1>7 DEF AtlasInv

LEMMA AtlasTickStep == ASSUME AtlasInv, AtlasTick PROVE AtlasInv'
<1>1. /\ hour < LastHourDrawn /\ hour' = hour + 1
      /\ was' = [was EXCEPT ![hour + 1] = {Line(reel)}]
      /\ UNCHANGED <<reel, body, drawn, readable>>
  BY DEF AtlasTick
<1>2. /\ hour \in 0 .. LastHourDrawn /\ hour \in Nat /\ LastHourDrawn \in Nat
      /\ was = [h \in 0 .. LastHourDrawn |-> was[h]]
  BY HoursAreNaturals DEF AtlasInv
<1>3. hour + 1 \in 0 .. LastHourDrawn
  BY <1>1, <1>2
<1>4. \A h \in 0 .. LastHourDrawn : was'[h] = IF h = hour + 1 THEN {Line(reel)} ELSE was[h]
  BY <1>1, <1>2
<1>5. was' = [h \in 0 .. LastHourDrawn |-> was'[h]]
  BY <1>1, <1>2
<1>6. \A h \in 0 .. hour : was[h] \subseteq was'[h]
  <2>1. \A h \in 0 .. hour : h \in 0 .. LastHourDrawn /\ h # hour + 1
    BY <1>2
  <2>. QED
    BY <1>4, <2>1
<1>7. Line(reel) \in was'[hour']
  BY <1>1, <1>3, <1>4
<1>8. hour' \in Nat /\ hour <= hour' /\ body' = body /\ drawn' = drawn
  BY <1>1, <1>2
<1>9. /\ Told(body)' /\ drawn' = [m \in Maps |-> drawn'[m]]
      /\ (\A m \in Maps : Shown(drawn[m]))'
  BY <1>6, <1>8, TellingLasts
<1>10. reel' \in Reels /\ readable' \in BOOLEAN /\ hour' \in 0 .. LastHourDrawn
  BY <1>1, <1>3 DEF AtlasInv
<1>11. Line(reel)' = Line(reel)
  BY <1>1 DEF Line
<1>. QED
  BY <1>5, <1>7, <1>9, <1>10, <1>11 DEF AtlasInv

LEMMA AtlasStutters == ASSUME AtlasInv, UNCHANGED atlasVars PROVE AtlasInv'
<1>1. UNCHANGED <<reel, body, drawn, readable, hour, was>>
  BY DEF atlasVars
<1>2. Line(reel)' = Line(reel)
  BY <1>1 DEF Line
<1>. QED
  BY <1>1, <1>2 DEF AtlasInv, Told, Shown

\* The table's history, the body kept and the answers shown agree, always.
THEOREM AtlasStands == AtlasSpec => []AtlasInv
<1>1. ASSUME AtlasInv, [AtlasNext]_atlasVars
      PROVE  AtlasInv'
  <2>1. ASSUME NEW m \in Maps, AskRoute(m) PROVE AtlasInv'
    BY <1>1, <2>1, AskRouteStep
  <2>2. ASSUME NEW clips \in Reels, Ingest(clips) PROVE AtlasInv'
    BY <1>1, <2>2, IngestStep
  <2>3. CASE Blip
    BY <1>1, <2>3, BlipStep
  <2>4. CASE AtlasTick
    BY <1>1, <2>4, AtlasTickStep
  <2>5. CASE UNCHANGED atlasVars
    BY <1>1, <2>5, AtlasStutters
  <2>. QED
    BY <1>1, <2>1, <2>2, <2>3, <2>4, <2>5 DEF AtlasNext
<1>. QED
  BY <1>1, AtlasStarts, PTL DEF AtlasSpec

\* The table, the clock and what is kept have their types.
THEOREM AtlasTypeCorrect == AtlasSpec => []AtlasTypeOK
<1>1. ASSUME AtlasInv PROVE AtlasTypeOK
  <2>1. hour \in Nat
    BY <1>1, HoursAreNaturals DEF AtlasInv
  <2>2. NoBody.built = -1
    BY DEF NoBody
  <2>3. body.built \in -1 .. hour
    <3>1. CASE body = NoBody
      BY <2>1, <2>2, <3>1
    <3>2. CASE body # NoBody
      <4>1. body.built \in 0 .. hour
        BY <1>1, <3>2 DEF AtlasInv, Told
      <4>. QED
        BY <2>1, <4>1
    <3>. QED
      BY <3>1, <3>2
  <2>4. \A m \in Maps : drawn[m].built \in -1 .. hour
    BY <1>1 DEF AtlasInv, Shown
  <2>. QED
    BY <1>1, <2>3, <2>4 DEF AtlasInv, AtlasTypeOK
<1>. QED
  BY <1>1, AtlasStands, PTL

\* The map tells the truth, whatever corpora it is asked of: the line keeps the
\* road's shape within the epsilon, joins what was driven in one go and nothing
\* else, and is of the corpus as it lately was (simplify, splitOnGaps,
\* mapCorpusHandler's hour).
THEOREM MapIsAlwaysTrue == AtlasSpec => []MapIsTrue
<1>1. ASSUME AtlasInv PROVE MapIsTrue
  <2>1. reel \in Reels
    BY <1>1 DEF AtlasInv
  <2>2. RoadKeepsItsShape /\ LineIsWhole
    BY <2>1, RoadAlwaysKeepsItsShape, LineIsAlwaysWhole
  <2>3. RouteIsRecent
    BY <1>1 DEF AtlasInv, Shown, RouteIsRecent
  <2>. QED
    BY <2>2, <2>3 DEF MapIsTrue
<1>. QED
  BY <1>1, AtlasStands, PTL
=============================================================================
