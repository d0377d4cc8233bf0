---------------------------- MODULE RecordProofs ----------------------------
(***************************************************************************)
(* What is on record holds for any number of polls, commands, samples and  *)
(* restarts: theorems about Footage, Audience, LocationFeed, Achievements  *)
(* and Backfills.                                                          *)
(***************************************************************************)
EXTENDS Footage, Audience, LocationFeed, Achievements, Backfills, Sums,
        SequenceTheorems, TLAPS

(***************************************************************************)
(* Footage: pollMu makes one switch of the polls.                          *)
(*                                                                         *)
(* The open row is the last of the table or none, because a poll that is   *)
(* about to insert has just forgotten it, and no other poll is under way.  *)
(***************************************************************************)
Causes == Commands \cup {"none", "resume", "unknown", "natural", "external"}
Videos == Clips \cup {NoVideo}
States == {Road[s].state : s \in Spots} \cup {NoState}

PlayRows ==
  [video : Videos, cause : Causes, boot : Nat, started : Nat, ended : Nat, note : Nat,
   notedAt : Nat, spoilt : BOOLEAN]
PollRecords ==
  [step : {"idle", "load", "create", "close", "insert"}, file : Videos, prev : Videos, cur : Videos]
TrackRecords ==
  [step : {"idle", "swap", "write"}, clip : Videos, state : States, from : States, prev : Videos]

PlayoutTyped ==
  /\ screen \in Spots /\ report \in [spot : Spots, at : 0 .. MaxTime]
  /\ sent \in Nat /\ jumps \in Nat /\ sent <= jumps /\ jumps <= Jumps
  /\ clock \in Nat /\ clock <= MaxTime
PlayerTyped ==
  /\ videos \subseteq Clips /\ curVid \in Videos /\ preVid \in Videos /\ playing \in Videos
  /\ airing \in [state : States, clip : Videos] /\ gps \in BOOLEAN
StepsTyped ==
  /\ poll \in [Pollers -> PollRecords] /\ track \in [Trackers -> TrackRecords]
  /\ \A p \in Pollers : poll[p].step \in {"load", "create"} => poll[p].file \in Clips
NotesTyped ==
  /\ noted \in [cause : Causes, at : Nat, id : Nat]
  /\ commands \in Nat /\ boots \in Nat /\ openPlay \in Nat /\ plays \in Seq(PlayRows)

FootageTyped == PlayoutTyped /\ PlayerTyped /\ StepsTyped /\ NotesTyped

\* One poll at a time, and the one that inserts has closed.
PollMuHeld == \A p, q \in Pollers : poll[p].step # "idle" /\ poll[q].step # "idle" => p = q
InsertsAfterClose == \A p \in Pollers : poll[p].step = "insert" => openPlay = 0

OpenIsLast == openPlay # 0 => openPlay = Len(plays) /\ plays[openPlay].boot = boots
RowsHaveBegun == \A i \in DOMAIN plays : plays[i].started <= clock /\ plays[i].boot <= boots
RowsAreClosed ==
  \A i \in DOMAIN plays :
    plays[i].boot = boots /\ ~plays[i].spoilt /\ i # openPlay => plays[i].ended <= clock

\* The note in memory is newer than any a row has claimed.
NoteIsUnclaimed ==
  /\ noted.id <= commands
  /\ \A i \in DOMAIN plays : plays[i].note <= commands
                             /\ (plays[i].note # 0 => plays[i].note # noted.id)

PlaysInv ==
  /\ PollMuHeld /\ InsertsAfterClose /\ OpenIsLast /\ RowsHaveBegun /\ RowsAreClosed
  /\ PlaysTile
NotesInv == NoteIsUnclaimed /\ OneRowPerCommand

LEMMA RoadIsTyped ==
  /\ \A s \in Spots : Road[s].clip \in Clips /\ Road[s].state \in States
  /\ NoVideo \in Videos /\ NoState \in States /\ Clips \subseteq Videos
  /\ CauseWindow \in Nat /\ MaxTime \in Nat /\ Jumps \in Nat /\ Ingested \subseteq Clips
<1>1. /\ Road \in Seq([clip : Clips, state : STRING])
      /\ {CauseWindow, StaleAfter, MaxTime, Jumps, Faults} \subseteq Nat
  BY FootageConstants
<1>2. \A s \in Spots : Road[s] \in [clip : Clips, state : STRING]
  <2> DEFINE Spot == [clip : Clips, state : STRING]
  <2>1. Road \in Seq(Spot)
    BY <1>1
  <2> HIDE DEF Spot
  <2>2. \A s \in DOMAIN Road : Road[s] \in Spot
    BY <2>1
  <2>3. QED
    BY <2>2 DEF Spots, Spot
<1>3. \A s \in Spots : Road[s].clip \in Clips
  BY <1>2
<1>4. \A s \in Spots : Road[s].state \in States
  BY DEF States
<1>5. QED
  BY <1>1, <1>3, <1>4, FootageConstants DEF States, Videos

LEMMA IdleIsTyped == IdlePoll \in PollRecords /\ IdleTrack \in TrackRecords
BY RoadIsTyped DEF IdlePoll, IdleTrack, PollRecords, TrackRecords

-----------------------------------------------------------------------------
(* The types *)

LEMMA PlayoutStaysTyped ==
  ASSUME FootageTyped, FootageNext
  PROVE  PlayoutTyped'
<1> USE RoadIsTyped DEF FootageTyped, PlayoutTyped
<1>1. \/ clock' = clock
      \/ clock < MaxTime /\ clock' = clock + 1
  BY DEF FootageNext, PlaysOn, JumpedElsewhere, ActsOnCommand, Reports, FootageTick, SendCommand,
     PollStep, BeginPoll, Load, Create, ClosePreviousPlay, RecordPlay, TrackStep, ReadPlayhead,
     SwapAiring, StateCrossing, Restarted
<1>2. screen' \in Spots
  <2>1. screen' = screen \/ (screen < Len(Road) /\ screen' = screen + 1) \/ screen' \in Spots
    BY DEF FootageNext, PlaysOn, JumpedElsewhere, ActsOnCommand, Reports, FootageTick, SendCommand,
       PollStep, BeginPoll, Load, Create, ClosePreviousPlay, RecordPlay, TrackStep, ReadPlayhead,
       SwapAiring, StateCrossing, Restarted, playoutVars
  <2>2. Spots = 1 .. Len(Road) /\ Len(Road) \in Nat
    BY FootageConstants DEF Spots
  <2>3. QED
    BY <2>1, <2>2
<1>3. report' = report \/ report' = [spot |-> screen, at |-> clock]
  BY DEF FootageNext, PlaysOn, JumpedElsewhere, ActsOnCommand, Reports, FootageTick, SendCommand,
     PollStep, BeginPoll, Load, Create, ClosePreviousPlay, RecordPlay, TrackStep, ReadPlayhead,
     SwapAiring, StateCrossing, Restarted, playoutVars
<1>4. \/ sent' = sent /\ jumps' = jumps
      \/ sent' = sent /\ jumps < Jumps /\ jumps' = jumps + 1
      \/ sent > 0 /\ sent' = sent - 1 /\ jumps' = jumps
      \/ sent' = sent + 1 /\ jumps < Jumps /\ jumps' = jumps + 1
  BY DEF FootageNext, PlaysOn, JumpedElsewhere, ActsOnCommand, Reports, FootageTick, SendCommand,
     PollStep, BeginPoll, Load, Create, ClosePreviousPlay, RecordPlay, TrackStep, ReadPlayhead,
     SwapAiring, StateCrossing, Restarted, playoutVars
<1>5. clock' \in Nat /\ clock' <= MaxTime
  BY <1>1
<1>6. sent' \in Nat /\ jumps' \in Nat /\ sent' <= jumps' /\ jumps' <= Jumps
  BY <1>4
<1>7. report' \in [spot : Spots, at : 0 .. MaxTime]
  BY <1>3
<1>8. QED
  BY <1>2, <1>5, <1>6, <1>7

LEMMA PlayerStaysTyped ==
  ASSUME FootageTyped, FootageNext
  PROVE  PlayerTyped'
<1> USE RoadIsTyped DEF FootageTyped, PlayerTyped
<1>1. ASSUME NEW p \in Pollers, PollStep(p)
      PROVE  PlayerTyped'
  <2>1. poll[p] \in PollRecords /\ screen \in Spots
    BY DEF StepsTyped, PlayoutTyped
  <2>2. poll[p].file \in Videos /\ poll[p].cur \in Videos
    BY <2>1 DEF PollRecords
  <2>3. CASE BeginPoll(p)
    BY <2>1, <2>3 DEF BeginPoll
  <2>4. CASE Load(p)
    BY <2>2, <2>4 DEF Load, Install
  <2>5. CASE Create(p)
    <3>1. \/ playing' = poll[p].file /\ poll[p].file \notin videos /\ videos' = videos \cup {poll[p].file}
          \/ playing' = NoVideo /\ videos' = videos
      BY <2>5 DEF Create, Install
    <3>2. poll[p].file \in Clips
      BY <2>5 DEF Create, StepsTyped
    <3>3. QED
      BY <2>2, <2>5, <3>1, <3>2 DEF Create
  <2>6. CASE ClosePreviousPlay(p)
    BY <2>6 DEF ClosePreviousPlay, playerVars
  <2>7. CASE RecordPlay(p)
    BY <2>7 DEF RecordPlay, ShowGPS, playerVars
  <2>8. QED
    BY <1>1, <2>3, <2>4, <2>5, <2>6, <2>7 DEF PollStep
<1>2. ASSUME NEW k \in Trackers, TrackStep(k)
      PROVE  PlayerTyped'
  <2>1. track[k] \in TrackRecords /\ report.spot \in Spots
    BY DEF StepsTyped, PlayoutTyped
  <2>2. track[k].state \in States /\ track[k].clip \in Videos
    BY <2>1 DEF TrackRecords
  <2>3. CASE ReadPlayhead(k)
    BY <2>1, <2>3 DEF ReadPlayhead, playerVars
  <2>4. CASE SwapAiring(k)
    BY <2>2, <2>4 DEF SwapAiring
  <2>5. CASE StateCrossing(k)
    BY <2>5 DEF StateCrossing, playerVars
  <2>6. QED
    BY <1>2, <2>3, <2>4, <2>5 DEF TrackStep
<1>3. CASE Restarted
  BY <1>3 DEF Restarted
<1>4. CASE PlaysOn \/ JumpedElsewhere \/ ActsOnCommand \/ Reports \/ FootageTick
          \/ \E c \in Commands : SendCommand(c)
  BY <1>4 DEF PlaysOn, JumpedElsewhere, ActsOnCommand, Reports, FootageTick, SendCommand, playerVars
<1>5. QED
  BY <1>1, <1>2, <1>3, <1>4 DEF FootageNext
\* What the steps of a poll leave in it.
LEMMA PollsDo ==
  ASSUME FootageTyped, NEW p \in Pollers, PollStep(p)
  PROVE  /\ StepsTyped'
         /\ \A q \in Pollers \ {p} : poll'[q] = poll[q]
         /\ poll[p].step # "idle" \/ PollMuFree
         /\ poll'[p].step = "insert" => openPlay' = 0
         /\ ~RecordPlay(p) => UNCHANGED <<noted, commands>>
         /\ BeginPoll(p) \/ Load(p) \/ Create(p) => UNCHANGED <<plays, openPlay>>
         /\ UNCHANGED <<clock, boots>>
<1>1. /\ poll[p] \in PollRecords /\ poll \in [Pollers -> PollRecords] /\ playing \in Videos
      /\ track \in [Trackers -> TrackRecords]
      /\ \A q \in Pollers : poll[q].step \in {"load", "create"} => poll[q].file \in Clips
      /\ screen \in Spots
  BY DEF FootageTyped, StepsTyped, PlayerTyped, PlayoutTyped
<1>2. track' = track
  BY DEF PollStep, BeginPoll, Load, Create, ClosePreviousPlay, RecordPlay
<1>3. CASE BeginPoll(p)
  <2> DEFINE begun == [IdlePoll EXCEPT !.step = "load", !.file = Road[screen].clip]
  <2>1. poll' = poll \/ poll' = [poll EXCEPT ![p] = begun]
    BY <1>3 DEF BeginPoll
  <2>2. Road[screen].clip \in Clips /\ Road[screen].clip \in Videos
    BY <1>1, RoadIsTyped
  <2>3. begun \in PollRecords
    BY <2>2, IdleIsTyped DEF PollRecords
  <2>4. begun.step = "load" /\ begun.file = Road[screen].clip
    BY DEF IdlePoll
  <2> HIDE DEF begun
  <2>5. \A q \in Pollers \ {p} : poll'[q] = poll[q]
    BY <1>1, <2>1
  <2>6. StepsTyped' /\ poll'[p].step \in {poll[p].step, "load"}
    BY <1>1, <1>2, <2>1, <2>2, <2>3, <2>4 DEF StepsTyped
  <2>7. poll[p].step = "idle" /\ PollMuFree
    BY <1>3 DEF BeginPoll
  <2>8. UNCHANGED <<plays, openPlay, noted, commands, clock, boots>>
    BY <1>3 DEF BeginPoll, causeVars
  <2>9. QED
    BY <2>5, <2>6, <2>7, <2>8
<1>4. CASE Load(p) \/ Create(p)
  <2>1. PICK v \in Videos, s \in {"create", "close"} :
          \/ poll' = [poll EXCEPT ![p].step = "close", ![p].prev = playing, ![p].cur = v]
          \/ poll' = [poll EXCEPT ![p].step = "create"]
    BY <1>1, <1>4, RoadIsTyped DEF Load, Create, Install, PollRecords
  <2>2. poll[p].step \in {"load", "create"}
    BY <1>4 DEF Load, Create
  <2>3. /\ [poll[p] EXCEPT !.step = "close", !.prev = playing, !.cur = v] \in PollRecords
        /\ [poll[p] EXCEPT !.step = "create"] \in PollRecords
        /\ [poll[p] EXCEPT !.step = "create"].file = poll[p].file
        /\ [poll[p] EXCEPT !.step = "create"].step = "create"
        /\ [poll[p] EXCEPT !.step = "close", !.prev = playing, !.cur = v].step = "close"
    BY <1>1 DEF PollRecords
  <2>4. StepsTyped' /\ poll'[p].step \in {"create", "close"} /\ \A q \in Pollers \ {p} : poll'[q] = poll[q]
    BY <1>1, <1>2, <2>1, <2>2, <2>3, ZenonT(30) DEF StepsTyped
  <2>5. UNCHANGED <<plays, openPlay, noted, commands, clock, boots>>
    BY <1>4 DEF Load, Create, causeVars
  <2>6. QED
    BY <2>2, <2>4, <2>5
<1>5. CASE ClosePreviousPlay(p)
  <2>1. poll' = [poll EXCEPT ![p].step = "insert"] /\ openPlay' = 0 /\ poll[p].step = "close"
    BY <1>5 DEF ClosePreviousPlay
  <2>2. [poll[p] EXCEPT !.step = "insert"] \in PollRecords
    BY <1>1 DEF PollRecords
  <2>3. StepsTyped' /\ poll'[p].step = "insert" /\ \A q \in Pollers \ {p} : poll'[q] = poll[q]
    BY <1>1, <1>2, <2>1, <2>2 DEF StepsTyped, PollRecords
  <2>4. UNCHANGED <<noted, commands, clock, boots>> /\ ~BeginPoll(p) /\ ~Load(p) /\ ~Create(p)
    BY <1>5 DEF ClosePreviousPlay, BeginPoll, Load, Create
  <2>5. QED
    BY <2>1, <2>3, <2>4
<1>6. CASE RecordPlay(p)
  <2>1. poll' = [poll EXCEPT ![p] = IdlePoll] /\ poll[p].step = "insert"
    BY <1>6 DEF RecordPlay
  <2>2. StepsTyped' /\ poll'[p].step = "idle" /\ \A q \in Pollers \ {p} : poll'[q] = poll[q]
    BY <1>1, <1>2, <2>1, IdleIsTyped DEF StepsTyped, IdlePoll
  <2>3. UNCHANGED <<clock, boots>> /\ ~BeginPoll(p) /\ ~Load(p) /\ ~Create(p)
    BY <1>6, <2>1 DEF RecordPlay, BeginPoll, Load, Create
  <2>4. QED
    BY <1>6, <2>1, <2>2, <2>3
<1>7. QED
  BY <1>3, <1>4, <1>5, <1>6 DEF PollStep

LEMMA StepsStayTyped ==
  ASSUME FootageTyped, FootageNext
  PROVE  StepsTyped'
<1>1. ASSUME NEW p \in Pollers, PollStep(p)
      PROVE  StepsTyped'
  BY <1>1, PollsDo
<1>2. ASSUME NEW k \in Trackers, TrackStep(k)
      PROVE  StepsTyped'
  <2>1. /\ track[k] \in TrackRecords /\ track \in [Trackers -> TrackRecords]
        /\ airing \in [state : States, clip : Videos] /\ report.spot \in Spots
    BY DEF FootageTyped, StepsTyped, PlayerTyped, PlayoutTyped
  <2>2. poll' = poll
    BY <1>2 DEF TrackStep, ReadPlayhead, SwapAiring, StateCrossing
  <2>3. track' \in [Trackers -> TrackRecords]
    <3>1. CASE ReadPlayhead(k)
      <4>1. PICK s \in Spots : Observe(k, s)
        BY <2>1, <3>1 DEF ReadPlayhead, FallBack, SpotsOf
      <4>2. [IdleTrack EXCEPT !.step = "swap", !.clip = Road[s].clip, !.state = Road[s].state]
              \in TrackRecords
        <5>1. Road[s].clip \in Videos /\ Road[s].state \in States
          BY RoadIsTyped
        <5>2. QED
          BY <5>1, IdleIsTyped DEF TrackRecords
      <4>3. QED
        BY <2>1, <4>1, <4>2 DEF Observe
    <3>2. CASE SwapAiring(k)
      <4>1. airing.state \in States /\ airing.clip \in Videos
        BY <2>1
      <4>2. [track[k] EXCEPT !.step = "write", !.from = airing.state, !.prev = airing.clip] \in TrackRecords
        BY <2>1, <4>1 DEF TrackRecords
      <4>3. \/ track' = [track EXCEPT ![k] = IdleTrack]
            \/ track' = [track EXCEPT ![k] = [track[k] EXCEPT !.step = "write", !.from = airing.state,
                                                              !.prev = airing.clip]]
        BY <2>1, <3>2 DEF SwapAiring
      <4>4. QED
        BY <2>1, <4>2, <4>3, IdleIsTyped
    <3>3. CASE StateCrossing(k)
      BY <2>1, <3>3, IdleIsTyped DEF StateCrossing
    <3>4. QED
      BY <1>2, <3>1, <3>2, <3>3 DEF TrackStep
  <2>4. QED
    BY <2>2, <2>3 DEF FootageTyped, StepsTyped
<1>3. CASE Restarted
  BY <1>3, IdleIsTyped DEF Restarted, StepsTyped, IdlePoll
<1>4. CASE PlaysOn \/ JumpedElsewhere \/ ActsOnCommand \/ Reports \/ FootageTick
          \/ \E c \in Commands : SendCommand(c)
  BY <1>4 DEF PlaysOn, JumpedElsewhere, ActsOnCommand, Reports, FootageTick, SendCommand,
     FootageTyped, StepsTyped
<1>5. QED
  BY <1>1, <1>2, <1>3, <1>4 DEF FootageNext

\* The row a poll writes, and the cause it claims.
Row(p) ==
  LET claim == ClaimCause(SwitchCause(poll[p].prev, poll[p].cur))
  IN  [video |-> poll[p].cur, cause |-> claim.cause, boot |-> boots,
       started |-> clock, ended |-> NotYet,
       note |-> claim.note, notedAt |-> claim.at, spoilt |-> FALSE]

LEMMA RowIsTyped ==
  ASSUME FootageTyped, NEW p \in Pollers
  PROVE  /\ Row(p) \in PlayRows /\ Row(p).boot = boots /\ Row(p).started = clock
         /\ \/ Row(p).note = 0
            \/ /\ Row(p).note = noted.id /\ Row(p).notedAt = noted.at
               /\ clock - noted.at <= CauseWindow
<1> DEFINE claim == ClaimCause(SwitchCause(poll[p].prev, poll[p].cur))
<1>1. /\ noted \in [cause : Causes, at : Nat, id : Nat] /\ clock \in Nat /\ boots \in Nat
      /\ poll[p] \in PollRecords /\ NotYet \in Nat
  BY RoadIsTyped DEF FootageTyped, NotesTyped, PlayoutTyped, StepsTyped, NotYet
<1>2. SwitchCause(poll[p].prev, poll[p].cur) \in Causes
  BY DEF SwitchCause, Causes
<1>3. /\ claim.cause \in Causes /\ claim.note \in Nat /\ claim.at \in Nat
      /\ \/ claim.note = 0
         \/ claim.note = noted.id /\ claim.at = noted.at /\ ~(clock - noted.at > CauseWindow)
  BY <1>1, <1>2 DEF ClaimCause
<1>4. poll[p].cur \in Videos
  BY <1>1 DEF PollRecords
<1> HIDE DEF claim
<1>5. Row(p) = [video |-> poll[p].cur, cause |-> claim.cause, boot |-> boots, started |-> clock,
                ended |-> NotYet, note |-> claim.note, notedAt |-> claim.at, spoilt |-> FALSE]
  BY DEF Row, claim
<1>6. noted.at \in Nat /\ CauseWindow \in Nat
  BY <1>1, RoadIsTyped
<1>7. QED
  BY <1>1, <1>3, <1>4, <1>5, <1>6 DEF PlayRows

LEMMA NotesStayTyped ==
  ASSUME FootageTyped, OpenIsLast, FootageNext
  PROVE  NotesTyped'
<1>1. /\ noted \in [cause : Causes, at : Nat, id : Nat] /\ commands \in Nat /\ boots \in Nat
      /\ openPlay \in Nat /\ plays \in Seq(PlayRows) /\ clock \in Nat
  BY DEF FootageTyped, NotesTyped, PlayoutTyped
<1>2. NoNote \in [cause : Causes, at : Nat, id : Nat]
  BY DEF NoNote, Causes
<1>3. ASSUME NEW p \in Pollers, PollStep(p)
      PROVE  NotesTyped'
  <2>1. CASE BeginPoll(p) \/ Load(p) \/ Create(p)
    BY <1>1, <2>1 DEF BeginPoll, Load, Create, causeVars, NotesTyped
  <2>2. CASE ClosePreviousPlay(p)
    <3>1. openPlay' = 0 /\ UNCHANGED <<noted, commands, boots>>
      BY <2>2 DEF ClosePreviousPlay
    <3>2. \/ plays' = plays
          \/ openPlay # 0 /\ plays' = [plays EXCEPT ![openPlay].ended = clock]
          \/ openPlay # 0 /\ plays' = [plays EXCEPT ![openPlay].spoilt = TRUE]
      BY <2>2 DEF ClosePreviousPlay
    <3>3. openPlay # 0 => openPlay \in 1 .. Len(plays) /\ plays[openPlay] \in PlayRows
      BY <1>1 DEF OpenIsLast
    <3>4. openPlay # 0 => /\ [plays[openPlay] EXCEPT !.ended = clock] \in PlayRows
                          /\ [plays[openPlay] EXCEPT !.spoilt = TRUE] \in PlayRows
      BY <1>1, <3>3 DEF PlayRows
    <3>5. plays' \in Seq(PlayRows)
      <4>1. openPlay # 0 => \A row \in PlayRows : [plays EXCEPT ![openPlay] = row] \in Seq(PlayRows)
        BY <1>1, <3>3, ExceptSeq
      <4>2. \/ plays' = plays
            \/ openPlay # 0 /\ plays' = [plays EXCEPT ![openPlay] = [plays[openPlay] EXCEPT !.ended = clock]]
            \/ openPlay # 0 /\ plays' = [plays EXCEPT ![openPlay] = [plays[openPlay] EXCEPT !.spoilt = TRUE]]
        BY <3>2
      <4>3. QED
        BY <1>1, <3>4, <4>1, <4>2
    <3>6. QED
      BY <1>1, <3>1, <3>5 DEF NotesTyped
  <2>3. CASE RecordPlay(p)
    <3>1. /\ noted' = NoNote /\ UNCHANGED <<commands, boots>>
          /\ \/ plays' = Append(plays, Row(p)) /\ openPlay' = Len(plays) + 1
             \/ UNCHANGED <<plays, openPlay>>
      BY <2>3 DEF RecordPlay, Unnoted, Row
    <3>2. plays' \in Seq(PlayRows)
      <4>1. Row(p) \in PlayRows
        BY RowIsTyped
      <4>2. Append(plays, Row(p)) \in Seq(PlayRows)
        BY <1>1, <4>1
      <4>3. QED
        BY <1>1, <3>1, <4>2
    <3>3. openPlay' \in Nat
      BY <1>1, <3>1
    <3>4. QED
      BY <1>1, <1>2, <3>1, <3>2, <3>3 DEF NotesTyped
  <2>4. QED
    BY <1>3, <2>1, <2>2, <2>3 DEF PollStep
<1>4. ASSUME NEW k \in Trackers, TrackStep(k)
      PROVE  NotesTyped'
  BY <1>1, <1>4 DEF TrackStep, ReadPlayhead, SwapAiring, StateCrossing, causeVars, NotesTyped
<1>5. ASSUME NEW c \in Commands, SendCommand(c)
      PROVE  NotesTyped'
  <2>1. /\ noted' = [cause |-> c, at |-> clock, id |-> commands + 1] /\ commands' = commands + 1
        /\ UNCHANGED <<boots, openPlay, plays>>
    BY <1>5 DEF SendCommand, NoteCause
  <2>2. QED
    BY <1>1, <2>1 DEF NotesTyped, Causes
<1>6. CASE Restarted
  BY <1>1, <1>2, <1>6 DEF Restarted, NotesTyped
<1>7. CASE PlaysOn \/ JumpedElsewhere \/ ActsOnCommand \/ Reports \/ FootageTick
  BY <1>1, <1>7 DEF PlaysOn, JumpedElsewhere, ActsOnCommand, Reports, FootageTick, causeVars, NotesTyped
<1>8. QED
  BY <1>3, <1>4, <1>5, <1>6, <1>7 DEF FootageNext
-----------------------------------------------------------------------------
(* The rows: what a step of the polls does to them, and what stays. *)

LEMMA MuStays ==
  ASSUME FootageTyped, PollMuHeld, InsertsAfterClose, FootageNext
  PROVE  PollMuHeld' /\ InsertsAfterClose'
<1>1. ASSUME NEW p \in Pollers, PollStep(p)
      PROVE  PollMuHeld' /\ InsertsAfterClose'
  <2>1. /\ \A q \in Pollers \ {p} : poll'[q] = poll[q]
        /\ poll[p].step # "idle" \/ PollMuFree
        /\ poll'[p].step = "insert" => openPlay' = 0
    BY <1>1, PollsDo
  <2>2. \A q \in Pollers \ {p} : poll[q].step = "idle"
    BY <2>1 DEF PollMuHeld, PollMuFree
  <2>3. \A q \in Pollers \ {p} : poll'[q].step = "idle"
    BY <2>1, <2>2
  <2>4. QED
    BY <2>1, <2>3 DEF PollMuHeld, InsertsAfterClose
<1>2. CASE Restarted
  <2>1. \A q \in Pollers : poll'[q].step = "idle"
    BY <1>2 DEF Restarted, IdlePoll
  <2>2. QED
    BY <2>1 DEF PollMuHeld, InsertsAfterClose
<1>3. CASE UNCHANGED <<poll, openPlay>>
  BY <1>3 DEF PollMuHeld, InsertsAfterClose
<1>4. QED
  BY <1>1, <1>2, <1>3 DEF FootageNext, PlaysOn, JumpedElsewhere, ActsOnCommand, Reports, FootageTick,
     SendCommand, TrackStep, ReadPlayhead, SwapAiring, StateCrossing, causeVars

\* What a step does to the rows: nothing, close one, open one, or forget the open one.
RowsStand == UNCHANGED <<plays, openPlay, boots>> /\ clock' \in {clock, clock + 1}
NoneToClose == UNCHANGED <<plays, clock, boots>> /\ openPlay' = 0 /\ openPlay = 0
RowCloses ==
  /\ UNCHANGED <<clock, boots>> /\ openPlay' = 0
  /\ openPlay \in DOMAIN plays /\ DOMAIN plays' = DOMAIN plays
  /\ \A i \in DOMAIN plays : i # openPlay => plays'[i] = plays[i]
  /\ plays'[openPlay].started = plays[openPlay].started
  /\ plays'[openPlay].boot = plays[openPlay].boot
  /\ plays'[openPlay].note = plays[openPlay].note
  /\ plays'[openPlay].notedAt = plays[openPlay].notedAt
  /\ plays'[openPlay].ended = clock \/ plays'[openPlay].spoilt
RowOpens ==
  \E p \in Pollers :
    /\ UNCHANGED <<clock, boots>> /\ openPlay = 0 /\ noted' = NoNote
    /\ openPlay' = Len(plays) + 1 /\ plays' = Append(plays, Row(p))
OpenForgotten == UNCHANGED <<plays, clock>> /\ boots' = boots + 1 /\ openPlay' = 0

LEMMA RowClosed ==
  ASSUME FootageTyped, OpenIsLast, NEW p \in Pollers, ClosePreviousPlay(p)
  PROVE  RowCloses \/ NoneToClose
<1>1. CASE openPlay = 0
  BY <1>1 DEF ClosePreviousPlay, NoneToClose
<1>2. CASE openPlay # 0
  <2>1. plays \in Seq(PlayRows) /\ openPlay \in Nat /\ openPlay = Len(plays)
    BY <1>2 DEF FootageTyped, NotesTyped, OpenIsLast
  <2>2. openPlay \in DOMAIN plays /\ plays[openPlay] \in PlayRows
    BY <1>2, <2>1
  <2>3. \/ plays' = [plays EXCEPT ![openPlay] = [plays[openPlay] EXCEPT !.ended = clock]]
        \/ plays' = [plays EXCEPT ![openPlay] = [plays[openPlay] EXCEPT !.spoilt = TRUE]]
    BY <1>2 DEF ClosePreviousPlay
  <2>4. PICK row : /\ plays' = [plays EXCEPT ![openPlay] = row] /\ row.started = plays[openPlay].started
                   /\ row.boot = plays[openPlay].boot /\ row.note = plays[openPlay].note
                   /\ row.notedAt = plays[openPlay].notedAt /\ (row.ended = clock \/ row.spoilt)
    BY <2>2, <2>3 DEF PlayRows
  <2>5. UNCHANGED <<clock, boots>> /\ openPlay' = 0
    BY DEF ClosePreviousPlay
  <2>6. /\ DOMAIN plays' = DOMAIN plays /\ plays'[openPlay] = row
        /\ \A i \in DOMAIN plays : i # openPlay => plays'[i] = plays[i]
    BY <2>1, <2>2, <2>4
  <2>7. QED
    BY <2>2, <2>4, <2>5, <2>6 DEF RowCloses
<1>3. QED
  BY <1>1, <1>2

LEMMA RowSteps ==
  ASSUME FootageTyped, OpenIsLast, InsertsAfterClose, FootageNext
  PROVE  RowsStand \/ NoneToClose \/ RowCloses \/ RowOpens \/ OpenForgotten
<1>1. ASSUME NEW p \in Pollers, PollStep(p)
      PROVE  RowsStand \/ NoneToClose \/ RowCloses \/ RowOpens
  <2>1. CASE BeginPoll(p) \/ Load(p) \/ Create(p)
    BY <2>1 DEF BeginPoll, Load, Create, causeVars, RowsStand
  <2>2. CASE RecordPlay(p)
    <3>1. openPlay = 0
      BY <2>2 DEF RecordPlay, InsertsAfterClose
    <3>2. /\ UNCHANGED <<clock, boots>> /\ noted' = NoNote
          /\ \/ plays' = Append(plays, Row(p)) /\ openPlay' = Len(plays) + 1
             \/ UNCHANGED <<plays, openPlay>>
      BY <2>2 DEF RecordPlay, Row, Unnoted
    <3>3. QED
      BY <3>1, <3>2 DEF RowOpens, RowsStand
  <2>3. QED
    BY <1>1, <2>1, <2>2, RowClosed DEF PollStep
<1>2. CASE Restarted
  BY <1>2 DEF Restarted, OpenForgotten
<1>3. CASE ~Restarted /\ ~\E p \in Pollers : PollStep(p)
  BY <1>3 DEF FootageNext, PlaysOn, JumpedElsewhere, ActsOnCommand, Reports, FootageTick,
     SendCommand, TrackStep, ReadPlayhead, SwapAiring, StateCrossing, causeVars, RowsStand
<1>4. QED
  BY <1>1, <1>2, <1>3

\* A row in the table is a row of it, whichever of them the step leaves.
LEMMA RowsAreTyped ==
  ASSUME FootageTyped
  PROVE  /\ \A i \in DOMAIN plays : /\ plays[i].started \in Nat /\ plays[i].ended \in Nat
                                    /\ plays[i].boot \in Nat /\ plays[i].note \in Nat
                                    /\ plays[i].notedAt \in Nat
         /\ DOMAIN plays = 1 .. Len(plays) /\ Len(plays) \in Nat
         /\ clock \in Nat /\ boots \in Nat /\ commands \in Nat /\ openPlay \in Nat
         /\ noted.id \in Nat /\ noted.at \in Nat
<1>1. plays \in Seq(PlayRows) /\ noted \in [cause : Causes, at : Nat, id : Nat]
  BY DEF FootageTyped, NotesTyped
<1>2. \A i \in DOMAIN plays : plays[i] \in PlayRows
  BY <1>1
<1>3. \A i \in DOMAIN plays : /\ plays[i].started \in Nat /\ plays[i].ended \in Nat
                              /\ plays[i].boot \in Nat /\ plays[i].note \in Nat
                              /\ plays[i].notedAt \in Nat
  BY <1>2 DEF PlayRows
<1>4. QED
  BY <1>1, <1>3 DEF FootageTyped, NotesTyped, PlayoutTyped

\* The row a poll inserts goes after the others and changes none of them.
LEMMA RowsAppended ==
  ASSUME FootageTyped, NEW p \in Pollers, plays' = Append(plays, Row(p))
  PROVE  /\ DOMAIN plays' = DOMAIN plays \cup {Len(plays) + 1} /\ Len(plays') = Len(plays) + 1
         /\ \A i \in DOMAIN plays : plays'[i] = plays[i]
         /\ plays'[Len(plays) + 1] = Row(p)
<1>1. plays \in Seq(PlayRows) /\ Row(p) \in PlayRows
  BY RowIsTyped DEF FootageTyped, NotesTyped
<1>2. QED
  BY <1>1, AppendProperties

LEMMA PlaysInvStays ==
  ASSUME FootageTyped, PlaysInv, FootageNext
  PROVE  PlaysInv'
<1> USE DEF PlaysInv
<1>1. PollMuHeld' /\ InsertsAfterClose'
  BY MuStays
<1>2. CASE RowsStand
  <2>1. plays' = plays /\ openPlay' = openPlay /\ boots' = boots /\ clock' >= clock /\ clock' \in Nat
    BY <1>2, RowsAreTyped DEF RowsStand
  <2>2. OpenIsLast' /\ PlaysTile'
    BY <2>1 DEF OpenIsLast, PlaysTile
  <2>3. RowsHaveBegun' /\ RowsAreClosed'
    BY <2>1, RowsAreTyped DEF RowsHaveBegun, RowsAreClosed
  <2>4. QED
    BY <1>1, <2>2, <2>3
<1>3. CASE NoneToClose
  BY <1>1, <1>3 DEF NoneToClose, OpenIsLast, RowsHaveBegun, RowsAreClosed, PlaysTile
<1>4. CASE RowCloses
  <2> USE DEF RowCloses
  <2>1. openPlay = Len(plays) /\ openPlay' = 0 /\ clock' = clock /\ boots' = boots
    BY <1>4, RowsAreTyped DEF OpenIsLast
  <2>2. \A i \in DOMAIN plays : /\ plays'[i].started = plays[i].started
                                /\ plays'[i].boot = plays[i].boot
    BY <1>4
  <2>3. OpenIsLast' /\ RowsHaveBegun'
    BY <1>4, <2>1, <2>2 DEF OpenIsLast, RowsHaveBegun
  <2>4. RowsAreClosed'
    BY <1>4, <2>1, RowsAreTyped DEF RowsAreClosed
  <2>5. PlaysTile'
    <3>1. SUFFICES ASSUME NEW i \in DOMAIN plays, NEW j \in DOMAIN plays, i < j,
                          plays'[i].boot = plays'[j].boot, ~plays'[i].spoilt
                   PROVE  plays'[i].ended <= plays'[j].started
      BY <1>4 DEF PlaysTile
    <3>2. i # openPlay
      BY <2>1, <3>1, RowsAreTyped
    <3>3. plays'[i] = plays[i]
      BY <1>4, <3>2
    <3>4. QED
      BY <2>2, <3>1, <3>3 DEF PlaysTile
  <2>6. QED
    BY <1>1, <2>3, <2>4, <2>5
<1>5. CASE RowOpens
  <2>1. PICK p \in Pollers : /\ UNCHANGED <<clock, boots>> /\ openPlay = 0 /\ noted' = NoNote
                             /\ openPlay' = Len(plays) + 1 /\ plays' = Append(plays, Row(p))
    BY <1>5 DEF RowOpens
  <2> DEFINE n == Len(plays) + 1
  <2>2. /\ DOMAIN plays' = DOMAIN plays \cup {n} /\ Len(plays') = n
        /\ \A i \in DOMAIN plays : plays'[i] = plays[i]
        /\ plays'[n].boot = boots /\ plays'[n].started = clock
    BY <2>1, RowsAppended, RowIsTyped
  <2>3. \A i \in DOMAIN plays : i < n
    BY RowsAreTyped
  <2>4. n \in Nat /\ n # 0
    BY RowsAreTyped
  <2> HIDE DEF n
  <2>5. OpenIsLast'
    BY <2>1, <2>2 DEF OpenIsLast, n
  <2>6. RowsHaveBegun'
    BY <2>1, <2>2, RowsAreTyped DEF RowsHaveBegun
  <2>7. RowsAreClosed'
    BY <2>1, <2>2, <2>3, <2>4, RowsAreTyped DEF RowsAreClosed, n
  <2>8. PlaysTile'
    <3>1. SUFFICES ASSUME NEW i \in DOMAIN plays', NEW j \in DOMAIN plays', i < j,
                          plays'[i].boot = plays'[j].boot, ~plays'[i].spoilt
                   PROVE  plays'[i].ended <= plays'[j].started
      BY DEF PlaysTile
    <3>2. i \in DOMAIN plays
      <4>1. CASE i = n
        <5>1. j \in DOMAIN plays \/ j = n
          BY <2>2
        <5>2. ~(j < n) /\ j # n
          BY <2>4, <3>1, <4>1, RowsAreTyped, <2>2
        <5>3. QED
          BY <2>3, <5>1, <5>2
      <4>2. QED
        BY <2>2, <4>1
    <3>3. CASE j \in DOMAIN plays
      BY <2>2, <3>1, <3>2, <3>3 DEF PlaysTile
    <3>4. CASE j = n
      <4>1. plays[i].boot = boots /\ ~plays[i].spoilt
        BY <2>2, <3>1, <3>2, <3>4
      <4>2. i # openPlay
        BY <2>1, <3>2, RowsAreTyped
      <4>3. QED
        BY <2>2, <3>2, <3>4, <4>1, <4>2 DEF RowsAreClosed
    <3>5. QED
      BY <2>2, <3>3, <3>4
  <2>9. QED
    BY <1>1, <2>5, <2>6, <2>7, <2>8
<1>6. CASE OpenForgotten
  <2>1. plays' = plays /\ clock' = clock /\ boots' = boots + 1 /\ openPlay' = 0
    BY <1>6 DEF OpenForgotten
  <2>2. OpenIsLast' /\ PlaysTile'
    BY <2>1 DEF OpenIsLast, PlaysTile
  <2>3. RowsHaveBegun' /\ RowsAreClosed'
    BY <2>1, RowsAreTyped DEF RowsHaveBegun, RowsAreClosed
  <2>4. QED
    BY <1>1, <2>2, <2>3
<1>7. QED
  BY <1>2, <1>3, <1>4, <1>5, <1>6, RowSteps

\* What a step does to the note: nothing, write a new one, or consume it.
LEMMA NoteSteps ==
  ASSUME FootageNext
  PROVE  \/ UNCHANGED <<noted, commands>>
         \/ UNCHANGED <<plays>> /\ noted'.id = commands + 1 /\ commands' = commands + 1
         \/ noted' = NoNote /\ UNCHANGED commands
<1>1. ASSUME NEW p \in Pollers, PollStep(p)
      PROVE  UNCHANGED <<noted, commands>> \/ (noted' = NoNote /\ UNCHANGED commands)
  BY <1>1 DEF PollStep, BeginPoll, Load, Create, ClosePreviousPlay, RecordPlay, Unnoted, causeVars
<1>2. ASSUME NEW c \in Commands, SendCommand(c)
      PROVE  UNCHANGED <<plays>> /\ noted'.id = commands + 1 /\ commands' = commands + 1
  BY <1>2 DEF SendCommand, NoteCause
<1>3. QED
  BY <1>1, <1>2 DEF FootageNext, PlaysOn, JumpedElsewhere, ActsOnCommand, Reports, FootageTick,
     TrackStep, ReadPlayhead, SwapAiring, StateCrossing, Restarted, causeVars

LEMMA NotesInvStays ==
  ASSUME FootageTyped, PlaysInv, NotesInv, FootageNext
  PROVE  NotesInv'
<1> USE DEF NotesInv
<1>1. CASE RowOpens
  <2>1. PICK p \in Pollers : /\ noted' = NoNote /\ plays' = Append(plays, Row(p))
    BY <1>1 DEF RowOpens
  <2> DEFINE n == Len(plays) + 1
  <2>2. /\ DOMAIN plays' = DOMAIN plays \cup {n} /\ n \notin DOMAIN plays
        /\ \A i \in DOMAIN plays : plays'[i] = plays[i]
        /\ plays'[n].started = clock
        /\ \/ plays'[n].note = 0
           \/ /\ plays'[n].note = noted.id /\ plays'[n].notedAt = noted.at
              /\ clock - noted.at <= CauseWindow
    BY <2>1, RowsAppended, RowIsTyped, RowsAreTyped
  <2> HIDE DEF n
  <2>3. commands' \in {commands, commands + 1}
    BY NoteSteps, RowsAreTyped
  <2>4. NoteIsUnclaimed'
    <3>1. noted'.id = 0
      BY <2>1 DEF NoNote
    <3>2. noted.id <= commands /\ \A i \in DOMAIN plays : plays[i].note <= commands
      BY DEF NoteIsUnclaimed
    <3>3. \A i \in DOMAIN plays' : plays'[i].note <= commands'
      BY <2>2, <2>3, <3>2, RowsAreTyped
    <3>4. QED
      BY <2>3, <3>1, <3>3, RowsAreTyped DEF NoteIsUnclaimed
  <2>5. OneRowPerCommand'
    <3>1. SUFFICES ASSUME NEW i \in DOMAIN plays', plays'[i].note # 0
                   PROVE  /\ plays'[i].started - plays'[i].notedAt <= CauseWindow
                          /\ \A j \in DOMAIN plays' : j # i => plays'[j].note # plays'[i].note
      BY DEF OneRowPerCommand
    <3>2. \A k \in DOMAIN plays : plays[k].note # 0 => plays[k].note # noted.id
      BY DEF NoteIsUnclaimed
    <3>3. CASE i = n
      BY <2>2, <3>1, <3>2, <3>3
    <3>4. CASE i \in DOMAIN plays
      BY <2>2, <3>1, <3>2, <3>4 DEF OneRowPerCommand
    <3>5. QED
      BY <2>2, <3>3, <3>4
  <2>6. QED
    BY <2>4, <2>5
<1>2. CASE ~RowOpens
  <2>1. /\ DOMAIN plays' = DOMAIN plays
        /\ \A i \in DOMAIN plays : /\ plays'[i].note = plays[i].note
                                   /\ plays'[i].started = plays[i].started
                                   /\ plays'[i].notedAt = plays[i].notedAt
    BY <1>2, RowSteps DEF PlaysInv, RowsStand, NoneToClose, RowCloses, OpenForgotten
  <2>2. OneRowPerCommand'
    BY <2>1 DEF OneRowPerCommand
  <2>3. NoteIsUnclaimed'
    <3>1. \A i \in DOMAIN plays' : plays'[i].note <= commands /\ plays'[i].note \in Nat
      BY <2>1, RowsAreTyped DEF NoteIsUnclaimed
    <3>2. CASE UNCHANGED <<noted, commands>>
      BY <2>1, <3>2 DEF NoteIsUnclaimed
    <3>3. CASE noted'.id = commands + 1 /\ commands' = commands + 1
      BY <3>1, <3>3, RowsAreTyped DEF NoteIsUnclaimed
    <3>4. CASE noted' = NoNote /\ UNCHANGED commands
      BY <3>1, <3>4, RowsAreTyped DEF NoteIsUnclaimed, NoNote
    <3>5. QED
      BY <3>2, <3>3, <3>4, NoteSteps
  <2>4. QED
    BY <2>2, <2>3
<1>3. QED
  BY <1>1, <1>2
-----------------------------------------------------------------------------
(* The theorems *)

FootageInv == FootageTyped /\ PlaysInv /\ NotesInv

LEMMA FootageStarts == FootageInit => FootageInv
<1> SUFFICES ASSUME FootageInit
             PROVE  FootageInv
  OBVIOUS
<1> USE DEF FootageInit
<1>1. PlayoutTyped
  <2>1. report.spot = screen /\ report = [spot |-> screen, at |-> 0] /\ 0 \in 0 .. MaxTime
    BY RoadIsTyped
  <2>2. report \in [spot : Spots, at : 0 .. MaxTime]
    BY <2>1
  <2>3. clock \in Nat /\ clock <= MaxTime /\ sent \in Nat /\ jumps \in Nat /\ sent <= jumps /\ jumps <= Jumps
    BY RoadIsTyped
  <2>4. QED
    BY <2>2, <2>3 DEF PlayoutTyped
<1>2. PlayerTyped
  <2>1. airing \in [state : States, clip : Videos] /\ NoVideo \in Videos
    BY RoadIsTyped
  <2>2. QED
    BY <2>1, RoadIsTyped DEF PlayerTyped
<1>3. StepsTyped
  BY IdleIsTyped DEF StepsTyped, IdlePoll
<1>4. NotesTyped
  BY DEF NotesTyped, NoNote, Causes
<1>5. PlaysInv
  BY DEF PlaysInv, PollMuHeld, InsertsAfterClose, OpenIsLast, RowsHaveBegun, RowsAreClosed, PlaysTile,
     IdlePoll
<1>6. NotesInv
  BY DEF NotesInv, NoteIsUnclaimed, OneRowPerCommand, NoNote
<1>7. QED
  BY <1>1, <1>2, <1>3, <1>4, <1>5, <1>6 DEF FootageInv, FootageTyped

LEMMA FootageInductive == FootageInv /\ [FootageNext]_footageVars => FootageInv'
<1>1. ASSUME FootageInv, FootageNext
      PROVE  FootageInv'
  <2>1. FootageTyped'
    BY <1>1, PlayoutStaysTyped, PlayerStaysTyped, StepsStayTyped, NotesStayTyped
       DEF FootageInv, PlaysInv, FootageTyped
  <2>2. PlaysInv' /\ NotesInv'
    BY <1>1, PlaysInvStays, NotesInvStays DEF FootageInv
  <2>3. QED
    BY <2>1, <2>2 DEF FootageInv
<1>2. ASSUME FootageInv, UNCHANGED footageVars
      PROVE  FootageInv'
  <2>1. FootageTyped'
    BY <1>2 DEF footageVars, playoutVars, playerVars, causeVars, FootageInv, FootageTyped, PlayoutTyped,
       PlayerTyped, StepsTyped, NotesTyped
  <2>2. PlaysInv'
    BY <1>2 DEF footageVars, causeVars, FootageInv, PlaysInv, PollMuHeld, InsertsAfterClose, OpenIsLast,
       RowsHaveBegun, RowsAreClosed, PlaysTile
  <2>3. NotesInv'
    BY <1>2 DEF footageVars, causeVars, FootageInv, NotesInv, NoteIsUnclaimed, OneRowPerCommand
  <2>4. QED
    BY <2>1, <2>2, <2>3 DEF FootageInv
<1>3. QED
  BY <1>1, <1>2

LEMMA FootageInvariant == FootageSpec => []FootageInv
BY FootageStarts, FootageInductive, PTL DEF FootageSpec

\* The types of the player, the goroutines and the tables hold in every state:
\* in particular the open row is a row of the table (viewstats.go, openPlay).
THEOREM FootageTypeCorrect == FootageSpec => []FootageTypeOK
<1>1. FootageInv => FootageTypeOK
  <2> SUFFICES ASSUME FootageInv
               PROVE  FootageTypeOK
    OBVIOUS
  <2>1. sent \in 0 .. Jumps /\ screen \in Spots /\ report \in [spot : Spots, at : 0 .. MaxTime]
    BY RoadIsTyped DEF FootageInv, FootageTyped, PlayoutTyped
  <2>2. videos \subseteq Clips /\ {curVid, preVid, playing} \subseteq Clips \cup {NoVideo} /\ gps \in BOOLEAN
    BY DEF FootageInv, FootageTyped, PlayerTyped, Videos
  <2>3. openPlay \in 0 .. Len(plays)
    BY RowsAreTyped DEF FootageInv, PlaysInv, OpenIsLast
  <2>4. \A p \in Pollers : poll[p].step \in {"idle", "load", "create", "close", "insert"}
    BY DEF FootageInv, FootageTyped, StepsTyped, PollRecords
  <2>5. \A k \in Trackers : track[k].step \in {"idle", "swap", "write"}
    BY DEF FootageInv, FootageTyped, StepsTyped, TrackRecords
  <2>6. QED
    BY <2>1, <2>2, <2>3, <2>4, <2>5 DEF FootageTypeOK
<1>2. QED
  BY <1>1, FootageInvariant, PTL

\* Two rows of one process never overlap, whatever polls, faults and restarts
\* interleave: pollMu and the closing of the open row before the next insert
\* (player.go, GetCurrentlyPlaying; viewstats.go, closePreviousPlay) are enough.
THEOREM PlaysAlwaysTile == FootageSpec => []PlaysTile
<1>1. FootageInv => PlaysTile
  BY DEF FootageInv, PlaysInv
<1>2. QED
  BY <1>1, FootageInvariant, PTL

\* A noted command explains at most one row, and only a switch recorded within
\* causeWindow of it (viewstats.go, NoteCause and claimCause).
THEOREM ACommandExplainsOneRow == FootageSpec => []OneRowPerCommand
<1>1. FootageInv => OneRowPerCommand
  BY DEF FootageInv, NotesInv
<1>2. QED
  BY <1>1, FootageInvariant, PTL

-----------------------------------------------------------------------------
(***************************************************************************)
(* Audience: one bar for all the ticks.                                    *)
(*                                                                         *)
(* A range (previous, count] is claimed in checkPeak, by a tick that only  *)
(* later writes its record and its sample.  What keeps the ranges apart is *)
(* that the bar rises with the claim, and that a bar read from the table   *)
(* is above every record whose sample is in it.                            *)
(***************************************************************************)
RecordRows == [viewers : Nat, previous : Nat, life : Nat, kept : BOOLEAN]
SamplerRecords ==
  [step : {"idle", "check", "announce", "insert"}, count : Counts \cup {NoReading},
   previous : Nat, record : Nat]

AudienceTyped ==
  /\ stored \subseteq Counts /\ lastAudience \in Counts \cup {NoReading}
  /\ peak \in Counts \cup {Unseeded} /\ life \in Nat
  /\ records \in Seq(RecordRows) /\ sampler \in [Samplers -> SamplerRecords]

Announcing(m) == sampler[m].step = "announce"
Disjoint(previous1, count1, previous2, count2) == previous2 >= count1 \/ previous1 >= count2

\* A tick knows its record from the insert to the sample, and no sooner.
SamplersKnowTheirRecord ==
  \A m \in Samplers :
    /\ Announcing(m) => sampler[m].count \in Counts
    /\ sampler[m].step # "insert" => sampler[m].record = 0
    /\ sampler[m].record # 0 =>
         /\ sampler[m].record \in DOMAIN records
         /\ records[sampler[m].record].life = life
         /\ records[sampler[m].record].viewers = sampler[m].count

LivesClimb ==
  /\ \A i \in DOMAIN records : records[i].life <= life
  /\ \A i, j \in DOMAIN records : i < j => records[i].life <= records[j].life
KeptIsStored == \A i \in DOMAIN records : records[i].kept => records[i].viewers \in stored

\* The bar is above what this process claimed, and what an earlier one kept.
ClaimsAreUnderTheBar ==
  /\ \A i \in DOMAIN records :
       records[i].life = life => peak # Unseeded /\ peak >= records[i].viewers
  /\ \A m \in Samplers : Announcing(m) => peak # Unseeded /\ peak >= sampler[m].count
KeptAreUnderTheBar ==
  \A i \in DOMAIN records : records[i].kept /\ records[i].life < life =>
    /\ peak # Unseeded => peak >= records[i].viewers
    /\ \A m \in Samplers : Announcing(m) => sampler[m].previous >= records[i].viewers

\* The ranges this process claimed, and those on record, are apart.
ClaimsApart ==
  /\ \A m, n \in Samplers : Announcing(m) /\ Announcing(n) /\ m # n =>
       Disjoint(sampler[m].previous, sampler[m].count, sampler[n].previous, sampler[n].count)
  /\ \A i \in DOMAIN records, m \in Samplers : records[i].life = life /\ Announcing(m) =>
       Disjoint(records[i].previous, records[i].viewers, sampler[m].previous, sampler[m].count)
RecordsApart ==
  \A i, j \in DOMAIN records : i # j =>
    /\ records[i].life = records[j].life =>
         Disjoint(records[i].previous, records[i].viewers, records[j].previous, records[j].viewers)
    /\ records[i].kept /\ records[i].life < records[j].life =>
         records[j].previous >= records[i].viewers

PeakInv ==
  /\ SamplersKnowTheirRecord /\ LivesClimb /\ KeptIsStored /\ ClaimsAreUnderTheBar
  /\ KeptAreUnderTheBar /\ ClaimsApart /\ RecordsApart
AudienceInv == AudienceTyped /\ PeakInv

LEMMA LowestExists ==
  ASSUME NEW T, T \subseteq Nat, T # {}
  PROVE  \E x \in T : \A y \in T : ~ (y < x)
<1>1. PICK x \in T : \A y \in T : ~ (<<y, x>> \in OpToRel(<, Nat))
  BY NatLessThanWellFounded, WFMin
<1>2. \A y \in T : y < x => <<y, x>> \in OpToRel(<, Nat)
  BY DEF OpToRel
<1>3. QED
  BY <1>1, <1>2

\* A finite set of numbers has an upper bound: its first k elements do, for the
\* least k that would not.
LEMMA FiniteIsBounded ==
  ASSUME NEW S, S \subseteq Nat, IsFiniteSet(S)
  PROVE  \E b \in Nat : \A x \in S : x <= b
<1>1. PICK n \in Nat : ExistsSurjection(1 .. n, S)
  BY FS_NatSurjection
<1>2. PICK f \in [1 .. n -> S] : \A x \in S : \E i \in 1 .. n : f[i] = x
  BY <1>1 DEF ExistsSurjection, Surjection
<1> DEFINE Bounded(k) == \E b \in Nat : \A i \in 1 .. k : f[i] <= b
           Unbounded == {k \in 0 .. n : ~Bounded(k)}
<1>3. CASE Unbounded = {}
  <2>1. n \in 0 .. n
    OBVIOUS
  <2>2. Bounded(n)
    BY <1>3, <2>1
  <2>3. PICK b \in Nat : \A i \in 1 .. n : f[i] <= b
    BY <2>2
  <2>4. \A x \in S : x <= b
    BY <1>2, <2>3
  <2>5. QED
    BY <2>4
<1>4. SUFFICES ASSUME Unbounded # {}
               PROVE  FALSE
  BY <1>3
<1>5. PICK k \in Unbounded : \A y \in Unbounded : ~(y < k)
  <2>1. Unbounded \subseteq Nat
    OBVIOUS
  <2> HIDE DEF Unbounded
  <2>2. QED
    BY <1>4, <2>1, LowestExists
<1>6. Bounded(0)
  BY DEF Bounded
<1>7. k \in 1 .. n /\ k - 1 \in 0 .. n /\ k - 1 < k /\ ~Bounded(k)
  BY <1>5, <1>6
<1>8. Bounded(k - 1)
  BY <1>5, <1>7
<1>9. PICK b \in Nat : \A i \in 1 .. k - 1 : f[i] <= b
  BY <1>8
<1>10. f[k] \in Nat
  BY <1>2, <1>7
<1>11. \A i \in 1 .. k : f[i] <= b + f[k]
  <2>1. SUFFICES ASSUME NEW i \in 1 .. k
                 PROVE  f[i] <= b + f[k]
    OBVIOUS
  <2>2. f[i] \in Nat
    <3>1. i \in 1 .. n
      BY <1>7, <2>1
    <3>2. f[i] \in S
      BY <1>2, <3>1
    <3>3. QED
      BY <3>2
  <2>3. i = k \/ i \in 1 .. k - 1
    BY <1>7
  <2>4. i = k \/ f[i] <= b
    BY <1>9, <2>3
  <2>5. QED
    BY <1>10, <2>2, <2>4
<1>12. b + f[k] \in Nat
  BY <1>10
<1>13. QED
  BY <1>7, <1>11, <1>12 DEF Bounded

\* A finite set of numbers has a greatest one: the one least far below a bound.
LEMMA MaxIsGreatest ==
  ASSUME NEW S, S \subseteq Nat, IsFiniteSet(S), S # {}
  PROVE  Max(S) \in S /\ \A x \in S : Max(S) >= x
<1>1. PICK b \in Nat : \A x \in S : x <= b
  BY FiniteIsBounded
<1> DEFINE T == {b - x : x \in S}
<1>2. T \subseteq Nat /\ T # {}
  <2>1. \A x \in S : x \in Nat /\ x <= b
    BY <1>1
  <2>2. \A x \in S : b - x \in Nat
    BY <2>1
  <2>3. QED
    BY <2>2
<1>3. PICK t \in T : \A y \in T : ~(y < t)
  BY <1>2, LowestExists
<1>4. PICK x \in S : t = b - x
  BY <1>3
<1>5. \A y \in S : x >= y
  BY <1>1, <1>3, <1>4
<1>6. QED
  BY <1>4, <1>5 DEF Max

\* The bar a tick is judged by is above everything stored before it was seeded.
TheBar == IF peak # Unseeded THEN peak ELSE StoredPeak

LEMMA StoredPeakIsHigh ==
  ASSUME AudienceTyped
  PROVE  StoredPeak \in Counts \cup {0} /\ \A x \in stored : StoredPeak >= x
<1>1. stored \subseteq Counts /\ Counts \subseteq Nat /\ IsFiniteSet(Counts)
  BY AudienceConstants DEF AudienceTyped
<1>2. IsFiniteSet(stored) /\ IsFiniteSet(stored \cup {0})
  BY <1>1, FS_Subset, FS_AddElement
<1>3. stored \cup {0} \subseteq Nat /\ stored \cup {0} # {}
  BY <1>1
<1>4. Max(stored \cup {0}) \in stored \cup {0} /\ \A x \in stored \cup {0} : Max(stored \cup {0}) >= x
  BY <1>2, <1>3, MaxIsGreatest
<1>5. QED
  BY <1>1, <1>4 DEF StoredPeak

LEMMA BarIsHigh ==
  ASSUME AudienceInv
  PROVE  /\ Bar = {TheBar} /\ TheBar \in Counts \cup {0} /\ TheBar \in Nat
         /\ \A i \in DOMAIN records :
              records[i].life = life \/ (records[i].kept /\ records[i].life < life)
                => TheBar >= records[i].viewers
         /\ \A m \in Samplers : Announcing(m) => TheBar >= sampler[m].count
<1> USE DEF AudienceInv, PeakInv
<1>1. Bar = {TheBar}
  BY DEF Bar, TheBar
<1>2. TheBar \in Counts \cup {0}
  BY StoredPeakIsHigh DEF TheBar, AudienceTyped
<1>3. Counts \subseteq Nat
  BY AudienceConstants
<1>4. CASE peak # Unseeded
  <2>1. TheBar = peak
    BY <1>4 DEF TheBar
  <2>2. \A i \in DOMAIN records : records[i].life = life => TheBar >= records[i].viewers
    BY <2>1 DEF ClaimsAreUnderTheBar
  <2>3. \A i \in DOMAIN records : records[i].kept /\ records[i].life < life => TheBar >= records[i].viewers
    BY <1>4, <2>1 DEF KeptAreUnderTheBar
  <2>4. \A m \in Samplers : Announcing(m) => TheBar >= sampler[m].count
    BY <2>1 DEF ClaimsAreUnderTheBar
  <2>5. \A i \in DOMAIN records :
          records[i].life = life \/ (records[i].kept /\ records[i].life < life)
            => TheBar >= records[i].viewers
    BY <2>2, <2>3
  <2>6. TheBar \in Nat
    BY <1>2, <1>3
  <2>7. QED
    BY <1>1, <1>2, <2>4, <2>5, <2>6
<1>5. CASE peak = Unseeded
  <2>1. TheBar = StoredPeak
    BY <1>5 DEF TheBar
  <2>2. \A i \in DOMAIN records : records[i].life # life
    BY <1>5 DEF ClaimsAreUnderTheBar
  <2>3. \A m \in Samplers : ~Announcing(m)
    BY <1>5 DEF ClaimsAreUnderTheBar
  <2>4. \A i \in DOMAIN records : records[i].kept => TheBar >= records[i].viewers
    BY <2>1, StoredPeakIsHigh DEF KeptIsStored
  <2>5. QED
    BY <1>1, <1>2, <1>3, <2>2, <2>3, <2>4
<1>6. QED
  BY <1>4, <1>5

LEMMA RecordsAreTyped ==
  ASSUME AudienceTyped
  PROVE  /\ \A i \in DOMAIN records : /\ records[i].viewers \in Nat /\ records[i].previous \in Nat
                                      /\ records[i].life \in Nat /\ records[i].kept \in BOOLEAN
         /\ DOMAIN records = 1 .. Len(records) /\ Len(records) \in Nat /\ life \in Nat
         /\ \A m \in Samplers : /\ sampler[m] \in SamplerRecords
                                /\ sampler[m].previous \in Nat /\ sampler[m].record \in Nat
                                /\ sampler[m].count \in Counts \cup {NoReading}
         /\ Counts \subseteq Nat /\ NoReading \notin Nat /\ Unseeded \notin Nat
<1>1. records \in Seq(RecordRows)
  BY DEF AudienceTyped
<1>2. \A i \in DOMAIN records : records[i] \in RecordRows
  BY <1>1
<1>3. \A i \in DOMAIN records : /\ records[i].viewers \in Nat /\ records[i].previous \in Nat
                                /\ records[i].life \in Nat /\ records[i].kept \in BOOLEAN
  BY <1>2 DEF RecordRows
<1>4. \A m \in Samplers : /\ sampler[m] \in SamplerRecords
                          /\ sampler[m].previous \in Nat /\ sampler[m].record \in Nat
                          /\ sampler[m].count \in Counts \cup {NoReading}
  BY DEF AudienceTyped, SamplerRecords
<1>5. QED
  BY <1>1, <1>3, <1>4, AudienceConstants DEF AudienceTyped

-----------------------------------------------------------------------------
(* What each step of a tick does to it, and to the bar. *)

\* The bar a check leaves, and the range it claims when it announces.
CheckedQuietly(m) ==
  sampler'[m].step = "insert" /\ (peak' = peak \/ (peak' \in Counts /\ peak' >= TheBar))
ClaimedARange(m) ==
  /\ sampler'[m].step = "announce" /\ sampler'[m].previous = TheBar
  /\ sampler'[m].count = peak' /\ peak' \in Counts /\ peak' > TheBar

LEMMA ChecksDo ==
  ASSUME AudienceInv, NEW m \in Samplers, CheckPeak(m)
  PROVE  /\ UNCHANGED <<stored, records, lastAudience, life>>
         /\ sampler' \in [Samplers -> SamplerRecords] /\ peak' \in Counts \cup {Unseeded}
         /\ \A n \in Samplers \ {m} : sampler'[n] = sampler[n]
         /\ sampler'[m].record = 0
         /\ CheckedQuietly(m) \/ ClaimedARange(m)
<1> DEFINE count == lastAudience
           insert == [sampler[m] EXCEPT !.step = "insert", !.count = count]
           announce == [sampler[m] EXCEPT !.step = "announce", !.count = count, !.previous = TheBar]
<1>1. /\ AudienceTyped /\ SamplersKnowTheirRecord /\ sampler \in [Samplers -> SamplerRecords]
      /\ count \in Counts \cup {NoReading} /\ peak \in Counts \cup {Unseeded}
  BY DEF AudienceInv, PeakInv, AudienceTyped
<1>2. /\ sampler[m] \in SamplerRecords /\ Counts \subseteq Nat /\ Unseeded \notin Nat
      /\ sampler[m].step = "check" /\ sampler[m].record = 0
  BY <1>1, RecordsAreTyped DEF CheckPeak, SamplersKnowTheirRecord
<1>3. Bar = {TheBar} /\ TheBar \in Nat /\ TheBar \in Counts \cup {0}
  BY BarIsHigh
<1>4. /\ insert \in SamplerRecords /\ announce \in SamplerRecords
      /\ insert.step = "insert" /\ insert.record = 0 /\ announce.record = 0
      /\ announce.step = "announce" /\ announce.count = count /\ announce.previous = TheBar
  BY <1>1, <1>2, <1>3 DEF SamplerRecords
<1>5. \/ sampler' = [sampler EXCEPT ![m] = insert] /\ UNCHANGED peak
      \/ /\ count \notin {NoReading, 0} /\ peak' = Max({TheBar, count})
         /\ sampler' = IF count > TheBar /\ TheBar # 0
                       THEN [sampler EXCEPT ![m] = announce] ELSE [sampler EXCEPT ![m] = insert]
  <2>1. [sampler EXCEPT ![m].step = "insert", ![m].count = count] = [sampler EXCEPT ![m] = insert]
    BY <1>1
  <2>2. [[sampler EXCEPT ![m].step = "announce", ![m].count = count] EXCEPT ![m].previous = TheBar]
          = [sampler EXCEPT ![m] = announce]
    BY <1>1, <1>2 DEF SamplerRecords
  <2>3. QED
    BY <1>3, <2>1, <2>2 DEF CheckPeak
<1>6. count \notin {NoReading, 0} =>
        Max({TheBar, count}) = IF count > TheBar THEN count ELSE TheBar
  <2>1. SUFFICES ASSUME count \notin {NoReading, 0}
                 PROVE  Max({TheBar, count}) = IF count > TheBar THEN count ELSE TheBar
    OBVIOUS
  <2>2. count \in Nat
    BY <1>1, <1>2, <2>1
  <2>3. {TheBar, count} \subseteq Nat /\ IsFiniteSet({TheBar, count}) /\ {TheBar, count} # {}
    <3>1. IsFiniteSet({TheBar} \cup {count}) /\ {TheBar, count} = {TheBar} \cup {count}
      BY FS_Singleton, FS_AddElement
    <3>2. QED
      BY <1>3, <2>2, <3>1
  <2>4. Max({TheBar, count}) \in {TheBar, count} /\ Max({TheBar, count}) >= TheBar /\ Max({TheBar, count}) >= count
    BY <2>3, MaxIsGreatest
  <2>5. QED
    BY <1>3, <2>2, <2>4
<1> HIDE DEF insert, announce
<1>7. CASE sampler' = [sampler EXCEPT ![m] = insert] /\ UNCHANGED peak
  BY <1>1, <1>4, <1>7 DEF CheckPeak, CheckedQuietly
<1>8. CASE /\ count \notin {NoReading, 0} /\ peak' = Max({TheBar, count})
           /\ sampler' = IF count > TheBar /\ TheBar # 0
                         THEN [sampler EXCEPT ![m] = announce] ELSE [sampler EXCEPT ![m] = insert]
  <2>1. count \in Counts /\ count \in Nat /\ count > 0
    BY <1>1, <1>2, <1>8
  <2>2. peak' = IF count > TheBar THEN count ELSE TheBar
    BY <1>6, <1>8
  <2>3. UNCHANGED <<stored, records, lastAudience, life>>
    BY DEF CheckPeak
  <2>4. CASE count > TheBar /\ TheBar # 0
    <3>1. sampler' = [sampler EXCEPT ![m] = announce] /\ peak' = count
      BY <1>8, <2>2, <2>4
    <3>2. ClaimedARange(m)
      BY <1>1, <1>4, <2>1, <2>4, <3>1 DEF ClaimedARange
    <3>3. QED
      BY <1>1, <1>4, <2>1, <2>3, <3>1, <3>2
  <2>5. CASE ~(count > TheBar /\ TheBar # 0)
    <3>1. sampler' = [sampler EXCEPT ![m] = insert]
      BY <1>8, <2>5
    <3>2. peak' \in Counts /\ peak' >= TheBar
      BY <1>3, <2>1, <2>2, <2>5
    <3>3. CheckedQuietly(m)
      BY <1>1, <1>4, <3>1, <3>2 DEF CheckedQuietly
    <3>4. QED
      BY <1>1, <1>4, <2>3, <3>1, <3>2, <3>3
  <2>6. QED
    BY <2>4, <2>5
<1>9. QED
  BY <1>5, <1>7, <1>8

LEMMA ChecksKeepApart ==
  ASSUME AudienceInv, NEW m \in Samplers, CheckPeak(m)
  PROVE  AudienceInv'
<1> USE DEF AudienceInv, PeakInv, Announcing
<1>1. /\ UNCHANGED <<stored, records, lastAudience, life>>
      /\ sampler' \in [Samplers -> SamplerRecords] /\ peak' \in Counts \cup {Unseeded}
      /\ \A n \in Samplers \ {m} : sampler'[n] = sampler[n]
      /\ sampler'[m].record = 0
      /\ CheckedQuietly(m) \/ ClaimedARange(m)
  BY ChecksDo
<1>2. AudienceTyped'
  BY <1>1 DEF AudienceTyped
<1>3. SamplersKnowTheirRecord'
  BY <1>1 DEF SamplersKnowTheirRecord, CheckedQuietly, ClaimedARange
<1>4. LivesClimb' /\ KeptIsStored' /\ RecordsApart'
  BY <1>1 DEF LivesClimb, KeptIsStored, RecordsApart
<1>5. /\ TheBar \in Nat /\ Counts \subseteq Nat /\ Unseeded \notin Nat
      /\ \A i \in DOMAIN records : /\ records[i].viewers \in Nat /\ records[i].previous \in Nat
                                   /\ records[i].life = life \/ (records[i].kept /\ records[i].life < life)
                                        => TheBar >= records[i].viewers
      /\ \A n \in Samplers : Announcing(n) => TheBar >= sampler[n].count /\ sampler[n].count \in Nat
      /\ \A n \in Samplers : sampler[n].previous \in Nat
  BY BarIsHigh, RecordsAreTyped DEF SamplersKnowTheirRecord
<1>6. CASE CheckedQuietly(m)
  <2>1. ~Announcing(m)' /\ (peak' = peak \/ (peak' \in Counts /\ peak' >= TheBar))
    BY <1>6 DEF CheckedQuietly
  <2>2. \A n \in Samplers : Announcing(n)' => Announcing(n) /\ sampler'[n] = sampler[n]
    BY <1>1, <2>1
  <2>3. ClaimsAreUnderTheBar'
    <3>1. CASE peak' = peak
      BY <1>1, <2>2, <3>1 DEF ClaimsAreUnderTheBar
    <3>2. CASE peak' \in Counts /\ peak' >= TheBar
      BY <1>1, <1>5, <2>2, <3>2 DEF ClaimsAreUnderTheBar
    <3>3. QED
      BY <2>1, <3>1, <3>2
  <2>4. KeptAreUnderTheBar'
    <3>1. CASE peak' = peak
      BY <1>1, <2>2, <3>1 DEF KeptAreUnderTheBar
    <3>2. CASE peak' \in Counts /\ peak' >= TheBar
      BY <1>1, <1>5, <2>2, <3>2 DEF KeptAreUnderTheBar
    <3>3. QED
      BY <2>1, <3>1, <3>2
  <2>5. ClaimsApart'
    BY <1>1, <2>2 DEF ClaimsApart, Disjoint
  <2>6. QED
    BY <1>2, <1>3, <1>4, <2>3, <2>4, <2>5
<1>7. CASE ClaimedARange(m)
  <2>1. /\ sampler'[m].previous = TheBar /\ sampler'[m].count = peak'
        /\ peak' \in Counts /\ peak' > TheBar /\ peak' # Unseeded /\ peak' \in Nat
    BY <1>5, <1>7 DEF ClaimedARange
  <2>2. ClaimsAreUnderTheBar'
    <3>1. \A i \in DOMAIN records' : records'[i].life = life' => peak' >= records'[i].viewers
      BY <1>1, <1>5, <2>1
    <3>2. \A n \in Samplers : Announcing(n)' => peak' >= sampler'[n].count
      BY <1>1, <1>5, <2>1
    <3>3. QED
      BY <2>1, <3>1, <3>2 DEF ClaimsAreUnderTheBar
  <2>3. KeptAreUnderTheBar'
    <3>1. SUFFICES ASSUME NEW i \in DOMAIN records, records[i].kept, records[i].life < life
                   PROVE  /\ peak' >= records[i].viewers
                          /\ \A n \in Samplers : Announcing(n)' => sampler'[n].previous >= records[i].viewers
      BY <1>1 DEF KeptAreUnderTheBar
    <3>2. TheBar >= records[i].viewers /\ records[i].viewers \in Nat
      BY <1>5, <3>1
    <3>3. \A n \in Samplers \ {m} : Announcing(n) => sampler[n].previous >= records[i].viewers
      BY <3>1 DEF KeptAreUnderTheBar
    <3>4. QED
      BY <1>1, <1>5, <2>1, <3>2, <3>3
  <2>4. ClaimsApart'
    <3>1. \A n \in Samplers \ {m} : Announcing(n)' => TheBar >= sampler'[n].count
      BY <1>1, <1>5
    <3>2. \A i \in DOMAIN records : records[i].life = life => TheBar >= records[i].viewers
      BY <1>5
    <3>3. ASSUME NEW k \in Samplers, NEW n \in Samplers, Announcing(k)', Announcing(n)', k # n
          PROVE  Disjoint(sampler[k].previous, sampler[k].count, sampler[n].previous, sampler[n].count)'
      <4>1. CASE k = m
        BY <2>1, <3>1, <3>3, <4>1 DEF Disjoint
      <4>2. CASE n = m
        BY <2>1, <3>1, <3>3, <4>2 DEF Disjoint
      <4>3. CASE k # m /\ n # m
        BY <1>1, <3>3, <4>3 DEF ClaimsApart, Disjoint
      <4>4. QED
        BY <4>1, <4>2, <4>3
    <3>4. ASSUME NEW i \in DOMAIN records, NEW k \in Samplers, records[i].life = life, Announcing(k)'
          PROVE  Disjoint(records[i].previous, records[i].viewers, sampler[k].previous, sampler[k].count)'
      <4>1. CASE k = m
        BY <1>1, <2>1, <3>2, <3>4, <4>1 DEF Disjoint
      <4>2. CASE k # m
        BY <1>1, <3>4, <4>2 DEF ClaimsApart, Disjoint
      <4>3. QED
        BY <4>1, <4>2
    <3>5. QED
      BY <1>1, <3>3, <3>4 DEF ClaimsApart
  <2>5. QED
    BY <1>2, <1>3, <1>4, <2>2, <2>3, <2>4
<1>8. QED
  BY <1>1, <1>6, <1>7

LEMMA RecordsKeepApart ==
  ASSUME AudienceInv, NEW m \in Samplers, ViewerRecord(m)
  PROVE  AudienceInv'
<1> USE DEF AudienceInv, PeakInv, Announcing
<1> DEFINE n == Len(records) + 1
           row == [viewers |-> sampler[m].count, previous |-> sampler[m].previous,
                   life |-> life, kept |-> FALSE]
           wrote == [sampler[m] EXCEPT !.step = "insert", !.record = n]
           failed == [sampler[m] EXCEPT !.step = "insert"]
<1>1. /\ UNCHANGED <<stored, lastAudience, peak, life>> /\ sampler[m].step = "announce"
      /\ \/ records' = Append(records, row) /\ sampler' = [sampler EXCEPT ![m] = wrote]
         \/ records' = records /\ sampler' = [sampler EXCEPT ![m] = failed]
  BY DEF ViewerRecord, AudienceTyped
<1>2. /\ records \in Seq(RecordRows) /\ sampler \in [Samplers -> SamplerRecords]
      /\ sampler[m] \in SamplerRecords /\ n \in Nat /\ n \notin DOMAIN records /\ n # 0
      /\ \A i \in DOMAIN records : i < n
      /\ sampler[m].count \in Counts /\ sampler[m].count \in Nat /\ sampler[m].previous \in Nat
      /\ sampler[m].record = 0 /\ life \in Nat /\ peak # Unseeded /\ peak >= sampler[m].count
  BY <1>1, RecordsAreTyped DEF AudienceTyped, SamplersKnowTheirRecord, ClaimsAreUnderTheBar
<1>3. /\ wrote \in SamplerRecords /\ failed \in SamplerRecords /\ row \in RecordRows
      /\ wrote.step = "insert" /\ wrote.record = n /\ wrote.count = sampler[m].count
      /\ failed.step = "insert" /\ failed.record = 0
      /\ row.viewers = sampler[m].count /\ row.previous = sampler[m].previous
      /\ row.life = life /\ row.kept = FALSE
  BY <1>2 DEF SamplerRecords, RecordRows
<1> HIDE DEF row, wrote, failed
<1>4. \A k \in Samplers : Announcing(k)' => k # m /\ Announcing(k) /\ sampler'[k] = sampler[k]
  BY <1>1, <1>2, <1>3
<1>5. CASE records' = records /\ sampler' = [sampler EXCEPT ![m] = failed]
  <2>1. AudienceTyped' /\ SamplersKnowTheirRecord'
    BY <1>1, <1>2, <1>3, <1>5 DEF AudienceTyped, SamplersKnowTheirRecord
  <2>2. LivesClimb' /\ KeptIsStored' /\ RecordsApart'
    BY <1>1, <1>5 DEF LivesClimb, KeptIsStored, RecordsApart
  <2>3. ClaimsAreUnderTheBar' /\ KeptAreUnderTheBar'
    BY <1>1, <1>4, <1>5 DEF ClaimsAreUnderTheBar, KeptAreUnderTheBar
  <2>4. ClaimsApart'
    BY <1>1, <1>4, <1>5 DEF ClaimsApart, Disjoint
  <2>5. QED
    BY <2>1, <2>2, <2>3, <2>4
<1>6. CASE records' = Append(records, row) /\ sampler' = [sampler EXCEPT ![m] = wrote]
  <2>1. /\ DOMAIN records' = DOMAIN records \cup {n} /\ records' \in Seq(RecordRows)
        /\ \A i \in DOMAIN records : records'[i] = records[i]
        /\ records'[n] = row
    <3> HIDE DEF n
    <3>1. Append(records, row) \in Seq(RecordRows)
      BY <1>2, <1>3, AppendProperties
    <3>2. QED
      BY <1>2, <1>3, <1>6, <3>1, AppendProperties DEF n
  <2> HIDE DEF n
  <2>2. AudienceTyped'
    BY <1>1, <1>2, <1>3, <1>6, <2>1 DEF AudienceTyped
  <2>3. SamplersKnowTheirRecord'
    <3>1. SUFFICES ASSUME NEW k \in Samplers
                   PROVE  /\ Announcing(k)' => sampler'[k].count \in Counts
                          /\ sampler'[k].step # "insert" => sampler'[k].record = 0
                          /\ sampler'[k].record # 0 =>
                               /\ sampler'[k].record \in DOMAIN records'
                               /\ records'[sampler'[k].record].life = life'
                               /\ records'[sampler'[k].record].viewers = sampler'[k].count
      BY DEF SamplersKnowTheirRecord
    <3>2. CASE k = m
      BY <1>1, <1>2, <1>3, <1>6, <2>1, <3>2
    <3>3. CASE k # m
      <4>1. sampler'[k] = sampler[k]
        BY <1>2, <1>6, <3>3
      <4>2. QED
        BY <1>1, <2>1, <4>1 DEF SamplersKnowTheirRecord
    <3>4. QED
      BY <3>2, <3>3
  <2>4. KeptIsStored'
    BY <1>1, <1>3, <2>1 DEF KeptIsStored
  <2>5. LivesClimb'
    <3>1. \A i \in DOMAIN records' : records'[i].life <= life'
      BY <1>1, <1>2, <1>3, <2>1 DEF LivesClimb
    <3>2. ASSUME NEW i \in DOMAIN records', NEW j \in DOMAIN records', i < j
          PROVE  records'[i].life <= records'[j].life
      <4>1. CASE j = n
        BY <1>1, <1>3, <2>1, <3>1, <4>1
      <4>2. CASE j \in DOMAIN records
        <5>1. i \in DOMAIN records
          <6>1. j < n /\ j \in Nat /\ n \in Nat
            BY <1>2, <4>2, RecordsAreTyped
          <6>2. i # n
            BY <3>2, <6>1
          <6>3. QED
            BY <2>1, <6>2
        <5>2. QED
          BY <2>1, <3>2, <4>2, <5>1 DEF LivesClimb
      <4>3. QED
        BY <2>1, <4>1, <4>2
    <3>3. QED
      BY <3>1, <3>2 DEF LivesClimb
  <2>6. ClaimsAreUnderTheBar'
    <3>1. \A i \in DOMAIN records' : records'[i].life = life' => peak' # Unseeded /\ peak' >= records'[i].viewers
      BY <1>1, <1>2, <1>3, <2>1 DEF ClaimsAreUnderTheBar
    <3>2. \A k \in Samplers : Announcing(k)' => peak' # Unseeded /\ peak' >= sampler'[k].count
      BY <1>1, <1>4 DEF ClaimsAreUnderTheBar
    <3>3. QED
      BY <3>1, <3>2 DEF ClaimsAreUnderTheBar
  <2>7. KeptAreUnderTheBar'
    <3>1. SUFFICES ASSUME NEW i \in DOMAIN records', records'[i].kept, records'[i].life < life'
                   PROVE  /\ peak' # Unseeded => peak' >= records'[i].viewers
                          /\ \A k \in Samplers : Announcing(k)' => sampler'[k].previous >= records'[i].viewers
      BY DEF KeptAreUnderTheBar
    <3>2. i \in DOMAIN records /\ records'[i] = records[i]
      BY <1>3, <2>1, <3>1
    <3>3. QED
      BY <1>1, <1>4, <3>1, <3>2 DEF KeptAreUnderTheBar
  <2>8. \A k \in Samplers : Announcing(k)' =>
          Disjoint(row.previous, row.viewers, sampler'[k].previous, sampler'[k].count)
    BY <1>1, <1>3, <1>4 DEF ClaimsApart
  <2>9. ClaimsApart'
    <3>1. \A k, l \in Samplers : Announcing(k)' /\ Announcing(l)' /\ k # l =>
            Disjoint(sampler'[k].previous, sampler'[k].count, sampler'[l].previous, sampler'[l].count)
      BY <1>4 DEF ClaimsApart
    <3>2. \A i \in DOMAIN records', k \in Samplers : records'[i].life = life' /\ Announcing(k)' =>
            Disjoint(records'[i].previous, records'[i].viewers, sampler'[k].previous, sampler'[k].count)
      BY <1>1, <1>4, <2>1, <2>8 DEF ClaimsApart
    <3>3. QED
      BY <3>1, <3>2 DEF ClaimsApart, Disjoint
  <2>10. RecordsApart'
    <3>1. SUFFICES ASSUME NEW i \in DOMAIN records', NEW j \in DOMAIN records', i # j
                   PROVE  /\ records'[i].life = records'[j].life =>
                               Disjoint(records'[i].previous, records'[i].viewers,
                                     records'[j].previous, records'[j].viewers)
                          /\ records'[i].kept /\ records'[i].life < records'[j].life =>
                               records'[j].previous >= records'[i].viewers
      BY DEF RecordsApart, Disjoint
    <3>2. \A k \in DOMAIN records : records[k].life = life =>
            Disjoint(records[k].previous, records[k].viewers, row.previous, row.viewers)
      BY <1>1, <1>3 DEF ClaimsApart
    <3>3. CASE i = n
      <4>1. j \in DOMAIN records /\ records'[j] = records[j] /\ records[j].life <= life
        BY <2>1, <3>1, <3>3 DEF LivesClimb
      <4>2. QED
        BY <1>3, <2>1, <3>2, <3>3, <4>1 DEF Disjoint
    <3>4. CASE j = n
      <4>1. i \in DOMAIN records /\ records'[i] = records[i]
        BY <2>1, <3>1, <3>4
      <4>2. records[i].kept /\ records[i].life < life => row.previous >= records[i].viewers
        BY <1>1, <1>3, <4>1 DEF KeptAreUnderTheBar
      <4>3. QED
        BY <1>3, <2>1, <3>2, <3>4, <4>1, <4>2
    <3>5. CASE i \in DOMAIN records /\ j \in DOMAIN records
      BY <2>1, <3>1, <3>5 DEF RecordsApart
    <3>6. QED
      BY <2>1, <3>3, <3>4, <3>5
  <2>11. QED
    BY <2>2, <2>3, <2>4, <2>5, <2>6, <2>7, <2>9, <2>10
<1>7. QED
  BY <1>1, <1>5, <1>6

\* A sample kept is of this process, which no later one has begun: nothing is
\* judged by it before the next restart.
LEMMA SamplesKeepApart ==
  ASSUME AudienceInv, NEW m \in Samplers, InsertSample(m)
  PROVE  AudienceInv'
<1> USE DEF AudienceInv, PeakInv, Announcing
<1> DEFINE r == sampler[m].record
<1>1. /\ UNCHANGED <<lastAudience, peak, life>> /\ sampler' = [sampler EXCEPT ![m] = IdleSampler]
      /\ \/ /\ stored' = stored \cup ({sampler[m].count} \ {NoReading})
            /\ records' = IF r = 0 THEN records ELSE [records EXCEPT ![r].kept = TRUE]
         \/ UNCHANGED <<stored, records>>
  BY DEF InsertSample
<1>2. /\ records \in Seq(RecordRows) /\ sampler \in [Samplers -> SamplerRecords]
      /\ sampler[m] \in SamplerRecords /\ sampler[m].count \in Counts \cup {NoReading}
      /\ NoReading \notin Nat /\ Counts \subseteq Nat
      /\ r # 0 => r \in DOMAIN records /\ records[r].life = life /\ records[r].viewers = sampler[m].count
  BY RecordsAreTyped DEF AudienceTyped, SamplersKnowTheirRecord
<1>3. IdleSampler \in SamplerRecords /\ IdleSampler.step = "idle" /\ IdleSampler.record = 0
  BY DEF IdleSampler, SamplerRecords
<1>4. \A k \in Samplers : /\ Announcing(k)' => Announcing(k) /\ sampler'[k] = sampler[k]
                          /\ sampler'[k] = IdleSampler \/ sampler'[k] = sampler[k]
  BY <1>1, <1>2, <1>3
<1>5. /\ stored \subseteq stored' /\ stored' \subseteq Counts /\ records' \in Seq(RecordRows)
      /\ DOMAIN records' = DOMAIN records
      /\ \A i \in DOMAIN records :
           /\ records'[i].viewers = records[i].viewers /\ records'[i].previous = records[i].previous
           /\ records'[i].life = records[i].life
           /\ records'[i].kept => records[i].kept \/ (records[i].life = life /\ records[i].viewers \in stored')
  <2>1. CASE UNCHANGED records
    BY <1>1, <1>2, <2>1 DEF AudienceTyped
  <2>2. CASE ~UNCHANGED records
    <3> DEFINE row == [records[r] EXCEPT !.kept = TRUE]
    <3>1. /\ stored' = stored \cup ({sampler[m].count} \ {NoReading}) /\ r # 0
          /\ records' = [records EXCEPT ![r] = row]
      BY <1>1, <2>2
    <3>2. r \in DOMAIN records /\ records[r] \in RecordRows
      BY <1>2, <3>1
    <3>3. /\ row \in RecordRows /\ row.viewers = records[r].viewers /\ row.previous = records[r].previous
          /\ row.life = records[r].life
      BY <3>2 DEF RecordRows
    <3> HIDE DEF row
    <3>4. records' \in Seq(RecordRows) /\ DOMAIN records' = DOMAIN records
      BY <1>2, <3>1, <3>2, <3>3, ExceptSeq
    <3>5. records[r].life = life /\ records[r].viewers \in stored'
      <4>1. records[r].viewers \in Nat
        BY <3>2 DEF RecordRows
      <4>2. QED
        BY <1>2, <3>1, <4>1
    <3>6. \A i \in DOMAIN records : records'[i] = IF i = r THEN row ELSE records[i]
      BY <3>1, <3>2
    <3>7. stored \subseteq stored' /\ stored' \subseteq Counts
      BY <1>2, <3>1 DEF AudienceTyped
    <3>8. QED
      BY <3>3, <3>4, <3>5, <3>6, <3>7
  <2>3. QED
    BY <2>1, <2>2
<1>6. AudienceTyped'
  BY <1>1, <1>2, <1>3, <1>5 DEF AudienceTyped
<1>7. SamplersKnowTheirRecord'
  BY <1>1, <1>3, <1>4, <1>5 DEF SamplersKnowTheirRecord
<1>8. LivesClimb'
  BY <1>1, <1>5 DEF LivesClimb
<1>9. KeptIsStored'
  BY <1>5 DEF KeptIsStored
<1>10. ClaimsAreUnderTheBar'
  BY <1>1, <1>4, <1>5 DEF ClaimsAreUnderTheBar
<1>11. \A i \in DOMAIN records : records[i].life \in Nat /\ records[i].life <= life /\ life \in Nat
  BY RecordsAreTyped DEF LivesClimb
<1>12. \A i \in DOMAIN records : records'[i].kept /\ records[i].life < life => records[i].kept
  BY <1>5, <1>11
<1>13. KeptAreUnderTheBar'
  BY <1>1, <1>4, <1>5, <1>12 DEF KeptAreUnderTheBar
<1>14. ClaimsApart'
  BY <1>1, <1>4, <1>5 DEF ClaimsApart, Disjoint
<1>15. RecordsApart'
  <2>1. SUFFICES ASSUME NEW i \in DOMAIN records, NEW j \in DOMAIN records, i # j
                 PROVE  /\ records[i].life = records[j].life =>
                             Disjoint(records[i].previous, records[i].viewers,
                                   records[j].previous, records[j].viewers)
                        /\ records'[i].kept /\ records[i].life < records[j].life =>
                             records[j].previous >= records[i].viewers
    BY <1>5 DEF RecordsApart, Disjoint
  <2>2. records'[i].kept /\ records[i].life < records[j].life => records[i].kept
    BY <1>11, <1>12
  <2>3. QED
    BY <2>1, <2>2 DEF RecordsApart
<1>16. QED
  BY <1>6, <1>7, <1>8, <1>9, <1>10, <1>13, <1>14, <1>15

LEMMA ReadingsKeepApart ==
  ASSUME AudienceInv, NEW m \in Samplers, UpdateAudience(m)
  PROVE  AudienceInv'
<1> USE DEF AudienceInv, PeakInv, Announcing
<1> DEFINE checking == [sampler[m] EXCEPT !.step = "check"]
<1>1. /\ UNCHANGED <<stored, records, peak, life>> /\ sampler' = [sampler EXCEPT ![m] = checking]
      /\ lastAudience' \in Counts \cup {NoReading}
  BY DEF UpdateAudience
<1>2. /\ sampler \in [Samplers -> SamplerRecords] /\ sampler[m] \in SamplerRecords
      /\ sampler[m].step = "idle" /\ sampler[m].record = 0
  BY DEF UpdateAudience, AudienceTyped, SamplersKnowTheirRecord
<1>3. checking \in SamplerRecords /\ checking.step = "check" /\ checking.record = 0
  BY <1>2 DEF SamplerRecords
<1> HIDE DEF checking
<1>4. \A k \in Samplers : Announcing(k)' => Announcing(k) /\ sampler'[k] = sampler[k]
  BY <1>1, <1>2, <1>3
<1>5. AudienceTyped' /\ SamplersKnowTheirRecord'
  BY <1>1, <1>2, <1>3 DEF AudienceTyped, SamplersKnowTheirRecord
<1>6. LivesClimb' /\ KeptIsStored' /\ RecordsApart'
  BY <1>1 DEF LivesClimb, KeptIsStored, RecordsApart
<1>7. ClaimsAreUnderTheBar' /\ KeptAreUnderTheBar'
  BY <1>1, <1>4 DEF ClaimsAreUnderTheBar, KeptAreUnderTheBar
<1>8. ClaimsApart'
  BY <1>1, <1>4 DEF ClaimsApart, Disjoint
<1>9. QED
  BY <1>5, <1>6, <1>7, <1>8

\* A restart forgets the bar and the ticks: no record is of the new process yet.
LEMMA RestartKeepsApart ==
  ASSUME AudienceInv, AudienceRestart
  PROVE  AudienceInv'
<1> USE DEF AudienceInv, PeakInv, Announcing
<1>1. /\ UNCHANGED <<stored, records>> /\ life' = life + 1 /\ peak' = Unseeded
      /\ lastAudience' = NoReading /\ sampler' = [m \in Samplers |-> IdleSampler]
  BY DEF AudienceRestart
<1>2. IdleSampler \in SamplerRecords /\ IdleSampler.step = "idle" /\ IdleSampler.record = 0
  BY DEF IdleSampler, SamplerRecords
<1>3. \A i \in DOMAIN records : records[i].life \in Nat /\ records[i].life <= life /\ life \in Nat
  BY RecordsAreTyped DEF LivesClimb
<1>4. \A i \in DOMAIN records : records[i].life <= life' /\ records[i].life # life'
  BY <1>1, <1>3
<1>5. AudienceTyped' /\ SamplersKnowTheirRecord'
  BY <1>1, <1>2 DEF AudienceTyped, SamplersKnowTheirRecord
<1>6. LivesClimb' /\ KeptIsStored' /\ RecordsApart'
  BY <1>1, <1>4 DEF LivesClimb, KeptIsStored, RecordsApart
<1>7. \A k \in Samplers : ~Announcing(k)'
  BY <1>1, <1>2
<1>8. ClaimsAreUnderTheBar' /\ KeptAreUnderTheBar'
  BY <1>1, <1>4, <1>7 DEF ClaimsAreUnderTheBar, KeptAreUnderTheBar
<1>9. ClaimsApart'
  BY <1>1, <1>4, <1>7 DEF ClaimsApart
<1>10. QED
  BY <1>5, <1>6, <1>8, <1>9

LEMMA AudienceInvariant == AudienceSpec => []AudienceInv
<1>1. AudienceInit => AudienceInv
  <2> SUFFICES ASSUME AudienceInit
               PROVE  AudienceInv
    OBVIOUS
  <2>1. IdleSampler \in SamplerRecords /\ IdleSampler.step = "idle" /\ IdleSampler.record = 0
    BY DEF IdleSampler, SamplerRecords
  <2>2. \A k \in Samplers : sampler[k] = IdleSampler
    BY DEF AudienceInit
  <2>3. AudienceTyped
    BY <2>1 DEF AudienceInit, AudienceTyped
  <2>4. PeakInv
    BY <2>1, <2>2 DEF AudienceInit, PeakInv, Announcing, SamplersKnowTheirRecord, LivesClimb, KeptIsStored,
       ClaimsAreUnderTheBar, KeptAreUnderTheBar, ClaimsApart, RecordsApart
  <2>5. QED
    BY <2>3, <2>4 DEF AudienceInv
<1>2. AudienceInv /\ [AudienceNext]_audienceVars => AudienceInv'
  <2>1. CASE UNCHANGED audienceVars
    BY <2>1 DEF audienceVars, AudienceInv, PeakInv, AudienceTyped, Announcing, SamplersKnowTheirRecord,
       LivesClimb, KeptIsStored, ClaimsAreUnderTheBar, KeptAreUnderTheBar, ClaimsApart, RecordsApart, Disjoint
  <2>2. QED
    BY <2>1, ReadingsKeepApart, ChecksKeepApart, RecordsKeepApart, SamplesKeepApart, RestartKeepsApart
       DEF AudienceNext
<1>3. QED
  BY <1>1, <1>2, PTL DEF AudienceSpec

\* The types of the table, the bar and the ticks hold in every state.
THEOREM AudienceTypeCorrect == AudienceSpec => []AudienceTypeOK
<1>1. AudienceInv => AudienceTypeOK
  BY DEF AudienceInv, AudienceTyped, AudienceTypeOK, SamplerRecords
<1>2. QED
  BY <1>1, AudienceInvariant, PTL

\* No milestone is announced twice, whatever ticks overlap, calls fail and
\* restarts come between (viewstats.go, checkPeak and RecordSample): the bar
\* rises with each claim under its mutex, and a restart reads it back from the
\* samples that were kept.
THEOREM NoMilestoneTwice == AudienceSpec => []RecordsOnlyClimb
<1>1. AudienceInv => RecordsOnlyClimb
  <2> SUFFICES ASSUME AudienceInv,
                      NEW i \in DOMAIN records, NEW j \in DOMAIN records, i < j,
                      records[i].life = records[j].life \/ records[i].kept
               PROVE  \/ records[j].previous >= records[i].viewers
                      \/ records[i].life = records[j].life /\ records[i].previous >= records[j].viewers
    BY DEF RecordsOnlyClimb
  <2>1. i # j /\ records[i].life \in Nat /\ records[j].life \in Nat
    BY RecordsAreTyped DEF AudienceInv
  <2>2. records[i].life <= records[j].life
    BY DEF AudienceInv, PeakInv, LivesClimb
  <2>3. CASE records[i].life = records[j].life
    BY <2>1, <2>3 DEF AudienceInv, PeakInv, RecordsApart, Disjoint
  <2>4. CASE records[i].life # records[j].life
    BY <2>1, <2>2, <2>4 DEF AudienceInv, PeakInv, RecordsApart
  <2>5. QED
    BY <2>3, <2>4
<1>2. QED
  BY <1>1, AudienceInvariant, PTL

-----------------------------------------------------------------------------
(***************************************************************************)
(* LocationFeed: what is said of a clip fits it.                           *)
(*                                                                         *)
(* The answers remembered are of the day and state of the clip last        *)
(* described, and a service may be asked when it was last asked long ago,  *)
(* or a state line has been crossed since.                                 *)
(***************************************************************************)
Memos == [last : Scenes \cup {NoScene}, answer : [Services -> Scenes \cup {NoScene}],
          at : [Services -> Nat \cup {Never}]]
Like(x, c) == Day[x] = Day[c] /\ Region[x] = Region[c]
Ready(m, c) == \A s \in Services : m.answer[s] # NoScene => Like(m.answer[s], c)
MemoFits ==
  /\ memo \in Memos
  /\ memo.last = NoScene => \A s \in Services : memo.answer[s] = NoScene
  /\ memo.last # NoScene => Ready(memo, memo.last)

Task(x) == \/ x = AtRest
           \/ x \in [step : {"lock"}, scene : Scenes]
           \/ x \in [step : {"publish"}, said : Said] /\ Fits(x.said)
EmitFits == emit = [e \in Emitters |-> emit[e]] /\ \A e \in Emitters : Task(emit[e])

ShownFits ==
  /\ {held, vars, corner} \subseteq Said \cup {Silent}
  /\ \A x \in {held, vars, corner} \ {Silent} : Fits(x)
HeardInTime ==
  /\ picked \in Nat /\ minute \in 0 .. LastMinute /\ minute <= picked + Swap
  /\ \A x \in {vars, corner} \ {Silent} : x.heard \in Nat
  /\ corner # Silent => picked <= corner.heard + TTL
AskedInStep ==
  /\ asked \in [Services -> Nat \cup {Never}] /\ excused \subseteq Services /\ hurried = {}
  /\ \A s \in Services : memo.at[s] = asked[s] \/ s \in excused
RestTyped == showing \in Scenes /\ connected \in BOOLEAN
             /\ moves \in 0 .. Moves /\ mishaps \in 0 .. Mishaps
FeedInv == EmitFits /\ MemoFits /\ ShownFits /\ HeardInTime /\ AskedInStep /\ RestTyped

LEMMA SilentIsNotSaid == Silent \notin Said
BY LocationConstants DEF Silent, Said

LEMMA JumpForgets ==
  ASSUME NEW c \in Scenes, MemoFits
  PROVE  LET m == InvalidateOnJump(memo, c) IN
         /\ m \in Memos /\ m.last \in Scenes /\ Like(m.last, c) /\ Ready(m, c)
         /\ \A s \in Services : m.at[s] = memo.at[s] \/ Crossed(memo, c)
<1>1. CASE SameDay(memo, c) /\ SameState(memo, c)
  <2>1. InvalidateOnJump(memo, c) = memo
    BY <1>1 DEF InvalidateOnJump
  <2>2. memo.last # NoScene /\ memo.last \in Scenes
    BY <1>1 DEF SameDay, Memos, MemoFits
  <2>3. Like(memo.last, c) /\ Ready(memo, c)
    BY <1>1, <2>2 DEF SameDay, SameState, Like, MemoFits, Ready
  <2> QED BY <2>1, <2>2, <2>3 DEF MemoFits
<1>2. CASE ~(SameDay(memo, c) /\ SameState(memo, c)) /\ SameDay(memo, c)
  <2>1. InvalidateOnJump(memo, c) = [last |-> c, answer |-> Forgetful.answer, at |-> Forgetful.at]
    BY <1>2 DEF InvalidateOnJump
  <2>2. Forgetful.answer = [s \in Services |-> NoScene] /\ Forgetful.at = [s \in Services |-> Never]
    BY DEF Forgetful
  <2>3. InvalidateOnJump(memo, c) \in Memos
    BY <2>1, <2>2 DEF Memos
  <2>4. Crossed(memo, c)
    BY <1>2 DEF Crossed
  <2> QED BY <2>1, <2>2, <2>3, <2>4, LocationConstants DEF Like, Ready
<1>3. CASE ~SameDay(memo, c)
  <2>1. InvalidateOnJump(memo, c) = [last |-> c, answer |-> Forgetful.answer, at |-> memo.at]
    BY <1>3 DEF InvalidateOnJump
  <2>2. Forgetful.answer = [s \in Services |-> NoScene]
    BY DEF Forgetful
  <2>3. InvalidateOnJump(memo, c) \in Memos
    BY <2>1, <2>2 DEF Memos, MemoFits
  <2> QED BY <2>1, <2>2, <2>3, LocationConstants DEF Like, Ready
<1> QED BY <1>1, <1>2, <1>3

LEMMA FeedStarts == FeedInit => FeedInv
<1> SUFFICES ASSUME FeedInit PROVE FeedInv
  OBVIOUS
<1>1. memo \in Memos /\ \A s \in Services : memo.answer[s] = NoScene
  BY DEF FeedInit, Forgetful, Memos
<1>2. MemoFits
  BY <1>1 DEF MemoFits, FeedInit, Forgetful
<1>3. EmitFits
  BY DEF FeedInit, EmitFits, Task
<1>4. HeardInTime /\ ShownFits
  BY LocationConstants DEF FeedInit, HeardInTime, ShownFits
<1>6. RestTyped
  <2>1. connected \in BOOLEAN
    BY DEF FeedInit
  <2>2. showing \in Scenes /\ moves \in 0 .. Moves /\ mishaps \in 0 .. Mishaps
    BY LocationConstants DEF FeedInit
  <2> QED BY <2>1, <2>2 DEF RestTyped
<1>5. AskedInStep
  BY DEF FeedInit, AskedInStep, Forgetful
<1> QED BY <1>2, <1>3, <1>4, <1>5, <1>6 DEF FeedInv

LEMMA TaskSet ==
  ASSUME EmitFits, NEW e \in Emitters, NEW x, Task(x), emit' = [emit EXCEPT ![e] = x]
  PROVE  EmitFits'
<1>1. emit' = [f \in Emitters |-> IF f = e THEN x ELSE emit[f]]
  BY DEF EmitFits
<1>2. \A f \in Emitters : Task(emit'[f])
  BY <1>1 DEF EmitFits
<1>3. emit' = [f \in Emitters |-> emit'[f]]
  BY <1>1
<1> QED BY <1>2, <1>3 DEF EmitFits, Task, Fits

LEMMA HeardFits ==
  ASSUME NEW x \in Said, Fits(x), minute \in Nat
  PROVE  Heard(x) \in Said /\ Fits(Heard(x)) /\ Heard(x).heard = minute /\ Heard(x) # Silent
BY SilentIsNotSaid DEF Heard, Said, Fits

LEMMA DescribeFits ==
  ASSUME FeedInv, NEW e \in Emitters, Describe(e) PROVE FeedInv'
<1> DEFINE c == emit[e].scene
           m == InvalidateOnJump(memo, c)
           asking == Asks(m, c)
           free == IF Crossed(memo, c) THEN Services ELSE excused
<1>0. EmitFits /\ MemoFits /\ ShownFits /\ HeardInTime /\ AskedInStep /\ RestTyped
  BY DEF FeedInv
<1>1. emit[e].step = "lock" /\ c \in Scenes
  BY <1>0 DEF Describe, EmitFits, Task, AtRest
<1>3. /\ m \in Memos /\ m.last \in Scenes /\ Like(m.last, c) /\ Ready(m, c)
      /\ \A s \in Services : m.at[s] = memo.at[s] \/ Crossed(memo, c)
  BY <1>0, <1>1, JumpForgets
<1>4. asking \subseteq Services /\ \A s \in asking : Due(m.at[s])
  BY DEF Asks
<1> DEFINE Got(city, weather) == [s \in Services |-> IF s \notin asking THEN NoScene
                                                      ELSE IF s = "city" THEN city ELSE weather]
           After(city, weather) ==
             [last |-> m.last,
              answer |-> [s \in Services |-> Remember(m, s, Got(city, weather)[s])],
              at |-> [s \in Services |-> IF s \in asking THEN minute ELSE m.at[s]]]
<1>5. PICK city \in City(c), weather \in Historical(c) :
        /\ memo' = After(city, weather)
        /\ emit' = [emit EXCEPT ![e] = [step |-> "publish",
             said |-> [scene |-> c, place |-> Place(After(city, weather), c),
                       weather |-> ConditionsFor(After(city, weather)), heard |-> Never]]]
  BY DEF Describe
<1>6. /\ asked' = [s \in Services |-> IF s \in asking THEN minute ELSE asked[s]]
      /\ excused' = free \ asking
      /\ hurried' = hurried \cup {s \in asking \ free : ~Due(asked[s])}
      /\ UNCHANGED <<showing, Wire, corner, picked, minute, moves, mishaps>>
  BY DEF Describe
<1> DEFINE got == Got(city, weather)
           after == After(city, weather)
           said == [scene |-> c, place |-> Place(after, c),
                    weather |-> ConditionsFor(after), heard |-> Never]
<1>7. \A s \in Services : got[s] \in {c, NoScene}
  BY <1>5 DEF City, Historical
<1>8. \A s \in Services : /\ after.answer[s] \in Scenes \cup {NoScene}
                          /\ after.answer[s] # NoScene => Like(after.answer[s], c)
  <2> TAKE s \in Services
  <2>1. after.answer[s] = Remember(m, s, got[s])
    OBVIOUS
  <2>2. CASE got[s] = NoScene
    BY <1>3, <2>1, <2>2 DEF Remember, Memos, Ready
  <2>3. CASE got[s] = c
    BY <1>1, <2>1, <2>3, LocationConstants DEF Remember, Like
  <2> QED BY <1>7, <2>2, <2>3
<1>9. minute \in Nat /\ \A s \in Services : after.at[s] \in Nat \cup {Never}
  BY <1>0, <1>3, LocationConstants DEF HeardInTime, Memos
<1>10. memo' \in Memos /\ memo'.last = m.last /\ memo'.answer = after.answer
  BY <1>3, <1>5, <1>8, <1>9 DEF Memos
<1>11. MemoFits'
  <2>1. m.last # NoScene
    BY <1>3, LocationConstants
  <2>2. \A s \in Services : memo'.answer[s] # NoScene => Like(memo'.answer[s], m.last)
    BY <1>3, <1>8, <1>10 DEF Like
  <2> QED BY <1>10, <2>1, <2>2 DEF MemoFits, Ready, Like, Memos
<1>12. said \in Said /\ Fits(said)
  <2>1. "city" \in Services /\ "weather" \in Services
    BY DEF Services
  <2> HIDE DEF after
  <2>2. Place(after, c) \in Scenes /\ Like(Place(after, c), c)
    BY <1>1, <1>8, <2>1 DEF Place, Like
  <2>3. /\ ConditionsFor(after) \in Scenes \cup {NoScene}
        /\ ConditionsFor(after) # NoScene => Like(ConditionsFor(after), c)
    BY <1>8, <2>1 DEF ConditionsFor
  <2>4. said.scene = c /\ said.place = Place(after, c) /\ said.weather = ConditionsFor(after)
    OBVIOUS
  <2>5. said \in Said
    BY <1>1, <2>2, <2>3 DEF Said
  <2> HIDE DEF said
  <2> QED BY <2>2, <2>3, <2>4, <2>5 DEF Fits, Like
<1>13. EmitFits'
  <2> DEFINE x == [step |-> "publish", said |-> said]
  <2>1. emit' = [emit EXCEPT ![e] = x]
    BY <1>5
  <2> HIDE DEF said
  <2>2. Task(x)
    BY <1>12 DEF Task
  <2> HIDE DEF x
  <2> QED BY <1>0, <2>1, <2>2, TaskSet
<1>14. ShownFits' /\ HeardInTime' /\ RestTyped'
  <2>1. UNCHANGED <<showing, connected, held, vars, corner, picked, minute, moves, mishaps>>
    BY <1>6 DEF Wire
  <2>2. ShownFits'
    BY <1>0, <2>1 DEF ShownFits, Fits
  <2>3. HeardInTime' /\ RestTyped'
    BY <1>0, <2>1 DEF HeardInTime, RestTyped
  <2> QED BY <2>2, <2>3
<1>15. AskedInStep'
  <2>1. \A s \in Services : memo'.at[s] = IF s \in asking THEN minute ELSE m.at[s]
    BY <1>5
  <2> HIDE DEF asking, m
  <2>2. asked' \in [Services -> Nat \cup {Never}] /\ excused' \subseteq Services
    BY <1>0, <1>6, <1>9 DEF AskedInStep
  <2>3. ASSUME NEW s \in Services PROVE memo'.at[s] = asked'[s] \/ s \in excused'
    BY <1>0, <1>3, <1>6, <2>1 DEF AskedInStep
  <2>4. ASSUME NEW s \in asking \ free PROVE Due(asked[s])
    <3>1. s \in Services /\ s \notin excused /\ ~Crossed(memo, c)
      BY <1>4, <2>4
    <3>2. m.at[s] = asked[s]
      BY <1>0, <1>3, <3>1 DEF AskedInStep
    <3> QED BY <1>4, <2>4, <3>2
  <2> QED BY <1>0, <1>6, <2>2, <2>3, <2>4 DEF AskedInStep
<1> QED BY <1>11, <1>13, <1>14, <1>15 DEF FeedInv

\* A description reaches the corners, or waits, or is lost.
LEMMA WireFits ==
  ASSUME FeedInv,
         \/ \E e \in Emitters : StartEmit(e) \/ Publish(e)
         \/ Disconnects \/ Reconnects \/ FeedRestarts
  PROVE  FeedInv'
<1>0. EmitFits /\ MemoFits /\ ShownFits /\ HeardInTime /\ AskedInStep /\ RestTyped
  BY DEF FeedInv
<1>m. minute \in Nat
  BY <1>0, LocationConstants DEF HeardInTime
<1>1. ASSUME NEW e \in Emitters, StartEmit(e) PROVE FeedInv'
  <2> DEFINE x == [step |-> "lock", scene |-> showing]
  <2>1. Task(x) /\ emit' = [emit EXCEPT ![e] = x]
    BY <1>0, <1>1 DEF StartEmit, Task, RestTyped
  <2> HIDE DEF x
  <2>2. EmitFits'
    BY <1>0, <2>1, TaskSet
  <2>3. UNCHANGED <<showing, memo, connected, held, vars, corner, picked, minute, moves, mishaps,
                    asked, excused, hurried>>
    BY <1>1 DEF StartEmit, Wire, Ledger
  <2>4. MemoFits' /\ ShownFits'
    BY <1>0, <2>3 DEF MemoFits, Ready, Like, Memos, ShownFits, Fits
  <2>5. HeardInTime' /\ AskedInStep' /\ RestTyped'
    BY <1>0, <2>3 DEF HeardInTime, AskedInStep, RestTyped
  <2> QED BY <2>2, <2>4, <2>5 DEF FeedInv
<1>2. ASSUME NEW e \in Emitters, Publish(e) PROVE FeedInv'
  <2>1. emit[e].said \in Said /\ Fits(emit[e].said)
    BY <1>0, <1>2 DEF Publish, EmitFits, Task, AtRest
  <2>2. /\ Heard(emit[e].said) \in Said /\ Fits(Heard(emit[e].said))
        /\ Heard(emit[e].said).heard = minute /\ Heard(emit[e].said) # Silent
    BY <1>m, <2>1, HeardFits
  <2>3. EmitFits'
    <3>1. emit' = [emit EXCEPT ![e] = AtRest] /\ Task(AtRest)
      BY <1>2 DEF Publish, Task
    <3> QED BY <1>0, <3>1, TaskSet
  <2>4. UNCHANGED <<showing, memo, connected, corner, picked, minute, moves, asked, excused, hurried>>
    BY <1>2 DEF Publish, Ledger
  <2>5. /\ vars' \in {vars, Heard(emit[e].said)} /\ held' \in {held, emit[e].said}
        /\ mishaps' \in {mishaps, mishaps + 1} /\ (mishaps' # mishaps => mishaps < Mishaps)
    BY <1>2 DEF Publish, Happens
  <2>6. ShownFits'
    BY <1>0, <2>1, <2>2, <2>4, <2>5 DEF ShownFits, Fits
  <2>7. HeardInTime'
    BY <1>0, <1>m, <2>2, <2>4, <2>5 DEF HeardInTime
  <2>8. RestTyped'
    BY <1>0, <2>4, <2>5, LocationConstants DEF RestTyped
  <2>9. MemoFits' /\ AskedInStep'
    BY <1>0, <2>4 DEF MemoFits, Ready, Like, Memos, AskedInStep
  <2> QED BY <2>3, <2>6, <2>7, <2>8, <2>9 DEF FeedInv
<1>3. CASE Disconnects
  <2>1. UNCHANGED <<showing, emit, memo, held, vars, corner, picked, minute, moves, asked, excused, hurried>>
        /\ connected' = FALSE /\ mishaps < Mishaps /\ mishaps' = mishaps + 1
    BY <1>3 DEF Disconnects, Ledger, Happens
  <2>2. EmitFits' /\ MemoFits' /\ ShownFits'
    BY <1>0, <2>1 DEF EmitFits, Task, MemoFits, Ready, Like, Memos, ShownFits, Fits
  <2>3. HeardInTime' /\ AskedInStep'
    BY <1>0, <2>1 DEF HeardInTime, AskedInStep
  <2>4. RestTyped'
    <3>1. connected' \in BOOLEAN
      BY <2>1
    <3>2. showing' \in Scenes /\ moves' \in 0 .. Moves /\ mishaps' \in 0 .. Mishaps
      BY <1>0, <2>1, LocationConstants DEF RestTyped
    <3> QED BY <3>1, <3>2 DEF RestTyped
  <2> QED BY <2>2, <2>3, <2>4 DEF FeedInv
<1>4. CASE Reconnects
  <2>1. UNCHANGED <<showing, emit, memo, corner, picked, minute, moves, mishaps, asked, excused, hurried>>
        /\ connected' = TRUE /\ held' = Silent /\ vars' = (IF held = Silent THEN vars ELSE Heard(held))
    BY <1>4 DEF Reconnects, Ledger
  <2>2. held # Silent => /\ Heard(held) \in Said /\ Fits(Heard(held)) /\ Heard(held).heard = minute
    BY <1>0, <1>m, HeardFits DEF ShownFits
  <2>3. EmitFits' /\ MemoFits'
    BY <1>0, <2>1 DEF EmitFits, Task, MemoFits, Ready, Like, Memos, Fits
  <2>4. ShownFits'
    BY <1>0, <2>1, <2>2 DEF ShownFits, Fits
  <2>5. HeardInTime'
    BY <1>0, <1>m, <2>1, <2>2 DEF HeardInTime
  <2>6. AskedInStep' /\ RestTyped'
    BY <1>0, <2>1 DEF AskedInStep, RestTyped
  <2> QED BY <2>3, <2>4, <2>5, <2>6 DEF FeedInv
<1>5. CASE FeedRestarts
  <2>1. /\ UNCHANGED <<showing, connected, vars, corner, picked, minute, moves, hurried>>
        /\ emit' = [e \in Emitters |-> AtRest] /\ memo' = Forgetful /\ held' = Silent
        /\ asked' = [s \in Services |-> Never] /\ excused' = {}
        /\ mishaps < Mishaps /\ mishaps' = mishaps + 1
    BY <1>5 DEF FeedRestarts, Happens
  <2>2. EmitFits'
    BY <2>1 DEF EmitFits, Task
  <2>3. MemoFits'
    BY <2>1 DEF MemoFits, Forgetful, Memos
  <2>4. ShownFits'
    BY <1>0, <2>1 DEF ShownFits, Fits
  <2>5. HeardInTime'
    BY <1>0, <2>1 DEF HeardInTime
  <2>6. AskedInStep'
    BY <1>0, <2>1 DEF AskedInStep, Forgetful
  <2>7. RestTyped'
    BY <1>0, <2>1, LocationConstants DEF RestTyped
  <2> QED BY <2>2, <2>3, <2>4, <2>5, <2>6, <2>7 DEF FeedInv
<1> QED BY <1>1, <1>2, <1>3, <1>4, <1>5

\* The corners, the film and the clock.
LEMMA CornersFit ==
  ASSUME FeedInv,
         OverlayRestarts \/ NextLine \/ FilmMoves \/ MinutePasses \/ UNCHANGED feedVars
  PROVE  FeedInv'
<1>0. EmitFits /\ MemoFits /\ ShownFits /\ HeardInTime /\ AskedInStep /\ RestTyped
  BY DEF FeedInv
<1>m. minute \in Nat
  BY <1>0, LocationConstants DEF HeardInTime
<1>u. UNCHANGED <<emit, memo, held, connected, asked, excused, hurried>>
  BY DEF OverlayRestarts, NextLine, FilmMoves, MinutePasses, feedVars, Wire, Ledger
<1>1. EmitFits' /\ MemoFits' /\ AskedInStep'
  BY <1>0, <1>u DEF EmitFits, Task, MemoFits, Ready, Like, Memos, Fits, AskedInStep
<1>2. CASE OverlayRestarts
  <2>1. UNCHANGED <<showing, minute, moves>> /\ vars' = Silent /\ corner' = Silent
        /\ picked' = minute /\ mishaps < Mishaps /\ mishaps' = mishaps + 1
    BY <1>2 DEF OverlayRestarts, Happens
  <2>2. ShownFits' /\ HeardInTime'
    BY <1>0, <1>m, <1>u, <2>1, LocationConstants DEF ShownFits, Fits, HeardInTime
  <2>3. RestTyped'
    BY <1>0, <1>u, <2>1, LocationConstants DEF RestTyped
  <2> QED BY <1>1, <2>2, <2>3 DEF FeedInv
<1>3. CASE NextLine
  <2>1. UNCHANGED <<showing, vars, minute, moves, mishaps>> /\ corner' \in {Snapshot, Silent}
        /\ picked' = minute
    BY <1>3 DEF NextLine, Wire
  <2>2. corner' # Silent => corner' = vars /\ minute <= vars.heard + TTL
    <3>1. vars # Silent => vars.heard \in Nat
      BY <1>0 DEF HeardInTime
    <3> QED BY <1>m, <2>1, <3>1, LocationConstants DEF Snapshot
  <2>3. ShownFits'
    BY <1>0, <1>u, <2>1, <2>2 DEF ShownFits, Fits
  <2>4. HeardInTime'
    BY <1>0, <1>m, <2>1, <2>2, LocationConstants DEF HeardInTime
  <2>5. RestTyped'
    BY <1>0, <1>u, <2>1 DEF RestTyped
  <2> QED BY <1>1, <2>3, <2>4, <2>5 DEF FeedInv
<1>4. CASE FilmMoves
  <2>1. UNCHANGED <<vars, corner, picked, minute, mishaps>> /\ showing' \in Scenes
        /\ moves < Moves /\ moves' = moves + 1
    BY <1>4 DEF FilmMoves, Wire
  <2>2. ShownFits' /\ HeardInTime'
    BY <1>0, <1>u, <2>1 DEF ShownFits, Fits, HeardInTime
  <2>3. RestTyped'
    BY <1>0, <1>u, <2>1, LocationConstants DEF RestTyped
  <2> QED BY <1>1, <2>2, <2>3 DEF FeedInv
<1>5. CASE MinutePasses
  <2>1. UNCHANGED <<showing, vars, corner, picked, moves, mishaps>> /\ minute < LastMinute
        /\ minute - picked < Swap /\ minute' = minute + 1
    BY <1>5 DEF MinutePasses, Wire
  <2>2. ShownFits'
    BY <1>0, <1>u, <2>1 DEF ShownFits, Fits
  <2>3. HeardInTime'
    BY <1>0, <1>m, <2>1, LocationConstants DEF HeardInTime
  <2>4. RestTyped'
    BY <1>0, <1>u, <2>1 DEF RestTyped
  <2> QED BY <1>1, <2>2, <2>3, <2>4 DEF FeedInv
<1>6. CASE UNCHANGED feedVars
  <2>1. UNCHANGED <<showing, vars, corner, picked, minute, moves, mishaps>>
    BY <1>6 DEF feedVars
  <2>2. ShownFits' /\ HeardInTime' /\ RestTyped'
    BY <1>0, <1>u, <2>1 DEF ShownFits, Fits, HeardInTime, RestTyped
  <2> QED BY <1>1, <2>2 DEF FeedInv
<1> QED BY <1>2, <1>3, <1>4, <1>5, <1>6

LEMMA FeedGoesOn == FeedInv /\ [FeedNext]_feedVars => FeedInv'
<1> SUFFICES ASSUME FeedInv, [FeedNext]_feedVars PROVE FeedInv'
  OBVIOUS
<1>1. ASSUME NEW e \in Emitters, Describe(e) PROVE FeedInv'
  BY <1>1, DescribeFits
<1> QED BY <1>1, WireFits, CornersFit DEF FeedNext

LEMMA FeedInvariant == FeedSpec => []FeedInv
BY FeedStarts, FeedGoesOn, PTL DEF FeedSpec

(* Type correctness of the description of the film and its way to the overlay  *)
(* (pkg/location, the location.live subject, onscreens-server's live data).    *)
THEOREM FeedTypeCorrect == FeedSpec => []FeedTypeOK
<1>1. FeedInv => FeedTypeOK
  <2> SUFFICES ASSUME FeedInv PROVE FeedTypeOK
    OBVIOUS
  <2>1. emit \in [Emitters -> {AtRest} \cup [step : {"lock"}, scene : Scenes]
                                       \cup [step : {"publish"}, said : Said]]
    <3>1. \A e \in Emitters : emit[e] \in {AtRest} \cup [step : {"lock"}, scene : Scenes]
                                                   \cup [step : {"publish"}, said : Said]
      BY DEF FeedInv, EmitFits, Task
    <3> QED BY <3>1 DEF FeedInv, EmitFits
  <2>2. memo \in Memos
    BY DEF FeedInv, MemoFits
  <2> QED BY <2>1, <2>2 DEF FeedInv, FeedTypeOK, Memos, ShownFits, HeardInTime, AskedInStep, RestTyped
<1> QED BY <1>1, FeedInvariant, PTL

(* What tripbot sends of a clip and what a corner says of it is of the clip's  *)
(* own day and state whatever was on screen in between (invalidateOnJump); no  *)
(* corner speaks of the film once what it heard is old and its line has had    *)
(* its time (locationDataTTL); and no service is asked again within the        *)
(* throttle unless a state line was crossed (lookupThrottle).                  *)
THEOREM CaptionsAlwaysTrue == FeedSpec => []CaptionsAreTrue
<1>1. FeedInv => CaptionsAreTrue
  <2> SUFFICES ASSUME FeedInv PROVE CaptionsAreTrue
    OBVIOUS
  <2>1. \A x \in Sent : Fits(x)
    <3> SUFFICES ASSUME NEW e \in Emitters, emit[e].step = "publish" PROVE Fits(emit[e].said)
      BY DEF Sent
    <3> QED BY DEF FeedInv, EmitFits, Task, AtRest
  <2>2. CaptionFits
    BY <2>1 DEF CaptionFits, FeedInv, ShownFits
  <2>3. CaptionIsRecent
    BY LocationConstants DEF CaptionIsRecent, FeedInv, HeardInTime
  <2>4. LookupsAreRationed
    BY DEF LookupsAreRationed, FeedInv, AskedInStep
  <2> QED BY <2>2, <2>3, <2>4 DEF CaptionsAreTrue
<1> QED BY <1>1, FeedInvariant, PTL

-----------------------------------------------------------------------------
(***************************************************************************)
(* Achievements: two processes' hooks agree on what was won.               *)
(*                                                                         *)
(* What a transaction is about to award rests on committed days and its    *)
(* own, and nobody else is about to award it.  Unless another process has  *)
(* put down days of the state since, whoever has the days of a tier it has *)
(* been through is on record or among its rows.                            *)
(***************************************************************************)
TierRow(v, s, t) == [viewer |-> v, name |-> [state |-> s, days |-> t]]
SightRow(v, l) == [viewer |-> v, name |-> [landmark |-> l]]

Earns(e, rows, seen) ==
  IF "landmark" \in DOMAIN e.name THEN e \in seen
  ELSE DaysOf(e.viewer, e.name.state, rows) >= e.name.days

RowsFit(x, rows, on, seen) ==
  /\ x.won \cap on = {} /\ \A e \in x.won : Earns(e, rows \cup x.days, seen)
  /\ \A r \in x.days : r.state = Where[x.clip]
  /\ \A v \in x.crowd, l \in PassesBy[x.clip] : SightRow(v, l) \in seen
StepFits(x) ==
  /\ x.step = "visits" => x.won = {} /\ x.days = {} /\ x.tier = 1
  /\ x.step = "tiers" => Where[x.clip] # Nowhere
  /\ x.step \in {"landmarks", "commit"} /\ Where[x.clip] # Nowhere => x.tier = Len(VisitTiers) + 1
Honoured(x, rows, on) ==
  \A k \in DOMAIN VisitTiers, v \in Viewers :
    /\ ~x.beside /\ Where[x.clip] # Nowhere /\ k < x.tier
    /\ DaysOf(v, Where[x.clip], rows \cup x.days) >= VisitTiers[k]
    => TierRow(v, Where[x.clip], VisitTiers[k]) \in on \cup x.won
RunFits(x, rows, on, seen) == RowsFit(x, rows, on, seen) /\ StepFits(x) /\ Honoured(x, rows, on)
TellFits(x, on, heard) == x.won \subseteq on /\ x.won \cap heard = {}

HookFits(x, rows, on, seen, heard) ==
  \/ x = Unhooked
  \/ x \in Telling /\ TellFits(x, on, heard)
  \/ x \in Transaction /\ RunFits(x, rows, on, seen)
HooksFit ==
  /\ hook = [h \in Hooks |-> hook[h]]
  /\ \A h \in Hooks : HookFits(hook[h], visited, awarded, sighted, told)
WonApart ==
  \A g, h \in Hooks : g # h /\ hook[g] # Unhooked /\ hook[h] # Unhooked
                      => hook[g].won \cap hook[h].won = {}
OnRecord ==
  /\ visited \subseteq Visit /\ awarded \subseteq Earned /\ sighted \subseteq Earned
  /\ complete \subseteq Regions /\ told \subseteq awarded /\ twice = {}
  /\ \A e \in awarded : Earns(e, visited, sighted)
Counted == today \in 0 .. Days /\ changes \in 0 .. Changes /\ slips \in 0 .. Slips
AwardsInv == HooksFit /\ WonApart /\ OnRecord /\ Counted /\ NothingForgotten

-----------------------------------------------------------------------------
LEMMA DaysAreCounted ==
  ASSUME NEW v, NEW s, NEW rows, rows \subseteq Visit
  PROVE  DaysOf(v, s, rows) \in Nat
<1> DEFINE d == {r.day : r \in {q \in rows : q.viewer = v /\ q.state = s}}
<1>1. d \in SUBSET (0 .. Days)
  BY DEF Visit
<1>2. IsFiniteSet(0 .. Days)
  BY FS_Interval, AchievementConstants
<1>3. IsFiniteSet(d)
  BY ONLY <1>1, <1>2, FS_Subset
<1> QED BY ONLY <1>3, FS_CardinalityType DEF DaysOf

LEMMA DaysOnlyGrow ==
  ASSUME NEW v, NEW s, NEW rows, NEW more, rows \subseteq more, more \subseteq Visit
  PROVE  DaysOf(v, s, rows) <= DaysOf(v, s, more)
<1> DEFINE d(r0) == {r.day : r \in {q \in r0 : q.viewer = v /\ q.state = s}}
<1>1. d(more) \in SUBSET (0 .. Days) /\ d(rows) \in SUBSET d(more)
  BY DEF Visit
<1>2. IsFiniteSet(0 .. Days)
  BY FS_Interval, AchievementConstants
<1>3. IsFiniteSet(d(more))
  BY ONLY <1>1, <1>2, FS_Subset
<1>4. Cardinality(d(rows)) <= Cardinality(d(more))
  BY ONLY <1>1, <1>3, FS_Subset
<1> QED BY <1>4 DEF DaysOf

LEMMA DaysOfOneState ==
  ASSUME NEW v, NEW s, NEW rows, NEW more, \A r \in more : r \in rows \/ r.state # s,
         rows \subseteq more
  PROVE  DaysOf(v, s, more) = DaysOf(v, s, rows)
<1>1. {q \in more : q.viewer = v /\ q.state = s} = {q \in rows : q.viewer = v /\ q.state = s}
  OBVIOUS
<1> QED BY <1>1 DEF DaysOf

LEMMA NoDays == ASSUME NEW v, NEW s PROVE DaysOf(v, s, {}) = 0
<1>1. {r.day : r \in {q \in {} : q.viewer = v /\ q.state = s}} = {}
  OBVIOUS
<1> QED BY <1>1, FS_EmptySet DEF DaysOf

LEMMA EarnedStays ==
  ASSUME NEW e \in Earned, NEW rows, NEW more, rows \subseteq more, more \subseteq Visit,
         NEW seen, NEW further, seen \subseteq further, Earns(e, rows, seen)
  PROVE  Earns(e, more, further)
<1>1. CASE "landmark" \in DOMAIN e.name
  BY <1>1 DEF Earns
<1>2. CASE "landmark" \notin DOMAIN e.name
  <2>1. e.name \in [state : Regions, days : Tiers]
    <3>1. e.name \in Name
      BY DEF Earned
    <3>2. ASSUME e.name \in [landmark : Landmarks] PROVE FALSE
      BY <1>2, <3>2
    <3> QED BY <3>1, <3>2 DEF Name
  <2>2. e.name.days \in Nat
    BY <2>1, AchievementConstants DEF Tiers
  <2> DEFINE p == DaysOf(e.viewer, e.name.state, rows)
             q == DaysOf(e.viewer, e.name.state, more)
             t == e.name.days
  <2>3. p \in Nat /\ q \in Nat
    BY DaysAreCounted
  <2>4. p <= q
    BY DaysOnlyGrow
  <2>5. p >= t
    BY <1>2 DEF Earns
  <2> HIDE DEF p, q, t
  <2>6. q >= t
    <3>1. t \in Nat
      BY <2>2 DEF t
    <3> QED BY <2>3, <2>4, <2>5, <3>1
  <2> QED BY <1>2, <2>6 DEF Earns, q, t
<1> QED BY <1>1, <1>2

LEMMA TierRowEarned ==
  ASSUME NEW v, NEW s, NEW t, NEW rows, NEW seen, DaysOf(v, s, rows) >= t
  PROVE  Earns(TierRow(v, s, t), rows, seen)
<1>1. /\ TierRow(v, s, t).name = [state |-> s, days |-> t] /\ TierRow(v, s, t).viewer = v
      /\ TierRow(v, s, t).name.state = s /\ TierRow(v, s, t).name.days = t
  BY DEF TierRow
<1>2. DOMAIN [state |-> s, days |-> t] = {"state", "days"}
  OBVIOUS
<1>3. "landmark" \notin DOMAIN TierRow(v, s, t).name
  BY <1>1, <1>2
<1> QED BY <1>1, <1>3 DEF Earns

LEMMA SightRowEarned ==
  ASSUME NEW v, NEW l, NEW rows, NEW seen, SightRow(v, l) \in seen
  PROVE  Earns(SightRow(v, l), rows, seen)
<1>1. "landmark" \in DOMAIN SightRow(v, l).name
  BY DEF SightRow
<1> QED BY <1>1 DEF Earns

LEMMA TiersAreNumbers ==
  /\ Len(VisitTiers) \in Nat /\ DOMAIN VisitTiers = 1 .. Len(VisitTiers)
  /\ \A k \in DOMAIN VisitTiers : VisitTiers[k] \in Nat /\ VisitTiers[k] > 0 /\ VisitTiers[k] \in Tiers
BY AchievementConstants DEF Tiers

-----------------------------------------------------------------------------
(* How a hook stands once others have gone on. *)

LEMMA RunGoesOn ==
  ASSUME NEW x \in Transaction, NEW y \in Transaction,
         y.step = x.step, y.clip = x.clip, y.crowd = x.crowd, y.tier = x.tier,
         y.days = x.days, y.won = x.won,
         NEW rows, NEW more, rows \subseteq more, more \subseteq Visit,
         NEW on, NEW onNow, on \subseteq onNow, x.won \cap onNow = {},
         NEW seen, NEW further, seen \subseteq further,
         \/ y.beside \/ x.tier = 1
         \/ y.beside = x.beside /\ \A r \in more : r \in rows \/ r.state # Where[x.clip],
         RunFits(x, rows, on, seen)
  PROVE  RunFits(y, more, onNow, further)
<1>1. RowsFit(y, more, onNow, further)
  <2>1. \A e \in x.won : Earns(e, more \cup x.days, further)
    <3> TAKE e \in x.won
    <3>1. e \in Earned /\ x.days \subseteq Visit
      BY DEF Transaction
    <3>2. rows \cup x.days \subseteq more \cup x.days /\ more \cup x.days \subseteq Visit
      BY <3>1
    <3>3. Earns(e, rows \cup x.days, seen)
      BY DEF RunFits, RowsFit
    <3> QED BY <3>1, <3>2, <3>3, EarnedStays
  <2> QED BY <2>1 DEF RunFits, RowsFit
<1>2. StepFits(y)
  BY DEF RunFits, StepFits
<1>3. Honoured(y, more, onNow)
  <2> DEFINE s == Where[x.clip]
  <2> SUFFICES ASSUME NEW k \in DOMAIN VisitTiers, NEW v \in Viewers, ~y.beside, s # Nowhere,
                      k < x.tier, DaysOf(v, s, more \cup x.days) >= VisitTiers[k]
               PROVE  TierRow(v, s, VisitTiers[k]) \in onNow \cup x.won
    BY DEF Honoured
  <2>1. x.tier # 1
    BY TiersAreNumbers DEF Transaction
  <2>2. y.beside = x.beside /\ \A r \in more : r \in rows \/ r.state # s
    BY <2>1
  <2>3. DaysOf(v, s, more \cup x.days) = DaysOf(v, s, rows \cup x.days)
    <3>1. \A r \in more \cup x.days : r \in rows \cup x.days \/ r.state # s
      BY <2>2
    <3>2. rows \cup x.days \subseteq more \cup x.days
      OBVIOUS
    <3> HIDE DEF s
    <3> QED BY ONLY <3>1, <3>2, DaysOfOneState
  <2> QED BY <2>2, <2>3 DEF RunFits, Honoured
<1> QED BY <1>1, <1>2, <1>3 DEF RunFits

LEMMA HookKinds ==
  ASSUME HooksFit, NEW h \in Hooks
  PROVE  /\ Running(h) <=> hook[h] \in Transaction
         /\ hook[h].step = "tell" <=> hook[h] \in Telling
         /\ hook[h] \in Transaction => RunFits(hook[h], visited, awarded, sighted)
         /\ hook[h] \in Telling => TellFits(hook[h], awarded, told)
         /\ hook[h] # Unhooked => hook[h] \in Telling \/ hook[h] \in Transaction
         /\ hook[h].step \in {"visits", "tiers", "landmarks", "commit"} => hook[h] \in Transaction
         /\ hook[h] # Unhooked => hook[h].won \subseteq Earned
<1>1. HookFits(hook[h], visited, awarded, sighted, told)
  BY DEF HooksFit
<1>2. Unhooked.step = "idle"
  BY DEF Unhooked
<1>3. \A x \in Telling : x.step = "tell" /\ x.won \subseteq Earned
  BY DEF Telling
<1>4. \A x \in Transaction : x.step \in {"visits", "tiers", "landmarks", "commit"} /\ x.won \subseteq Earned
  BY DEF Transaction
<1> QED BY <1>1, <1>2, <1>3, <1>4 DEF HookFits, Running

\* One process's hook goes on, within its transaction.
LEMMA HookGoesOn ==
  ASSUME HooksFit, WonApart, OnRecord, NEW h \in Hooks, NEW x \in Transaction,
         hook' = [g \in Hooks |-> IF g = h THEN x ELSE hook[g]],
         UNCHANGED <<visited, awarded, told>>, sighted \subseteq sighted',
         RunFits(x, visited, awarded, sighted'),
         \A g \in Hooks \ {h} : hook[g] # Unhooked => hook[g].won \cap x.won = {}
  PROVE  HooksFit' /\ WonApart'
<1>1. ASSUME NEW g \in Hooks PROVE HookFits(hook'[g], visited, awarded, sighted', told)
  <2>1. CASE g = h
    BY <2>1 DEF HookFits
  <2>2. CASE g # h /\ hook[g] \in Transaction
    <3>1. RunFits(hook[g], visited, awarded, sighted)
      BY <2>2, HookKinds
    <3>2. hook[g].won \cap awarded = {}
      BY <3>1 DEF RunFits, RowsFit
    <3>3. RunFits(hook[g], visited, awarded, sighted')
      BY <2>2, <3>1, <3>2, RunGoesOn DEF OnRecord
    <3> QED BY <2>2, <3>3 DEF HookFits
  <2>3. CASE g # h /\ hook[g] \notin Transaction
    <3>1. HookFits(hook[g], visited, awarded, sighted, told)
      BY DEF HooksFit
    <3> QED BY <2>3, <3>1 DEF HookFits
  <2> QED BY <2>1, <2>2, <2>3
<1>2. HooksFit'
  <2>1. hook' = [g \in Hooks |-> hook'[g]]
    OBVIOUS
  <2>2. visited' = visited /\ awarded' = awarded /\ told' = told
    OBVIOUS
  <2>3. \A g \in Hooks : HookFits(hook'[g], visited', awarded', sighted', told')
    BY <1>1, <2>2
  <2> QED BY <2>1, <2>3 DEF HooksFit
<1>3. WonApart'
  BY DEF WonApart
<1> QED BY <1>2, <1>3

\* One process's hook is over.
LEMMA HookEnds ==
  ASSUME HooksFit, WonApart, NEW h \in Hooks,
         hook' = [hook EXCEPT ![h] = Unhooked],
         UNCHANGED <<visited, awarded, sighted>>,
         \/ told' = told
         \/ hook[h] # Unhooked /\ told' = told \cup hook[h].won
  PROVE  HooksFit' /\ WonApart'
<1>0. hook' = [g \in Hooks |-> IF g = h THEN Unhooked ELSE hook[g]]
  BY DEF HooksFit
<1>1. ASSUME NEW g \in Hooks PROVE HookFits(hook'[g], visited, awarded, sighted, told')
  <2>1. CASE g = h
    BY <1>0, <2>1 DEF HookFits
  <2>2. CASE g # h /\ hook[g] \in Telling
    <3>1. TellFits(hook[g], awarded, told)
      BY <2>2, HookKinds
    <3>2. hook[g] # Unhooked
      BY <2>2 DEF Telling, Unhooked
    <3>3. hook[h] # Unhooked => hook[g].won \cap hook[h].won = {}
      BY <2>2, <3>2 DEF WonApart
    <3>4. TellFits(hook[g], awarded, told')
      BY <3>1, <3>3 DEF TellFits
    <3> QED BY <1>0, <2>2, <3>4 DEF HookFits
  <2>3. CASE g # h /\ hook[g] \notin Telling
    <3>1. HookFits(hook[g], visited, awarded, sighted, told)
      BY DEF HooksFit
    <3> QED BY <1>0, <2>3, <3>1 DEF HookFits
  <2> QED BY <2>1, <2>2, <2>3
<1>2. HooksFit'
  <2>1. hook' = [g \in Hooks |-> hook'[g]]
    BY <1>0
  <2>2. \A g \in Hooks : HookFits(hook'[g], visited', awarded', sighted', told')
    BY <1>1
  <2> QED BY <2>1, <2>2 DEF HooksFit
<1>3. WonApart'
  BY <1>0 DEF WonApart
<1> QED BY <1>2, <1>3

-----------------------------------------------------------------------------
LEMMA AwardsStart == AwardsInit => AwardsInv
<1> SUFFICES ASSUME AwardsInit PROVE AwardsInv
  OBVIOUS
<1>1. HooksFit /\ WonApart
  BY DEF AwardsInit, HooksFit, HookFits, WonApart
<1>2. OnRecord
  BY DEF AwardsInit, OnRecord
<1>3. Counted
  BY AchievementConstants DEF AwardsInit, Counted
<1>4. NothingForgotten
  <2> SUFFICES ASSUME NEW s, NEW v, NEW t \in Tiers PROVE ~(DaysOf(v, s, visited) >= t)
    BY DEF NothingForgotten
  <2>1. t \in Nat /\ t > 0
    BY AchievementConstants DEF Tiers
  <2>2. DaysOf(v, s, visited) = 0
    BY NoDays DEF AwardsInit
  <2> QED BY <2>1, <2>2
<1> QED BY <1>1, <1>2, <1>3, <1>4 DEF AwardsInv

LEMMA ClipChangesFits ==
  ASSUME AwardsInv, NEW h \in Hooks, ClipChanges(h) PROVE AwardsInv'
<1>0. HooksFit /\ WonApart /\ OnRecord /\ Counted /\ NothingForgotten
  BY DEF AwardsInv
<1>1. PICK c \in Stretches, crowd \in SUBSET Viewers :
        /\ hook' = [hook EXCEPT ![h] =
             [step |-> "visits", clip |-> c, crowd |-> crowd, day |-> today,
              tier |-> 1, beside |-> FALSE, days |-> {}, won |-> {}]]
        /\ sighted' = sighted \cup Passing(crowd, c)
  BY DEF ClipChanges
<1>r. \A v \in crowd, l \in PassesBy[c] : SightRow(v, l) \in sighted'
  <2>1. \A v \in crowd, l \in PassesBy[c] : SightRow(v, l) \in Passing(crowd, c)
    BY DEF Passing, SightRow
  <2> QED BY <1>1, <2>1
<1>2. UNCHANGED <<visited, awarded, told, twice, complete, today, slips>>
      /\ changes < Changes /\ changes' = changes + 1
  BY DEF ClipChanges
<1> DEFINE x == [step |-> "visits", clip |-> c, crowd |-> crowd, day |-> today,
                 tier |-> 1, beside |-> FALSE, days |-> {}, won |-> {}]
<1>3. x \in Transaction
  BY <1>0, TiersAreNumbers DEF Transaction, Counted
<1>4. RunFits(x, visited, awarded, sighted')
  <2>1. RowsFit(x, visited, awarded, sighted')
    BY <1>r DEF RowsFit
  <2>2. StepFits(x)
    BY DEF StepFits
  <2>3. Honoured(x, visited, awarded)
    BY TiersAreNumbers DEF Honoured
  <2> QED BY <2>1, <2>2, <2>3 DEF RunFits
<1>5. hook' = [g \in Hooks |-> IF g = h THEN x ELSE hook[g]] /\ x.won = {}
  BY <1>0, <1>1 DEF HooksFit
<1> HIDE DEF x
<1>6. HooksFit' /\ WonApart'
  <2>1. UNCHANGED <<visited, awarded, told>> /\ sighted \subseteq sighted'
    BY <1>1, <1>2
  <2>2. \A g \in Hooks \ {h} : hook[g] # Unhooked => hook[g].won \cap x.won = {}
    BY <1>5
  <2>3. hook' = [g \in Hooks |-> IF g = h THEN x ELSE hook[g]]
    BY <1>5
  <2> QED BY ONLY <1>0, <1>3, <1>4, <2>1, <2>2, <2>3, h \in Hooks, HookGoesOn
<1>7. sighted' \subseteq Earned
  <2>1. \A v \in crowd, l \in PassesBy[c] : SightRow(v, l) \in Earned
    BY DEF SightRow, Earned, Name, Landmarks
  <2>2. Passing(crowd, c) \subseteq Earned
    BY <2>1 DEF Passing, SightRow
  <2> QED BY <1>0, <1>1, <2>2 DEF OnRecord
<1>8. OnRecord'
  <2>1. \A e \in awarded : Earns(e, visited, sighted')
    BY <1>0, <1>1, EarnedStays DEF OnRecord
  <2> QED BY <1>0, <1>2, <1>7, <2>1 DEF OnRecord, Earns
<1>9. Counted'
  BY <1>0, <1>2, AchievementConstants DEF Counted
<1>10. NothingForgotten'
  BY <1>0, <1>2 DEF NothingForgotten
<1> QED BY <1>6, <1>8, <1>9, <1>10 DEF AwardsInv

\* A step within a transaction: nothing on record changes.
LEMMA WithinFits ==
  ASSUME AwardsInv, NEW h \in Hooks, NEW x \in Transaction,
         hook' = [g \in Hooks |-> IF g = h THEN x ELSE hook[g]],
         UNCHANGED <<visited, awarded, AwardLedger, today, changes, slips>>,
         RunFits(x, visited, awarded, sighted),
         \A g \in Hooks \ {h} : hook[g] # Unhooked => hook[g].won \cap x.won = {}
  PROVE  AwardsInv'
<1>0. HooksFit /\ WonApart /\ OnRecord /\ Counted /\ NothingForgotten
  BY DEF AwardsInv
<1>1. UNCHANGED <<visited, awarded, told, twice, complete, sighted, today, changes, slips>>
  BY DEF AwardLedger
<1>2. HooksFit' /\ WonApart'
  <2>1. RunFits(x, visited, awarded, sighted') /\ sighted \subseteq sighted'
    BY <1>1
  <2> QED BY <1>0, <1>1, <2>1, HookGoesOn
<1>3. OnRecord' /\ NothingForgotten'
  BY <1>0, <1>1 DEF OnRecord, Earns, NothingForgotten
<1>4. Counted'
  BY <1>0, <1>1 DEF Counted
<1> QED BY <1>2, <1>3, <1>4 DEF AwardsInv

LEMMA UpsertVisitsFits ==
  ASSUME AwardsInv, NEW h \in Hooks, UpsertVisits(h) PROVE AwardsInv'
<1>0. HooksFit /\ WonApart /\ OnRecord /\ Counted /\ NothingForgotten
  BY DEF AwardsInv
<1> DEFINE o == hook[h]
           c == hook[h].clip
           rows == IF Where[c] = Nowhere THEN {}
                   ELSE {[viewer |-> v, state |-> Where[c], day |-> hook[h].day] : v \in hook[h].crowd}
           x == [hook[h] EXCEPT !.step = IF Where[c] = Nowhere THEN "landmarks" ELSE "tiers",
                                !.days = rows \ visited]
<1>1. o.step = "visits" /\ UNCHANGED <<visited, awarded, AwardLedger, today, changes, slips>>
      /\ hook' = [hook EXCEPT ![h].step = IF Where[c] = Nowhere THEN "landmarks" ELSE "tiers",
                              ![h].days = rows \ visited]
  BY DEF UpsertVisits
<1>2. o \in Transaction /\ RunFits(o, visited, awarded, sighted)
  BY <1>0, <1>1, HookKinds
<1>3. o.won = {} /\ o.days = {} /\ o.tier = 1
  BY <1>1, <1>2 DEF RunFits, StepFits
<1>4. rows \subseteq Visit /\ \A r \in rows : r.state = Where[c]
  BY <1>2 DEF Visit, Transaction, Regions
<1>5. /\ x.clip = c /\ x.crowd = o.crowd /\ x.tier = 1 /\ x.beside = o.beside /\ x.won = {}
      /\ x.days = rows \ visited
      /\ x.step = IF Where[c] = Nowhere THEN "landmarks" ELSE "tiers"
  BY <1>2, <1>3 DEF Transaction
<1>6. x \in Transaction
  BY <1>2, <1>4 DEF Transaction
<1>7. hook' = [g \in Hooks |-> IF g = h THEN x ELSE hook[g]]
  BY <1>0, <1>1 DEF HooksFit
<1>8. RunFits(x, visited, awarded, sighted)
  <2> HIDE DEF x
  <2>1. RowsFit(x, visited, awarded, sighted)
    BY <1>2, <1>4, <1>5 DEF RunFits, RowsFit
  <2>2. StepFits(x)
    BY <1>5 DEF StepFits
  <2>3. Honoured(x, visited, awarded)
    BY <1>5, TiersAreNumbers DEF Honoured
  <2> QED BY <2>1, <2>2, <2>3 DEF RunFits
<1> HIDE DEF x
<1>9. \A g \in Hooks \ {h} : hook[g] # Unhooked => hook[g].won \cap x.won = {}
  BY <1>5
<1>10. UNCHANGED <<visited, awarded, AwardLedger, today, changes, slips>>
  BY <1>1
<1> QED BY ONLY AwardsInv, h \in Hooks, <1>6, <1>7, <1>8, <1>9, <1>10, WithinFits

\* One INSERT ... SELECT ... ON CONFLICT DO NOTHING of rows that were earned.
LEMMA InsertFits ==
  ASSUME AwardsInv, NEW h \in Hooks, NEW rows, rows \subseteq Earned, NEW to, NEW tier,
         hook[h] \in Transaction, to \in {"tiers", "landmarks", "commit"},
         tier \in 1 .. (Len(VisitTiers) + 1),
         Insert(h, rows, to, tier),
         \A e \in rows : Earns(e, visited \cup hook[h].days, sighted),
         to = "tiers" => Where[hook[h].clip] # Nowhere,
         to \in {"landmarks", "commit"} /\ Where[hook[h].clip] # Nowhere
           => tier = Len(VisitTiers) + 1,
         \A k \in DOMAIN VisitTiers, v \in Viewers :
           /\ Where[hook[h].clip] # Nowhere
           /\ k < tier /\ ~(k < hook[h].tier)
           /\ DaysOf(v, Where[hook[h].clip], visited \cup hook[h].days) >= VisitTiers[k]
           => TierRow(v, Where[hook[h].clip], VisitTiers[k]) \in rows
  PROVE  AwardsInv'
<1>0. HooksFit /\ WonApart /\ OnRecord
  BY DEF AwardsInv
<1> DEFINE o == hook[h]
           x == [hook[h] EXCEPT !.step = to, !.tier = tier, !.won = @ \cup (rows \ awarded)]
<1>1. /\ \A g \in Others(h) : hook[g].won \cap rows = {}
      /\ hook' = [hook EXCEPT ![h].step = to, ![h].tier = tier,
                              ![h].won = @ \cup (rows \ awarded)]
      /\ UNCHANGED <<visited, awarded, AwardLedger, today, changes, slips>>
  BY DEF Insert
<1>2. RunFits(o, visited, awarded, sighted)
  BY <1>0, HookKinds
<1>3. /\ x.clip = o.clip /\ x.crowd = o.crowd /\ x.tier = tier /\ x.beside = o.beside
      /\ x.won = o.won \cup (rows \ awarded) /\ x.days = o.days /\ x.step = to
  BY DEF Transaction
<1>4. x \in Transaction
  BY DEF Transaction
<1>5. hook' = [g \in Hooks |-> IF g = h THEN x ELSE hook[g]]
  BY <1>0, <1>1 DEF HooksFit
<1>6. ASSUME NEW g \in Hooks \ {h}, hook[g] # Unhooked PROVE hook[g].won \cap x.won = {}
  <2>1. hook[g].won \cap o.won = {}
    <3>1. hook[h] # Unhooked
      BY DEF Transaction, Unhooked
    <3> QED BY <1>0, <1>6, <3>1 DEF WonApart
  <2>2. hook[g].won \cap (rows \ awarded) = {}
    <3>1. CASE hook[g] \in Transaction
      BY <1>0, <1>1, <1>6, <3>1, HookKinds DEF Others
    <3>2. CASE hook[g] \in Telling
      <4>1. hook[g].won \subseteq awarded
        BY <1>0, <1>6, <3>2, HookKinds DEF TellFits
      <4> QED BY <4>1
    <3> QED BY <1>0, <1>6, <3>1, <3>2, HookKinds
  <2> QED BY <1>3, <2>1, <2>2
<1> HIDE DEF x
<1>7. RunFits(x, visited, awarded, sighted)
  <2>1. RowsFit(x, visited, awarded, sighted)
    BY <1>2, <1>3 DEF RunFits, RowsFit
  <2>2. StepFits(x)
    BY <1>3 DEF StepFits
  <2>3. Honoured(x, visited, awarded)
    <3> DEFINE s == Where[o.clip]
    <3> SUFFICES ASSUME NEW k \in DOMAIN VisitTiers, NEW v \in Viewers, ~o.beside, s # Nowhere,
                        k < tier, DaysOf(v, s, visited \cup o.days) >= VisitTiers[k]
                 PROVE  TierRow(v, s, VisitTiers[k]) \in awarded \cup x.won
      BY <1>3 DEF Honoured
    <3>1. CASE k < o.tier
      BY <1>2, <1>3, <3>1 DEF RunFits, Honoured
    <3>2. CASE ~(k < o.tier)
      BY <1>3, <3>2
    <3> QED BY <3>1, <3>2
  <2> QED BY <2>1, <2>2, <2>3 DEF RunFits
<1> QED BY <1>1, <1>4, <1>5, <1>6, <1>7, WithinFits

LEMMA StateVisitsFits ==
  ASSUME AwardsInv, NEW h \in Hooks, StateVisits(h) PROVE AwardsInv'
<1>0. HooksFit
  BY DEF AwardsInv
<1> DEFINE o == hook[h]
           s == Where[hook[h].clip]
           k == hook[h].tier
           rows == {TierRow(v, s, VisitTiers[k]) :
                      v \in {u \in Viewers : Reached(u, s, VisitTiers[k], Read(h))}}
           to == IF k = Len(VisitTiers) THEN "landmarks" ELSE "tiers"
<1>1. o.step = "tiers" /\ k \in DOMAIN VisitTiers /\ Insert(h, rows, to, k + 1)
  BY DEF StateVisits, TierRow
<1>2. o \in Transaction /\ RunFits(o, visited, awarded, sighted)
  BY <1>0, <1>1, HookKinds
<1>3. s # Nowhere /\ s \in Regions
  BY <1>1, <1>2 DEF RunFits, StepFits, Regions, Transaction
<1>4. rows \subseteq Earned
  BY <1>1, <1>3, TiersAreNumbers DEF TierRow, Earned, Name
<1>5. k \in Nat /\ k + 1 \in 1 .. (Len(VisitTiers) + 1)
  BY <1>1, TiersAreNumbers
<1>6. \A e \in rows : Earns(e, visited \cup o.days, sighted)
  BY TierRowEarned DEF Reached, Read
<1>7. ASSUME NEW j \in DOMAIN VisitTiers, NEW v \in Viewers, j < k + 1, ~(j < k),
             DaysOf(v, s, visited \cup o.days) >= VisitTiers[j]
      PROVE  TierRow(v, s, VisitTiers[j]) \in rows
  <2>1. j = k
    BY <1>5, <1>7, TiersAreNumbers
  <2>2. Reached(v, s, VisitTiers[k], Read(h))
    BY <1>7, <2>1 DEF Reached, Read
  <2> QED BY <2>1, <2>2
<1>8. /\ to \in {"tiers", "landmarks", "commit"}
      /\ to \in {"landmarks", "commit"} => k + 1 = Len(VisitTiers) + 1
  OBVIOUS
<1> HIDE DEF to, rows
<1> QED BY <1>1, <1>2, <1>3, <1>4, <1>5, <1>6, <1>7, <1>8, InsertFits

LEMMA SightingsFits ==
  ASSUME AwardsInv, NEW h \in Hooks, Sightings(h) PROVE AwardsInv'
<1>0. HooksFit
  BY DEF AwardsInv
<1> DEFINE o == hook[h]
           rows == Passing(hook[h].crowd, hook[h].clip)
<1>1. o.step = "landmarks" /\ Insert(h, rows, "commit", o.tier)
  BY DEF Sightings
<1>2. o \in Transaction /\ RunFits(o, visited, awarded, sighted)
  BY <1>0, <1>1, HookKinds
<1>r. rows = {SightRow(v, l) : v \in o.crowd, l \in PassesBy[o.clip]}
  BY DEF Passing, SightRow
<1>3. \A e \in rows : Earns(e, visited \cup o.days, sighted)
  BY <1>r, <1>2, SightRowEarned DEF RunFits, RowsFit
<1>4. rows \subseteq Earned
  BY <1>r, <1>2 DEF AwardsInv, OnRecord, RunFits, RowsFit
<1>5. Where[o.clip] # Nowhere => o.tier = Len(VisitTiers) + 1
  BY <1>1, <1>2 DEF RunFits, StepFits
<1>6. o.tier \in 1 .. (Len(VisitTiers) + 1)
  BY <1>2 DEF Transaction
<1> HIDE DEF rows
<1> QED BY <1>1, <1>2, <1>3, <1>4, <1>5, <1>6, InsertFits

LEMMA Marked ==
  ASSUME NEW x \in Transaction
  PROVE  LET y == [x EXCEPT !.beside = TRUE] IN
         /\ y \in Transaction /\ y.step = x.step /\ y.clip = x.clip /\ y.crowd = x.crowd
         /\ y.tier = x.tier /\ y.days = x.days /\ y.won = x.won /\ y.beside
<1> DEFINE y == [x EXCEPT !.beside = TRUE]
<1>1. y.step = x.step /\ y.clip = x.clip /\ y.crowd = x.crowd
      /\ y.tier = x.tier /\ y.days = x.days /\ y.won = x.won
  OBVIOUS
<1>2. y.beside
  BY DEF Transaction
<1>3. y \in Transaction
  BY DEF Transaction
<1> QED BY <1>1, <1>2, <1>3

\* The rows are on record, and another process's hook that has read the state's
\* days knows nothing of these.
LEMMA CommitFits ==
  ASSUME AwardsInv, NEW h \in Hooks, Commit(h) PROVE AwardsInv'
<1>0. HooksFit /\ WonApart /\ OnRecord /\ Counted /\ NothingForgotten
  BY DEF AwardsInv
<1> DEFINE o == hook[h]
           s == Where[hook[h].clip]
<1>1. o.step = "commit" /\ UNCHANGED <<told, twice, sighted, today, changes>>
  BY DEF Commit
<1>2. PICK to \in {Unhooked, [step |-> "tell", won |-> o.won]} : Committed(h, to)
  BY DEF Commit
<1>3. slips' \in 0 .. Slips
  <2>1. UNCHANGED slips \/ Slip
    BY DEF Commit
  <2>2. slips \in 0 .. Slips /\ Slips \in Nat
    BY <1>0, AchievementConstants DEF Counted
  <2> QED BY <2>1, <2>2 DEF Slip
<1>4. /\ visited' = visited \cup o.days /\ awarded' = awarded \cup o.won
      /\ hook' = [g \in Hooks |-> IF g = h THEN to
                                  ELSE IF HasRead(g, s) THEN [hook[g] EXCEPT !.beside = TRUE]
                                  ELSE hook[g]]
      /\ complete' = IF s = Nowhere THEN complete
                     ELSE IF o.beside THEN complete \ {s} ELSE complete \cup {s}
  BY <1>2 DEF Committed
<1>5. o \in Transaction /\ RunFits(o, visited, awarded, sighted) /\ o # Unhooked
  <2>1. o \in Transaction
    BY <1>0, <1>1, HookKinds
  <2> QED BY <1>0, <2>1, HookKinds DEF Transaction, Unhooked
<1>6. /\ o.won \subseteq Earned /\ o.days \subseteq Visit /\ o.won \cap awarded = {}
      /\ (\A r \in o.days : r.state = s)
      /\ (\A e \in o.won : Earns(e, visited \cup o.days, sighted))
  BY <1>5 DEF Transaction, RunFits, RowsFit
<1>7. visited' \subseteq Visit /\ visited \subseteq visited' /\ awarded \subseteq awarded'
  BY <1>0, <1>4, <1>6 DEF OnRecord
<1>8. ASSUME NEW g \in Hooks PROVE HookFits(hook'[g], visited', awarded', sighted, told)
  <2>1. CASE g = h
    <3>1. CASE to = Unhooked
      BY <1>4, <2>1, <3>1 DEF HookFits
    <3>2. CASE to = [step |-> "tell", won |-> o.won]
      <4>1. to \in Telling /\ to.won = o.won
        BY <1>6, <3>2 DEF Telling
      <4>2. TellFits(to, awarded', told)
        BY <1>0, <1>4, <1>6, <4>1 DEF TellFits, OnRecord
      <4> QED BY <1>4, <2>1, <4>1, <4>2 DEF HookFits
    <3> QED BY <1>2, <3>1, <3>2
  <2>2. CASE g # h /\ hook[g] \in Transaction
    <3> DEFINE x == hook[g]
               y == hook'[g]
    <3>1. RunFits(x, visited, awarded, sighted) /\ x # Unhooked
      BY <1>0, <2>2, HookKinds DEF Transaction, Unhooked
    <3>2. y = IF HasRead(g, s) THEN [x EXCEPT !.beside = TRUE] ELSE x
      BY <1>4, <2>2
    <3>3. /\ y \in Transaction /\ y.step = x.step /\ y.clip = x.clip /\ y.crowd = x.crowd
          /\ y.tier = x.tier /\ y.days = x.days /\ y.won = x.won
          /\ y.beside = IF HasRead(g, s) THEN TRUE ELSE x.beside
      <4>1. CASE HasRead(g, s)
        BY <2>2, <3>2, <4>1, Marked
      <4>2. CASE ~HasRead(g, s)
        BY <2>2, <3>2, <4>2
      <4> QED BY <4>1, <4>2
    <3>4. x.won \cap awarded' = {}
      <4>1. x.won \cap o.won = {}
        BY <1>0, <1>5, <2>2, <3>1 DEF WonApart
      <4> QED BY <1>4, <3>1, <4>1 DEF RunFits, RowsFit
    <3>5. \/ y.beside \/ x.tier = 1
          \/ y.beside = x.beside /\ \A r \in visited' : r \in visited \/ r.state # Where[x.clip]
      <4>1. CASE HasRead(g, s)
        BY <3>3, <4>1
      <4>2. CASE ~HasRead(g, s) /\ Where[x.clip] = s
        <5>1. Running(g)
          BY <1>0, <2>2, HookKinds
        <5>2. x.tier \in Nat /\ x.tier > 0
          BY <2>2, TiersAreNumbers DEF Transaction
        <5> QED BY <4>2, <5>1, <5>2 DEF HasRead
      <4>3. CASE ~HasRead(g, s) /\ Where[x.clip] # s
        BY <1>4, <1>6, <3>3, <4>3
      <4> QED BY <4>1, <4>2, <4>3
    <3> HIDE DEF x, y
    <3>6. x \in Transaction /\ sighted \subseteq sighted
      BY <2>2 DEF x
    <3>7. RunFits(y, visited', awarded', sighted)
      BY ONLY <1>7, <3>1, <3>3, <3>4, <3>5, <3>6, RunGoesOn
    <3> QED BY <3>3, <3>7 DEF HookFits, y
  <2>3. CASE g # h /\ hook[g] \notin Transaction
    <3>1. hook'[g] = hook[g]
      <4>1. ~HasRead(g, s)
        BY <1>0, <2>3, HookKinds DEF HasRead
      <4> QED BY <1>4, <2>3, <4>1
    <3>2. HookFits(hook[g], visited, awarded, sighted, told)
      BY <1>0 DEF HooksFit
    <3> QED BY <1>7, <2>3, <3>1, <3>2 DEF HookFits, TellFits
  <2> QED BY <2>1, <2>2, <2>3
<1>9. HooksFit'
  <2>1. hook' = [g \in Hooks |-> hook'[g]]
    BY <1>4
  <2>2. sighted' = sighted /\ told' = told
    BY <1>1
  <2>3. \A g \in Hooks : HookFits(hook'[g], visited', awarded', sighted', told')
    BY <1>8, <2>2
  <2> QED BY <2>1, <2>3 DEF HooksFit
<1>10. WonApart'
  <2>1. ASSUME NEW g \in Hooks, hook'[g] # Unhooked
        PROVE  hook[g] # Unhooked /\ hook'[g].won = hook[g].won
    <3>1. CASE g = h
      BY <1>2, <1>4, <1>5, <2>1, <3>1
    <3>2. CASE g # h /\ HasRead(g, s)
      <4>1. hook[g] \in Transaction
        BY <1>0, <3>2, HookKinds DEF HasRead
      <4>2. hook'[g] = [hook[g] EXCEPT !.beside = TRUE]
        BY <1>4, <3>2
      <4> QED BY <4>1, <4>2 DEF Transaction, Unhooked
    <3>3. CASE g # h /\ ~HasRead(g, s)
      BY <1>4, <2>1, <3>3
    <3> QED BY <3>1, <3>2, <3>3
  <2> QED BY <1>0, <2>1 DEF WonApart
<1>11. OnRecord'
  <2>1. complete' \subseteq Regions
    BY <1>0, <1>4, <1>5 DEF OnRecord, Regions, Transaction
  <2>2. ASSUME NEW e \in awarded' PROVE Earns(e, visited', sighted)
    <3>1. CASE e \in awarded
      BY <1>0, <1>7, <3>1, EarnedStays DEF OnRecord
    <3>2. CASE e \in o.won
      BY <1>4, <1>6, <3>2
    <3> QED BY <1>4, <3>1, <3>2
  <2>3. awarded' \subseteq Earned /\ told' \subseteq awarded' /\ twice' = {} /\ sighted' = sighted
    BY <1>0, <1>1, <1>4, <1>6 DEF OnRecord
  <2>4. \A e \in awarded' : Earns(e, visited', sighted')
    BY <2>2, <2>3
  <2>5. sighted' \subseteq Earned
    BY <1>0, <2>3 DEF OnRecord
  <2> QED BY <1>7, <2>1, <2>3, <2>4, <2>5 DEF OnRecord
<1>12. Counted'
  BY <1>0, <1>1, <1>3 DEF Counted
<1>13. NothingForgotten'
  <2> SUFFICES ASSUME NEW z \in complete', NEW v \in Viewers, NEW t \in Tiers,
                      DaysOf(v, z, visited') >= t
               PROVE  TierRow(v, z, t) \in awarded'
    BY DEF NothingForgotten, TierRow
  <2>1. CASE z # s \/ s = Nowhere
    <3>1. \A r \in visited' : r \in visited \/ r.state # z
      <4>1. s = Nowhere => o.days = {}
        BY <1>6 DEF Visit, Regions
      <4> QED BY <1>4, <1>6, <2>1, <4>1
    <3>2. DaysOf(v, z, visited') = DaysOf(v, z, visited)
      BY <1>7, <3>1, DaysOfOneState
    <3>3. z \in complete
      BY <1>4, <2>1
    <3> QED BY <1>0, <1>7, <3>2, <3>3 DEF NothingForgotten, TierRow
  <2>2. CASE z = s /\ s # Nowhere
    <3>1. ~o.beside
      BY <1>4, <2>2
    <3>2. PICK k \in DOMAIN VisitTiers : VisitTiers[k] = t
      BY DEF Tiers
    <3>3. k < o.tier
      <4>1. o.tier = Len(VisitTiers) + 1
        BY <1>1, <1>5, <2>2 DEF RunFits, StepFits
      <4> QED BY <4>1, TiersAreNumbers
    <3> QED BY <1>4, <1>5, <2>2, <3>1, <3>2, <3>3 DEF RunFits, Honoured
  <2> QED BY <2>1, <2>2
<1> QED BY <1>9, <1>10, <1>11, <1>12, <1>13 DEF AwardsInv

\* The transaction is rolled back; the new ones are told; the day turns.
LEMMA AfterwardsFits ==
  ASSUME AwardsInv,
         \/ \E h \in Hooks : Abandoned(h) \/ Announce(h)
         \/ Midnight \/ UNCHANGED awardVars
  PROVE  AwardsInv'
<1>0. HooksFit /\ WonApart /\ OnRecord /\ Counted /\ NothingForgotten
  BY DEF AwardsInv
<1>1. ASSUME NEW h \in Hooks, Abandoned(h) PROVE AwardsInv'
  <2>1. /\ hook' = [hook EXCEPT ![h] = Unhooked] /\ slips < Slips /\ slips' = slips + 1
        /\ UNCHANGED <<visited, awarded, told, twice, complete, sighted, today, changes>>
    BY <1>1 DEF Abandoned, Slip, AwardLedger
  <2>2. HooksFit' /\ WonApart'
    <3>1. UNCHANGED <<visited, awarded, sighted>> /\ told' = told
      BY <2>1
    <3> QED BY <1>0, <2>1, <3>1, HookEnds
  <2>3. OnRecord' /\ NothingForgotten'
    BY <1>0, <2>1 DEF OnRecord, Earns, NothingForgotten
  <2>4. Counted'
    BY <1>0, <2>1, AchievementConstants DEF Counted
  <2> QED BY <2>2, <2>3, <2>4 DEF AwardsInv
<1>2. ASSUME NEW h \in Hooks, Announce(h) PROVE AwardsInv'
  <2>1. /\ hook[h].step = "tell" /\ hook' = [hook EXCEPT ![h] = Unhooked]
        /\ told' = told \cup hook[h].won /\ twice' = twice \cup (told \cap hook[h].won)
        /\ UNCHANGED <<visited, awarded, complete, sighted, today, changes, slips>>
    BY <1>2 DEF Announce
  <2>2. /\ hook[h] # Unhooked
        /\ hook[h].won \subseteq awarded /\ hook[h].won \cap told = {}
    BY <1>0, <2>1, HookKinds DEF Unhooked, TellFits
  <2>3. HooksFit' /\ WonApart'
    <3>1. UNCHANGED <<visited, awarded, sighted>>
      BY <2>1
    <3> QED BY <1>0, <2>1, <2>2, <3>1, HookEnds
  <2>4. OnRecord' /\ NothingForgotten'
    BY <1>0, <2>1, <2>2 DEF OnRecord, Earns, NothingForgotten
  <2>5. Counted'
    BY <1>0, <2>1 DEF Counted
  <2> QED BY <2>3, <2>4, <2>5 DEF AwardsInv
<1>3. ASSUME Midnight \/ UNCHANGED awardVars PROVE AwardsInv'
  <2>1. /\ UNCHANGED <<visited, awarded, hook, told, twice, complete, sighted>>
        /\ UNCHANGED <<changes, slips>>
        /\ today' = today \/ (today < Days /\ today' = today + 1)
    BY <1>3 DEF Midnight, awardVars, AwardLedger
  <2>2. OnRecord' /\ NothingForgotten' /\ WonApart'
    BY <1>0, <2>1 DEF OnRecord, Earns, NothingForgotten, WonApart
  <2>3. HooksFit'
    <3>1. hook' = [g \in Hooks |-> hook'[g]]
      BY <1>0, <2>1 DEF HooksFit
    <3>2. \A g \in Hooks : HookFits(hook'[g], visited', awarded', sighted', told')
      BY <1>0, <2>1 DEF HooksFit
    <3> QED BY <3>1, <3>2 DEF HooksFit
  <2>4. Counted'
    BY <1>0, <2>1, AchievementConstants DEF Counted
  <2> QED BY <2>2, <2>3, <2>4 DEF AwardsInv
<1> QED BY <1>1, <1>2, <1>3

LEMMA AwardsGoOn == AwardsInv /\ [AwardsNext]_awardVars => AwardsInv'
<1> SUFFICES ASSUME AwardsInv, [AwardsNext]_awardVars PROVE AwardsInv'
  OBVIOUS
<1>1. ASSUME NEW h \in Hooks,
             ClipChanges(h) \/ UpsertVisits(h) \/ StateVisits(h) \/ Sightings(h) \/ Commit(h)
      PROVE  AwardsInv'
  BY <1>1, ClipChangesFits, UpsertVisitsFits, StateVisitsFits, SightingsFits, CommitFits
<1> QED BY <1>1, AfterwardsFits DEF AwardsNext

LEMMA AwardsInvariant == AwardsSpec => []AwardsInv
BY AwardsStart, AwardsGoOn, PTL DEF AwardsSpec

(* Type correctness of the achievements hook, its transactions and what it     *)
(* leaves on record (pkg/achievements).                                        *)
THEOREM AwardsTypeCorrect == AwardsSpec => []AwardsTypeOK
<1>1. AwardsInv => AwardsTypeOK
  <2> SUFFICES ASSUME AwardsInv PROVE AwardsTypeOK
    OBVIOUS
  <2>1. hook \in [Hooks -> {Unhooked} \cup Telling \cup Transaction]
    <3>1. \A h \in Hooks : hook[h] \in {Unhooked} \cup Telling \cup Transaction
      BY DEF AwardsInv, HooksFit, HookFits
    <3> QED BY <3>1 DEF AwardsInv, HooksFit
  <2> QED BY <2>1 DEF AwardsInv, AwardsTypeOK, OnRecord, Counted
<1> QED BY <1>1, AwardsInvariant, PTL

(* However the hooks of two processes' clip changes interleave, and whatever   *)
(* fails on the way: nothing is on record or told that was not earned, nothing *)
(* is told twice, and every tier a viewer's days reach is on record, but for a *)
(* state in whose last hook another's days were put down beside it             *)
(* (HandleVideoChange; ON CONFLICT DO NOTHING RETURNING).                      *)
THEOREM AwardsAlwaysAgree == AwardsSpec => []AwardsAgree
<1>1. AwardsInv => AwardsAgree
  BY DEF AwardsInv, OnRecord, AwardsAgree, AwardsAreDeserved, ToldOnce, Deserved, Earns
<1> QED BY <1>1, AwardsInvariant, PTL

(***************************************************************************)
(* Backfills: the passes over the corpus.                                  *)
(*                                                                         *)
(* Where every reading is in reach of the one before it a correction       *)
(* rejects nothing, so that all it does is fill the holes, and filling     *)
(* them leaves every reading in reach and no hole to fill: it makes no     *)
(* difference how often, or through which script, it is done.  The miles   *)
(* credited to a clip can be driven by the time of the next one that has   *)
(* any, and the sum of what follows is bounded from the last clip down.    *)
(***************************************************************************)
-----------------------------------------------------------------------------
(* Between two fixes                                                        *)

\* A quotient is within one of what is divided.
LEMMA QuotientFacts ==
  ASSUME NEW a \in Int, NEW t \in Nat \ {0}
  PROVE  a \div t \in Int /\ t * (a \div t) <= a /\ a < t * (a \div t) + t
OBVIOUS

LEMMA ProductsKeepOrder ==
  ASSUME NEW e \in Nat, NEW x \in Int, NEW y \in Int, x <= y
  PROVE  e * x <= e * y
OBVIOUS

LEMMA QuotientsApart ==
  ASSUME NEW a \in Int, NEW b \in Int, NEW t \in Nat \ {0}, NEW m \in Int, b - a <= t * m
  PROVE  b \div t - a \div t <= m
<1>. DEFINE x == a \div t
            y == b \div t
<1>1. /\ x \in Int /\ t * x <= a /\ a < t * x + t
      /\ y \in Int /\ t * y <= b /\ b < t * y + t
  BY QuotientFacts
<1>. HIDE DEF x, y
<1>2. t * (y - x) = t * y - t * x /\ t * (m + 1) = t * m + t
  BY <1>1
<1>3. t * (y - x) < t * (m + 1)
  <2>1. t * y \in Int /\ t * x \in Int /\ t * m \in Int
    BY <1>1
  <2>. QED
    BY <1>1, <1>2, <2>1
<1>4. ~ (m + 1 <= y - x)
  <2>1. m + 1 \in Int /\ y - x \in Int /\ t \in Nat
    BY <1>1
  <2>2. m + 1 <= y - x => t * (m + 1) <= t * (y - x)
    BY <2>1, ProductsKeepOrder
  <2>3. t * (m + 1) \in Int /\ t * (y - x) \in Int
    BY <2>1
  <2>. QED
    BY <1>3, <2>2, <2>3
<1>. QED
  BY <1>1, <1>4 DEF x, y

\* A point made up between two fixes: of the road between them, no faster than
\* between themselves, and one of them at its ends.
LEMMA InterpKeepsPace ==
  ASSUME NEW ta \in Nat, NEW tb \in Nat, NEW p \in Nat, NEW q \in Nat, NEW s \in Nat, NEW t \in Nat,
         ta <= s, s <= t, t <= tb, Apart(p, q) <= MaxSpeed * (tb - ta)
  PROVE  /\ InterpAt(ta, tb, p, q, s) \in Int /\ InterpAt(ta, tb, p, q, t) \in Int
         /\ Apart(InterpAt(ta, tb, p, q, s), InterpAt(ta, tb, p, q, t)) <= MaxSpeed * (t - s)
<1>1. MaxSpeed \in Nat
  BY RoadConstants
<1>2. CASE ta = tb
  <2>1. s = t
    BY <1>2
  <2>2. InterpAt(ta, tb, p, q, s) = p /\ InterpAt(ta, tb, p, q, t) = p
    BY <1>2 DEF InterpAt
  <2>. QED
    BY <1>1, <2>1, <2>2 DEF Apart
<1>3. CASE ta # tb
  <2>. DEFINE gap == tb - ta
              far == q - p
              e == t - s
              a == (s - ta) * far
              b == (t - ta) * far
  <2>1. gap \in Nat \ {0} /\ far \in Int /\ e \in Nat /\ s - ta \in Nat /\ t - ta \in Nat
    BY <1>3
  <2>2. /\ InterpAt(ta, tb, p, q, s) = p + a \div gap
        /\ InterpAt(ta, tb, p, q, t) = p + b \div gap
    BY <1>3 DEF InterpAt
  <2>3. a \in Int /\ b \in Int /\ b - a = e * far
    <3>1. t - ta = (s - ta) + e
      OBVIOUS
    <3>2. b = a + e * far
      <4>. DEFINE u == s - ta
      <4>1. ((s - ta) + e) * far = (s - ta) * far + e * far
        <5>. HIDE DEF far, e
        <5>1. s - ta \in Int
          BY <2>1
        <5>. QED
          BY <2>1, <5>1
      <4>. QED
        BY <3>1, <4>1
    <3>3. a \in Int /\ e * far \in Int
      BY <2>1
    <3>. HIDE DEF a, b, e, far
    <3>. QED
      BY <3>2, <3>3
  <2>4. far <= MaxSpeed * gap /\ - far <= MaxSpeed * gap
    BY <1>1, <2>1 DEF Apart
  <2>. HIDE DEF gap, far, e, a, b
  <2>5. e * far <= gap * (MaxSpeed * e) /\ - (e * far) <= gap * (MaxSpeed * e)
    <3>0. MaxSpeed * gap \in Int /\ - far \in Int
      BY <1>1, <2>1
    <3>1. e * far <= e * (MaxSpeed * gap) /\ e * (- far) <= e * (MaxSpeed * gap)
      BY <2>1, <2>4, <3>0, ProductsKeepOrder
    <3>2. e * (MaxSpeed * gap) = gap * (MaxSpeed * e) /\ e * (- far) = - (e * far)
      BY <1>1, <2>1
    <3>. QED
      BY <3>1, <3>2
  <2>6. MaxSpeed * e \in Int
    BY <1>1, <2>1
  <2>7. b \div gap - a \div gap <= MaxSpeed * e /\ a \div gap - b \div gap <= MaxSpeed * e
    <3>1. b - a <= gap * (MaxSpeed * e) /\ a - b <= gap * (MaxSpeed * e)
      <4>1. a - b = - (e * far)
        BY <2>1, <2>3
      <4>. QED
        BY <2>3, <2>5, <4>1
    <3>. QED
      BY <2>1, <2>3, <2>6, <3>1, QuotientsApart
  <2>8. a \div gap \in Int /\ b \div gap \in Int
    BY <2>1, <2>3
  <2>9. MaxSpeed * e = MaxSpeed * (t - s)
    BY DEF e
  <2>. QED
    BY <2>2, <2>6, <2>7, <2>8, <2>9 DEF Apart
<1>. QED
  BY <1>2, <1>3

LEMMA InterpEnds ==
  ASSUME NEW ta \in Nat, NEW tb \in Nat, NEW p \in Nat, NEW q \in Nat,
         ta <= tb, Apart(p, q) <= MaxSpeed * (tb - ta)
  PROVE  InterpAt(ta, tb, p, q, ta) = p /\ InterpAt(ta, tb, p, q, tb) = q
<1>1. MaxSpeed \in Nat
  BY RoadConstants
<1>2. CASE ta = tb
  <2>1. p = q
    BY <1>1, <1>2 DEF Apart
  <2>. QED
    BY <1>2, <2>1 DEF InterpAt
<1>3. CASE ta # tb
  <2>. DEFINE gap == tb - ta
              far == q - p
  <2>1. gap \in Nat \ {0} /\ far \in Int
    BY <1>3
  <2>2. /\ InterpAt(ta, tb, p, q, ta) = p + ((ta - ta) * far) \div gap
        /\ InterpAt(ta, tb, p, q, tb) = p + (gap * far) \div gap
    BY <1>3 DEF InterpAt
  <2>3. ta - ta = 0 /\ p + far = q
    OBVIOUS
  <2>. HIDE DEF gap, far
  <2>4. (0 * far) \div gap = 0
    BY <2>1
  <2>5. (gap * far) \div gap = far
    <3>. DEFINE x == (gap * far) \div gap
    <3>1. x \in Int /\ gap * x <= gap * far /\ gap * far < gap * x + gap
      BY <2>1, QuotientFacts
    <3>. HIDE DEF x
    <3>2. ~ (x + 1 <= far)
      <4>1. x + 1 <= far => gap * (x + 1) <= gap * far
        BY <2>1, <3>1, ProductsKeepOrder
      <4>2. gap * (x + 1) = gap * x + gap
        BY <2>1, <3>1
      <4>. QED
        BY <2>1, <3>1, <4>1, <4>2
    <3>3. ~ (far + 1 <= x)
      <4>1. far + 1 <= x => gap * (far + 1) <= gap * x
        BY <2>1, <3>1, ProductsKeepOrder
      <4>2. gap * (far + 1) = gap * far + gap
        BY <2>1
      <4>. QED
        BY <2>1, <3>1, <4>1, <4>2
    <3>. QED
      BY <2>1, <3>1, <3>2, <3>3 DEF x
  <2>. QED
    BY <2>2, <2>3, <2>4, <2>5
<1>. QED
  BY <1>2, <1>3

LEMMA InterpIsBetween ==
  ASSUME NEW ta \in Nat, NEW tb \in Nat, NEW p \in Nat \ {0}, NEW q \in Nat \ {0}, NEW t \in Nat,
         ta <= t, t <= tb
  PROVE  InterpAt(ta, tb, p, q, t) \in Nat \ {0}
<1>1. CASE ta = tb
  BY <1>1 DEF InterpAt
<1>2. CASE ta # tb
  <2>. DEFINE gap == tb - ta
              far == q - p
              e == t - ta
              x == (e * far) \div gap
  <2>1. gap \in Nat \ {0} /\ far \in Int /\ e \in Nat /\ e <= gap /\ p + far >= 1
    BY <1>2
  <2>2. InterpAt(ta, tb, p, q, t) = p + x
    BY <1>2 DEF InterpAt
  <2>. HIDE DEF gap, far, e
  <2>3. x \in Int /\ gap * x <= e * far /\ e * far < gap * x + gap
    <3>1. e * far \in Int
      BY <2>1
    <3>. QED
      BY <2>1, <3>1, QuotientFacts
  <2>. HIDE DEF x
  <2>4. x >= 0 \/ x >= far
    <3>1. CASE far >= 0
      <4>1. e * far >= 0
        <5>1. e * 0 <= e * far
          BY <2>1, <3>1, ProductsKeepOrder
        <5>. QED
          BY <2>1, <5>1
      <4>2. x + 1 <= 0 => gap * (x + 1) <= gap * 0
        BY <2>1, <2>3, ProductsKeepOrder
      <4>3. gap * (x + 1) = gap * x + gap /\ gap * 0 = 0 /\ gap * x \in Int /\ e * far \in Int
        BY <2>1, <2>3
      <4>. QED
        BY <2>1, <2>3, <4>1, <4>2, <4>3
    <3>2. CASE far < 0
      <4>1. gap * far <= e * far
        <5>1. (- far) * e <= (- far) * gap
          BY <2>1, <3>2, ProductsKeepOrder
        <5>2. (- far) * e = - (e * far) /\ (- far) * gap = - (gap * far)
          BY <2>1
        <5>3. e * far \in Int /\ gap * far \in Int
          BY <2>1
        <5>. QED
          BY <5>1, <5>2, <5>3
      <4>2. x + 1 <= far => gap * (x + 1) <= gap * far
        BY <2>1, <2>3, ProductsKeepOrder
      <4>3. gap * (x + 1) = gap * x + gap /\ gap * far \in Int /\ gap * x \in Int /\ e * far \in Int
        BY <2>1, <2>3
      <4>. QED
        BY <2>1, <2>3, <4>1, <4>2, <4>3
    <3>. QED
      BY <2>1, <3>1, <3>2
  <2>. QED
    BY <2>1, <2>2, <2>3, <2>4
<1>. QED
  BY <1>1, <1>2

-----------------------------------------------------------------------------
(* The working state of a correction                                        *)

LEMMA DriveFacts ==
  ASSUME NEW at \in Drives
  PROVE  /\ at \in Seq(Nat) /\ Len(at) \in Nat \ {0} /\ DOMAIN at = 1 .. Len(at)
         /\ \A i \in DOMAIN at : at[i] \in Nat
         /\ \A i, j \in DOMAIN at : i <= j => at[i] <= at[j]
<1>1. at \in Seq(Nat) /\ at # <<>> /\ \A i, j \in 1 .. Len(at) : i < j => at[i] <= at[j]
  BY RoadConstants
<1>2. Len(at) \in Nat \ {0} /\ DOMAIN at = 1 .. Len(at) /\ \A i \in DOMAIN at : at[i] \in Nat
  BY <1>1
<1>3. ASSUME NEW i \in DOMAIN at, NEW j \in DOMAIN at, i <= j
      PROVE  at[i] <= at[j]
  <2>1. CASE i = j
    BY <1>2, <2>1
  <2>2. CASE i # j
    <3>1. i < j
      BY <1>2, <1>3, <2>2
    <3>. QED
      BY <1>1, <1>2, <3>1
  <2>. QED
    BY <2>1, <2>2
<1>. QED
  BY <1>1, <1>2, <1>3

LEMMA LengthOfMarks ==
  ASSUME NEW n \in Nat, NEW b \in [1 .. n -> BOOLEAN]
  PROVE  Len(b) = n
<1>1. b \in Seq(BOOLEAN)
  BY SMT
<1>. QED
  BY <1>1

\* The mark before a place and the one after it.
LEMMA PrevTrueIs ==
  ASSUME NEW n \in Nat, NEW b \in [1 .. n -> BOOLEAN], NEW i \in 1 .. n
  PROVE  /\ PrevTrue(b, i) \in 0 .. i - 1
         /\ PrevTrue(b, i) > 0 => b[PrevTrue(b, i)]
         /\ \A k \in 1 .. i - 1 : k > PrevTrue(b, i) => ~ b[k]
<1>. DEFINE marks == {0} \cup {k \in 1 .. i - 1 : b[k]}
<1>1. marks \in SUBSET (0 .. i - 1) /\ marks \subseteq Nat /\ marks # {}
  OBVIOUS
<1>2. IsFiniteSet(marks)
  <2>1. IsFiniteSet(0 .. i - 1)
    BY FS_Interval
  <2>. HIDE DEF marks
  <2>. QED
    BY <1>1, <2>1, FS_Subset
<1>3. \E x \in marks : \A y \in marks : x >= y
  <2>1. \E x \in marks : \A y \in marks : y <= x
    <3>. HIDE DEF marks
    <3>. QED
      BY <1>1, <1>2, LargestExists
  <2>. HIDE DEF marks
  <2>. QED
    BY <1>1, <2>1
<1>4. PrevTrue(b, i) \in marks /\ \A y \in marks : PrevTrue(b, i) >= y
  <2>1. PrevTrue(b, i) = Max(marks)
    BY DEF PrevTrue
  <2>. HIDE DEF marks
  <2>. QED
    BY <1>3, <2>1 DEF Max
<1>. QED
  BY <1>1, <1>4

LEMMA NextTrueIs ==
  ASSUME NEW n \in Nat, NEW b \in [1 .. n -> BOOLEAN], NEW i \in 1 .. n
  PROVE  /\ NextTrue(b, i) \in i + 1 .. n + 1
         /\ NextTrue(b, i) <= n => b[NextTrue(b, i)]
         /\ \A k \in i + 1 .. n : k < NextTrue(b, i) => ~ b[k]
<1>. DEFINE marks == {n + 1} \cup {k \in i + 1 .. n : b[k]}
<1>1. marks \subseteq i + 1 .. n + 1 /\ marks \subseteq Nat /\ marks # {}
  OBVIOUS
<1>2. \E x \in marks : \A y \in marks : x <= y
  <2>. HIDE DEF marks
  <2>. QED
    BY <1>1, SmallestExists
<1>3. NextTrue(b, i) \in marks /\ \A y \in marks : NextTrue(b, i) <= y
  <2>1. NextTrue(b, i) = Min(marks)
    BY LengthOfMarks DEF NextTrue
  <2>. HIDE DEF marks
  <2>. QED
    BY <1>2, <2>1 DEF Min
<1>. QED
  BY <1>1, <1>3

\* What analyze works on: whatever anchors its neighbours has a position.
Works(at) ==
  [at : {at}, pos : [DOMAIN at -> Nat], fix : [DOMAIN at -> BOOLEAN],
   outlier : [DOMAIN at -> BOOLEAN], made : [DOMAIN at -> BOOLEAN], found : BOOLEAN]
Working(at) == {w \in Works(at) : \A i \in DOMAIN at : w.fix[i] => w.pos[i] # 0}

Quiet(w) == [w EXCEPT !.found = FALSE]
Rejected(w, i) == [w EXCEPT !.fix[i] = FALSE, !.outlier[i] = TRUE, !.found = TRUE]
Judged(w, i) == IF Spike(w, i) THEN Rejected(w, i) ELSE w

LEMMA WorkFields ==
  ASSUME NEW at, NEW w \in Works(at)
  PROVE  /\ DOMAIN w = {"at", "pos", "fix", "outlier", "made", "found"}
         /\ w.at = at /\ w.pos \in [DOMAIN at -> Nat] /\ w.fix \in [DOMAIN at -> BOOLEAN]
         /\ w.outlier \in [DOMAIN at -> BOOLEAN] /\ w.made \in [DOMAIN at -> BOOLEAN]
         /\ w.found \in BOOLEAN
BY DEF Works

LEMMA JudgedWorks ==
  ASSUME NEW at, NEW w \in Working(at)
  PROVE  /\ Quiet(w) \in Working(at)
         /\ \A i \in DOMAIN at : Judged(w, i) \in Working(at)
<1>1. w \in Works(at) /\ \A i \in DOMAIN at : w.fix[i] => w.pos[i] # 0
  BY DEF Working
<1>2. Quiet(w) \in Working(at)
  <2>1. Quiet(w) \in Works(at)
    BY <1>1, Zenon DEF Quiet, Works
  <2>2. Quiet(w).fix = w.fix /\ Quiet(w).pos = w.pos
    BY <1>1, WorkFields DEF Quiet
  <2>. QED
    BY <1>1, <2>1, <2>2 DEF Working
<1>3. ASSUME NEW i \in DOMAIN at
      PROVE  Rejected(w, i) \in Working(at)
  <2>1. Rejected(w, i) \in Works(at)
    BY <1>1, Zenon DEF Rejected, Works
  <2>2. Rejected(w, i).fix = [w.fix EXCEPT ![i] = FALSE] /\ Rejected(w, i).pos = w.pos
    BY <1>1, WorkFields DEF Rejected
  <2>3. \A k \in DOMAIN at : Rejected(w, i).fix[k] => w.fix[k]
    BY <1>1, <1>3, <2>2, WorkFields
  <2>. QED
    BY <1>1, <2>1, <2>2, <2>3 DEF Working
<1>. QED
  BY <1>1, <1>2, <1>3 DEF Judged

\* Of what a pass over the clips is one of.
LEMMA DetectSteps ==
  ASSUME NEW at \in Drives, NEW w \in Working(at)
  PROVE  \E judged \in [0 .. Len(at) -> Working(at)] :
           /\ Detect(w) = judged[Len(at)] /\ judged[0] = Quiet(w)
           /\ \A i \in 1 .. Len(at) : judged[i] = Judged(judged[i - 1], i)
<1>. DEFINE N == Len(at)
            D == Working(at)
            F == [i \in 1 .. N |-> [v \in D |-> Judged(v, i)]]
            Solves(g) == g = [i \in 0 .. N |-> IF i = 0 THEN Quiet(w) ELSE Judged(g[i - 1], i)]
<1>1. N \in Nat /\ DOMAIN at = 1 .. N /\ w.at = at
  BY DriveFacts, WorkFields DEF Working
<1>2. Quiet(w) \in D /\ F \in [1 .. N -> [D -> D]]
  <2>1. \A i \in 1 .. N : \A v \in D : Judged(v, i) \in D
    BY <1>1, JudgedWorks
  <2>2. Quiet(w) \in D
    BY JudgedWorks
  <2>. HIDE DEF N, D
  <2>. QED
    BY <2>1, <2>2
<1>3. PICK g \in [0 .. N -> D] : StepByStep(g, N, Quiet(w), F)
  <2>. HIDE DEF N, D, F
  <2>. QED
    BY <1>1, <1>2, StepsExist
<1>4. g[0] = Quiet(w) /\ \A i \in 1 .. N : g[i] = Judged(g[i - 1], i) /\ g[i - 1] \in D
  <2>1. \A i \in 1 .. N : g[i - 1] \in D /\ g[i] = F[i][g[i - 1]]
    <3>. HIDE DEF D, F
    <3>. QED
      BY <1>1, <1>3 DEF StepByStep
  <2>2. \A i \in 1 .. N : \A v \in D : F[i][v] = Judged(v, i)
    <3>. HIDE DEF N, D
    <3>. QED
      OBVIOUS
  <2>3. g[0] = Quiet(w)
    BY <1>3 DEF StepByStep
  <2>. HIDE DEF N, D, F
  <2>. QED
    BY <2>1, <2>2, <2>3
<1>5. Solves(g)
  <2>. HIDE DEF N, D
  <2>. QED
    BY <1>1, <1>3, <1>4
<1>6. PICK judged : Detect(w) = judged[N] /\ Solves(judged)
  <2>1. \E h : Solves(h)
    BY <1>5
  <2>2. Detect(w) = (CHOOSE h : h = [i \in 0 .. Len(w.at) |->
                                       IF i = 0 THEN Quiet(w) ELSE Judged(h[i - 1], i)])[Len(w.at)]
    BY DEF Detect, Quiet, Judged, Rejected
  <2>3. Detect(w) = (CHOOSE h : Solves(h))[N]
    BY <1>1, <2>2
  <2>. HIDE DEF Solves
  <2>. QED
    BY <2>1, <2>3
<1>7. judged[0] = Quiet(w) /\ \A i \in 1 .. N : judged[i] = Judged(judged[i - 1], i)
  <2>1. \A i \in 0 .. N : judged[i] = IF i = 0 THEN Quiet(w) ELSE Judged(judged[i - 1], i)
    <3>. HIDE DEF N
    <3>. QED
      BY <1>6
  <2>. HIDE DEF N
  <2>. QED
    BY <1>1, <2>1
<1>8. \A i \in 0 .. N : judged[i] \in D
  <2>. DEFINE Fails == {i \in 0 .. N : judged[i] \notin D}
  <2>. HIDE DEF N, D
  <2>1. SUFFICES ASSUME Fails # {} PROVE FALSE
    OBVIOUS
  <2>2. Fails \subseteq Nat
    BY <1>1
  <2>3. PICK m \in Fails : \A k \in Fails : m <= k
    BY <2>1, <2>2, SmallestExists
  <2>4. m \in 0 .. N /\ judged[m] \notin D /\ m # 0
    BY <1>2, <1>7, <2>3
  <2>5. m \in 1 .. N /\ m - 1 \in 0 .. N /\ ~ (m <= m - 1)
    BY <1>1, <2>4
  <2>6. judged[m - 1] \in D
    BY <2>3, <2>5
  <2>7. m \in DOMAIN at
    BY <1>1, <2>5
  <2>. QED
    BY <1>7, <2>4, <2>5, <2>6, <2>7, JudgedWorks DEF D
<1>9. judged \in [0 .. N -> D]
  <2>1. judged = [i \in 0 .. N |-> judged[i]]
    <3>. HIDE DEF N
    <3>. QED
      BY <1>6
  <2>. HIDE DEF N, D
  <2>. QED
    BY <1>8, <2>1
<1>. QED
  BY <1>6, <1>7, <1>9

\* A hole that is filled gets a position.
LEMMA FilledHole ==
  ASSUME NEW at \in Drives, NEW w \in Working(at), NEW i \in DOMAIN at, Fillable(w, i)
  PROVE  /\ PrevTrue(w.fix, i) \in DOMAIN at /\ NextTrue(w.fix, i) \in DOMAIN at
         /\ PrevTrue(w.fix, i) < i /\ i < NextTrue(w.fix, i)
         /\ InterpAt(at[PrevTrue(w.fix, i)], at[NextTrue(w.fix, i)],
                     w.pos[PrevTrue(w.fix, i)], w.pos[NextTrue(w.fix, i)], at[i]) \in Nat \ {0}
<1>. DEFINE from == PrevTrue(w.fix, i)
            to == NextTrue(w.fix, i)
            n == Len(at)
<1>1. /\ w.at = at /\ w.pos \in [DOMAIN at -> Nat] /\ w.fix \in [1 .. n -> BOOLEAN]
      /\ \A k \in DOMAIN at : w.fix[k] => w.pos[k] # 0
      /\ n \in Nat /\ i \in 1 .. n /\ DOMAIN at = 1 .. n
  BY WorkFields, DriveFacts DEF Working
<1>2. from > 0 /\ to <= n
  BY <1>1 DEF Fillable, Bracketed
<1>3. /\ from \in 0 .. i - 1 /\ (from > 0 => w.fix[from])
      /\ to \in i + 1 .. n + 1 /\ (to <= n => w.fix[to])
  BY <1>1, PrevTrueIs, NextTrueIs
<1>. HIDE DEF from, to
<1>4. from \in DOMAIN at /\ to \in DOMAIN at /\ from < i /\ i < to
  BY <1>1, <1>2, <1>3
<1>5. w.pos[from] \in Nat \ {0} /\ w.pos[to] \in Nat \ {0}
  BY <1>1, <1>2, <1>3, <1>4
<1>6. /\ at[from] \in Nat /\ at[i] \in Nat /\ at[to] \in Nat
      /\ at[from] <= at[i] /\ at[i] <= at[to]
  <2>1. from <= i /\ i <= to
    BY <1>1, <1>3, <1>4
  <2>. QED
    BY <1>4, <2>1, DriveFacts
<1>. QED
  BY <1>4, <1>5, <1>6, InterpIsBetween DEF from, to

LEMMA InterpolateFields ==
  ASSUME NEW at \in Drives, NEW w \in Working(at)
  PROVE  /\ Interpolate(w) \in Working(at)
         /\ Interpolate(w).pos =
              [i \in DOMAIN at |->
                 IF Fillable(w, i)
                 THEN InterpAt(at[PrevTrue(w.fix, i)], at[NextTrue(w.fix, i)],
                               w.pos[PrevTrue(w.fix, i)], w.pos[NextTrue(w.fix, i)], at[i])
                 ELSE w.pos[i]]
         /\ Interpolate(w).made = [i \in DOMAIN at |-> w.made[i] \/ Fillable(w, i)]
         /\ Interpolate(w).outlier = w.outlier /\ Interpolate(w).found = w.found
<1>. DEFINE Made(i) == InterpAt(at[PrevTrue(w.fix, i)], at[NextTrue(w.fix, i)],
                               w.pos[PrevTrue(w.fix, i)], w.pos[NextTrue(w.fix, i)], at[i])
            pos == [i \in DOMAIN at |-> IF Fillable(w, i) THEN Made(i) ELSE w.pos[i]]
            fix == [i \in DOMAIN at |-> w.fix[i] \/ Fillable(w, i)]
            made == [i \in DOMAIN at |-> w.made[i] \/ Fillable(w, i)]
<1>1. /\ w \in Works(at) /\ w.at = at /\ w.pos \in [DOMAIN at -> Nat]
      /\ w.fix \in [DOMAIN at -> BOOLEAN] /\ w.made \in [DOMAIN at -> BOOLEAN]
      /\ \A k \in DOMAIN at : w.fix[k] => w.pos[k] # 0
      /\ DOMAIN at = 1 .. Len(at)
  BY WorkFields, DriveFacts DEF Working
<1>2. Interpolate(w) = [w EXCEPT !.pos = pos, !.fix = fix, !.made = made]
  BY <1>1 DEF Interpolate
<1>3. \A i \in DOMAIN at : Fillable(w, i) => Made(i) \in Nat \ {0}
  BY FilledHole
<1>. HIDE DEF Made
<1>4. /\ pos \in [DOMAIN at -> Nat]
      /\ \A i \in DOMAIN at : pos[i] = IF Fillable(w, i) THEN Made(i) ELSE w.pos[i]
  BY <1>1, <1>3
<1>5. fix \in [DOMAIN at -> BOOLEAN] /\ made \in [DOMAIN at -> BOOLEAN]
  <2>1. \A i \in DOMAIN at : Fillable(w, i) \in BOOLEAN
    BY DEF Fillable
  <2>. QED
    BY <1>1, <2>1
<1>6. \A i \in DOMAIN at : fix[i] => pos[i] # 0
  BY <1>1, <1>3, <1>4
<1>. HIDE DEF pos, fix, made
<1>7. Interpolate(w) \in Works(at)
  BY <1>1, <1>2, <1>4, <1>5, Zenon DEF Works
<1>8. /\ Interpolate(w).pos = pos /\ Interpolate(w).fix = fix /\ Interpolate(w).made = made
      /\ Interpolate(w).outlier = w.outlier /\ Interpolate(w).found = w.found
  BY <1>1, <1>2, WorkFields
<1>9. Interpolate(w) \in Working(at)
  BY <1>6, <1>7, <1>8 DEF Working
<1>. QED
  BY <1>8, <1>9 DEF pos, made, Made

LEMMA DetectWorks ==
  ASSUME NEW at \in Drives, NEW w \in Working(at)
  PROVE  Detect(w) \in Working(at)
<1>1. PICK judged \in [0 .. Len(at) -> Working(at)] : Detect(w) = judged[Len(at)]
  BY DetectSteps
<1>. QED
  BY <1>1, DriveFacts

\* What a correction starts from, and its rounds.
Started(at, pos) ==
  [at |-> at, pos |-> pos, fix |-> [i \in DOMAIN at |-> pos[i] # 0],
   outlier |-> [i \in DOMAIN at |-> FALSE], made |-> [i \in DOMAIN at |-> FALSE], found |-> TRUE]
Round(w) == IF w.found THEN Interpolate(Detect(w)) ELSE w

LEMMA AnalyzeSteps ==
  ASSUME NEW at \in Drives, NEW pos \in [DOMAIN at -> Nat]
  PROVE  \E after \in [0 .. Len(at) + 1 -> Working(at)] :
           /\ Analyze(at, pos) = after[Len(at) + 1] /\ after[0] = Started(at, pos)
           /\ \A k \in 1 .. Len(at) + 1 : after[k] = Round(after[k - 1])
<1>. DEFINE N == Len(at) + 1
            D == Working(at)
            start == Started(at, pos)
            F == [v \in D |-> Round(v)]
            Solves(g) == g = [k \in 0 .. N |-> IF k = 0 THEN start ELSE Round(g[k - 1])]
<1>1. N \in Nat
  BY DriveFacts
<1>2. start \in D /\ F \in [D -> D] /\ \A v \in D : Round(v) \in D
  <2>1. \A v \in D : Round(v) \in D
    BY DetectWorks, InterpolateFields DEF Round
  <2>2. start \in D
    BY DEF Started, Working, Works
  <2>. HIDE DEF D, start
  <2>. QED
    BY <2>1, <2>2
<1>3. PICK g \in [0 .. N -> D] : Iterates(g, N, start, F)
  <2>. HIDE DEF N, D, F, start
  <2>. QED
    BY <1>1, <1>2, IteratesExist
<1>4. g[0] = start /\ \A k \in 1 .. N : g[k] = Round(g[k - 1])
  <2>1. \A k \in 1 .. N : g[k - 1] \in D /\ g[k] = F[g[k - 1]]
    <3>. HIDE DEF D, F, N
    <3>. QED
      BY <1>1, <1>3 DEF Iterates
  <2>2. g[0] = start
    BY <1>3 DEF Iterates
  <2>. HIDE DEF N, D, start
  <2>. QED
    BY <2>1, <2>2
<1>5. Solves(g)
  <2>. HIDE DEF N, D, start
  <2>. QED
    BY <1>1, <1>3, <1>4
<1>6. PICK after : Analyze(at, pos) = after[N] /\ Solves(after)
  <2>1. \E h : Solves(h)
    BY <1>5
  <2>2. Analyze(at, pos) = (CHOOSE h : Solves(h))[N]
    BY DEF Analyze, Started, Round
  <2>. HIDE DEF Solves
  <2>. QED
    BY <2>1, <2>2
<1>7. after[0] = start /\ \A k \in 1 .. N : after[k] = Round(after[k - 1])
  <2>1. \A k \in 0 .. N : after[k] = IF k = 0 THEN start ELSE Round(after[k - 1])
    <3>. HIDE DEF N, start
    <3>. QED
      BY <1>6
  <2>. HIDE DEF N, start
  <2>. QED
    BY <1>1, <2>1
<1>8. \A k \in 0 .. N : after[k] \in D
  <2>. DEFINE Fails == {k \in 0 .. N : after[k] \notin D}
  <2>. HIDE DEF N, D, start
  <2>1. SUFFICES ASSUME Fails # {} PROVE FALSE
    OBVIOUS
  <2>2. Fails \subseteq Nat
    BY <1>1
  <2>3. PICK m \in Fails : \A k \in Fails : m <= k
    BY <2>1, <2>2, SmallestExists
  <2>4. m \in 0 .. N /\ after[m] \notin D /\ m # 0
    BY <1>2, <1>7, <2>3
  <2>5. m \in 1 .. N /\ m - 1 \in 0 .. N /\ ~ (m <= m - 1)
    BY <1>1, <2>4
  <2>6. after[m - 1] \in D
    BY <2>3, <2>5
  <2>. QED
    BY <1>2, <1>7, <2>4, <2>5, <2>6
<1>9. after \in [0 .. N -> D]
  <2>1. after = [k \in 0 .. N |-> after[k]]
    <3>. HIDE DEF N, start
    <3>. QED
      BY <1>6
  <2>. HIDE DEF N, D
  <2>. QED
    BY <1>8, <2>1
<1>. QED
  BY <1>6, <1>7, <1>9

LEMMA AnalyzeWorks ==
  ASSUME NEW at \in Drives, NEW pos \in [DOMAIN at -> Nat]
  PROVE  Analyze(at, pos) \in Working(at)
<1>1. PICK after \in [0 .. Len(at) + 1 -> Working(at)] : Analyze(at, pos) = after[Len(at) + 1]
  BY AnalyzeSteps
<1>. QED
  BY <1>1, DriveFacts

-----------------------------------------------------------------------------
(* A road that can be driven, corrected                                     *)

Fixes(pos) == [i \in DOMAIN pos |-> pos[i] # 0]
FixBefore(pos, i) == PrevTrue(Fixes(pos), i)
FixAfter(pos, i) == NextTrue(Fixes(pos), i)

\* A clip without a fix between two of one session, and what it is given.
Hole(at, pos, i) ==
  /\ pos[i] = 0 /\ FixBefore(pos, i) > 0 /\ FixAfter(pos, i) <= Len(at)
  /\ at[FixAfter(pos, i)] - at[FixBefore(pos, i)] <= MaxInterpGap
MadeUp(at, pos, i) ==
  InterpAt(at[FixBefore(pos, i)], at[FixAfter(pos, i)],
           pos[FixBefore(pos, i)], pos[FixAfter(pos, i)], at[i])
Filled(at, pos) == [i \in DOMAIN at |-> IF Hole(at, pos, i) THEN MadeUp(at, pos, i) ELSE pos[i]]

LEMMA FixFacts ==
  ASSUME NEW at \in Drives, NEW pos \in [DOMAIN at -> Nat], NEW i \in DOMAIN at
  PROVE  /\ FixBefore(pos, i) \in 0 .. i - 1
         /\ FixBefore(pos, i) > 0 => pos[FixBefore(pos, i)] # 0
         /\ \A k \in 1 .. i - 1 : k > FixBefore(pos, i) => pos[k] = 0
         /\ FixAfter(pos, i) \in i + 1 .. Len(at) + 1
         /\ FixAfter(pos, i) <= Len(at) => pos[FixAfter(pos, i)] # 0
         /\ \A k \in i + 1 .. Len(at) : k < FixAfter(pos, i) => pos[k] = 0
<1>. DEFINE n == Len(at)
            b == Fixes(pos)
            from == FixBefore(pos, i)
            to == FixAfter(pos, i)
<1>1. /\ n \in Nat /\ DOMAIN at = 1 .. n /\ i \in 1 .. n
      /\ b \in [1 .. n -> BOOLEAN] /\ \A k \in 1 .. n : b[k] <=> pos[k] # 0
  BY DriveFacts DEF Fixes
<1>2. /\ from \in 0 .. i - 1 /\ (from > 0 => b[from])
      /\ \A k \in 1 .. i - 1 : k > from => ~ b[k]
      /\ to \in i + 1 .. n + 1 /\ (to <= n => b[to])
      /\ \A k \in i + 1 .. n : k < to => ~ b[k]
  <2>. HIDE DEF b, n
  <2>. QED
    BY <1>1, PrevTrueIs, NextTrueIs DEF FixBefore, FixAfter, b
<1>. HIDE DEF b, n, from, to
<1>3. from > 0 => from \in 1 .. n
  BY <1>1, <1>2
<1>4. to <= n => to \in 1 .. n
  BY <1>1, <1>2
<1>5. \A k \in 1 .. i - 1 : k \in 1 .. n
  BY <1>1
<1>6. \A k \in i + 1 .. n : k \in 1 .. n
  BY <1>1
<1>7. (from > 0 => pos[from] # 0) /\ (to <= n => pos[to] # 0)
  BY <1>1, <1>2, <1>3, <1>4
<1>8. /\ \A k \in 1 .. i - 1 : k > from => pos[k] = 0
      /\ \A k \in i + 1 .. n : k < to => pos[k] = 0
  BY <1>1, <1>2, <1>5, <1>6
<1>. QED
  BY <1>2, <1>7, <1>8 DEF n, from, to

LEMMA Neighbours ==
  ASSUME NEW at \in Drives, NEW pos \in [DOMAIN at -> Nat], NEW i \in DOMAIN at,
         NEW a \in DOMAIN at, NEW c \in DOMAIN at, Adjacent(pos, a, c), a < i, i < c
  PROVE  FixBefore(pos, i) = a /\ FixAfter(pos, i) = c /\ pos[i] = 0
<1>1. /\ Len(at) \in Nat /\ DOMAIN at = 1 .. Len(at)
      /\ a \in 1 .. i - 1 /\ c \in i + 1 .. Len(at) /\ i \in a + 1 .. c - 1
  <2>1. Len(at) \in Nat /\ DOMAIN at = 1 .. Len(at)
    BY DriveFacts
  <2>. QED
    BY <2>1
<1>2. pos[a] # 0 /\ pos[c] # 0 /\ \A k \in a + 1 .. c - 1 : pos[k] = 0
  BY DEF Adjacent
<1>. DEFINE from == FixBefore(pos, i)
            to == FixAfter(pos, i)
<1>3. /\ from \in 0 .. i - 1 /\ (from > 0 => pos[from] # 0)
      /\ \A k \in 1 .. i - 1 : k > from => pos[k] = 0
      /\ to \in i + 1 .. Len(at) + 1 /\ (to <= Len(at) => pos[to] # 0)
      /\ \A k \in i + 1 .. Len(at) : k < to => pos[k] = 0
  BY FixFacts
<1>. HIDE DEF from, to
<1>4. from = a
  <2>1. ~ (a > from)
    BY <1>1, <1>2, <1>3
  <2>2. ~ (from > a)
    <3>1. from > a => from \in a + 1 .. c - 1 /\ from > 0
      BY <1>1, <1>3
    <3>. QED
      BY <1>2, <1>3, <3>1
  <2>. QED
    BY <1>1, <1>3, <2>1, <2>2
<1>5. to = c
  <2>1. ~ (c < to)
    BY <1>1, <1>2, <1>3
  <2>2. ~ (to < c)
    <3>1. to < c => to \in a + 1 .. c - 1 /\ to <= Len(at)
      BY <1>1, <1>3
    <3>. QED
      BY <1>2, <1>3, <3>1
  <2>. QED
    BY <1>1, <1>3, <2>1, <2>2
<1>. QED
  BY <1>1, <1>2, <1>4, <1>5 DEF from, to

LEMMA HoleIsBetween ==
  ASSUME NEW at \in Drives, NEW pos \in [DOMAIN at -> Nat], NEW i \in DOMAIN at,
         pos[i] = 0, FixBefore(pos, i) > 0, FixAfter(pos, i) <= Len(at)
  PROVE  /\ FixBefore(pos, i) \in DOMAIN at /\ FixAfter(pos, i) \in DOMAIN at
         /\ FixBefore(pos, i) < i /\ i < FixAfter(pos, i)
         /\ Adjacent(pos, FixBefore(pos, i), FixAfter(pos, i))
<1>. DEFINE from == FixBefore(pos, i)
            to == FixAfter(pos, i)
            n == Len(at)
<1>1. n \in Nat /\ DOMAIN at = 1 .. n /\ i \in 1 .. n
  BY DriveFacts
<1>2. /\ from \in 0 .. i - 1 /\ pos[from] # 0
      /\ \A k \in 1 .. i - 1 : k > from => pos[k] = 0
      /\ to \in i + 1 .. n + 1 /\ pos[to] # 0
      /\ \A k \in i + 1 .. n : k < to => pos[k] = 0
  BY FixFacts
<1>3. from > 0 /\ to <= n
  OBVIOUS
<1>. HIDE DEF from, to, n
<1>4. from \in 1 .. n /\ to \in 1 .. n /\ from < i /\ i < to
  BY <1>1, <1>2, <1>3
<1>5. \A k \in from + 1 .. to - 1 : pos[k] = 0
  <2>. SUFFICES ASSUME NEW k \in from + 1 .. to - 1
                PROVE  pos[k] = 0
    OBVIOUS
  <2>1. \/ k \in 1 .. i - 1 /\ k > from
        \/ k = i
        \/ k \in i + 1 .. n /\ k < to
    BY <1>1, <1>2, <1>3
  <2>. QED
    BY <1>2, <2>1
<1>6. Adjacent(pos, from, to)
  BY <1>1, <1>2, <1>4, <1>5 DEF Adjacent
<1>. QED
  BY <1>1, <1>4, <1>6 DEF from, to

LEMMA StartedQuiet ==
  ASSUME NEW at \in Drives, NEW pos \in [DOMAIN at -> Nat]
  PROVE  /\ Started(at, pos) \in Working(at) /\ Quiet(Started(at, pos)) \in Working(at)
         /\ Quiet(Started(at, pos)).at = at /\ Quiet(Started(at, pos)).pos = pos
         /\ Quiet(Started(at, pos)).fix = Fixes(pos)
         /\ Quiet(Started(at, pos)).outlier = [i \in DOMAIN at |-> FALSE]
         /\ Quiet(Started(at, pos)).made = [i \in DOMAIN at |-> FALSE]
         /\ ~ Quiet(Started(at, pos)).found
<1>1. Started(at, pos) \in Working(at)
  BY DEF Started, Working, Works
<1>2. Quiet(Started(at, pos)) \in Working(at)
  BY <1>1, JudgedWorks
<1>. QED
  BY <1>1, <1>2 DEF Quiet, Started, Fixes

LEMMA NothingToReject ==
  ASSUME NEW at \in Drives, NEW pos \in [DOMAIN at -> Nat], Drivable(at, pos), NEW i \in DOMAIN at
  PROVE  ~ Spike(Quiet(Started(at, pos)), i)
<1>. DEFINE w == Quiet(Started(at, pos))
            from == FixBefore(pos, i)
<1>1. w.at = at /\ w.pos = pos /\ w.fix = Fixes(pos)
  BY StartedQuiet
<1>. HIDE DEF w
<1>2. SUFFICES ASSUME Spike(w, i)
               PROVE  FALSE
  BY DEF w
<1>3. from > 0 /\ pos[i] # 0 /\ Unreachable(w, from, i)
  <2>1. w.fix[i] /\ PrevTrue(w.fix, i) > 0 /\ Unreachable(w, PrevTrue(w.fix, i), i)
    BY <1>2 DEF Spike, Bracketed
  <2>. QED
    BY <1>1, <2>1 DEF FixBefore, Fixes
<1>4. /\ from \in 0 .. i - 1 /\ pos[from] # 0
      /\ \A k \in 1 .. i - 1 : k > from => pos[k] = 0
      /\ Len(at) \in Nat /\ DOMAIN at = 1 .. Len(at)
  BY <1>3, FixFacts, DriveFacts
<1>. HIDE DEF from
<1>5. from \in DOMAIN at /\ Adjacent(pos, from, i)
  BY <1>3, <1>4 DEF Adjacent
<1>6. Apart(pos[from], pos[i]) <= MaxSpeed * (at[i] - at[from])
  BY <1>5 DEF Drivable
<1>7. Apart(pos[from], pos[i]) > MaxSpeed * (at[i] - at[from])
  BY <1>1, <1>3 DEF Unreachable
<1>8. Apart(pos[from], pos[i]) \in Int /\ MaxSpeed * (at[i] - at[from]) \in Int
  <2>1. at[i] \in Nat /\ at[from] \in Nat /\ MaxSpeed \in Nat /\ pos[from] \in Nat /\ pos[i] \in Nat
    BY <1>5, DriveFacts, RoadConstants
  <2>. QED
    BY <2>1 DEF Apart
<1>. QED
  BY <1>6, <1>7, <1>8

LEMMA NothingDetected ==
  ASSUME NEW at \in Drives, NEW pos \in [DOMAIN at -> Nat], Drivable(at, pos)
  PROVE  Detect(Started(at, pos)) = Quiet(Started(at, pos))
<1>. DEFINE w == Quiet(Started(at, pos))
            n == Len(at)
<1>1. PICK judged \in [0 .. n -> Working(at)] :
        /\ Detect(Started(at, pos)) = judged[n] /\ judged[0] = w
        /\ \A i \in 1 .. n : judged[i] = Judged(judged[i - 1], i)
  <2>1. Started(at, pos) \in Working(at)
    BY StartedQuiet
  <2>. QED
    BY <2>1, DetectSteps
<1>2. n \in Nat /\ DOMAIN at = 1 .. n
  BY DriveFacts
<1>3. \A i \in 1 .. n : Judged(w, i) = w
  BY <1>2, NothingToReject DEF Judged
<1>. HIDE DEF w, n
<1>4. \A i \in 0 .. n : judged[i] = w
  <2>. DEFINE Fails == {i \in 0 .. n : judged[i] # w}
  <2>1. SUFFICES ASSUME Fails # {} PROVE FALSE
    OBVIOUS
  <2>2. Fails \subseteq Nat
    BY <1>2
  <2>3. PICK m \in Fails : \A k \in Fails : m <= k
    BY <2>1, <2>2, SmallestExists
  <2>4. m \in 0 .. n /\ judged[m] # w /\ m # 0
    BY <1>1, <2>3
  <2>5. m \in 1 .. n /\ m - 1 \in 0 .. n /\ ~ (m <= m - 1)
    BY <1>2, <2>4
  <2>6. judged[m - 1] = w
    BY <2>3, <2>5
  <2>. QED
    BY <1>1, <1>3, <2>4, <2>5, <2>6
<1>. QED
  BY <1>1, <1>2, <1>4 DEF w

\* Where every reading is in reach of the one before it, a correction rejects
\* none of them and fills the holes.
LEMMA AnalyzeFills ==
  ASSUME NEW at \in Drives, NEW pos \in [DOMAIN at -> Nat], Drivable(at, pos)
  PROVE  /\ Analyze(at, pos).pos = Filled(at, pos)
         /\ Analyze(at, pos).made = [i \in DOMAIN at |-> Hole(at, pos, i)]
         /\ Analyze(at, pos).outlier = [i \in DOMAIN at |-> FALSE]
<1>. DEFINE start == Started(at, pos)
            w == Quiet(start)
            done == Interpolate(w)
            n == Len(at) + 1
<1>1. PICK after \in [0 .. n -> Working(at)] :
        /\ Analyze(at, pos) = after[n] /\ after[0] = start
        /\ \A k \in 1 .. n : after[k] = Round(after[k - 1])
  BY AnalyzeSteps
<1>2. n \in Nat \ {0} /\ 1 \in 1 .. n /\ DOMAIN at = 1 .. Len(at)
  <2>1. Len(at) \in Nat \ {0} /\ DOMAIN at = 1 .. Len(at)
    BY DriveFacts
  <2>. QED
    BY <2>1
<1>3. Round(start) = done
  BY NothingDetected DEF Round, Started
<1>4. /\ w \in Working(at) /\ w.at = at /\ w.pos = pos /\ w.fix = Fixes(pos)
      /\ w.outlier = [i \in DOMAIN at |-> FALSE] /\ w.made = [i \in DOMAIN at |-> FALSE]
      /\ ~ w.found
  <2>1. w \in Working(at) /\ w.at = at /\ w.pos = pos
    BY StartedQuiet
  <2>2. w.fix = Fixes(pos)
    BY StartedQuiet
  <2>3. w.outlier = [i \in DOMAIN at |-> FALSE]
    BY StartedQuiet
  <2>4. w.made = [i \in DOMAIN at |-> FALSE]
    BY StartedQuiet
  <2>5. ~ w.found
    BY StartedQuiet
  <2>. QED
    BY <2>1, <2>2, <2>3, <2>4, <2>5
<1>5. \A i \in DOMAIN at : Fillable(w, i) <=> Hole(at, pos, i)
  <2>. SUFFICES ASSUME NEW i \in DOMAIN at
                PROVE  Fillable(w, i) <=> Hole(at, pos, i)
    OBVIOUS
  <2>1. Fixes(pos)[i] <=> pos[i] # 0
    BY DEF Fixes
  <2>2. Len(Fixes(pos)) = Len(at)
    BY <1>2, DriveFacts, LengthOfMarks DEF Fixes
  <2>. HIDE DEF w, start
  <2>. QED
    BY <1>4, <2>1, <2>2 DEF Fillable, Bracketed, Hole, FixBefore, FixAfter
<1>. HIDE DEF w, start
<1>6. /\ done.pos = Filled(at, pos)
      /\ done.made = [i \in DOMAIN at |-> Hole(at, pos, i)]
      /\ done.outlier = [i \in DOMAIN at |-> FALSE] /\ ~ done.found
  <2>1. done.outlier = w.outlier /\ done.found = w.found
    BY <1>4, InterpolateFields
  <2>2. done.made = [i \in DOMAIN at |-> w.made[i] \/ Fillable(w, i)]
    BY <1>4, InterpolateFields
  <2>3. done.pos = [i \in DOMAIN at |->
                 IF Fillable(w, i)
                 THEN InterpAt(at[PrevTrue(w.fix, i)], at[NextTrue(w.fix, i)],
                               w.pos[PrevTrue(w.fix, i)], w.pos[NextTrue(w.fix, i)], at[i])
                 ELSE w.pos[i]]
    BY <1>4, InterpolateFields
  <2>4. done.made = [i \in DOMAIN at |-> Hole(at, pos, i)]
    <3>1. \A i \in DOMAIN at : ~ w.made[i]
      BY <1>4
    <3>2. \A i \in DOMAIN at : w.made[i] \/ Fillable(w, i) <=> Hole(at, pos, i)
      BY <1>5, <3>1
    <3>. HIDE DEF done
    <3>. QED
      BY <2>2, <3>2 DEF Fillable, Hole
  <2>5. done.pos = Filled(at, pos)
    <3>. HIDE DEF done
    <3>. QED
      BY <1>4, <1>5, <2>3 DEF Filled, MadeUp, FixBefore, FixAfter
  <2>. HIDE DEF done
  <2>6. done.outlier = [i \in DOMAIN at |-> FALSE]
    BY <1>4, <2>1
  <2>7. ~ done.found
    BY <1>4, <2>1
  <2>. QED
    BY <2>4, <2>5, <2>6, <2>7
<1>. HIDE DEF done, n
<1>7. \A k \in 1 .. n : after[k] = done
  <2>. DEFINE Fails == {k \in 1 .. n : after[k] # done}
  <2>1. SUFFICES ASSUME Fails # {} PROVE FALSE
    OBVIOUS
  <2>2. Fails \subseteq Nat
    BY <1>2
  <2>3. PICK m \in Fails : \A k \in Fails : m <= k
    BY <2>1, <2>2, SmallestExists
  <2>4. m \in 1 .. n /\ after[m] # done /\ m # 1
    BY <1>1, <1>2, <1>3, <2>3
  <2>5. m - 1 \in 1 .. n /\ ~ (m <= m - 1)
    BY <1>2, <2>4
  <2>6. after[m - 1] = done
    BY <2>3, <2>5
  <2>. QED
    BY <1>1, <1>6, <2>4, <2>6 DEF Round
<1>8. Analyze(at, pos) = done
  BY <1>1, <1>2, <1>7
<1>. QED
  BY <1>6, <1>8

\* All of a stretch between two fixes of one session is filled, and is driven at
\* the pace of the stretch.
LEMMA SpanFills ==
  ASSUME NEW at \in Drives, NEW pos \in [DOMAIN at -> Nat],
         NEW a \in DOMAIN at, NEW c \in DOMAIN at, Adjacent(pos, a, c),
         at[c] - at[a] <= MaxInterpGap, NEW i \in DOMAIN at, a < i, i < c
  PROVE  /\ Hole(at, pos, i)
         /\ Filled(at, pos)[i] = InterpAt(at[a], at[c], pos[a], pos[c], at[i])
<1>1. FixBefore(pos, i) = a /\ FixAfter(pos, i) = c /\ pos[i] = 0
  BY Neighbours
<1>2. a > 0 /\ c <= Len(at)
  BY DriveFacts
<1>3. Hole(at, pos, i)
  BY <1>1, <1>2 DEF Hole
<1>. QED
  BY <1>1, <1>3 DEF Filled, MadeUp

LEMMA HoleSpan ==
  ASSUME NEW at \in Drives, NEW pos \in [DOMAIN at -> Nat], NEW i \in DOMAIN at, Hole(at, pos, i)
  PROVE  \E a, c \in DOMAIN at :
           Adjacent(pos, a, c) /\ at[c] - at[a] <= MaxInterpGap /\ a < i /\ i < c
BY HoleIsBetween DEF Hole

LEMMA FilledFacts ==
  ASSUME NEW at \in Drives, NEW pos \in [DOMAIN at -> Nat]
  PROVE  /\ Filled(at, pos) \in [DOMAIN at -> Nat]
         /\ \A i \in DOMAIN at : Hole(at, pos, i) => Filled(at, pos)[i] # 0
         /\ \A i \in DOMAIN at : pos[i] # 0 => Filled(at, pos)[i] = pos[i]
         /\ \A i \in DOMAIN at : ~ Hole(at, pos, i) => Filled(at, pos)[i] = pos[i]
<1>1. ASSUME NEW i \in DOMAIN at, Hole(at, pos, i)
      PROVE  MadeUp(at, pos, i) \in Nat \ {0}
  <2>. DEFINE a == FixBefore(pos, i)
              c == FixAfter(pos, i)
  <2>1. a \in DOMAIN at /\ c \in DOMAIN at /\ a < i /\ i < c /\ Adjacent(pos, a, c)
    BY <1>1, HoleIsBetween DEF Hole
  <2>. HIDE DEF a, c
  <2>2. pos[a] \in Nat \ {0} /\ pos[c] \in Nat \ {0}
    BY <2>1 DEF Adjacent
  <2>3. /\ at[a] \in Nat /\ at[i] \in Nat /\ at[c] \in Nat /\ at[a] <= at[i] /\ at[i] <= at[c]
    <3>1. a \in Nat /\ i \in Nat /\ c \in Nat /\ a <= i /\ i <= c
      BY <2>1, DriveFacts
    <3>. QED
      BY <2>1, <3>1, DriveFacts
  <2>. QED
    BY <2>2, <2>3, InterpIsBetween DEF MadeUp, a, c
<1>2. \A i \in DOMAIN at : Hole(at, pos, i) => pos[i] = 0
  BY DEF Hole
<1>. QED
  BY <1>1, <1>2 DEF Filled

LEMMA SpanPace ==
  ASSUME NEW at \in Drives, NEW pos \in [DOMAIN at -> Nat], Drivable(at, pos),
         NEW a \in DOMAIN at, NEW c \in DOMAIN at, Adjacent(pos, a, c),
         at[c] - at[a] <= MaxInterpGap,
         NEW i \in DOMAIN at, NEW j \in DOMAIN at, a <= i, i < j, j <= c
  PROVE  Apart(Filled(at, pos)[i], Filled(at, pos)[j]) <= MaxSpeed * (at[j] - at[i])
<1>. DEFINE made(t) == InterpAt(at[a], at[c], pos[a], pos[c], t)
<1>1. /\ a \in Nat /\ c \in Nat /\ i \in Nat /\ j \in Nat
      /\ at[a] \in Nat /\ at[c] \in Nat /\ at[i] \in Nat /\ at[j] \in Nat
      /\ pos[a] \in Nat /\ pos[c] \in Nat
  <2>1. DOMAIN at = 1 .. Len(at) /\ Len(at) \in Nat /\ \A k \in DOMAIN at : at[k] \in Nat
    BY DriveFacts
  <2>2. a \in 1 .. Len(at) /\ c \in 1 .. Len(at) /\ i \in 1 .. Len(at) /\ j \in 1 .. Len(at)
    BY <2>1
  <2>. QED
    BY <2>1, <2>2
<1>2. a <= c /\ i <= j
  BY <1>1
<1>3. at[a] <= at[c] /\ at[a] <= at[i] /\ at[i] <= at[j] /\ at[j] <= at[c]
  BY <1>2, DriveFacts
<1>4. Apart(pos[a], pos[c]) <= MaxSpeed * (at[c] - at[a])
  BY DEF Drivable
<1>5. pos[a] # 0 /\ pos[c] # 0
  BY DEF Adjacent
<1>6. Filled(at, pos)[a] = pos[a] /\ Filled(at, pos)[c] = pos[c]
  BY <1>5, FilledFacts
<1>7. made(at[a]) = pos[a] /\ made(at[c]) = pos[c]
  BY <1>1, <1>3, <1>4, InterpEnds
<1>8. ASSUME NEW k \in DOMAIN at, a <= k, k <= c
      PROVE  Filled(at, pos)[k] = made(at[k])
  <2>. HIDE DEF made
  <2>1. CASE k = a
    BY <1>6, <1>7, <2>1
  <2>2. CASE k = c
    BY <1>6, <1>7, <2>2
  <2>3. CASE k # a /\ k # c
    <3>1. k \in Nat
      <4>1. DOMAIN at = 1 .. Len(at) /\ Len(at) \in Nat
        BY DriveFacts
      <4>. QED
        BY <4>1
    <3>2. a < k /\ k < c
      BY <1>1, <1>8, <2>3, <3>1
    <3>. QED
      BY <3>2, SpanFills DEF made
  <2>. QED
    BY <2>1, <2>2, <2>3
<1>9. Filled(at, pos)[i] = made(at[i]) /\ Filled(at, pos)[j] = made(at[j])
  <2>1. i <= c /\ a <= j
    BY <1>1
  <2>. HIDE DEF made
  <2>. QED
    BY <1>8, <2>1
<1>. QED
  BY <1>1, <1>3, <1>4, <1>9, InterpKeepsPace

LEMMA FilledIsDrivable ==
  ASSUME NEW at \in Drives, NEW pos \in [DOMAIN at -> Nat], Drivable(at, pos)
  PROVE  Drivable(at, Filled(at, pos))
<1>. DEFINE new == Filled(at, pos)
<1>0. DOMAIN at = 1 .. Len(at) /\ Len(at) \in Nat
  BY DriveFacts
<1>1. /\ \A i \in DOMAIN at : Hole(at, pos, i) => new[i] # 0
      /\ \A i \in DOMAIN at : pos[i] # 0 => new[i] = pos[i]
      /\ \A i \in DOMAIN at : ~ Hole(at, pos, i) => new[i] = pos[i]
  BY FilledFacts
<1>. HIDE DEF new
<1>2. SUFFICES ASSUME NEW i \in DOMAIN at, NEW j \in DOMAIN at, Adjacent(new, i, j)
               PROVE  Apart(new[i], new[j]) <= MaxSpeed * (at[j] - at[i])
  BY DEF Drivable, new
<1>3. i < j /\ new[i] # 0 /\ new[j] # 0 /\ \A k \in i + 1 .. j - 1 : new[k] = 0
  BY <1>2 DEF Adjacent
<1>4. \A k \in DOMAIN at : i < k /\ k < j => pos[k] = 0
  <2>. SUFFICES ASSUME NEW k \in DOMAIN at, i < k, k < j
                PROVE  pos[k] = 0
    OBVIOUS
  <2>1. k \in i + 1 .. j - 1
    BY <1>0
  <2>. QED
    BY <1>1, <1>3, <2>1
<1>5. CASE pos[i] # 0 /\ pos[j] # 0
  <2>1. \A k \in i + 1 .. j - 1 : pos[k] = 0
    <3>. SUFFICES ASSUME NEW k \in i + 1 .. j - 1
                  PROVE  pos[k] = 0
      OBVIOUS
    <3>1. k \in DOMAIN at /\ i < k /\ k < j
      BY <1>0
    <3>. QED
      BY <1>4, <3>1
  <2>2. Adjacent(pos, i, j)
    BY <1>3, <1>5, <2>1 DEF Adjacent
  <2>. QED
    BY <1>1, <1>5, <2>2 DEF Drivable
<1>6. CASE pos[i] = 0
  <2>1. Hole(at, pos, i)
    BY <1>1, <1>3, <1>6
  <2>2. PICK a \in DOMAIN at, c \in DOMAIN at :
          Adjacent(pos, a, c) /\ at[c] - at[a] <= MaxInterpGap /\ a < i /\ i < c
    BY <2>1, HoleSpan
  <2>3. j <= c
    <3>1. pos[c] # 0
      BY <2>2 DEF Adjacent
    <3>. QED
      BY <1>0, <1>4, <2>2, <3>1
  <2>4. a <= i
    BY <1>0, <2>2
  <2>. QED
    BY <1>3, <2>2, <2>3, <2>4, SpanPace DEF new
<1>7. CASE pos[j] = 0
  <2>1. Hole(at, pos, j)
    BY <1>1, <1>3, <1>7
  <2>2. PICK a \in DOMAIN at, c \in DOMAIN at :
          Adjacent(pos, a, c) /\ at[c] - at[a] <= MaxInterpGap /\ a < j /\ j < c
    BY <2>1, HoleSpan
  <2>3. a <= i
    <3>1. pos[a] # 0
      BY <2>2 DEF Adjacent
    <3>. QED
      BY <1>0, <1>4, <2>2, <3>1
  <2>4. j <= c
    BY <1>0, <2>2
  <2>. QED
    BY <1>3, <2>2, <2>3, <2>4, SpanPace DEF new
<1>. QED
  BY <1>5, <1>6, <1>7

\* A second correction finds nothing more to fill.
LEMMA FilledIsFull ==
  ASSUME NEW at \in Drives, NEW pos \in [DOMAIN at -> Nat]
  PROVE  Filled(at, Filled(at, pos)) = Filled(at, pos)
<1>. DEFINE new == Filled(at, pos)
<1>0. DOMAIN at = 1 .. Len(at) /\ Len(at) \in Nat
  BY DriveFacts
<1>1. /\ new \in [DOMAIN at -> Nat]
      /\ \A i \in DOMAIN at : Hole(at, pos, i) => new[i] # 0
      /\ \A i \in DOMAIN at : pos[i] # 0 => new[i] = pos[i]
      /\ \A i \in DOMAIN at : ~ Hole(at, pos, i) => new[i] = pos[i]
  BY FilledFacts
<1>. HIDE DEF new
<1>2. ASSUME NEW k \in DOMAIN at, Hole(at, new, k)
      PROVE  FALSE
  <2>1. PICK from \in DOMAIN at, to \in DOMAIN at :
          Adjacent(new, from, to) /\ at[to] - at[from] <= MaxInterpGap /\ from < k /\ k < to
    BY <1>1, <1>2, HoleSpan
  <2>2. /\ new[from] # 0 /\ new[to] # 0
        /\ \A i \in DOMAIN at : from < i /\ i < to => new[i] = 0
    <3>1. \A i \in DOMAIN at : from < i /\ i < to => i \in from + 1 .. to - 1
      BY <1>0
    <3>. QED
      BY <2>1, <3>1 DEF Adjacent
  <2>3. new[k] = 0 /\ ~ Hole(at, pos, k)
    BY <1>1, <2>1, <2>2
  <2>4. pos[from] # 0
    <3>. SUFFICES ASSUME pos[from] = 0
                  PROVE  FALSE
      OBVIOUS
    <3>1. Hole(at, pos, from)
      BY <1>1, <2>2
    <3>2. PICK a \in DOMAIN at, c \in DOMAIN at :
            Adjacent(pos, a, c) /\ at[c] - at[a] <= MaxInterpGap /\ a < from /\ from < c
      BY <3>1, HoleSpan
    <3>3. new[c] # 0
      BY <1>1, <3>2 DEF Adjacent
    <3>4. ~ (c < to)
      BY <2>2, <3>2, <3>3
    <3>5. a < k /\ k < c
      BY <1>0, <2>1, <3>2, <3>4
    <3>. QED
      BY <2>3, <3>2, <3>5, SpanFills
  <2>5. pos[to] # 0
    <3>. SUFFICES ASSUME pos[to] = 0
                  PROVE  FALSE
      OBVIOUS
    <3>1. Hole(at, pos, to)
      BY <1>1, <2>2
    <3>2. PICK a \in DOMAIN at, c \in DOMAIN at :
            Adjacent(pos, a, c) /\ at[c] - at[a] <= MaxInterpGap /\ a < to /\ to < c
      BY <3>1, HoleSpan
    <3>3. new[a] # 0
      BY <1>1, <3>2 DEF Adjacent
    <3>4. ~ (from < a)
      BY <2>2, <3>2, <3>3
    <3>5. a < k /\ k < c
      BY <1>0, <2>1, <3>2, <3>4
    <3>. QED
      BY <2>3, <3>2, <3>5, SpanFills
  <2>6. Adjacent(pos, from, to)
    <3>1. \A i \in from + 1 .. to - 1 : i \in DOMAIN at /\ from < i /\ i < to
      BY <1>0
    <3>2. \A i \in from + 1 .. to - 1 : new[i] = 0 /\ (pos[i] # 0 => new[i] = pos[i])
      BY <1>1, <2>2, <3>1
    <3>3. \A i \in from + 1 .. to - 1 : pos[i] = 0
      BY <3>2
    <3>4. from < to
      BY <1>0, <2>1
    <3>. QED
      BY <2>4, <2>5, <3>3, <3>4 DEF Adjacent
  <2>. QED
    BY <2>1, <2>3, <2>6, SpanFills
<1>3. Filled(at, new) = [i \in DOMAIN at |-> new[i]]
  BY <1>2 DEF Filled
<1>. QED
  BY <1>1, <1>3 DEF new

-----------------------------------------------------------------------------
(* What is decided, and what follows from it                                *)

Verdict == [source : {"interpolated", "missing", "keep"}, place : Nat]

LEMMA DecisionsAreTyped ==
  ASSUME NEW at \in Drives, NEW pos \in [DOMAIN at -> Nat], NEW w \in Working(at)
  PROVE  Decisions(w, pos) \in [DOMAIN at -> Verdict]
<1>1. w.pos \in [DOMAIN at -> Nat]
  BY WorkFields DEF Working
<1>. QED
  BY <1>1 DEF Decisions, Verdict

\* Where the readings make a road that can be driven, holes are all there is to fill.
FilledIn(at, pos) ==
  [i \in DOMAIN at |->
     IF Hole(at, pos, i) THEN [source |-> "interpolated", place |-> MadeUp(at, pos, i)]
     ELSE IF pos[i] = 0 THEN [source |-> "missing", place |-> 0]
     ELSE [source |-> "keep", place |-> pos[i]]]

LEMMA DrivableDecisions ==
  ASSUME NEW at \in Drives, NEW pos \in [DOMAIN at -> Nat], Drivable(at, pos)
  PROVE  Decisions(Analyze(at, pos), pos) = FilledIn(at, pos)
<1>. DEFINE w == Analyze(at, pos)
<1>1. /\ w.pos = Filled(at, pos) /\ w.made = [i \in DOMAIN at |-> Hole(at, pos, i)]
      /\ w.outlier = [i \in DOMAIN at |-> FALSE]
  BY AnalyzeFills
<1>2. \A i \in DOMAIN at : Hole(at, pos, i) => Filled(at, pos)[i] = MadeUp(at, pos, i)
  BY DEF Filled
<1>. HIDE DEF w
<1>3. Decisions(w, pos) = FilledIn(at, pos)
  BY <1>1, <1>2 DEF Decisions, FilledIn
<1>. QED
  BY <1>3 DEF w

\* What Corrected(d) leaves of positions.
Redone(d, pos) ==
  [i \in DOMAIN pos |-> IF d[i].source = "interpolated" THEN d[i].place ELSE pos[i]]

LEMMA RedoneIsFilled ==
  ASSUME NEW at \in Drives, NEW pos \in [DOMAIN at -> Nat],
         NEW cur \in {pos, Filled(at, pos)}
  PROVE  Redone(FilledIn(at, pos), cur) = Filled(at, pos)
<1>1. /\ DOMAIN cur = DOMAIN at
      /\ \A i \in DOMAIN at : ~ Hole(at, pos, i) => cur[i] = pos[i]
  BY DEF Filled
<1>2. \A i \in DOMAIN at :
        /\ Hole(at, pos, i) => /\ FilledIn(at, pos)[i].source = "interpolated"
                               /\ FilledIn(at, pos)[i].place = MadeUp(at, pos, i)
        /\ ~ Hole(at, pos, i) => FilledIn(at, pos)[i].source # "interpolated"
  BY DEF FilledIn
<1>. QED
  BY <1>1, <1>2 DEF Redone, Filled

LEMMA RedoneIsTyped ==
  ASSUME NEW S, NEW d \in [S -> Verdict], NEW pos \in [S -> Nat]
  PROVE  Redone(d, pos) \in [S -> Nat]
BY DEF Redone, Verdict

-----------------------------------------------------------------------------
(* The invariant                                                            *)

RoadTyped ==
  /\ filmed \in Drives
  /\ place \in [RoadClips -> Nat] /\ read \in [RoadClips -> Nat]
  /\ script = <<>> \/ script \in [RoadClips -> Verdict]

\* A script printed and not yet run was printed for a road that could be driven,
\* which the database still holds, or holds with its holes filled.
ScriptIsTrue ==
  script # <<>> =>
    \E pos \in [RoadClips -> Nat] :
      /\ Drivable(filmed, pos) /\ script = FilledIn(filmed, pos)
      /\ place \in {pos, Filled(filmed, pos)}

SoundRoad == sound => Drivable(filmed, place) /\ ScriptIsTrue

RoadInv == RoadTyped /\ SoundRoad /\ DrivableRoadStays

LEMMA RoadInitInv == RoadInit => RoadInv
<1>. SUFFICES ASSUME RoadInit
              PROVE  RoadInv
  OBVIOUS
<1>1. place \in [RoadClips -> Nat]
  BY RoadConstants DEF RoadInit, RoadClips
<1>. QED
  BY <1>1 DEF RoadInit, RoadInv, RoadTyped, SoundRoad, ScriptIsTrue, DrivableRoadStays, RoadClips

\* What fills the holes of a road that can be driven keeps every reading.
LEMMA FilledKeeps ==
  ASSUME RoadTyped, DrivableRoadStays, sound, NEW pos \in [RoadClips -> Nat],
         place \in {pos, Filled(filmed, pos)}, UNCHANGED <<filmed, read, sound>>,
         place' = Filled(filmed, pos)
  PROVE  DrivableRoadStays'
<1>1. \A i \in RoadClips : read[i] # 0 => place[i] = read[i]
  BY DEF DrivableRoadStays
<1>2. CASE place = pos
  <2>1. \A i \in RoadClips : pos[i] # 0 => Filled(filmed, pos)[i] = pos[i]
    BY FilledFacts DEF RoadTyped, RoadClips
  <2>2. \A i \in RoadClips : read[i] # 0 => Filled(filmed, pos)[i] = read[i]
    BY <1>1, <1>2, <2>1
  <2>. QED
    BY <2>2 DEF DrivableRoadStays, RoadClips
<1>3. CASE place = Filled(filmed, pos)
  BY <1>1, <1>3 DEF DrivableRoadStays, RoadClips
<1>. QED
  BY <1>2, <1>3

LEMMA RoadNextInv == RoadInv /\ [RoadNext]_roadVars => RoadInv'
<1>. SUFFICES ASSUME RoadInv, [RoadNext]_roadVars
              PROVE  RoadInv'
  OBVIOUS
<1>. USE DEF RoadInv
<1>0. DOMAIN filmed = RoadClips /\ DOMAIN place = RoadClips /\ filmed \in Drives
  BY DEF RoadTyped, RoadClips
<1>1. CASE ApplyCoords
  <2>. DEFINE w == Analyze(filmed, place)
              d == Decisions(w, place)
  <2>1. /\ place' = Redone(d, place)
        /\ filmed' = filmed /\ read' = read /\ sound' = sound /\ script' = script
    BY <1>0, <1>1 DEF ApplyCoords, Corrected, Redone
  <2>2. d \in [RoadClips -> Verdict]
    <3>1. place \in [DOMAIN filmed -> Nat]
      BY DEF RoadTyped, RoadClips
    <3>2. w \in Working(filmed)
      BY <1>0, <3>1, AnalyzeWorks
    <3>. QED
      BY <1>0, <3>1, <3>2, DecisionsAreTyped
  <2>3. RoadTyped'
    <3>1. place' \in [RoadClips -> Nat]
      <4>. HIDE DEF d
      <4>. QED
        BY <2>1, <2>2, RedoneIsTyped DEF RoadTyped
    <3>. QED
      BY <2>1, <3>1 DEF RoadTyped, RoadClips
  <2>4. ASSUME sound
        PROVE  place' = Filled(filmed, place) /\ Drivable(filmed, place')
    <3>1. place \in [DOMAIN filmed -> Nat] /\ Drivable(filmed, place)
      BY <2>4 DEF RoadTyped, RoadClips, SoundRoad
    <3>2. d = FilledIn(filmed, place)
      BY <1>0, <3>1, DrivableDecisions
    <3>3. place' = Filled(filmed, place)
      BY <1>0, <2>1, <3>1, <3>2, RedoneIsFilled
    <3>. QED
      BY <1>0, <3>1, <3>3, FilledIsDrivable
  <2>5. DrivableRoadStays'
    <3>1. CASE sound
      BY <2>1, <2>4, <3>1, FilledKeeps DEF RoadTyped
    <3>2. CASE ~sound
      BY <2>1, <3>2 DEF DrivableRoadStays
    <3>. QED
      BY <3>1, <3>2
  <2>6. SoundRoad'
    <3>. SUFFICES ASSUME sound, script # <<>>
                  PROVE  ScriptIsTrue'
      BY <2>1, <2>4 DEF SoundRoad, ScriptIsTrue
    <3>1. PICK pos \in [RoadClips -> Nat] :
            /\ Drivable(filmed, pos) /\ script = FilledIn(filmed, pos)
            /\ place \in {pos, Filled(filmed, pos)}
      BY DEF SoundRoad, ScriptIsTrue
    <3>2. Filled(filmed, place) = Filled(filmed, pos)
      BY <1>0, <3>1, FilledIsFull
    <3>. QED
      BY <2>1, <2>4, <3>1, <3>2 DEF ScriptIsTrue, RoadClips
  <2>. QED
    BY <2>3, <2>5, <2>6
<1>2. CASE PrintCoords
  <2>. DEFINE d == Decisions(Analyze(filmed, place), place)
  <2>1. /\ script' = d
        /\ filmed' = filmed /\ read' = read /\ sound' = sound /\ place' = place
    BY <1>2 DEF PrintCoords
  <2>2. d \in [RoadClips -> Verdict]
    <3>1. place \in [DOMAIN filmed -> Nat]
      BY DEF RoadTyped, RoadClips
    <3>2. Analyze(filmed, place) \in Working(filmed)
      BY <1>0, <3>1, AnalyzeWorks
    <3>. QED
      BY <1>0, <3>1, <3>2, DecisionsAreTyped
  <2>3. sound => d = FilledIn(filmed, place)
    BY <1>0, DrivableDecisions DEF SoundRoad, RoadTyped
  <2>. HIDE DEF d
  <2>4. RoadTyped'
    BY <2>1, <2>2 DEF RoadTyped, RoadClips
  <2>5. SoundRoad'
    <3>. SUFFICES ASSUME sound
                  PROVE  Drivable(filmed, place)' /\ ScriptIsTrue'
      BY <2>1 DEF SoundRoad
    <3>1. Drivable(filmed, place) /\ script' = FilledIn(filmed, place) /\ place \in [RoadClips -> Nat]
      BY <2>1, <2>3 DEF SoundRoad, RoadTyped
    <3>. QED
      BY <2>1, <3>1 DEF ScriptIsTrue, RoadClips
  <2>6. DrivableRoadStays'
    BY <2>1 DEF DrivableRoadStays, RoadClips
  <2>. QED
    BY <2>4, <2>5, <2>6
<1>3. CASE RunScript
  <2>1. /\ script # <<>> /\ script' = <<>> /\ place' = Redone(script, place)
        /\ filmed' = filmed /\ read' = read /\ sound' = sound
    BY <1>0, <1>3 DEF RunScript, Corrected, Redone
  <2>2. RoadTyped'
    <3>1. place' \in [RoadClips -> Nat]
      BY <2>1, RedoneIsTyped DEF RoadTyped
    <3>. QED
      BY <2>1, <3>1 DEF RoadTyped, RoadClips
  <2>3. CASE ~sound
    BY <2>1, <2>2, <2>3 DEF SoundRoad, DrivableRoadStays
  <2>4. CASE sound
    <3>1. PICK pos \in [RoadClips -> Nat] :
            /\ Drivable(filmed, pos) /\ script = FilledIn(filmed, pos)
            /\ place \in {pos, Filled(filmed, pos)}
      BY <2>1, <2>4 DEF SoundRoad, ScriptIsTrue
    <3>2. place' = Filled(filmed, pos)
      BY <1>0, <2>1, <3>1, RedoneIsFilled
    <3>3. Drivable(filmed, place')
      BY <1>0, <3>1, <3>2, FilledIsDrivable
    <3>4. DrivableRoadStays'
      BY <2>1, <2>4, <3>1, <3>2, FilledKeeps
    <3>. QED
      BY <2>1, <2>2, <3>3, <3>4 DEF SoundRoad, ScriptIsTrue
  <2>. QED
    BY <2>3, <2>4
<1>4. CASE ApplyMiles
  BY <1>4 DEF ApplyMiles, RoadTyped, SoundRoad, ScriptIsTrue, DrivableRoadStays, RoadClips
<1>5. ASSUME NEW i \in RoadClips, Recoded(i)
      PROVE  RoadInv'
  <2>1. PICK p \in Places \ {0} :
          place' = [place EXCEPT ![i] = p] /\ read' = [read EXCEPT ![i] = p]
    BY <1>5 DEF Recoded
  <2>2. /\ filmed' = filmed /\ script' = script
        /\ sound' = (sound /\ script = <<>> /\ Drivable(filmed, place'))
    BY <1>5 DEF Recoded
  <2>3. p \in Nat
    BY <2>1, RoadConstants
  <2>4. RoadTyped'
    BY <2>1, <2>2, <2>3 DEF RoadTyped, RoadClips
  <2>5. SoundRoad'
    BY <2>2 DEF SoundRoad, ScriptIsTrue
  <2>6. DrivableRoadStays'
    <3>. SUFFICES ASSUME sound'
                  PROVE  \A k \in RoadClips : read'[k] # 0 => place'[k] = read'[k]
      BY <2>2 DEF DrivableRoadStays, RoadClips
    <3>. QED
      BY <2>1, <2>2 DEF DrivableRoadStays, RoadTyped
  <2>. QED
    BY <2>4, <2>5, <2>6
<1>6. CASE UNCHANGED roadVars
  BY <1>6 DEF roadVars, RoadTyped, SoundRoad, ScriptIsTrue, DrivableRoadStays, RoadClips
<1>. QED
  BY <1>1, <1>2, <1>3, <1>4, <1>5, <1>6 DEF RoadNext

-----------------------------------------------------------------------------
(* Distances                                                                *)

\* What is credited to a clip can be driven by the time of a later one, and
\* nothing is credited to the clips between them.
CreditsReach ==
  \A i \in RoadClips :
    \/ driven[i] = NoMiles
    \/ /\ driven[i] \in Nat
       /\ \E n \in RoadClips :
            /\ i < n /\ driven[i] <= MaxSpeed * (filmed[n] - filmed[i])
            /\ \A j \in i + 1 .. n - 1 : driven[j] = NoMiles

LEMMA DrivenReaches ==
  ASSUME RoadTyped, NEW i \in RoadClips, Driven(i) # NoMiles
  PROVE  /\ Driven(i) \in Nat
         /\ \E n \in RoadClips :
              /\ i < n /\ Driven(i) <= MaxSpeed * (filmed[n] - filmed[i])
              /\ \A j \in i + 1 .. n - 1 : Driven(j) = NoMiles
<1>. DEFINE later == {j \in RoadClips : j > i /\ Usable(j)}
            n == NextFix(i)
            gap == filmed[n] - filmed[i]
            miles == Apart(place[i], place[n])
<1>1. later # {} /\ Driven(i) = IF gap <= 0 \/ gap > MaxGap \/ miles > MaxSpeed * gap THEN NoMiles ELSE miles
  BY DEF Driven
<1>2. later \subseteq Nat /\ RoadClips = 1 .. Len(filmed) /\ Len(filmed) \in Nat
  BY DriveFacts DEF RoadClips, RoadTyped
<1>3. n \in later /\ \A j \in later : n <= j
  <2>1. \E x \in later : \A y \in later : x <= y
    <3>. HIDE DEF later
    <3>. QED
      BY <1>1, <1>2, SmallestExists
  <2>2. n = Min(later)
    BY DEF NextFix
  <2>. HIDE DEF later, n
  <2>. QED
    BY <2>1, <2>2 DEF Min
<1>4. n \in RoadClips /\ i < n
  <2>1. n \in RoadClips /\ n > i
    BY <1>3
  <2>. HIDE DEF n
  <2>. QED
    BY <1>2, <2>1
<1>5. \A j \in i + 1 .. n - 1 : Driven(j) = NoMiles
  <2>. SUFFICES ASSUME NEW j \in i + 1 .. n - 1
                PROVE  Driven(j) = NoMiles
    OBVIOUS
  <2>. HIDE DEF n
  <2>1. j \in RoadClips /\ j > i /\ ~ (n <= j)
    BY <1>2, <1>4
  <2>2. ~ Usable(j)
    BY <1>3, <2>1
  <2>. QED
    BY <2>2 DEF Driven
<1>6. miles \in Nat
  <2>1. place[i] \in Nat /\ place[n] \in Nat
    BY <1>4 DEF RoadTyped
  <2>. QED
    BY <2>1 DEF Apart
<1>7. ~ (miles > MaxSpeed * gap) /\ Driven(i) = miles
  BY <1>1
<1>8. MaxSpeed * gap \in Int
  <2>1. filmed[n] \in Nat /\ filmed[i] \in Nat
    <3>. HIDE DEF n
    <3>. QED
      BY <1>4, DriveFacts DEF RoadTyped, RoadClips
  <2>2. MaxSpeed \in Nat
    BY RoadConstants
  <2>. QED
    BY <2>1, <2>2
<1>9. miles <= MaxSpeed * gap
  <2>. HIDE DEF miles, gap
  <2>. QED
    BY <1>6, <1>7, <1>8
<1>. QED
  BY <1>4, <1>5, <1>6, <1>7, <1>9

LEMMA CreditsInit == RoadInit => CreditsReach
BY DEF RoadInit, CreditsReach, RoadClips

LEMMA CreditsNext == RoadInv /\ CreditsReach /\ [RoadNext]_roadVars => CreditsReach'
<1>. SUFFICES ASSUME RoadInv, CreditsReach, [RoadNext]_roadVars
              PROVE  CreditsReach'
  OBVIOUS
<1>1. CASE ApplyMiles
  <2>1. driven' = [i \in RoadClips |-> Driven(i)] /\ filmed' = filmed
    BY <1>1 DEF ApplyMiles
  <2>2. \A i \in RoadClips : driven'[i] = Driven(i)
    BY <2>1
  <2>3. \A i \in RoadClips : \A n \in RoadClips : \A j \in i + 1 .. n - 1 : j \in RoadClips
    BY DriveFacts DEF RoadInv, RoadTyped, RoadClips
  <2>4. ASSUME NEW i \in RoadClips, Driven(i) # NoMiles
        PROVE  /\ driven'[i] \in Nat
               /\ \E n \in RoadClips :
                    /\ i < n /\ driven'[i] <= MaxSpeed * (filmed[n] - filmed[i])
                    /\ \A j \in i + 1 .. n - 1 : driven'[j] = NoMiles
    <3>1. PICK n \in RoadClips :
            /\ i < n /\ Driven(i) <= MaxSpeed * (filmed[n] - filmed[i])
            /\ \A j \in i + 1 .. n - 1 : Driven(j) = NoMiles
      BY <2>4, DrivenReaches DEF RoadInv
    <3>2. \A j \in i + 1 .. n - 1 : driven'[j] = NoMiles
      BY <2>2, <2>3, <3>1
    <3>3. Driven(i) \in Nat
      BY <2>4, DrivenReaches DEF RoadInv
    <3>. QED
      BY <2>2, <3>1, <3>2, <3>3
  <2>. QED
    BY <2>1, <2>2, <2>4 DEF CreditsReach, RoadClips
<1>2. CASE ~ApplyMiles
  <2>1. driven' = driven /\ filmed' = filmed
    BY <1>2 DEF RoadNext, ApplyCoords, PrintCoords, RunScript, Recoded, roadVars
  <2>. QED
    BY <2>1 DEF CreditsReach, RoadClips
<1>. QED
  BY <1>1, <1>2

\* What is credited is the distance, where there is one.
LEMMA CreditIs ==
  ASSUME NEW v \in Nat \cup {NoMiles}
  PROVE  Max({0, v}) = IF v = NoMiles THEN 0 ELSE v
<1>1. \E x \in {0, v} : \A y \in {0, v} : x >= y
  BY DEF NoMiles
<1>2. Max({0, v}) \in {0, v} /\ \A y \in {0, v} : Max({0, v}) >= y
  BY <1>1 DEF Max
<1>. QED
  BY <1>2 DEF NoMiles

\* From a clip on, no more is credited than can be driven from there, or from
\* the next clip that is credited anything.
LEMMA CreditsFit ==
  ASSUME RoadTyped, CreditsReach
  PROVE  MilesFitTheFilm
<1>. DEFINE n == Len(filmed)
            f == Credited
            rest(m) == SumOver(f, m .. n)
            InReach(m) == \A u \in m .. n :
                         (\A j \in m .. u - 1 : f[j] = 0)
                           => rest(m) <= MaxSpeed * (filmed[n] - filmed[u])
            Fails == {m \in 1 .. n : ~ InReach(m)}
<1>1. /\ n \in Nat \ {0} /\ RoadClips = 1 .. n /\ MaxSpeed \in Nat
      /\ \A i \in 1 .. n : filmed[i] \in Nat
      /\ \A i, j \in 1 .. n : i <= j => filmed[i] <= filmed[j]
  BY DriveFacts, RoadConstants DEF RoadTyped, RoadClips
<1>2. \A i \in 1 .. n :
        /\ f[i] \in Nat
        /\ \/ f[i] = 0
           \/ \E k \in 1 .. n : /\ i < k /\ f[i] <= MaxSpeed * (filmed[k] - filmed[i])
                                /\ \A j \in i + 1 .. k - 1 : f[j] = 0
  <2>. SUFFICES ASSUME NEW i \in 1 .. n
                PROVE  /\ f[i] \in Nat
                       /\ \/ f[i] = 0
                          \/ \E k \in 1 .. n : /\ i < k /\ f[i] <= MaxSpeed * (filmed[k] - filmed[i])
                                               /\ \A j \in i + 1 .. k - 1 : f[j] = 0
    OBVIOUS
  <2>1. \A j \in 1 .. n : driven[j] \in Nat \cup {NoMiles}
    BY <1>1 DEF CreditsReach
  <2>2. \A j \in 1 .. n : f[j] = IF driven[j] = NoMiles THEN 0 ELSE driven[j]
    <3>1. \A j \in 1 .. n : f[j] = Max({0, driven[j]})
      BY <1>1 DEF Credited
    <3>. HIDE DEF f
    <3>. QED
      BY <2>1, <3>1, CreditIs
  <2>. HIDE DEF f, n
  <2>3. CASE driven[i] = NoMiles
    BY <2>2, <2>3
  <2>4. CASE driven[i] # NoMiles
    <3>1. PICK k \in 1 .. n : /\ i < k /\ driven[i] <= MaxSpeed * (filmed[k] - filmed[i])
                              /\ \A j \in i + 1 .. k - 1 : driven[j] = NoMiles
      BY <1>1, <2>4 DEF CreditsReach
    <3>2. \A j \in i + 1 .. k - 1 : j \in 1 .. n
      BY <1>1
    <3>. QED
      BY <2>1, <2>2, <2>4, <3>1, <3>2
  <2>. QED
    BY <2>3, <2>4
<1>. HIDE DEF n, f
<1>3. \A m \in 1 .. n + 1 : rest(m) \in Int /\ rest(n + 1) = 0
  <2>1. ASSUME NEW m \in 1 .. n + 1
        PROVE  rest(m) \in Int
    <3>1. IsFiniteSet(m .. n)
      BY <1>1, FS_Interval
    <3>2. Integral(f, m .. n)
      BY <1>1, <1>2 DEF Integral
    <3>. QED
      BY <3>1, <3>2, SumIsInteger
  <2>2. n + 1 .. n = {}
    BY <1>1
  <2>. QED
    BY <2>1, <2>2, SumOfNothing
<1>4. \A m \in 1 .. n : rest(m) = f[m] + rest(m + 1)
  <2>. SUFFICES ASSUME NEW m \in 1 .. n
                PROVE  SumOver(f, m .. n) = f[m] + SumOver(f, m + 1 .. n)
    OBVIOUS
  <2>1. m .. n = (m + 1 .. n) \cup {m} /\ m \notin m + 1 .. n
    BY <1>1
  <2>2. IsFiniteSet(m + 1 .. n)
    BY <1>1, FS_Interval
  <2>3. Integral(f, (m + 1 .. n) \cup {m})
    BY <1>1, <1>2, <2>1 DEF Integral
  <2>. QED
    BY <2>1, <2>2, <2>3, SumWithOneMore
<1>. HIDE DEF rest
<1>5. Fails = {}
  <2>1. SUFFICES ASSUME Fails # {}
                 PROVE  FALSE
    OBVIOUS
  <2>2. Fails \subseteq Nat /\ IsFiniteSet(Fails)
    <3>1. IsFiniteSet(1 .. n)
      BY <1>1, FS_Interval
    <3>2. Fails \in SUBSET (1 .. n) /\ 1 .. n \subseteq Nat
      OBVIOUS
    <3>. HIDE DEF Fails
    <3>3. IsFiniteSet(Fails)
      BY <3>1, <3>2, FS_Subset
    <3>. QED
      BY <3>2, <3>3
  <2>3. PICK m \in Fails : \A y \in Fails : y <= m
    <3>. HIDE DEF Fails
    <3>. QED
      BY <2>1, <2>2, LargestExists
  <2>4. m \in 1 .. n /\ ~ InReach(m)
    BY <2>3
  <2>5. m + 1 \in 1 .. n => InReach(m + 1)
    <3>1. m + 1 \notin Fails
      <4>. HIDE DEF Fails
      <4>1. ~ (m + 1 <= m)
        BY <1>1, <2>4
      <4>. QED
        BY <2>3, <4>1
    <3>. QED
      BY <3>1
  <2>6. PICK u \in m .. n : /\ \A j \in m .. u - 1 : f[j] = 0
                            /\ ~ (rest(m) <= MaxSpeed * (filmed[n] - filmed[u]))
    BY <2>4
  <2>. HIDE DEF Fails
  <2>7. /\ m \in Nat /\ u \in 1 .. n /\ n \in 1 .. n /\ f[m] \in Nat /\ rest(m) = f[m] + rest(m + 1)
        /\ rest(m + 1) \in Int /\ rest(m) \in Int
    BY <1>1, <1>2, <1>3, <1>4, <2>4, <2>6
  <2>8. \A k \in 1 .. n : MaxSpeed * (filmed[n] - filmed[k]) \in Nat
    <3>. SUFFICES ASSUME NEW k \in 1 .. n
                  PROVE  MaxSpeed * (filmed[n] - filmed[k]) \in Nat
      OBVIOUS
    <3>1. filmed[n] - filmed[k] \in Nat
      BY <1>1, <2>7
    <3>. QED
      BY <1>1, <3>1
  <2>9. CASE m = n
    <3>1. f[m] = 0
      BY <1>1, <1>2, <2>7, <2>9
    <3>2. rest(m) = 0
      BY <1>3, <2>4, <2>7, <2>9, <3>1
    <3>. QED
      BY <2>6, <2>7, <2>8, <3>2
  <2>10. CASE m # n /\ u # m
    <3>1. m + 1 \in 1 .. n /\ u \in m + 1 .. n /\ m \in m .. u - 1
      BY <1>1, <2>4, <2>6, <2>7, <2>10
    <3>2. f[m] = 0 /\ rest(m) = rest(m + 1)
      BY <2>6, <2>7, <3>1
    <3>3. \A j \in m + 1 .. u - 1 : f[j] = 0
      BY <2>6, <2>7
    <3>4. rest(m + 1) <= MaxSpeed * (filmed[n] - filmed[u])
      BY <2>5, <3>1, <3>3
    <3>. QED
      BY <2>6, <3>2, <3>4
  <2>11. CASE m # n /\ u = m /\ f[m] = 0
    <3>1. m + 1 \in 1 .. n /\ m + 1 \in m + 1 .. n
      BY <1>1, <2>4, <2>11
    <3>2. \A j \in m + 1 .. (m + 1) - 1 : f[j] = 0
      BY <2>7
    <3>3. rest(m + 1) <= MaxSpeed * (filmed[n] - filmed[m + 1])
      BY <2>5, <3>1, <3>2
    <3>4. MaxSpeed * (filmed[n] - filmed[m + 1]) <= MaxSpeed * (filmed[n] - filmed[m])
      <4>1. filmed[m] \in Nat /\ filmed[m + 1] \in Nat /\ filmed[n] \in Nat /\ filmed[m] <= filmed[m + 1]
        BY <1>1, <2>4, <2>7, <3>1
      <4>2. filmed[n] - filmed[m + 1] <= filmed[n] - filmed[m]
        BY <4>1
      <4>. QED
        BY <1>1, <4>1, <4>2, ProductsKeepOrder
    <3>5. rest(m) = rest(m + 1)
      BY <2>7, <2>11
    <3>. QED
      BY <2>4, <2>6, <2>7, <2>8, <2>11, <3>1, <3>3, <3>4, <3>5
  <2>12. CASE m # n /\ u = m /\ f[m] # 0
    <3>1. PICK k \in 1 .. n : /\ m < k /\ f[m] <= MaxSpeed * (filmed[k] - filmed[m])
                              /\ \A j \in m + 1 .. k - 1 : f[j] = 0
      BY <1>2, <2>4, <2>12
    <3>2. m + 1 \in 1 .. n /\ k \in m + 1 .. n
      BY <1>1, <2>4, <2>12, <3>1
    <3>3. rest(m + 1) <= MaxSpeed * (filmed[n] - filmed[k])
      BY <2>5, <3>1, <3>2
    <3>4. MaxSpeed * (filmed[k] - filmed[m]) + MaxSpeed * (filmed[n] - filmed[k])
            = MaxSpeed * (filmed[n] - filmed[m])
      <4>1. filmed[m] \in Nat /\ filmed[k] \in Nat /\ filmed[n] \in Nat
        BY <1>1, <2>4, <2>7, <3>1
      <4>. QED
        BY <1>1, <4>1
    <3>5. MaxSpeed * (filmed[k] - filmed[m]) \in Int
      <4>1. filmed[m] \in Nat /\ filmed[k] \in Nat
        BY <1>1, <2>4, <3>1
      <4>. QED
        BY <1>1, <4>1
    <3>. QED
      BY <2>4, <2>6, <2>7, <2>8, <2>12, <3>1, <3>3, <3>4, <3>5
  <2>. QED
    BY <2>9, <2>10, <2>11, <2>12
<1>6. rest(1) <= MaxSpeed * (filmed[n] - filmed[1])
  <2>1. 1 \in 1 .. n
    BY <1>1
  <2>2. InReach(1)
    <3>1. 1 \notin Fails
      <4>. HIDE DEF Fails
      <4>. QED
        BY <1>5
    <3>. QED
      BY <2>1, <3>1
  <2>3. \A j \in 1 .. 1 - 1 : f[j] = 0
    OBVIOUS
  <2>. QED
    BY <2>1, <2>2, <2>3
<1>7. MapThenSumSet(LAMBDA i : Credited[i], RoadClips) = rest(1)
  BY <1>1 DEF rest, f, SumOver
<1>. QED
  BY <1>6, <1>7 DEF MilesFitTheFilm, n

-----------------------------------------------------------------------------
(* However often the passes run, and whichever way they write, the readings  *)
(* of a road the van could have driven stand, and the miles credited are no  *)
(* more than it could drive (backfill-coords, backfill-miles-driven).        *)
THEOREM RoadAlwaysStandsUp == RoadSpec => []RoadStandsUp
<1>1. RoadInit => RoadInv /\ CreditsReach
  BY RoadInitInv, CreditsInit
<1>2. RoadInv /\ CreditsReach /\ [RoadNext]_roadVars => RoadInv' /\ CreditsReach'
  BY RoadNextInv, CreditsNext
<1>3. RoadInv /\ CreditsReach => RoadStandsUp
  BY CreditsFit DEF RoadInv, RoadStandsUp
<1>. QED
  BY <1>1, <1>2, <1>3, PTL DEF RoadSpec
=============================================================================
