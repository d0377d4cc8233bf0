------------------------------ MODULE Footage ------------------------------
(* What is on screen, as one instance follows and records it: the Player that *)
(* polls playout, the row of video_plays each switch leaves with the cause it *)
(* claims (viewstats), and the state crossings the faster tick records.       *)
(* Playout is a service of its own; it is modelled by what it shows (screen)  *)
(* and by the position it last reported over NATS (report).                   *)
EXTENDS Naturals, Sequences

CONSTANTS
  Clips,          \* slugs of clips
  NoVideo,        \* the zero Video: no row, no slug
  Road,           \* the spots of footage in film order: records of clip and state
  NoState,        \* a row nobody has geocoded
  Ingested,       \* clips the pipeline gave a row, a state and a successor
  Pollers,        \* goroutines in GetCurrentlyPlaying: cron ticks, chat commands
  Trackers,       \* overlapping ticks of TrackState
  Commands,       \* the causes a command of this instance notes
  CauseWindow,    \* causeWindow, in ticks of the clock
  StaleAfter,     \* lastPlayedStaleAfter, in ticks of the clock
  MaxTime, Jumps, Faults   \* bounds: the clock, jumps of playout, faults

Spots == DOMAIN Road
NotYet == MaxTime + 1

ASSUME FootageConstants ==
  /\ Road \in Seq([clip : Clips, state : STRING]) /\ Ingested \subseteq Clips
  /\ NoVideo \notin Clips
  /\ {CauseWindow, StaleAfter, MaxTime, Jumps, Faults} \subseteq Nat

VARIABLES
  screen, report,             \* playout
  sent,                       \* commands published and not yet acted on
  videos,                     \* slugs with a row
  plays, crossings,           \* the tables
  curVid, preVid, playing, airing,   \* the Player
  noted, openPlay,            \* viewstats: the unclaimed cause, the open row
  gps,                        \* whether the GPS overlay was last asked for
  poll, track,                \* the goroutines
  clock, jumps, faults, boots, commands

playoutVars == <<screen, report, sent>>
playerVars == <<curVid, preVid, playing, airing>>
causeVars == <<noted, openPlay>>
footageVars == <<playoutVars, videos, plays, crossings, playerVars, causeVars, gps,
                 poll, track, clock, jumps, faults, boots, commands>>

NoNote == [cause |-> "none", at |-> 0, id |-> 0]
IdlePoll == [step |-> "idle", file |-> NoVideo, prev |-> NoVideo, cur |-> NoVideo]
IdleTrack == [step |-> "idle", clip |-> NoVideo, state |-> NoState,
              from |-> NoState, prev |-> NoVideo]

FootageInit ==
  /\ screen \in Spots /\ report = [spot |-> screen, at |-> 0] /\ sent = 0
  /\ videos = Ingested
  /\ plays = <<>> /\ crossings = <<>>
  /\ curVid = NoVideo /\ preVid = NoVideo /\ playing = NoVideo
  /\ airing = [state |-> NoState, clip |-> NoVideo]
  /\ noted = NoNote /\ openPlay = 0 /\ gps = FALSE
  /\ poll = [p \in Pollers |-> IdlePoll]
  /\ track = [k \in Trackers |-> IdleTrack]
  /\ clock = 0 /\ jumps = 0 /\ faults = 0 /\ boots = 1 /\ commands = 0

(* A call to the database or to JetStream fails. *)
FootageFault == faults < Faults /\ faults' = faults + 1
NoFootageFault == UNCHANGED faults

-----------------------------------------------------------------------------
(* Playout, and the clock. *)

PlaysOn ==
  /\ screen < Len(Road) /\ screen' = screen + 1
  /\ UNCHANGED <<report, sent, videos, plays, crossings, playerVars, causeVars, gps,
                 poll, track, clock, jumps, faults, boots, commands>>

\* The console, another client, or playout restarting on its last clip.
JumpedElsewhere ==
  /\ jumps < Jumps /\ jumps' = jumps + 1
  /\ \E s \in Spots \ {screen} : screen' = s
  /\ UNCHANGED <<report, sent, videos, plays, crossings, playerVars, causeVars, gps,
                 poll, track, clock, faults, boots, commands>>

\* Commands are fire and forget: playout may never get one.
ActsOnCommand ==
  /\ sent > 0 /\ sent' = sent - 1
  /\ \E s \in Spots : screen' = s
  /\ UNCHANGED <<report, videos, plays, crossings, playerVars, causeVars, gps,
                 poll, track, clock, jumps, faults, boots, commands>>

Reports ==
  /\ report' = [spot |-> screen, at |-> clock] /\ report' # report
  /\ UNCHANGED <<screen, sent, videos, plays, crossings, playerVars, causeVars, gps,
                 poll, track, clock, jumps, faults, boots, commands>>

FootageTick ==
  /\ clock < MaxTime /\ clock' = clock + 1
  /\ UNCHANGED <<playoutVars, videos, plays, crossings, playerVars, causeVars, gps,
                 poll, track, jumps, faults, boots, commands>>

-----------------------------------------------------------------------------
(* A chat command that moves the playhead notes its cause, then publishes. *)

NoteCause(cause) ==
  noted' = [cause |-> cause, at |-> clock, id |-> commands + 1]

SendCommand(cause) ==
  /\ jumps < Jumps /\ jumps' = jumps + 1
  /\ NoteCause(cause) /\ commands' = commands + 1
  /\ sent' = sent + 1
  /\ UNCHANGED <<screen, report, videos, plays, crossings, playerVars, openPlay, gps,
                 poll, track, clock, faults, boots>>

-----------------------------------------------------------------------------
(* GetCurrentlyPlaying. pollMu is held from the first step to the last. *)

PollMuForgotten == TRUE          \* polls overlap
PollMuFree == \A p \in Pollers : poll[p].step = "idle"

\* A poll that fails keeps what was playing; one that finds no change stops.
BeginPoll(p) ==
  /\ poll[p].step = "idle" /\ PollMuFree
  /\ preVid' = curVid /\ curVid' = Road[screen].clip
  /\ poll' = IF curVid' = preVid' THEN poll
             ELSE [poll EXCEPT ![p] = [IdlePoll EXCEPT !.step = "load", !.file = curVid']]
  /\ UNCHANGED <<playoutVars, videos, plays, crossings, playing, airing, causeVars, gps,
                 track, clock, jumps, faults, boots, commands>>

\* The new Video is shared with its stopwatch, whether its row was found or not.
Install(p, v) ==
  /\ playing' = v
  /\ poll' = [poll EXCEPT ![p].step = "close", ![p].prev = playing, ![p].cur = v]

Load(p) ==
  /\ poll[p].step = "load"
  /\ \/ poll[p].file \in videos /\ NoFootageFault /\ Install(p, poll[p].file)
     \/ /\ \/ poll[p].file \notin videos /\ NoFootageFault
           \/ FootageFault
        /\ poll' = [poll EXCEPT ![p].step = "create"] /\ UNCHANGED playing
  /\ UNCHANGED <<playoutVars, videos, plays, crossings, curVid, preVid, airing, causeVars,
                 gps, track, clock, jumps, boots, commands>>

\* A slug has one row: inserting it again fails, as any insert may.
Create(p) ==
  /\ poll[p].step = "create"
  /\ \/ /\ poll[p].file \notin videos /\ NoFootageFault
        /\ videos' = videos \cup {poll[p].file} /\ Install(p, poll[p].file)
     \/ /\ \/ poll[p].file \in videos /\ NoFootageFault
           \/ FootageFault
        /\ UNCHANGED videos /\ Install(p, NoVideo)
  /\ UNCHANGED <<playoutVars, plays, crossings, curVid, preVid, airing, causeVars,
                 gps, track, clock, jumps, boots, commands>>

\* The clip the pipeline linked after v; a row made at runtime links nowhere.
Follows(v, w) ==
  /\ v \in Ingested /\ w \in Ingested
  /\ \E s \in 1 .. Len(Road) - 1 :
       Road[s].clip = v /\ Road[s + 1].clip = w /\ v # w

SwitchCause(prev, cur) ==
  CASE preVid = NoVideo                   -> "resume"
    [] NoVideo \in {prev, cur}            -> "unknown"
    [] OTHER -> IF Follows(prev, cur) THEN "natural" ELSE "external"

\* closePreviousPlay: the open row is forgotten whether or not it gets its end.
ClosePreviousPlay(p) ==
  /\ poll[p].step = "close" /\ poll' = [poll EXCEPT ![p].step = "insert"]
  /\ openPlay' = 0
  /\ \/ /\ openPlay # 0 /\ NoFootageFault
        /\ plays' = [plays EXCEPT ![openPlay].ended = clock]
     \/ /\ openPlay # 0 /\ FootageFault
        /\ plays' = [plays EXCEPT ![openPlay].spoilt = TRUE]
     \/ openPlay = 0 /\ UNCHANGED <<plays, faults>>
  /\ UNCHANGED <<playoutVars, videos, crossings, playerVars, noted, gps,
                 track, clock, jumps, boots, commands>>

ClaimCause(structural) ==
  IF noted = NoNote \/ clock - noted.at > CauseWindow
  THEN [cause |-> structural, note |-> 0, at |-> clock]
  ELSE [cause |-> noted.cause, note |-> noted.id, at |-> noted.at]

\* The claim consumes the note, fresh or not.
LeaveNoted == UNCHANGED noted    \* the delete is missing
Unnoted == noted' = NoNote

\* A row made at runtime is flagged: it has no GPS fix.
ShowGPS(cur) == gps' = (cur \in videos \ Ingested)

RecordPlay(p) ==
  LET claim == ClaimCause(SwitchCause(poll[p].prev, poll[p].cur))
      row == [video |-> poll[p].cur, cause |-> claim.cause, boot |-> boots,
              started |-> clock, ended |-> NotYet,
              note |-> claim.note, notedAt |-> claim.at, spoilt |-> FALSE]
  IN  /\ poll[p].step = "insert" /\ poll' = [poll EXCEPT ![p] = IdlePoll]
      /\ Unnoted /\ ShowGPS(poll[p].cur)
      /\ \/ /\ NoFootageFault
            /\ plays' = Append(plays, row) /\ openPlay' = Len(plays) + 1
         \/ FootageFault /\ UNCHANGED <<plays, openPlay>>
      /\ UNCHANGED <<playoutVars, videos, crossings, playerVars,
                     track, clock, jumps, boots, commands>>

-----------------------------------------------------------------------------
(* TrackState. Its ticks are not serialised, only the swap of airing is. *)

SpotsOf(clip) == {s \in Spots : Road[s].clip = clip}

\* The report names the clip and the moment while it is fresh and readable.
Reported == clock - report.at <= StaleAfter

Observe(k, s) ==
  IF Road[s].state = NoState THEN UNCHANGED track
  ELSE track' = [track EXCEPT ![k] = [IdleTrack EXCEPT
         !.step = "swap", !.clip = Road[s].clip, !.state = Road[s].state]]

\* The Player's own clip, and its stopwatch's idea of the moment.
FallBack(k) ==
  /\ playing # NoVideo
  /\ \E s \in SpotsOf(playing) : Observe(k, s)

\* Playhead: a clip the poll has not caught up with is looked up, or created.
ReadPlayhead(k) ==
  /\ track[k].step = "idle"
  /\ \/ /\ Reported /\ NoFootageFault /\ Observe(k, report.spot)
        /\ videos' = videos \cup {Road[report.spot].clip}
     \/ /\ IF Reported THEN FootageFault ELSE NoFootageFault
        /\ FallBack(k) /\ UNCHANGED videos
  /\ UNCHANGED <<playoutVars, plays, crossings, playerVars, causeVars, gps,
                 poll, clock, jumps, boots, commands>>

SwapAiring(k) ==
  /\ track[k].step = "swap"
  /\ airing' = [state |-> track[k].state, clip |-> track[k].clip]
  /\ track' = IF airing.state \in {NoState, track[k].state}
              THEN [track EXCEPT ![k] = IdleTrack]
              ELSE [track EXCEPT ![k].step = "write", ![k].from = airing.state,
                                 ![k].prev = airing.clip]
  /\ UNCHANGED <<playoutVars, videos, plays, crossings, curVid, preVid, playing, causeVars,
                 gps, poll, clock, jumps, faults, boots, commands>>

StateCrossing(k) ==
  LET t == track[k]
      row == [from |-> t.from, to |-> t.state, boot |-> boots,
              sequential |-> t.prev = t.clip \/ Follows(t.prev, t.clip)]
  IN  /\ t.step = "write" /\ track' = [track EXCEPT ![k] = IdleTrack]
      /\ \/ NoFootageFault /\ crossings' = Append(crossings, row)
         \/ FootageFault /\ UNCHANGED crossings
      /\ UNCHANGED <<playoutVars, videos, plays, playerVars, causeVars, gps,
                     poll, clock, jumps, boots, commands>>

-----------------------------------------------------------------------------
(* A restart: the Player and viewstats' maps are the process's memory. *)

Restarted ==
  /\ FootageFault /\ boots' = boots + 1
  /\ curVid' = NoVideo /\ preVid' = NoVideo /\ playing' = NoVideo
  /\ airing' = [state |-> NoState, clip |-> NoVideo]
  /\ noted' = NoNote /\ openPlay' = 0
  /\ poll' = [p \in Pollers |-> IdlePoll] /\ track' = [k \in Trackers |-> IdleTrack]
  /\ UNCHANGED <<playoutVars, videos, plays, crossings, gps, clock, jumps, commands>>

PollStep(p) == \/ BeginPoll(p) \/ Load(p) \/ Create(p)
               \/ ClosePreviousPlay(p) \/ RecordPlay(p)
TrackStep(k) == ReadPlayhead(k) \/ SwapAiring(k) \/ StateCrossing(k)

FootageNext ==
  \/ PlaysOn \/ JumpedElsewhere \/ ActsOnCommand \/ Reports \/ FootageTick
  \/ \E c \in Commands : SendCommand(c)
  \/ \E p \in Pollers : PollStep(p)
  \/ \E k \in Trackers : TrackStep(k)
  \/ Restarted

FootageSpec == FootageInit /\ [][FootageNext]_footageVars
-----------------------------------------------------------------------------
(* Properties. *)

FootageTypeOK ==
  /\ screen \in Spots /\ report \in [spot : Spots, at : 0 .. MaxTime] /\ sent \in 0 .. Jumps
  /\ videos \subseteq Clips /\ {curVid, preVid, playing} \subseteq Clips \cup {NoVideo}
  /\ openPlay \in 0 .. Len(plays) /\ gps \in BOOLEAN
  /\ \A p \in Pollers : poll[p].step \in
       {"idle", "load", "create", "close", "insert"}
  /\ \A k \in Trackers : track[k].step \in {"idle", "swap", "write"}

\* The plays one process records tile its time on air: every row but its last
\* has an end, and ends no later than any later row begins; only the database
\* refusing that end leaves one open (viewstats.go, closePreviousPlay: "a NULL
\* ended_at there is honest").  The polls of the cron and of chat commands
\* overlap, and a row is closed and opened in separate calls.
PlaysTile ==
  \A i, j \in DOMAIN plays :
    i < j /\ plays[i].boot = plays[j].boot /\ ~plays[i].spoilt
      => plays[i].ended <= plays[j].started

\* A command explains at most one switch, and none it is too old to have caused:
\* whatever polls, commands and restarts interleave, no two rows claim the same
\* noted cause and none claims one noted longer ago than causeWindow.
OneRowPerCommand ==
  \A i \in DOMAIN plays : plays[i].note # 0 =>
    /\ plays[i].started - plays[i].notedAt <= CauseWindow
    /\ \A j \in DOMAIN plays : j # i => plays[j].note # plays[i].note

\* What TrackState's comment says of a crossing that is not sequential: "Anything
\* else is a playhead jump landing in another state" (video.go, TrackState).
JumpMeansJump ==
  \A i \in DOMAIN crossings : crossings[i].sequential \/ jumps > 0
=============================================================================
